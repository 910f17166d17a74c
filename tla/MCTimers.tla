------------------------------ MODULE MCTimers ------------------------------
(***************************************************************************)
(* Timers for TLC: due at once or after a while, single and repeating,     *)
(* and two kinds that a map change removes.                                *)
(***************************************************************************)
EXTENDS TimerSystem

MCKinds == {[interval |-> 0, repeat |-> FALSE, nomap |-> FALSE],
            [interval |-> 2, repeat |-> FALSE, nomap |-> TRUE],
            [interval |-> 1, repeat |-> TRUE,  nomap |-> TRUE]}
=============================================================================
