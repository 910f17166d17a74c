------------------------------ MODULE Sublists ------------------------------
(***************************************************************************)
(* Taking elements out of a list or a queue (SourceHook's containers, which  *)
(* are not in the repository) by what they are; the others keep their order.*)
(***************************************************************************)
EXTENDS Integers, SequencesExt

(* What the first i elements of s leave, if only those in S stay. *)
KeepUpTo(s, S) ==
    LET kept[i \in 0..Len(s)] == IF i = 0 THEN <<>>
                                 ELSE IF s[i] \in S THEN Append(kept[i - 1], s[i])
                                 ELSE kept[i - 1]
    IN  kept

(* The elements of s that are in S. *)
Keep(s, S) == KeepUpTo(s, S)[Len(s)]
=============================================================================
