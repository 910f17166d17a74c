----------------------------- MODULE SynapiBox ------------------------------
(***************************************************************************)
(* The request engine implements RequestBox: where a request is in its     *)
(* life can be read off the two slot arrays.                               *)
(***************************************************************************)
EXTENDS Synapi

StatusOf(c) ==
    IF c > Len(log) THEN "new"
    ELSE IF c \in dropped THEN "refused"
    ELSE IF c \in Queued THEN "queued"
    ELSE IF c \notin InFlight THEN "ended"
    ELSE IF log[c].api_key_request THEN "registering" ELSE "sent"

Box == INSTANCE RequestBox WITH Calls <- Calls, Capacity <- PoolSize,
           status <- [c \in Calls |-> StatusOf(c)],
           open <- api_key_set, up <- Ready

(* Every request is handed to curl at most once and only through an open
   gate, is refused only by a full queue, and never comes back to the queue;
   the gate opens only while a registration is outstanding.  The slot arrays,
   the frames of synapi_perform() and the reaping order add nothing to that. *)
ImplementsBox == Box!Spec
=============================================================================
