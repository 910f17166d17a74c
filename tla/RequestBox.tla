----------------------------- MODULE RequestBox -----------------------------
(***************************************************************************)
(* What the synapi library promises its caller, without slots, frames,     *)
(* curl or memory: a bounded box of requests behind a gate.  A request is  *)
(* put in the box or, if the box is full, refused; while the gate is open  *)
(* the box hands requests out, each at most once, never more than Capacity *)
(* at a time.  A registration skips the box and shuts the gate, which only *)
(* an answer to a registration opens again.                                *)
(***************************************************************************)
EXTENDS Naturals, FiniteSets

CONSTANTS Calls,     \* the requests
          Capacity   \* of the box, and of what is handed out at a time

VARIABLES status,  \* where each request is in its life
          open,    \* the gate
          up       \* the box is in operation

vars == <<status, open, up>>

In(x) == {c \in Calls : status[c] = x}
Outstanding == In("sent") \cup In("registering")

Init == /\ status = [c \in Calls |-> "new"]
        /\ open \in BOOLEAN
        /\ up = TRUE

Move(c, from, to) == /\ up /\ status[c] = from
                     /\ status' = [status EXCEPT ![c] = to]

Accept(c) == /\ Move(c, "new", "queued")
             /\ Cardinality(In("queued")) < Capacity
             /\ UNCHANGED <<open, up>>

Refuse(c) == /\ Move(c, "new", "refused")
             /\ Cardinality(In("queued")) = Capacity
             /\ UNCHANGED <<open, up>>

Register(c) == /\ Move(c, "new", "registering")
               /\ Cardinality(Outstanding) < Capacity
               /\ open' = FALSE /\ UNCHANGED up

Dispatch(c) == /\ Move(c, "queued", "sent")
               /\ open
               /\ Cardinality(Outstanding) < Capacity
               /\ UNCHANGED <<open, up>>

Answer == /\ up /\ In("registering") # {}
          /\ open' = TRUE /\ UNCHANGED <<status, up>>

Finish(c) == /\ \E x \in {"sent", "registering"} : Move(c, x, "ended")
             /\ UNCHANGED <<open, up>>

(* The owner closes the box: what was handed out is cut off. *)
Close == /\ up /\ up' = FALSE
         /\ status' = [c \in Calls |-> IF c \in Outstanding THEN "ended" ELSE status[c]]
         /\ UNCHANGED open

(* The box breaks down, possibly while it takes a registration. *)
Fail == /\ up /\ up' = FALSE
        /\ \/ UNCHANGED status
           \/ \E c \in Calls : Move(c, "new", "ended")
        /\ UNCHANGED open

Next == \/ Answer \/ Close \/ Fail
        \/ \E c \in Calls : \/ Accept(c) \/ Refuse(c) \/ Register(c)
                            \/ Dispatch(c) \/ Finish(c)

Spec == Init /\ [][Next]_vars
=============================================================================
