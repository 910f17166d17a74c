----------------------------- MODULE CurlMulti -----------------------------
(***************************************************************************)
(* The part of libcurl's multi interface (synapi/deps/curl/lib/multi.c)    *)
(* that the synapi library drives, and the network behind it.              *)
(*                                                                         *)
(* An easy handle is known by the number of the call it was made for.  Its *)
(* state is "init", "active" for everything between CONNECT and DONE, or   *)
(* "msgsent"; "none" while it is attached to no multi handle.  COMPLETED   *)
(* is left in the same call of multi_runsingle() that enters it.           *)
(***************************************************************************)
EXTENDS Integers, Sequences

CONSTANTS MaxCalls,  \* bound on the number of easy handles
          Byte,      \* the bytes an answer is made of
          Bodies     \* the response bodies the service may send

Calls == 1..MaxCalls

ASSUME MaxCallsAssumption == MaxCalls \in Nat
ASSUME BodiesAssumption == Bodies \subseteq Seq(Byte)

VARIABLES multi,        \* the easy handles attached to the multi handle
          xfer,         \* each handle's state
          msglist,      \* the messages of finished transfers, oldest first
          todo,         \* the handles the current drive has yet to run
          answer, got,  \* bytes of the body that arrived; bytes read
          closed        \* the transfer is over on the network

curlVars == <<multi, xfer, msglist, todo>>
netVars  == <<answer, got, closed>>

curl_multi_init ==
    /\ multi = {} /\ xfer = [c \in Calls |-> "none"]
    /\ msglist = <<>> /\ todo = {}

NetInit == /\ answer = [c \in Calls |-> <<>>]
           /\ got = [c \in Calls |-> 0]
           /\ closed = [c \in Calls |-> FALSE]

(***************************************************************************)
(* The handle starts in INIT.  A handle that is attached already is        *)
(* refused, and the library does not look at the result.                   *)
(***************************************************************************)
curl_multi_add_handle(c) ==
    IF c \in multi THEN UNCHANGED <<multi, xfer>>
    ELSE /\ multi' = multi \cup {c}
         /\ xfer' = [xfer EXCEPT ![c] = "init"]

(* The list msgs without the message of a handle in found, if it has one:
   there is at most one. *)
WithoutMessage(msgs, found) ==
    IF \E k \in DOMAIN msgs : msgs[k] \in found
    THEN LET k == CHOOSE k \in DOMAIN msgs : msgs[k] \in found
         IN  SubSeq(msgs, 1, k - 1) \o SubSeq(msgs, k + 1, Len(msgs))
    ELSE msgs

(* Variant: the handle is not taken out of the multi handle. *)
LeaveAttached(found, msgs) == UNCHANGED <<multi, xfer>> /\ msglist' = msgs

(* The handles in found are detached when the message list is msgs. *)
curl_multi_remove_handle(found, msgs) ==
    /\ multi' = multi \ found
    /\ xfer' = [c \in Calls |-> IF c \in found THEN "none" ELSE xfer[c]]
    /\ msglist' = WithoutMessage(msgs, found)

curl_multi_cleanup ==
    /\ multi' = {} /\ msglist' = <<>>
    /\ xfer' = [c \in Calls |-> "none"]

(* The handles with a socket to wait for: not before the first drive has
   left INIT, and not after the transfer is done. *)
curl_multi_fdset == {c \in multi : xfer[c] = "active"}

-----------------------------------------------------------------------------
(***************************************************************************)
(* curl_multi_perform() runs multi_runsingle() on every attached handle    *)
(* until it has no more to do.  The order of the handles is left open.     *)
(***************************************************************************)
DriveStart == todo' = multi

DriveOver == todo = {}

DriveOne(c) == /\ c \in todo /\ todo' = todo \ {c}
               /\ UNCHANGED <<multi, answer, closed>>

multi_addmsg(c) == msglist' = Append(msglist, c)

(* DONE or an error, then COMPLETED: the message is queued. *)
Completes(c) == /\ xfer' = [xfer EXCEPT ![c] = "msgsent"]
                /\ multi_addmsg(c)

(* INIT, CONNECT: the transfer gets under way, or fails to. *)
RunConnect(c) ==
    /\ DriveOne(c) /\ xfer[c] = "init"
    /\ \/ xfer' = [xfer EXCEPT ![c] = "active"] /\ UNCHANGED msglist
       \/ Completes(c)
    /\ UNCHANGED got

Unread(c) == SubSeq(answer[c], got[c] + 1, Len(answer[c]))

(* Waiting for the connection, or PERFORM with nothing to read: the transfer
   ends if the network is done with it. *)
RunIdle(c) ==
    /\ DriveOne(c) /\ xfer[c] = "active" /\ Unread(c) = <<>>
    /\ IF closed[c] THEN Completes(c) ELSE UNCHANGED <<xfer, msglist>>
    /\ UNCHANGED got

(* PERFORM: what has arrived is handed to the write callback, in one call.
   An answer whose length is known is over with its last byte, any other one
   only when the next read finds the connection closed. *)
RunRead(c) ==
    /\ DriveOne(c) /\ xfer[c] = "active" /\ Unread(c) # <<>>
    /\ got' = [got EXCEPT ![c] = Len(answer[c])]
    /\ \/ closed[c] /\ Completes(c)
       \/ UNCHANGED <<xfer, msglist>>

(* MSGSENT: nothing is done. *)
RunSent(c) ==
    /\ DriveOne(c) /\ xfer[c] = "msgsent"
    /\ UNCHANGED <<xfer, msglist, got>>

-----------------------------------------------------------------------------
(***************************************************************************)
(* The service and the network.  The body of an answer arrives in pieces.  *)
(* A transfer may end at any time: after the whole body, after part of it, *)
(* or with an error.                                                       *)
(***************************************************************************)
OnNetwork(c) == /\ xfer[c] = "active" /\ ~closed[c]
                /\ UNCHANGED <<curlVars, got>>

Arrives(c) ==
    /\ OnNetwork(c)
    /\ \E b \in Bodies : \E n \in (Len(answer[c]) + 1)..Len(b) :
          /\ SubSeq(b, 1, Len(answer[c])) = answer[c]
          /\ answer' = [answer EXCEPT ![c] = SubSeq(b, 1, n)]
    /\ UNCHANGED closed

Ends(c) ==
    /\ OnNetwork(c)
    /\ closed' = [closed EXCEPT ![c] = TRUE]
    /\ UNCHANGED answer

-----------------------------------------------------------------------------
CurlType ==
    /\ multi \subseteq Calls /\ todo \subseteq Calls
    /\ xfer \in [Calls -> {"none", "init", "active", "msgsent"}]
    /\ msglist \in Seq(Calls)

NetType ==
    /\ answer \in [Calls -> Seq(Byte)]
    /\ got \in [Calls -> Nat]
    /\ closed \in [Calls -> BOOLEAN]
=============================================================================
