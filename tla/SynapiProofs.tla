---------------------------- MODULE SynapiProofs ----------------------------
(***************************************************************************)
(* Proofs about the request engine for every pool size, number of calls,   *)
(* workload, set of response bodies and drive period; the last part shows  *)
(* that it implements RequestBox.                                          *)
(***************************************************************************)
EXTENDS SynapiBox, SequenceTheorems, FiniteSetTheorems, WellFoundedInduction, TLAPS

(* A prefix no longer than the string is a string. *)
LEMMA PrefixType ==
    ASSUME NEW S, NEW s \in Seq(S), NEW P, P \subseteq DOMAIN s
    PROVE  SubSeq(s, 1, Cardinality(P)) \in Seq(S)
<1>1. DOMAIN s = 1..Len(s) /\ Len(s) \in Nat
  BY LenProperties
<1>2. IsFiniteSet(1..Len(s)) /\ Cardinality(1..Len(s)) = Len(s)
  <2>1. \A n \in Nat : IsFiniteSet(1..n) /\ Cardinality(1..n) = n
    BY FS_Interval, SMT
  <2> QED
    BY <1>1, <2>1
<1>3. Cardinality(P) \in Nat /\ Cardinality(P) <= Len(s)
  BY <1>1, <1>2, FS_Subset, FS_CardinalityType
<1> DEFINE n == Cardinality(P)
<1>4. \A v \in 1..n : s[v] \in S
  BY <1>1, <1>3, ElementOfSeq
<1> HIDE DEF n
<1>5. SubSeq(s, 1, n) \in Seq(S)
  BY <1>3, <1>4, SubSeqProperties DEF n
<1> QED
  BY <1>5 DEF n

(* synapi_api_key() leaves a byte string in api_key, whatever it is given. *)
LEMMA StoredKeyType ==
    ASSUME NEW bytes \in Seq(Byte)
    PROVE  StoredKey(bytes) \in Seq(Byte)
<1>1. \A s \in Seq(Byte) : \A b : CutAfter(s, b) \in Seq(Byte) /\ CutBefore(s, b) \in Seq(Byte)
  <2> SUFFICES ASSUME NEW s \in Seq(Byte), NEW b
               PROVE  CutAfter(s, b) \in Seq(Byte) /\ CutBefore(s, b) \in Seq(Byte)
    OBVIOUS
  <2>1. {k \in DOMAIN s : \A j \in 1..(k - 1) : s[j] # b} \subseteq DOMAIN s
    OBVIOUS
  <2>2. {k \in DOMAIN s : \A j \in 1..k : s[j] # b} \subseteq DOMAIN s
    OBVIOUS
  <2> QED
    BY <2>1, <2>2, PrefixType DEF CutAfter, CutBefore
<1> DEFINE n == UsableSize(Len(bytes))
<1>2. n \in Nat /\ n <= Len(bytes)
  BY KeySizeAssumption, LenProperties DEF UsableSize
<1>3. SubSeq(bytes, 1, n) \in Seq(Byte)
  <2>1. \A v \in 1..n : bytes[v] \in Byte
    BY <1>2, ElementOfSeq
  <2> HIDE DEF n
  <2> QED
    BY <1>2, <2>1, SubSeqProperties
<1> QED
  BY <1>1, <1>3 DEF StoredKey

(* curl_escape() of a byte string is URL text. *)
LEMMA EscapeType ==
    ASSUME NEW s \in Seq(Byte)
    PROVE  curl_escape(s) \in Seq(Escaped)
<1>1. DOMAIN s = 1..Len(s) /\ Len(s) \in Nat /\ \A k \in 1..Len(s) : s[k] \in Byte
  BY LenProperties, ElementOfSeq
<1>2. curl_escape(s) \in [1..Len(s) -> Escaped]
  BY <1>1 DEF curl_escape, Escaped
<1> QED
  BY <1>1, <1>2, SeqDef

-----------------------------------------------------------------------------
(* The calls of the application and the steps of synapi_perform(), curl and
   the network leave the control state well typed. *)
LEMMA ControlTypeStep ==
    ASSUME TypeOK, Next
    PROVE  ControlType'
<1> USE MaxCallsAssumption, DrivePeriodAssumption DEF TypeOK, ControlType, scanVars
<1>0. ASSUME NEW r \in Workload \cup {synapi_new_server}, NextCall \in Calls,
             log' = Append(log, r)
      PROVE  /\ log' \in Seq(Workload \cup {synapi_new_server})
             /\ Len(log') <= MaxCalls
  BY <1>0, AppendProperties, LenProperties DEF NextCall, Calls
<1>1. CASE NewServer \/ NewServerNoHandle
  <2>1. NextCall \in Calls /\ log' = Append(log, synapi_new_server)
    BY <1>1 DEF NewServer, NewServerNoHandle
  <2> QED
    BY <1>0, <1>1, <2>1 DEF NewServer, NewServerNoHandle, NoFreeHandle
<1>2. ASSUME NEW r \in Workload, Enqueue(r) \/ EnqueueFull(r)
      PROVE  ControlType'
  <2>1. NextCall \in Calls /\ log' = Append(log, r)
    BY <1>2 DEF Enqueue, EnqueueFull
  <2> QED
    BY <1>0, <1>2, <2>1 DEF Enqueue, EnqueueFull
<1>3. CASE synapi_free \/ PerformSkip
  BY <1>3 DEF synapi_free, PerformSkip, InGame
<1>12. CASE PerformNoHandle
  BY <1>12 DEF PerformNoHandle, NoFreeHandle
<1>11. CASE PerformSend
  <2>1. /\ log' = log /\ counter' = counter /\ phase' = "select" /\ dropped' = dropped
        /\ i' = i /\ existing_handle' = existing_handle /\ alive' = alive /\ fault' = fault
        /\ phase = "game"
    BY <1>11 DEF PerformSend, InGame
  <2> QED
    BY <2>1
<1>4. CASE PerformTimeout
  BY <1>4 DEF PerformTimeout, SelectTimeout, Select
<1>5. CASE PerformReady
  BY <1>5 DEF PerformReady, SelectReady, Select
<1>6. CASE RunSingle
  BY <1>6 DEF RunSingle, Drive, Driving, DriveOne, RunConnect, RunIdle,
              RunRead, RunSent, synapi_api_key_write, KeyOverrun
<1>7. CASE DriveDone \/ PerformNoMessage
  BY <1>7 DEF DriveDone, PerformNoMessage
<1>9. CASE PerformReap
  <2>1. Head(msglist) \in Calls
    BY <1>9, HeadTailProperties DEF PerformReap, CurlType
  <2> QED
    BY <1>9, <2>1, PoolSizeAssumption DEF PerformReap
<1>10. CASE Scan
  BY <1>10, PoolSizeAssumption DEF Scan, ScanNext, ScanFound, ScanOver, Scanning, AfterFreeLoop
<1>8. CASE Environment \/ Stopped
  BY <1>8 DEF Environment, NetBytes, NetClose, Outside, Arrives, Ends,
              OnNetwork, Stopped, vars
<1> QED
  BY <1>1, <1>2, <1>3, <1>4, <1>5, <1>6, <1>7, <1>8, <1>9, <1>10, <1>11, <1>12
  DEF Next, Application, synapi_perform

(* ... and the two slot arrays and the heap. *)
LEMMA SlotTypeStep ==
    ASSUME TypeOK, Next
    PROVE  SlotType'
<1> USE MaxCallsAssumption, NullAssumption DEF TypeOK, SlotType
<1>1. CASE NewServer
  BY <1>1 DEF NewServer, synapi_send, synapi_free_request, Allocated
<1>2. CASE synapi_free
  BY <1>2 DEF synapi_free
<1>3. ASSUME NEW r \in Workload, Enqueue(r) \/ EnqueueFull(r)
      PROVE  SlotType'
  BY <1>3 DEF Enqueue, EnqueueFull, Allocated, slotVars
<1>4. CASE PerformSend
  <2>1. PICK s \in Slots, p \in Slots :
             requests[s] # NULL /\ synapi_send(requests[s], log[requests[s]], p, heap)
    BY <1>4 DEF PerformSend, FirstUsed
  <2>2. requests[s] \in Calls
    BY <2>1
  <2> QED
    BY <2>1, <2>2 DEF synapi_send, synapi_free_request
<1>5. CASE PerformReap \/ Scan
  BY <1>5 DEF PerformReap, Scan, ScanNext, ScanFound, ScanOver, synapi_free_curl_handle, slotVars
<1>6. CASE NewServerNoHandle \/ PerformNoHandle \/ PerformSkip \/ PerformTimeout
           \/ PerformReady \/ DriveDone \/ PerformNoMessage \/ Stopped
  BY <1>6 DEF NewServerNoHandle, PerformNoHandle, NoFreeHandle, PerformSkip, PerformTimeout,
              PerformReady, Select, DriveDone, PerformNoMessage, Stopped, vars, slotVars
<1>7. CASE RunSingle
  BY <1>7 DEF RunSingle, Drive, Driving, DriveOne, RunConnect, RunIdle,
              RunRead, RunSent, synapi_api_key_write, KeyOverrun,
              slotVars
<1>8. CASE Environment
  BY <1>8 DEF Environment, NetBytes, NetClose, Outside, Arrives, Ends,
              OnNetwork, slotVars
<1> QED
  BY <1>1, <1>2, <1>3, <1>4, <1>5, <1>6, <1>7, <1>8 DEF Next, Application, synapi_perform

(* What is left of a message list is a message list. *)
LEMMA WithoutMessageType ==
    ASSUME NEW S, NEW msgs \in Seq(S), NEW found
    PROVE  WithoutMessage(msgs, found) \in Seq(S)
<1> DEFINE P(k) == msgs[k] \in found
           k == CHOOSE j \in DOMAIN msgs : P(j)
<1>1. CASE \E j \in DOMAIN msgs : P(j)
  <2>1. k \in DOMAIN msgs
    BY <1>1
  <2>2. WithoutMessage(msgs, found)
          = SubSeq(msgs, 1, k - 1) \o SubSeq(msgs, k + 1, Len(msgs))
    BY <1>1 DEF WithoutMessage
  <2> HIDE DEF k
  <2>3. k \in 1..Len(msgs) /\ Len(msgs) \in Nat
    BY <2>1, LenProperties
  <2>4. /\ SubSeq(msgs, 1, k - 1) \in Seq(S)
        /\ SubSeq(msgs, k + 1, Len(msgs)) \in Seq(S)
    <3>1. \A j \in 1..Len(msgs) : msgs[j] \in S
      BY ElementOfSeq
    <3> QED
      BY <2>3, <3>1, SubSeqProperties
  <2> QED
    BY <2>2, <2>4, ConcatProperties
<1>2. CASE ~\E j \in DOMAIN msgs : P(j)
  BY <1>2 DEF WithoutMessage
<1> QED
  BY <1>1, <1>2

(* ... and curl's lists of handles and messages. *)
LEMMA CurlTypeStep ==
    ASSUME TypeOK, Next
    PROVE  CurlType'
<1> USE MaxCallsAssumption, NullAssumption DEF TypeOK, CurlType, curlVars
<1>1. CASE NewServer
  BY <1>1 DEF NewServer, synapi_send, curl_multi_add_handle
<1>2. CASE synapi_free
  BY <1>2 DEF synapi_free, curl_multi_cleanup
<1>3. ASSUME NEW r \in Workload, Enqueue(r) \/ EnqueueFull(r)
      PROVE  CurlType'
  BY <1>3 DEF Enqueue, EnqueueFull
<1>4. CASE PerformSend
  <2>1. PICK s \in Slots, p \in Slots :
             requests[s] # NULL /\ synapi_send(requests[s], log[requests[s]], p, heap)
    BY <1>4 DEF PerformSend, FirstUsed
  <2>2. requests[s] \in Calls
    BY <2>1 DEF SlotType
  <2> QED
    BY <1>4, <2>1, <2>2 DEF PerformSend, synapi_send, curl_multi_add_handle
<1>5. CASE PerformReap
  BY <1>5, HeadTailProperties DEF PerformReap
<1>9. CASE Scan
  <2>1. CASE ScanFound
    <3> DEFINE found == {existing_handle}
    <3>1. /\ todo' = todo /\ multi' = multi \ found
          /\ xfer' = [c \in Calls |-> IF c \in found THEN "none" ELSE xfer[c]]
          /\ msglist' = WithoutMessage(msglist, found)
      BY <2>1 DEF ScanFound, curl_multi_remove_handle
    <3> HIDE DEF found
    <3>2. msglist' \in Seq(Calls)
      BY <3>1, WithoutMessageType
    <3> QED
      BY <3>1, <3>2
  <2> QED
    BY <1>9, <2>1 DEF Scan, ScanNext, ScanOver
<1>6. CASE NewServerNoHandle \/ PerformNoHandle \/ PerformSkip \/ PerformTimeout
           \/ PerformReady \/ DriveDone \/ PerformNoMessage \/ Stopped
  BY <1>6 DEF NewServerNoHandle, PerformNoHandle, NoFreeHandle, PerformSkip, PerformTimeout,
              PerformReady, Select, DriveStart, DriveDone, PerformNoMessage, Stopped, vars
<1>7. ASSUME NEW c \in Calls,
             Drive(c) \/ synapi_api_key_write(c) \/ KeyOverrun(c)
      PROVE  CurlType'
  <2>1. multi' = multi /\ (todo' = todo \/ todo' = todo \ {c})
    BY <1>7 DEF Drive, Driving, DriveOne, RunConnect, RunIdle,
              RunRead, RunSent, synapi_api_key_write, KeyOverrun
  <2>2. \/ xfer' = xfer /\ msglist' = msglist
        \/ xfer' = [xfer EXCEPT ![c] = "active"] /\ msglist' = msglist
        \/ xfer' = [xfer EXCEPT ![c] = "msgsent"] /\ msglist' = Append(msglist, c)
    BY <1>7 DEF Drive, Driving, DriveOne, RunConnect, RunIdle,
              RunRead, RunSent, synapi_api_key_write, KeyOverrun, Completes, multi_addmsg
  <2> QED
    BY <2>1, <2>2
<1>8. CASE Environment
  BY <1>8 DEF Environment, NetBytes, NetClose, Outside, Arrives, Ends,
              OnNetwork
<1> QED
  BY <1>1, <1>2, <1>3, <1>4, <1>5, <1>6, <1>7, <1>8, <1>9
  DEF Next, Application, synapi_perform, RunSingle

(* ... and what has arrived from the network. *)
LEMMA NetTypeStep ==
    ASSUME TypeOK, Next
    PROVE  NetType'
<1> USE DEF TypeOK, NetType
<1>1. CASE Application
  BY <1>1 DEF Application, NewServer, NewServerNoHandle, NoFreeHandle, synapi_free, Enqueue,
              EnqueueFull, netVars
<1>2. CASE PerformSend \/ PerformNoHandle \/ PerformSkip \/ PerformTimeout \/ PerformReady
           \/ DriveDone \/ PerformReap \/ Scan \/ PerformNoMessage \/ Stopped
  BY <1>2 DEF PerformSend, PerformNoHandle, NoFreeHandle, PerformSkip, PerformTimeout,
              PerformReady, Select, DriveDone, PerformReap, Scan, ScanNext, ScanFound, ScanOver,
              PerformNoMessage, Stopped, vars, netVars
<1>3. ASSUME NEW c \in Calls,
             Drive(c) \/ synapi_api_key_write(c) \/ KeyOverrun(c)
      PROVE  NetType'
  <2>1. answer' = answer /\ closed' = closed
    BY <1>3 DEF Drive, Driving, DriveOne, RunConnect, RunIdle,
              RunRead, RunSent, synapi_api_key_write, KeyOverrun
  <2>2. got' = got \/ got' = [got EXCEPT ![c] = Len(answer[c])]
    BY <1>3 DEF Drive, Driving, DriveOne, RunConnect, RunIdle,
              RunRead, RunSent, synapi_api_key_write, KeyOverrun
  <2>3. Len(answer[c]) \in Nat
    <3>1. answer[c] \in Seq(Byte)
      OBVIOUS
    <3> QED
      BY <3>1, LenProperties
  <2> QED
    BY <2>1, <2>2, <2>3
<1>4. ASSUME NEW c \in Calls, NetBytes(c)
      PROVE  NetType'
  <2>1. PICK b \in Bodies : \E n \in (Len(answer[c]) + 1)..Len(b) :
               answer' = [answer EXCEPT ![c] = SubSeq(b, 1, n)]
    BY <1>4 DEF NetBytes, Arrives
  <2>2. b \in Seq(Byte) /\ Len(b) \in Nat
    BY BodiesAssumption, LenProperties
  <2>3. PICK n \in (Len(answer[c]) + 1)..Len(b) :
               answer' = [answer EXCEPT ![c] = SubSeq(b, 1, n)]
    BY <2>1
  <2>4. n \in Int /\ \A v \in 1..n : b[v] \in Byte
    BY <2>2, <2>3, ElementOfSeq
  <2>5. SubSeq(b, 1, n) \in Seq(Byte)
    BY <2>2, <2>4, SubSeqProperties
  <2> QED
    BY <1>4, <2>3, <2>5 DEF NetBytes, Outside, Arrives, OnNetwork
<1>5. ASSUME NEW c \in Calls, NetClose(c)
      PROVE  NetType'
  BY <1>5 DEF NetClose, Outside, Ends, OnNetwork
<1> QED
  BY <1>1, <1>2, <1>3, <1>4, <1>5 DEF Next, synapi_perform, RunSingle, Environment
(* The URL synapi_build_url() makes of a request has the type of a URL. *)
LEMMA BuildUrlType ==
    ASSUME KeyType, NEW r \in Workload \cup {synapi_new_server}
    PROVE  synapi_build_url(r) \in [player : {NULL} \cup {q.user_data : q \in Workload},
                                    key : {NULL} \cup Seq(Escaped)]
<1>1. CASE r \in Workload
  BY <1>1 DEF synapi_build_url, KeyType
<1>2. CASE r = synapi_new_server
  <2>1. r.action = "SYN_SERVERS_NEW"
    BY <1>2 DEF synapi_new_server, Request
  <2> QED
    BY <2>1 DEF synapi_build_url, KeyType
<1> QED
  BY <1>1, <1>2

(* ... and the key and the URLs made with it: synapi_perform() builds one
   only for a request that was submitted. *)
LEMMA KeyTypeStep ==
    ASSUME TypeOK, Queued \subseteq 1..Len(log), Next
    PROVE  KeyType'
<1> USE DEF TypeOK, KeyType
<1>0. ASSUME NEW c \in Calls, NEW r \in Workload \cup {synapi_new_server},
             NEW p, NEW h, synapi_send(c, r, p, h)
      PROVE  KeyType'
  <2>1. synapi_build_url(r) \in [player : {NULL} \cup {q.user_data : q \in Workload},
                                 key : {NULL} \cup Seq(Escaped)]
    BY BuildUrlType
  <2>2. <<>> \in Seq(Byte)
    OBVIOUS
  <2>3. url' \in [Calls -> {NULL} \cup [player : {NULL} \cup {q.user_data : q \in Workload},
                                        key : {NULL} \cup Seq(Escaped)]]
    BY <1>0, <2>1 DEF synapi_send
  <2>4. api_key' \in Seq(Byte) /\ encoded_api_key' = encoded_api_key
    BY <1>0, <2>2 DEF synapi_send
  <2>5. api_key_set' \in BOOLEAN
    BY <1>0, Zenon DEF synapi_send, KeySetAfterSend
  <2> QED
    BY <2>3, <2>4, <2>5
<1>1. CASE NewServer
  BY <1>0, <1>1 DEF NewServer
<1>2. CASE PerformSend
  <2>1. PICK s \in Slots, p \in Slots :
             requests[s] # NULL /\ synapi_send(requests[s], log[requests[s]], p, heap)
    BY <1>2 DEF PerformSend, FirstUsed
  <2>2. requests[s] \in Calls
    BY <2>1 DEF SlotType
  <2>3. requests[s] \in 1..Len(log)
    BY <2>2 DEF Queued
  <2>4. log[requests[s]] \in Workload \cup {synapi_new_server}
    BY <2>3, ElementOfSeq DEF ControlType
  <2> QED
    BY <1>0, <2>1, <2>2, <2>4
<1>3. ASSUME NEW c \in Calls, synapi_api_key_write(c)
      PROVE  KeyType'
  <2>1. Unread(c) \in Seq(Byte)
    <3> DEFINE a == answer[c]
    <3>1. a \in Seq(Byte) /\ got[c] \in Nat
      BY DEF NetType
    <3>2. Len(a) \in Nat /\ \A v \in (got[c] + 1)..Len(a) : a[v] \in Byte
      BY <3>1, ElementOfSeq, LenProperties
    <3> HIDE DEF a
    <3>3. SubSeq(a, got[c] + 1, Len(a)) \in Seq(Byte)
      BY <3>1, <3>2, SubSeqProperties
    <3> QED
      BY <3>3 DEF Unread, a
  <2>2. StoredKey(Unread(c)) \in Seq(Byte)
    BY <2>1, StoredKeyType
  <2>3. curl_escape(StoredKey(Unread(c))) \in Seq(Escaped)
    BY <2>2, EscapeType
  <2> QED
    BY <1>3, <2>2, <2>3 DEF synapi_api_key_write, synapi_api_key, Driving
<1>4. CASE UNCHANGED <<keyVars, url>>
  BY <1>4 DEF keyVars
<1>5. CASE NewServerNoHandle \/ synapi_free \/ \E r \in Workload : Enqueue(r) \/ EnqueueFull(r)
  BY <1>4, <1>5 DEF NewServerNoHandle, NoFreeHandle, synapi_free, Enqueue, EnqueueFull
<1>6. CASE PerformNoHandle \/ PerformSkip \/ PerformTimeout \/ PerformReady \/ DriveDone
           \/ PerformReap \/ Scan \/ PerformNoMessage \/ Stopped
  BY <1>4, <1>6 DEF PerformNoHandle, NoFreeHandle, PerformSkip, PerformTimeout, PerformReady,
              Select, DriveDone, PerformReap, Scan, ScanNext, ScanFound, ScanOver,
              PerformNoMessage, Stopped, vars
<1>7. ASSUME NEW c \in Calls, Drive(c) \/ KeyOverrun(c)
      PROVE  KeyType'
  BY <1>4, <1>7 DEF Drive, Driving, KeyOverrun
<1>8. CASE Environment
  BY <1>4, <1>8 DEF Environment, NetBytes, NetClose, Outside, Arrives, Ends,
              OnNetwork
<1> QED
  BY <1>1, <1>2, <1>3, <1>5, <1>6, <1>7, <1>8
  DEF Next, Application, synapi_perform, RunSingle
-----------------------------------------------------------------------------
(* synapi_send() moves its call from the queue, if it is there, to the pool. *)
LEMMA SendMoves ==
    ASSUME SlotType, SlotsExclusive,
           NEW c \in Calls, NEW r, NEW p \in Slots, NEW h,
           c \notin InFlight, pool[p] = NULL, synapi_send(c, r, p, h)
    PROVE  /\ Injective(requests)' /\ Injective(pool)'
           /\ Queued' = Queued \ {c}
           /\ InFlight' = InFlight \cup {c}
<1> USE NullAssumption DEF SlotType, SlotsExclusive, synapi_send
<1>1. Injective(requests)' /\ Queued' = Queued \ {c}
  BY DEF synapi_free_request, Injective, Queued
<1>2. Injective(pool)'
  BY DEF Injective, InFlight
<1>3. InFlight' = InFlight \cup {c}
  BY DEF InFlight
<1> QED
  BY <1>1, <1>2, <1>3

(* The call a frame sends was queued, so it is not in flight. *)
LEMMA PerformSendCall ==
    ASSUME TypeOK, SlotsExclusive, PerformSend
    PROVE  \E c \in Calls, p \in Slots :
              /\ c \in Queued /\ c \notin InFlight /\ c \notin dropped
              /\ pool[p] = NULL
              /\ synapi_send(c, log[c], p, heap)
<1>1. PICK s \in Slots, p \in Slots :
           /\ requests[s] # NULL /\ pool[p] = NULL
           /\ synapi_send(requests[s], log[requests[s]], p, heap)
  BY DEF PerformSend, FirstUsed, synapi_get_curl_handle, First
<1>2. requests[s] \in Calls
  BY <1>1 DEF TypeOK, SlotType
<1>3. requests[s] \in Queued
  BY <1>2 DEF Queued
<1> QED
  BY <1>1, <1>2, <1>3 DEF SlotsExclusive

(* A new call's number is in no slot yet. *)
LEMMA NextCallFresh ==
    ASSUME TypeOK, SlotsExclusive
    PROVE  /\ NextCall \notin Queued \cup InFlight \cup dropped
           /\ 1..Len(log) \subseteq 1..NextCall /\ NextCall \in 1..NextCall
<1>1. Len(log) \in Nat
  BY LenProperties DEF TypeOK, ControlType
<1> QED
  BY <1>1 DEF SlotsExclusive, NextCall

(* No operation puts a call in a second place. *)
LEMMA SlotsExclusiveStep ==
    ASSUME TypeOK, SlotsExclusive, Next
    PROVE  SlotsExclusive'
<1> USE NullAssumption
<1>0. Len(log) \in Nat /\ (\A r : Len(Append(log, r)) = NextCall)
  BY LenProperties, AppendProperties DEF TypeOK, ControlType, NextCall
<1>1. CASE NewServer
  <2>1. PICK p \in Slots : /\ pool[p] = NULL
                           /\ synapi_send(NextCall, synapi_new_server, p,
                                          heap \cup Allocated(NextCall))
    BY <1>1 DEF NewServer, synapi_get_curl_handle, First
  <2>2. NextCall \in Calls /\ Len(log') = NextCall /\ dropped' = dropped
    BY <1>0, <1>1 DEF NewServer
  <2> QED
    BY <2>1, <2>2, SendMoves, NextCallFresh DEF SlotsExclusive, TypeOK
<1>2. CASE PerformSend
  <2>1. log' = log /\ dropped' = dropped
    BY <1>2 DEF PerformSend
  <2> QED
    BY <1>2, <2>1, PerformSendCall, SendMoves DEF SlotsExclusive, TypeOK
<1>3. ASSUME NEW r \in Workload, Enqueue(r)
      PROVE  SlotsExclusive'
  <2>1. PICK s \in Slots : /\ requests[s] = NULL
                           /\ requests' = [requests EXCEPT ![s] = NextCall]
    BY <1>3 DEF Enqueue, FreeRequestSlot, First
  <2>2. NextCall \in Calls /\ Len(log') = NextCall /\ dropped' = dropped /\ pool' = pool
    BY <1>0, <1>3 DEF Enqueue
  <2>3. Injective(requests)' /\ Queued' = Queued \cup {NextCall}
    <3>1. NextCall \notin Queued
      BY NextCallFresh
    <3> QED
      BY <2>1, <2>2, <3>1 DEF Injective, Queued, SlotsExclusive, TypeOK, SlotType
  <2>4. Injective(pool)' /\ InFlight' = InFlight
    BY <2>2 DEF SlotsExclusive, Injective, InFlight
  <2> QED
    BY <2>2, <2>3, <2>4, NextCallFresh DEF SlotsExclusive
<1>4. ASSUME NEW r \in Workload, EnqueueFull(r)
      PROVE  SlotsExclusive'
  <2>1. /\ requests' = requests /\ pool' = pool /\ Len(log') = NextCall
        /\ dropped' = dropped \cup {NextCall}
    BY <1>0, <1>4 DEF EnqueueFull, slotVars
  <2>2. Queued' = Queued /\ InFlight' = InFlight
    BY <2>1 DEF Queued, InFlight
  <2> QED
    BY <2>1, <2>2, NextCallFresh DEF SlotsExclusive, Injective
<1>5. CASE NewServerNoHandle
  <2>1. requests' = requests /\ pool' = pool /\ Len(log') = NextCall /\ dropped' = dropped
    BY <1>0, <1>5 DEF NewServerNoHandle, NoFreeHandle, slotVars
  <2>2. Queued' = Queued /\ InFlight' = InFlight
    BY <2>1 DEF Queued, InFlight
  <2> QED
    BY <2>1, <2>2, NextCallFresh DEF SlotsExclusive, Injective
<1>6. ASSUME requests' = requests, dropped' = dropped, log' = log,
             \A s \in Slots : pool'[s] \in {NULL, pool[s]}
      PROVE  SlotsExclusive'
  <2>1. Queued' = Queued /\ InFlight' \subseteq InFlight
    BY <1>6 DEF Queued, InFlight
  <2>2. Injective(requests)' /\ Injective(pool)'
    BY <1>6 DEF Injective, SlotsExclusive
  <2> QED
    BY <1>6, <2>1, <2>2 DEF SlotsExclusive
<1>7. CASE synapi_free \/ PerformReap \/ Scan
  BY <1>6, <1>7 DEF synapi_free, PerformReap, Scan, ScanNext, ScanFound, ScanOver,
                    synapi_free_curl_handle, slotVars
<1>8. CASE PerformNoHandle \/ PerformSkip \/ PerformTimeout \/ PerformReady \/ DriveDone
           \/ PerformNoMessage \/ Stopped
  BY <1>6, <1>8 DEF PerformNoHandle, NoFreeHandle, PerformSkip, PerformTimeout,
              PerformReady, Select, DriveDone, PerformNoMessage, Stopped, vars, slotVars
<1>9. CASE RunSingle
  BY <1>6, <1>9 DEF RunSingle, Drive, Driving, DriveOne, RunConnect, RunIdle,
              RunRead, RunSent, synapi_api_key_write, KeyOverrun,
              slotVars
<1>10. CASE Environment
  BY <1>6, <1>10 DEF Environment, NetBytes, NetClose, Outside, Arrives, Ends,
              OnNetwork, slotVars
<1> QED
  BY <1>1, <1>2, <1>3, <1>4, <1>5, <1>7, <1>8, <1>9, <1>10
  DEF Next, Application, synapi_perform
(* synapi_init() establishes the types and empties both arrays. *)
LEMMA InitInv ==
    ASSUME Init
    PROVE  TypeOK /\ SlotsExclusive
<1> USE NullAssumption, MaxCallsAssumption, DrivePeriodAssumption DEF Init
<1>1. ControlType /\ SlotType /\ CurlType /\ NetType
  BY PoolSizeAssumption DEF ControlType, SlotType, CurlType, NetType, curl_multi_init, NetInit
<1>2. KeyType
  <2>1. CASE InitialKey = NULL
    BY <2>1 DEF KeyType
  <2>2. CASE InitialKey # NULL
    <3>1. InitialKey \in Seq(Byte)
      BY <2>2, InitialKeyAssumption
    <3>2. StoredKey(InitialKey) \in Seq(Byte)
      BY <3>1, StoredKeyType
    <3>3. curl_escape(StoredKey(InitialKey)) \in Seq(Escaped)
      BY <3>2, EscapeType
    <3> QED
      BY <2>2, <3>2, <3>3 DEF KeyType
  <2> QED
    BY <2>1, <2>2
<1>3. Queued = {} /\ InFlight = {} /\ dropped = {}
  BY DEF Queued, InFlight
<1>4. Injective(requests) /\ Injective(pool)
  BY DEF Injective
<1> QED
  BY <1>1, <1>2, <1>3, <1>4 DEF TypeOK, SlotsExclusive

(* The engine's state is always well typed, and no call is ever in two
   places: neither type nor place can be shown without the other, because
   synapi_perform() looks up the request of whatever a slot holds. *)
THEOREM TypeCorrect == Spec => [](TypeOK /\ SlotsExclusive)
<1>1. Init => TypeOK /\ SlotsExclusive
  BY InitInv
<1>2. (TypeOK /\ SlotsExclusive) /\ [Next]_vars => (TypeOK /\ SlotsExclusive)'
  <2> SUFFICES ASSUME TypeOK, SlotsExclusive, [Next]_vars
               PROVE  TypeOK' /\ SlotsExclusive'
    OBVIOUS
  <2>1. CASE Next
    <3>1. Queued \subseteq 1..Len(log)
      BY DEF SlotsExclusive
    <3> QED
      BY <2>1, <3>1, ControlTypeStep, SlotTypeStep, KeyTypeStep, CurlTypeStep, NetTypeStep,
         SlotsExclusiveStep DEF TypeOK
  <2>2. CASE UNCHANGED vars
    <3>1. SlotsExclusive'
      BY <2>2 DEF SlotsExclusive, Injective, Queued, InFlight, vars, slotVars
    <3>2. ControlType' /\ SlotType'
      BY <2>2 DEF TypeOK, ControlType, SlotType, vars, slotVars, scanVars
    <3>3. KeyType' /\ CurlType' /\ NetType'
      BY <2>2 DEF TypeOK, KeyType, CurlType, NetType, vars, keyVars, curlVars, netVars
    <3> QED
      BY <3>1, <3>2, <3>3 DEF TypeOK
  <2> QED
    BY <2>1, <2>2
<1> QED
  BY <1>1, <1>2, PTL DEF Spec

(* No call is ever in two slots, or both dropped and kept: no request is sent
   twice, and none is lost that synapi_queue() has accepted. *)
THEOREM SlotsNeverShared == Spec => []SlotsExclusive
  BY TypeCorrect, PTL

-----------------------------------------------------------------------------
(* While the pool is scanned for the handle of a message, either the handle is
   attached and its slot lies ahead, or it is detached and the scan at its end. *)
ScanInv ==
    phase = "scan" =>
      /\ existing_handle \in Calls
      /\ existing_handle \in multi => \E s \in Slots : s >= i /\ pool[s] = existing_handle
      /\ existing_handle \notin multi => i >= PoolSize

(* The scan starts before the slot of its handle, and meets it once. *)
LEMMA ScanInvStep ==
    ASSUME TypeOK, SlotsExclusive, MultiMirrorsPool, ScanInv, Next
    PROVE  ScanInv'
<1> USE PoolSizeAssumption DEF ScanInv
<1>1. CASE PerformReap
  <2>1. PICK c : c = Head(msglist)
    OBVIOUS
  <2>2. /\ msglist # <<>> /\ multi' = multi /\ pool' = pool
        /\ i' = 0 /\ existing_handle' = c
    BY <1>1, <2>1 DEF PerformReap, slotVars
  <2>3. c \in Calls /\ 1 \in DOMAIN msglist /\ c = msglist[1]
    BY <2>1, <2>2, HeadTailProperties, LenProperties, EmptySeq DEF TypeOK, CurlType
  <2>4. c \in multi /\ c \in InFlight
    BY <2>3 DEF MultiMirrorsPool
  <2>5. \E s \in Slots : s >= 0 /\ pool[s] = c
    BY <2>4 DEF InFlight, Slots
  <2> QED
    BY <2>2, <2>3, <2>4, <2>5
<1>2. CASE ScanNext
  BY <1>2 DEF ScanNext, Scanning, Slots, slotVars, curlVars, TypeOK, ControlType
<1>3. CASE ScanFound
  BY <1>3 DEF ScanFound, Scanning, curl_multi_remove_handle, AfterFreeLoop
<1>4. CASE ScanOver
  BY <1>4 DEF ScanOver
<1>5. CASE Environment \/ Stopped
  BY <1>5 DEF Environment, NetBytes, NetClose, Outside, Arrives, Ends, OnNetwork, Stopped,
              vars, slotVars, scanVars, curlVars
<1>6. CASE phase' # "scan"
  BY <1>6
<1>7. CASE NewServer \/ NewServerNoHandle \/ synapi_free
           \/ \E r \in Workload : Enqueue(r) \/ EnqueueFull(r)
  BY <1>6, <1>7 DEF NewServer, NewServerNoHandle, NoFreeHandle, synapi_free, Enqueue,
                    EnqueueFull, InGame
<1>8. CASE \/ PerformSend \/ PerformNoHandle \/ PerformSkip \/ PerformTimeout
           \/ PerformReady \/ DriveDone \/ PerformNoMessage
  BY <1>6, <1>8 DEF PerformSend, PerformNoHandle, NoFreeHandle, PerformSkip, PerformTimeout,
                    PerformReady, Select, DriveDone, PerformNoMessage, InGame
<1>9. CASE RunSingle
  BY <1>6, <1>9 DEF RunSingle, Drive, Driving, synapi_api_key_write, KeyOverrun
<1> QED
  BY <1>1, <1>2, <1>3, <1>4, <1>5, <1>7, <1>8, <1>9
  DEF Next, Application, synapi_perform, Scan

(* What the steps of a drive do to one handle. *)
LEMMA RunEffect ==
    ASSUME NEW c \in Calls,
           Drive(c) \/ synapi_api_key_write(c) \/ KeyOverrun(c)
    PROVE  /\ c \in todo /\ todo' \subseteq todo /\ phase' = phase
           /\ multi' = multi /\ pool' = pool /\ requests' = requests
           /\ dropped' = dropped /\ heap' = heap /\ alive' = alive /\ log' = log
           /\ i' = i /\ existing_handle' = existing_handle
           /\ \/ xfer' = xfer /\ msglist' = msglist
              \/ /\ xfer[c] = "init" /\ msglist' = msglist
                 /\ xfer' = [xfer EXCEPT ![c] = "active"]
              \/ /\ xfer[c] # "msgsent" /\ msglist' = Append(msglist, c)
                 /\ xfer' = [xfer EXCEPT ![c] = "msgsent"]
  BY DEF Drive, Driving, DriveOne, RunConnect, RunIdle, RunRead, RunSent,
         synapi_api_key_write, KeyOverrun, Completes, multi_addmsg, slotVars, scanVars

(* curl and the pool stay in step. *)
LEMMA MultiMirrorsPoolStep ==
    ASSUME TypeOK, SlotsExclusive, MultiMirrorsPool, ScanInv, Next
    PROVE  MultiMirrorsPool'
<1> USE NullAssumption
<1>0. ASSUME NEW c \in Calls, NEW r, NEW p \in Slots, NEW h,
             c \notin InFlight, pool[p] = NULL, synapi_send(c, r, p, h),
             msglist' = msglist, todo' = todo, todo = {}, existing_handle' = existing_handle,
             phase # "scan"
      PROVE  MultiMirrorsPool'
  <2>1. InFlight' = InFlight \cup {c}
    BY <1>0, SendMoves DEF TypeOK
  <2>2. multi' = multi \cup {c} /\ xfer' = [xfer EXCEPT ![c] = "init"]
    BY <1>0 DEF synapi_send, curl_multi_add_handle, MultiMirrorsPool
  <2>3. xfer[c] = "none"
    BY <1>0 DEF MultiMirrorsPool
  <2> QED
    <3>1. multi' = InFlight' /\ \A d \in Calls : xfer'[d] # "none" <=> d \in multi'
      BY <2>1, <2>2 DEF MultiMirrorsPool, TypeOK, CurlType
    <3>2. \A d \in Calls : xfer'[d] = "msgsent" <=> xfer[d] = "msgsent"
      BY <2>2, <2>3 DEF TypeOK, CurlType
    <3>3. existing_handle = NULL
      BY <1>0 DEF TypeOK, ControlType
    <3> QED
      BY <1>0, <2>2, <3>1, <3>2, <3>3 DEF MultiMirrorsPool
<1>1. CASE NewServer
  <2>1. PICK p \in Slots : /\ pool[p] = NULL
                           /\ synapi_send(NextCall, synapi_new_server, p,
                                          heap \cup Allocated(NextCall))
    BY <1>1 DEF NewServer, synapi_get_curl_handle, First
  <2>2. /\ NextCall \in Calls /\ msglist' = msglist /\ todo' = todo /\ todo = {}
        /\ existing_handle' = existing_handle /\ phase # "scan"
    BY <1>1 DEF NewServer, InGame, MultiMirrorsPool, scanVars
  <2> QED
    BY <1>0, <2>1, <2>2, NextCallFresh
<1>2. CASE PerformSend
  <2>1. /\ msglist' = msglist /\ todo' = todo /\ todo = {}
        /\ existing_handle' = existing_handle /\ phase # "scan"
    BY <1>2 DEF PerformSend, InGame, MultiMirrorsPool, scanVars
  <2> QED
    BY <1>0, <1>2, <2>1, PerformSendCall
<1>3. ASSUME NEW c \in Calls,
             Drive(c) \/ synapi_api_key_write(c) \/ KeyOverrun(c)
      PROVE  MultiMirrorsPool'
  <2>1. /\ InFlight' = InFlight /\ multi' = multi /\ c \in multi
        /\ todo' \subseteq todo /\ phase' = phase /\ existing_handle' = existing_handle
        /\ existing_handle = NULL
    BY <1>3, RunEffect DEF InFlight, MultiMirrorsPool, TypeOK, ControlType
  <2>2. CASE xfer' = xfer /\ msglist' = msglist
    BY <2>1, <2>2 DEF MultiMirrorsPool
  <2>3. CASE /\ xfer[c] = "init" /\ msglist' = msglist
             /\ xfer' = [xfer EXCEPT ![c] = "active"]
    BY <2>1, <2>3 DEF MultiMirrorsPool, TypeOK, CurlType
  <2>4. CASE /\ xfer[c] # "msgsent" /\ msglist' = Append(msglist, c)
             /\ xfer' = [xfer EXCEPT ![c] = "msgsent"]
    <3>1. /\ Len(msglist) \in Nat /\ DOMAIN msglist = 1..Len(msglist)
          /\ DOMAIN msglist' = 1..(Len(msglist) + 1)
          /\ msglist'[Len(msglist) + 1] = c
          /\ \A k \in 1..Len(msglist) : msglist'[k] = msglist[k]
      BY <2>4, AppendProperties, LenProperties DEF TypeOK, CurlType
    <3>2. \A k \in 1..Len(msglist) : msglist[k] # c
      BY <2>4, <3>1 DEF MultiMirrorsPool
    <3>3. \A j, k \in DOMAIN msglist' : msglist'[j] = msglist'[k] => j = k
      BY <3>1, <3>2 DEF MultiMirrorsPool
    <3>4. \A d \in Calls : (\E k \in DOMAIN msglist' : msglist'[k] = d)
                           <=> (d = c \/ \E k \in DOMAIN msglist : msglist[k] = d)
      BY <3>1
    <3>5. \A d \in Calls : xfer'[d] = "msgsent" <=> (d = c \/ xfer[d] = "msgsent")
      BY <2>4 DEF TypeOK, CurlType
    <3>6. \A d \in Calls : xfer'[d] # "none" <=> d \in multi
      BY <2>1, <2>4 DEF TypeOK, CurlType, MultiMirrorsPool
    <3>7. \A k \in DOMAIN msglist' : msglist'[k] # NULL
      BY <2>1, <3>1 DEF MultiMirrorsPool
    <3> QED
      BY <2>1, <3>3, <3>4, <3>5, <3>6, <3>7 DEF MultiMirrorsPool
  <2> QED
    BY <1>3, <2>2, <2>3, <2>4, RunEffect
<1>4. CASE PerformReap
  <2>1. PICK c : c = Head(msglist)
    OBVIOUS
  <2>2. /\ msglist # <<>> /\ todo' = todo /\ todo = {} /\ multi' = multi /\ xfer' = xfer
        /\ pool' = pool /\ msglist' = Tail(msglist)
        /\ existing_handle = NULL /\ existing_handle' = c
    BY <1>4, <2>1 DEF PerformReap, MultiMirrorsPool, slotVars, TypeOK, ControlType
  <2>3. /\ Len(msglist) \in Nat /\ Len(msglist) >= 1 /\ DOMAIN msglist = 1..Len(msglist)
        /\ c = msglist[1] /\ c \in Calls
        /\ DOMAIN msglist' = 1..(Len(msglist) - 1)
        /\ \A k \in 1..(Len(msglist) - 1) : msglist'[k] = msglist[k + 1]
    BY <2>1, <2>2, HeadTailProperties, LenProperties, EmptySeq DEF TypeOK, CurlType
  <2>4. xfer[c] = "msgsent" /\ c \in multi
    BY <2>3 DEF MultiMirrorsPool
  <2>5. \A k \in DOMAIN msglist' : msglist'[k] # c
    BY <2>3 DEF MultiMirrorsPool
  <2>6. \A j, k \in DOMAIN msglist' : msglist'[j] = msglist'[k] => j = k
    BY <2>3 DEF MultiMirrorsPool
  <2>7. \A d \in Calls : (\E k \in DOMAIN msglist : msglist[k] = d)
                         <=> (d = c \/ \E k \in DOMAIN msglist' : msglist'[k] = d)
    <3> SUFFICES ASSUME NEW d \in Calls
                 PROVE  (\E k \in DOMAIN msglist : msglist[k] = d)
                        <=> (d = c \/ \E k \in DOMAIN msglist' : msglist'[k] = d)
      OBVIOUS
    <3>1. ASSUME NEW k \in DOMAIN msglist', msglist'[k] = d
          PROVE  \E j \in DOMAIN msglist : msglist[j] = d
      <4>1. k + 1 \in DOMAIN msglist /\ msglist[k + 1] = d
        BY <2>3, <3>1
      <4> QED
        BY <4>1
    <3>2. ASSUME d # c, NEW k \in DOMAIN msglist, msglist[k] = d
          PROVE  \E j \in DOMAIN msglist' : msglist'[j] = d
      <4>1. k - 1 \in DOMAIN msglist' /\ msglist'[k - 1] = d
        BY <2>3, <3>2
      <4> QED
        BY <4>1
    <3>3. 1 \in DOMAIN msglist
      BY <2>3
    <3> QED
      BY <2>3, <3>1, <3>2, <3>3
  <2>8. InFlight' = InFlight
    BY <2>2 DEF InFlight
  <2>9. /\ \A d \in Calls : xfer'[d] # "none" <=> d \in multi'
        /\ todo' = {} /\ multi' = InFlight'
    BY <2>2, <2>8 DEF MultiMirrorsPool
  <2>10. \A d \in Calls : xfer'[d] = "msgsent" <=>
            \/ \E k \in DOMAIN msglist' : msglist'[k] = d
            \/ d = existing_handle' /\ d \in multi'
    <3>1. \A d \in Calls : xfer[d] = "msgsent" <=> \E k \in DOMAIN msglist : msglist[k] = d
      BY <2>2, NullAssumption DEF MultiMirrorsPool
    <3> QED
      BY <2>2, <2>4, <2>7, <3>1
  <2> QED
    BY <2>2, <2>5, <2>6, <2>9, <2>10 DEF MultiMirrorsPool
<1>10. CASE ScanFound
  <2>1. PICK c : c = existing_handle
    OBVIOUS
  <2>2. /\ phase = "scan" /\ phase' = phase /\ todo' = todo /\ todo = {}
        /\ existing_handle' = c /\ i \in Slots /\ pool[i] = c
        /\ curl_multi_remove_handle({c}, msglist) /\ synapi_free_curl_handle({c})
    BY <1>10, <2>1, PoolSizeAssumption
       DEF ScanFound, Scanning, Slots, MultiMirrorsPool, TypeOK, ControlType
  <2>3. c \in Calls /\ c \in InFlight
    BY <2>1, <2>2 DEF ScanInv, InFlight
  <2>4. \A k \in DOMAIN msglist : msglist[k] # c
    BY <2>1 DEF MultiMirrorsPool
  <2>5. msglist' = msglist
    BY <2>2, <2>4 DEF curl_multi_remove_handle, WithoutMessage
  <2>6. InFlight' = InFlight \ {c}
    BY <2>2, <2>3 DEF synapi_free_curl_handle, InFlight, TypeOK, SlotType
  <2>7. multi' = multi \ {c} /\ xfer' = [d \in Calls |-> IF d = c THEN "none" ELSE xfer[d]]
    BY <2>2 DEF curl_multi_remove_handle
  <2> QED
    BY <2>1, <2>2, <2>3, <2>4, <2>5, <2>6, <2>7 DEF MultiMirrorsPool
<1>11. CASE ScanNext
  BY <1>11 DEF ScanNext, MultiMirrorsPool, InFlight, slotVars, curlVars
<1>12. CASE ScanOver
  <2>1. /\ multi' = multi /\ xfer' = xfer /\ msglist' = msglist /\ todo' = todo /\ pool' = pool
        /\ existing_handle' = NULL /\ todo = {} /\ existing_handle \notin multi
    BY <1>12, PoolSizeAssumption
       DEF ScanInv, Slots, ScanOver, Scanning, MultiMirrorsPool, slotVars, curlVars, TypeOK, ControlType
  <2>2. \A k \in DOMAIN msglist : msglist[k] \in Calls
    BY ElementOfSeq, LenProperties DEF TypeOK, CurlType
  <2> QED
    BY <2>1, <2>2 DEF MultiMirrorsPool, InFlight
<1>5. CASE synapi_free
  <2>1. multi' = {} /\ msglist' = <<>> /\ todo' = {} /\ \A c \in Calls : xfer'[c] = "none"
    BY <1>5 DEF synapi_free, curl_multi_cleanup, InGame, MultiMirrorsPool
  <2>2. InFlight' = {}
    BY <1>5 DEF synapi_free, InFlight
  <2> QED
    BY <2>1, <2>2 DEF MultiMirrorsPool
<1>6. ASSUME pool' = pool, multi' = multi, xfer' = xfer, msglist' = msglist,
             todo' \in {todo, multi}, phase' # "drive" => todo' = {},
             existing_handle' = existing_handle
      PROVE  MultiMirrorsPool'
  BY <1>6 DEF MultiMirrorsPool, InFlight
<1>7. CASE NewServerNoHandle \/ PerformNoHandle \/ Stopped
           \/ \E r \in Workload : Enqueue(r) \/ EnqueueFull(r)
  BY <1>6, <1>7 DEF NewServerNoHandle, NoFreeHandle, PerformNoHandle, Stopped, Enqueue,
                    EnqueueFull, vars, slotVars, scanVars, curlVars,
                    MultiMirrorsPool
<1>8. CASE PerformSkip \/ PerformTimeout \/ PerformReady \/ DriveDone \/ PerformNoMessage
  BY <1>6, <1>8 DEF PerformSkip, InGame, PerformTimeout, PerformReady, Select, DriveDone,
                    PerformNoMessage, DriveStart, DriveOver, slotVars, scanVars, curlVars,
                    MultiMirrorsPool
<1>9. CASE Environment
  BY <1>6, <1>9 DEF Environment, NetBytes, NetClose, Outside, Arrives, Ends,
              OnNetwork, slotVars, scanVars, curlVars, MultiMirrorsPool
<1> QED
  BY <1>1, <1>2, <1>3, <1>4, <1>5, <1>7, <1>8, <1>9, <1>10, <1>11, <1>12
  DEF Next, Application, synapi_perform, RunSingle, Scan

-----------------------------------------------------------------------------
(* The heap follows the two arrays. *)
LEMMA HeapExactStep ==
    ASSUME TypeOK, SlotsExclusive, MultiMirrorsPool, ScanInv, HeapExact, Next
    PROVE  HeapExact'
<1> USE NullAssumption
<1>1. CASE NewServer
  <2> DEFINE c == NextCall
  <2>1. PICK p \in Slots : /\ pool[p] = NULL
                           /\ synapi_send(c, synapi_new_server, p, heap \cup Allocated(c))
    BY <1>1 DEF NewServer, synapi_get_curl_handle, First
  <2>2. c \in Calls /\ dropped' = dropped /\ alive
    BY <1>1 DEF NewServer, InGame, Ready
  <2>3. c \notin Queued \cup InFlight \cup dropped
    BY NextCallFresh
  <2>4. Queued' = Queued /\ InFlight' = InFlight \cup {c}
    BY <2>1, <2>2, <2>3, SendMoves DEF TypeOK
  <2>5. heap' = (heap \cup Allocated(c) \cup {<<"curl", c>>}) \ {<<"request", c>>}
    BY <2>1 DEF synapi_send
  <2> HIDE DEF c
  <2> QED
    BY <2>2, <2>3, <2>4, <2>5 DEF HeapExact, Allocated
<1>2. CASE PerformSend
  <2>1. PICK c \in Calls, p \in Slots :
              /\ c \in Queued /\ c \notin InFlight /\ c \notin dropped
              /\ pool[p] = NULL
              /\ synapi_send(c, log[c], p, heap)
    BY <1>2, PerformSendCall
  <2>2. Queued' = Queued \ {c} /\ InFlight' = InFlight \cup {c}
    BY <2>1, SendMoves DEF TypeOK
  <2>3. heap' = (heap \cup {<<"curl", c>>}) \ {<<"request", c>>}
    BY <2>1 DEF synapi_send
  <2>4. dropped' = dropped /\ alive
    BY <1>2 DEF PerformSend, InGame, Ready
  <2> QED
    BY <2>1, <2>2, <2>3, <2>4 DEF HeapExact
<1>3. ASSUME NEW r \in Workload, Enqueue(r)
      PROVE  HeapExact'
  <2>1. PICK s \in Slots : /\ requests[s] = NULL
                           /\ requests' = [requests EXCEPT ![s] = NextCall]
    BY <1>3 DEF Enqueue, FreeRequestSlot, First
  <2>2. NextCall \in Calls /\ pool' = pool /\ dropped' = dropped /\ alive
    BY <1>3 DEF Enqueue, InGame, Ready
  <2>3. Queued' = Queued \cup {NextCall} /\ InFlight' = InFlight
    BY <2>1, <2>2 DEF Queued, InFlight, TypeOK, SlotType
  <2>4. heap' = heap \cup Allocated(NextCall)
    BY <1>3 DEF Enqueue
  <2> QED
    BY <2>2, <2>3, <2>4 DEF HeapExact, Allocated
<1>4. ASSUME NEW r \in Workload, EnqueueFull(r)
      PROVE  HeapExact'
  <2>1. /\ dropped' = dropped \cup {NextCall} /\ heap' = heap \cup Allocated(NextCall)
        /\ alive
    BY <1>4 DEF EnqueueFull, InGame, Ready
  <2>2. Queued' = Queued /\ InFlight' = InFlight
    BY <1>4 DEF EnqueueFull, slotVars, Queued, InFlight
  <2> QED
    BY <2>1, <2>2 DEF HeapExact, Allocated
<1>5. CASE ScanFound
  <2>1. PICK c : c = existing_handle
    OBVIOUS
  <2>2. /\ dropped' = dropped /\ requests' = requests /\ alive
        /\ i \in Slots /\ pool[i] = c /\ synapi_free_curl_handle({c})
    BY <1>5, <2>1, PoolSizeAssumption DEF ScanFound, Scanning, Ready, Slots, TypeOK, ControlType
  <2>3. c \in Calls /\ c \in InFlight
    BY <1>5, <2>1, <2>2 DEF ScanFound, Scanning, ScanInv, InFlight
  <2>4. Queued' = Queued
    BY <2>2 DEF Queued
  <2>5. InFlight' = InFlight \ {c} /\ heap' = heap \ ({"curl", "headers"} \X {c})
    BY <2>2, <2>3 DEF synapi_free_curl_handle, InFlight, TypeOK, SlotType
  <2>6. c \notin Queued \cup dropped
    BY <2>3 DEF SlotsExclusive
  <2> QED
    BY <2>2, <2>3, <2>4, <2>5, <2>6 DEF HeapExact
<1>6. CASE synapi_free
  BY <1>6 DEF synapi_free, HeapExact
<1>7. ASSUME pool' = pool, requests' = requests, dropped' = dropped, heap' = heap,
             alive' = alive
      PROVE  HeapExact'
  BY <1>7 DEF HeapExact, Queued, InFlight
<1>8. CASE NewServerNoHandle \/ PerformNoHandle \/ PerformSkip \/ PerformTimeout
           \/ PerformReady \/ DriveDone \/ PerformNoMessage \/ Stopped
           \/ PerformReap \/ ScanNext \/ ScanOver
  BY <1>7, <1>8 DEF NewServerNoHandle, PerformNoHandle, NoFreeHandle, PerformSkip,
              PerformTimeout, PerformReady, Select, DriveDone, PerformNoMessage, Stopped,
              PerformReap, ScanNext, ScanOver, vars, slotVars
<1>9. CASE RunSingle
  BY <1>7, <1>9, RunEffect DEF RunSingle
<1>10. CASE Environment
  BY <1>7, <1>10 DEF Environment, NetBytes, NetClose, Outside, Arrives, Ends,
              OnNetwork, slotVars
<1> QED
  BY <1>1, <1>2, <1>3, <1>4, <1>5, <1>6, <1>8, <1>9, <1>10
  DEF Next, Application, synapi_perform, Scan

(* The pool and curl agree in every reachable state, and the heap holds
   exactly what the arrays refer to and what synapi_queue() lost. *)
THEOREM PoolAndHeapCorrect == Spec => [](MultiMirrorsPool /\ ScanInv /\ HeapExact)
<1> DEFINE IInv == TypeOK /\ SlotsExclusive /\ MultiMirrorsPool /\ ScanInv /\ HeapExact
<1>1. Init => IInv
  <2> SUFFICES ASSUME Init
               PROVE  IInv
    OBVIOUS
  <2>1. TypeOK /\ SlotsExclusive
    BY InitInv
  <2>2. Queued = {} /\ InFlight = {} /\ dropped = {} /\ heap = {}
    BY NullAssumption DEF Init, Queued, InFlight
  <2>3. MultiMirrorsPool
    BY <2>2 DEF Init, curl_multi_init, MultiMirrorsPool
  <2>4. HeapExact
    BY <2>2 DEF HeapExact
  <2>5. ScanInv
    BY DEF Init, ScanInv
  <2> QED
    BY <2>1, <2>3, <2>4, <2>5
<1>2. IInv /\ [Next]_vars => MultiMirrorsPool' /\ ScanInv' /\ HeapExact'
  <2>1. IInv /\ Next => MultiMirrorsPool' /\ ScanInv' /\ HeapExact'
    BY MultiMirrorsPoolStep, ScanInvStep, HeapExactStep
  <2>2. MultiMirrorsPool /\ UNCHANGED vars => MultiMirrorsPool'
    BY DEF MultiMirrorsPool, InFlight, vars, slotVars, scanVars, curlVars
  <2>3. ScanInv /\ HeapExact /\ UNCHANGED vars => ScanInv' /\ HeapExact'
    BY DEF ScanInv, HeapExact, Queued, InFlight, vars, slotVars, scanVars, curlVars
  <2> QED
    BY <2>1, <2>2, <2>3
<1>3. Spec => [](TypeOK /\ SlotsExclusive)
  BY TypeCorrect
<1> QED
  BY <1>1, <1>2, <1>3, PTL DEF Spec

(* Every message synapi_perform() reads finds its pool slot, and no finished
   transfer is left in the pool without a message. *)
THEOREM PoolMirrorsCurl == Spec => []MultiMirrorsPool
  BY PoolAndHeapCorrect, PTL

-----------------------------------------------------------------------------
(* Every non-empty set of slots has a lowest one. *)
LEMMA LowestSlot ==
    ASSUME NEW T, T \subseteq Nat, T # {}
    PROVE  \E x \in T : \A y \in T : x <= y
<1>1. PICK x \in T : \A y \in T : <<y, x>> \notin OpToRel(<, Nat)
  BY NatLessThanWellFounded, WFMin
<1>2. \A y \in T : ~(y < x)
  BY <1>1 DEF OpToRel
<1> QED
  BY <1>2

(* A scan for a free slot that finds none has seen every slot in use. *)
LEMMA ScanFindsFree ==
    ASSUME NEW array, \A s \in Slots : ~First(array, NULL, s)
    PROVE  \A s \in Slots : array[s] # NULL
<1> SUFFICES ASSUME \E s \in Slots : array[s] = NULL
             PROVE  FALSE
  OBVIOUS
<1> DEFINE T == {s \in Slots : array[s] = NULL}
<1>1. T \subseteq Nat /\ T # {}
  BY PoolSizeAssumption DEF Slots
<1>2. PICK x \in T : \A y \in T : x <= y
  BY <1>1, LowestSlot
<1>3. First(array, NULL, x)
  BY <1>1, <1>2 DEF First, Slots
<1> QED
  BY <1>2, <1>3

(* An array without a free slot holds pool_size different calls. *)
LEMMA FullArrayBound ==
    ASSUME NEW array, NEW n \in Nat, NEW T, IsFiniteSet(T), Cardinality(T) = n,
           Injective(array), \A s \in Slots : array[s] # NULL /\ array[s] \in T
    PROVE  PoolSize <= n
<1>1. PoolSize \in Nat /\ IsFiniteSet(Slots) /\ Cardinality(Slots) = PoolSize
  BY PoolSizeAssumption, FS_Interval DEF Slots
<1> DEFINE f == [s \in Slots |-> array[s]]
<1>2. f \in [Slots -> T]
  OBVIOUS
<1>3. \A x, y \in Slots : f[x] = f[y] => x = y
  BY DEF Injective
<1> HIDE DEF f
<1>4. ~(n < PoolSize)
  BY <1>1, <1>2, <1>3, FS_PigeonHole
<1> QED
  BY <1>1, <1>4

(* Only an application that has submitted more requests than there are slots
   can lose one or reach the end of synapi_get_curl_handle(). *)
LEMMA OverloadOnlyStep ==
    ASSUME TypeOK, SlotsExclusive, OverloadOnly, Next
    PROVE  OverloadOnly'
<1>0. /\ Len(log) \in Nat /\ NextCall = Len(log) + 1 /\ PoolSize \in Nat
      /\ \A r : Len(Append(log, r)) = NextCall
      /\ IsFiniteSet(1..Len(log)) /\ Cardinality(1..Len(log)) = Len(log)
  <2>1. /\ Len(log) \in Nat /\ NextCall = Len(log) + 1 /\ PoolSize \in Nat
        /\ \A r : Len(Append(log, r)) = NextCall
    BY PoolSizeAssumption, LenProperties, AppendProperties DEF TypeOK, ControlType, NextCall
  <2>2. \A n \in Nat : IsFiniteSet(1..n) /\ Cardinality(1..n) = n
    BY FS_Interval, SMT
  <2> QED
    BY <2>1, <2>2
<1>1. PoolExhausted => \A s \in Slots : pool[s] # NULL /\ pool[s] \in InFlight
  BY ScanFindsFree DEF PoolExhausted, synapi_get_curl_handle, InFlight, TypeOK, SlotType
<1>2. CASE NewServerNoHandle
  <2>1. PoolSize <= Len(log)
    BY <1>0, <1>1, <1>2, FullArrayBound DEF NewServerNoHandle, SlotsExclusive
  <2>2. Len(log') = NextCall
    BY <1>0, <1>2 DEF NewServerNoHandle
  <2> QED
    BY <1>0, <2>1, <2>2 DEF OverloadOnly
<1>3. CASE PerformNoHandle
  <2>1. PICK s \in Slots : requests[s] # NULL
    BY <1>3 DEF PerformNoHandle, FirstUsed
  <2> DEFINE q == requests[s]
  <2>2. q \in Queued /\ q \notin InFlight /\ q \in 1..Len(log)
    BY <2>1 DEF Queued, SlotsExclusive, TypeOK, SlotType
  <2>3. IsFiniteSet((1..Len(log)) \ {q}) /\ Cardinality((1..Len(log)) \ {q}) = Len(log) - 1
    BY <1>0, <2>2, FS_RemoveElement
  <2>4. \A t \in Slots : pool[t] # NULL /\ pool[t] \in (1..Len(log)) \ {q}
    BY <1>1, <1>3, <2>2 DEF PerformNoHandle, SlotsExclusive
  <2>5. Len(log) - 1 \in Nat
    BY <1>0, <2>2
  <2>6. PoolSize <= Len(log) - 1
    BY <2>3, <2>4, <2>5, FullArrayBound DEF SlotsExclusive
  <2>7. log' = log
    BY <1>3 DEF PerformNoHandle
  <2> QED
    BY <1>0, <2>6, <2>7 DEF OverloadOnly
<1>4. ASSUME NEW r \in Workload, EnqueueFull(r)
      PROVE  OverloadOnly'
  <2>1. \A s \in Slots : requests[s] # NULL /\ requests[s] \in Queued
    BY <1>4, ScanFindsFree DEF EnqueueFull, FreeRequestSlot, Queued, TypeOK, SlotType
  <2>2. PoolSize <= Len(log)
    BY <1>0, <2>1, FullArrayBound DEF SlotsExclusive
  <2>3. Len(log') = NextCall
    BY <1>0, <1>4 DEF EnqueueFull
  <2> QED
    BY <1>0, <2>2, <2>3 DEF OverloadOnly
<1>5. ASSUME dropped' = dropped, fault' \in {fault, "key_overrun", "freed_message"},
             Len(log') \in {Len(log), NextCall}
      PROVE  OverloadOnly'
  BY <1>0, <1>5 DEF OverloadOnly
<1>6. CASE NewServer \/ synapi_free \/ \E r \in Workload : Enqueue(r)
  BY <1>0, <1>5, <1>6 DEF NewServer, synapi_free, Enqueue
<1>7. CASE PerformSend \/ PerformSkip \/ PerformTimeout \/ PerformReady \/ DriveDone
           \/ PerformReap \/ Scan \/ PerformNoMessage \/ Stopped
  BY <1>5, <1>7 DEF PerformSend, PerformSkip, PerformTimeout, PerformReady, Select,
                    DriveDone, PerformReap, Scan, ScanNext, ScanFound, ScanOver,
                    PerformNoMessage, Stopped, vars
<1>8. CASE RunSingle
  BY <1>5, <1>8 DEF RunSingle, Drive, Driving, DriveOne, RunConnect, RunIdle,
              RunRead, RunSent, synapi_api_key_write, KeyOverrun
<1>9. CASE Environment
  BY <1>5, <1>9 DEF Environment, NetBytes, NetClose, Outside, Arrives, Ends,
              OnNetwork
<1> QED
  BY <1>2, <1>3, <1>4, <1>6, <1>7, <1>8, <1>9 DEF Next, Application, synapi_perform

(* Within pool_size submitted requests the library neither drops a request
   nor runs out of curl handles, however the frames, the answers and the
   registrations interleave. *)
THEOREM NoLossWithinPoolSize == Spec => []OverloadOnly
<1>1. Init => OverloadOnly
  BY DEF Init, OverloadOnly
<1>2. TypeOK /\ SlotsExclusive /\ OverloadOnly /\ [Next]_vars => OverloadOnly'
  <2>1. TypeOK /\ SlotsExclusive /\ OverloadOnly /\ Next => OverloadOnly'
    BY OverloadOnlyStep
  <2>2. OverloadOnly /\ UNCHANGED vars => OverloadOnly'
    BY DEF OverloadOnly, vars
  <2> QED
    BY <2>1, <2>2
<1> QED
  BY <1>1, <1>2, TypeCorrect, PTL DEF Spec
-----------------------------------------------------------------------------
(* Only a step of the scan sets the fault of the scan. *)
LEMMA OtherFaults ==
    ASSUME Next, ~ScanNext
    PROVE  fault' \in {fault, "no_free_handle", "key_overrun"}
<1>1. CASE Application
  BY <1>1 DEF Application, NewServer, NewServerNoHandle, NoFreeHandle, synapi_free, Enqueue,
              EnqueueFull
<1>2. CASE PerformSend \/ PerformNoHandle \/ PerformSkip \/ PerformTimeout \/ PerformReady
           \/ DriveDone \/ PerformReap \/ ScanFound \/ ScanOver \/ PerformNoMessage \/ Stopped
  BY <1>2 DEF PerformSend, PerformNoHandle, NoFreeHandle, PerformSkip, PerformTimeout,
              PerformReady, Select, DriveDone, PerformReap, ScanFound, ScanOver,
              PerformNoMessage, Stopped, vars
<1>3. ASSUME NEW c \in Calls, Drive(c) \/ synapi_api_key_write(c) \/ KeyOverrun(c)
      PROVE  fault' \in {fault, "no_free_handle", "key_overrun"}
  BY <1>3 DEF Drive, Driving, synapi_api_key_write, KeyOverrun
<1>4. ASSUME NEW c \in Calls, NetBytes(c) \/ NetClose(c)
      PROVE  fault' = fault
  BY <1>4 DEF NetBytes, NetClose, Outside
<1> QED
  BY <1>1, <1>2, <1>3, <1>4 DEF Next, synapi_perform, RunSingle, Environment, Scan

(* A step of the scan that finds another handle in the slot happens only while
   the message is there. *)
LEMMA ScanNextSafe ==
    ASSUME TypeOK, ScanInv, ScanNext
    PROVE  fault' = fault
<1>1. existing_handle \in multi
  BY PoolSizeAssumption DEF ScanInv, ScanNext, Scanning, TypeOK, ControlType
<1> QED
  BY <1>1 DEF ScanNext, MessageFreed

(* The scan finds the handle of its message in the pool, however the frames and
   the network have interleaved, and compares no slot with the message after it
   has freed it: the loop that clears the slot brings the shared i to the end. *)
THEOREM ScanFreesOnce == Spec => []ScanReapsOnce
<1> DEFINE Safe == fault # "freed_message"
<1>1. Init => Safe
  BY DEF Init
<1>2. TypeOK /\ ScanInv /\ Safe /\ [Next]_vars => Safe'
  <2>1. TypeOK /\ ScanInv /\ Safe /\ ScanNext => Safe'
    BY ScanNextSafe
  <2>2. Safe /\ Next /\ ~ScanNext => Safe'
    BY OtherFaults
  <2>3. Safe /\ UNCHANGED vars => Safe'
    BY DEF vars
  <2> QED
    BY <2>1, <2>2, <2>3
<1>3. TypeOK /\ ScanInv /\ Safe => ScanReapsOnce
  <2>1. TypeOK /\ ScanInv /\ phase = "scan" /\ i >= PoolSize => existing_handle \notin multi
    BY PoolSizeAssumption DEF ScanInv, Slots, TypeOK, ControlType
  <2> QED
    BY <2>1 DEF ScanReapsOnce, MessageFreed
<1> QED
  BY <1>1, <1>2, <1>3, TypeCorrect, PoolAndHeapCorrect, PTL DEF Spec
-----------------------------------------------------------------------------
(***************************************************************************)
(* The keys.  That every key was given by a registration needs that only   *)
(* a registration's answer has a body, and that no more of it was read     *)
(* than has arrived.                                                       *)
(***************************************************************************)
BodiesRegister ==
    \A c \in Calls : got[c] <= Len(answer[c]) /\ (answer[c] # <<>> => IsRegistration(c))

(* What was read of an answer stays as it is when more of it arrives. *)
LEMMA ReadPartStays ==
    ASSUME NEW a \in Seq(Byte), NEW b \in Seq(Byte),
           NEW n \in (Len(a) + 1)..Len(b), SubSeq(b, 1, Len(a)) = a,
           NEW m \in Nat, m <= Len(a), NEW j \in 1..m
    PROVE  SubSeq(SubSeq(b, 1, n), j, m) = SubSeq(a, j, m)
<1> DEFINE e == SubSeq(b, 1, n)
<1>1. Len(a) \in Nat /\ Len(b) \in Nat /\ DOMAIN b = 1..Len(b)
  BY LenProperties
<1>2. \A v \in 1..n : b[v] \in Byte
  BY <1>1, ElementOfSeq
<1>3. e \in Seq(Byte) /\ Len(e) = n /\ \A v \in 1..n : e[v] = b[v]
  BY <1>1, <1>2, SubSeqProperties
<1>4. \A v \in 1..Len(a) : a[v] = b[v]
  <2> DEFINE f == SubSeq(b, 1, Len(a))
  <2>1. \A v \in 1..Len(a) : b[v] \in Byte
    BY <1>1, <1>2
  <2>2. \A v \in 1..Len(a) : f[v] = b[v]
    BY <1>1, <2>1, SubSeqProperties
  <2> QED BY <2>2
<1> HIDE DEF e
<1>5. /\ \A v \in j..m : e[v] = a[v]
      /\ \A v \in j..m : v \in 1..Len(a) /\ v \in 1..n
  BY <1>1, <1>3, <1>4
<1>6. \A v \in j..m : e[v] \in Byte /\ a[v] \in Byte
  BY <1>3, <1>5, ElementOfSeq
<1> DEFINE x == SubSeq(e, j, m)
           y == SubSeq(a, j, m)
<1>7. /\ x \in Seq(Byte) /\ Len(x) = m - j + 1
      /\ \A v \in 1..(m - j + 1) : x[v] = e[j + v - 1]
  BY <1>3, <1>6, SubSeqProperties
<1>8. /\ y \in Seq(Byte) /\ Len(y) = m - j + 1
      /\ \A v \in 1..(m - j + 1) : y[v] = a[j + v - 1]
  BY <1>6, SubSeqProperties
<1> HIDE DEF x, y
<1>9. Len(x) = Len(y) /\ \A v \in 1..Len(x) : x[v] = y[v]
  <2>1. j \in Nat /\ m - j + 1 \in Nat
    OBVIOUS
  <2>2. \A v \in 1..(m - j + 1) : j + v - 1 \in j..m
    BY <2>1
  <2> QED BY <1>5, <1>7, <1>8, <2>2
<1>10. x = y
  BY <1>7, <1>8, <1>9, SeqEqual
<1> QED BY <1>10 DEF x, y, e

(* A new request leaves what was known of the older ones. *)
LEMMA LogGrows ==
    ASSUME TypeOK, NEW r \in Workload \cup {synapi_new_server}, log' = Append(log, r)
    PROVE  /\ \A c \in Calls : IsRegistration(c) => IsRegistration(c)'
           /\ \A c \in Calls : IsRegistration(c)' => \/ IsRegistration(c)
                                                     \/ c = NextCall /\ r.api_key_request
           /\ \A c \in Calls : c = NextCall /\ r.api_key_request => IsRegistration(c)'
<1>1. /\ Len(log) \in Nat /\ NextCall = Len(log) + 1 /\ Len(log') = NextCall
      /\ log'[NextCall] = r /\ \A c \in 1..Len(log) : log'[c] = log[c]
  <2>1. log \in Seq(Workload \cup {synapi_new_server})
    BY DEF TypeOK, ControlType
  <2> QED BY <2>1, AppendProperties, LenProperties DEF NextCall
<1> QED BY <1>1 DEF IsRegistration

(* Reading an answer, or more of it arriving, hides no key that was given. *)
LEMMA GivenKeysStay ==
    ASSUME \A c \in Calls : IsRegistration(c) => IsRegistration(c)',
           \A c \in Calls : got[c] \in Nat /\ got'[c] \in Nat /\ got[c] <= got'[c],
           \A c \in Calls : \A n \in 1..got[c] : \A j \in 1..n :
              SubSeq(answer'[c], j, n) = SubSeq(answer[c], j, n),
           NEW k, GivenUrlKey(k)
    PROVE  GivenUrlKey(k)'
<1>1. CASE InitialKey # NULL /\ k = curl_escape(StoredKey(InitialKey))
  BY <1>1 DEF GivenUrlKey
<1>2. ASSUME NEW c \in Calls, IsRegistration(c), NEW n \in 1..got[c], NEW j \in 1..n,
             k = curl_escape(StoredKey(SubSeq(answer[c], j, n)))
      PROVE  GivenUrlKey(k)'
  <2>1. k = curl_escape(StoredKey(SubSeq(answer'[c], j, n)))
    BY <1>2
  <2>2. n \in 1..got'[c]
    BY <1>2
  <2> QED BY <1>2, <2>1, <2>2 DEF GivenUrlKey
<1> QED BY <1>1, <1>2 DEF GivenUrlKey

(* The key an open gate stands for is one that was given. *)
LEMMA OpenKeyGiven ==
    ASSUME TypeOK, KeyEarned, Ready, api_key_set
    PROVE  GivenUrlKey(encoded_api_key)
<1>1. encoded_api_key = curl_escape(api_key)
  BY DEF KeyEarned, Ready
<1>2. CASE InitialKey # NULL /\ api_key = StoredKey(InitialKey)
  BY <1>1, <1>2 DEF GivenUrlKey
<1>3. ASSUME NEW c \in Calls, IsRegistration(c), NEW j \in 1..got[c],
             api_key = StoredKey(SubSeq(answer[c], j, got[c]))
      PROVE  GivenUrlKey(encoded_api_key)
  <2>1. got[c] \in 1..got[c]
    BY <1>3 DEF TypeOK, NetType
  <2> QED BY <1>1, <1>3, <2>1 DEF GivenUrlKey
<1> QED BY <1>2, <1>3 DEF KeyEarned, Ready

(* The steps that neither read an answer nor bring one. *)
Elsewhere == \/ Application
             \/ PerformSend \/ PerformNoHandle \/ PerformSkip \/ PerformTimeout
             \/ PerformReady \/ DriveDone \/ PerformReap \/ Scan \/ PerformNoMessage \/ Stopped
             \/ \E c \in Calls : Drive(c) \/ NetClose(c)

LEMMA ElsewhereQuiet == Elsewhere => answer' = answer /\ got' = got
<1>1. Application => answer' = answer /\ got' = got
  BY DEF Application, NewServer, NewServerNoHandle, NoFreeHandle, synapi_free, Enqueue,
         EnqueueFull, netVars
<1>2. \/ PerformSend \/ PerformNoHandle \/ PerformSkip \/ PerformTimeout
      \/ PerformReady \/ DriveDone \/ PerformReap \/ Scan \/ PerformNoMessage \/ Stopped
      => answer' = answer /\ got' = got
  BY DEF PerformSend, PerformNoHandle, NoFreeHandle, PerformSkip, PerformTimeout,
         PerformReady, Select, DriveDone, PerformReap, Scan, ScanNext, ScanFound, ScanOver,
     PerformNoMessage, Stopped, vars, netVars
<1>3. \A c \in Calls : Drive(c) \/ NetClose(c) => answer' = answer /\ got' = got
  BY DEF Drive, DriveOne, RunConnect, RunIdle, RunSent, NetClose, Ends, OnNetwork
<1> QED BY <1>1, <1>2, <1>3 DEF Elsewhere

(* A request that was a registration stays one. *)
LEMMA RegistrationsStay ==
    ASSUME TypeOK, Next
    PROVE  \A c \in Calls : IsRegistration(c) => IsRegistration(c)'
<1>1. CASE log' = log
  BY <1>1 DEF IsRegistration
<1>2. CASE NewServer \/ NewServerNoHandle
  BY <1>2, LogGrows DEF NewServer, NewServerNoHandle
<1>3. ASSUME NEW r \in Workload, Enqueue(r) \/ EnqueueFull(r)
      PROVE  \A c \in Calls : IsRegistration(c) => IsRegistration(c)'
  BY <1>3, LogGrows DEF Enqueue, EnqueueFull
<1>4. CASE synapi_perform
  BY <1>1, <1>4 DEF synapi_perform, PerformSend, PerformNoHandle, PerformSkip, PerformTimeout,
     PerformReady, Select, RunSingle, Drive, Driving, synapi_api_key_write, KeyOverrun,
     DriveDone, PerformReap, Scan, ScanNext, ScanFound, ScanOver,
     PerformNoMessage
<1>5. CASE Environment \/ Stopped \/ synapi_free
  BY <1>1, <1>5 DEF Environment, NetBytes, NetClose, Outside, Stopped, vars, synapi_free
<1> QED BY <1>2, <1>3, <1>4, <1>5 DEF Next, Application

(* What reading an answer does to the network's side of it. *)
LEMMA ReadEffect ==
    ASSUME NEW c \in Calls, synapi_api_key_write(c) \/ KeyOverrun(c)
    PROVE  /\ answer' = answer /\ got' = [got EXCEPT ![c] = Len(answer[c])]
           /\ Unread(c) # <<>> /\ log' = log /\ url' = url /\ fault = "none"
  BY DEF synapi_api_key_write, KeyOverrun, Driving, Ready, RunRead, DriveOne

(* What the arrival of a piece of an answer does. *)
LEMMA ArriveEffect ==
    ASSUME TypeOK, NEW c \in Calls, NetBytes(c)
    PROVE  \E b \in Seq(Byte) : \E n \in (Len(answer[c]) + 1)..Len(b) :
              /\ SubSeq(b, 1, Len(answer[c])) = answer[c]
              /\ answer' = [answer EXCEPT ![c] = SubSeq(b, 1, n)]
              /\ Len(SubSeq(b, 1, n)) = n
              /\ got' = got /\ log' = log /\ url' = url /\ UNCHANGED keyVars
              /\ fault' = fault
              /\ log[c].api_key_request /\ xfer[c] = "active"
<1>0. PICK b \in Bodies : \E n \in (Len(answer[c]) + 1)..Len(b) :
         /\ SubSeq(b, 1, Len(answer[c])) = answer[c]
         /\ answer' = [answer EXCEPT ![c] = SubSeq(b, 1, n)]
  BY DEF NetBytes, Arrives
<1>1. PICK n \in (Len(answer[c]) + 1)..Len(b) :
         /\ SubSeq(b, 1, Len(answer[c])) = answer[c]
         /\ answer' = [answer EXCEPT ![c] = SubSeq(b, 1, n)]
  BY <1>0
<1>2. b \in Seq(Byte) /\ answer[c] \in Seq(Byte)
  BY BodiesAssumption DEF TypeOK, NetType
<1>3. Len(b) \in Nat /\ Len(answer[c]) \in Nat
  BY <1>2, LenProperties
<1>4. n \in Nat /\ \A v \in 1..n : b[v] \in Byte
  BY <1>2, <1>3, ElementOfSeq
<1>5. Len(SubSeq(b, 1, n)) = n
  BY <1>3, <1>4, SubSeqProperties
<1>6. /\ got' = got /\ log' = log /\ url' = url /\ UNCHANGED keyVars /\ fault' = fault
      /\ log[c].api_key_request /\ xfer[c] = "active"
  BY DEF NetBytes, Outside, Arrives, OnNetwork
<1> QED BY <1>1, <1>2, <1>5, <1>6

(* Only registrations have answers with a body. *)
LEMMA BodiesRegisterStep ==
    ASSUME TypeOK, SlotsExclusive, MultiMirrorsPool, BodiesRegister, Next
    PROVE  BodiesRegister'
<1>0. \A c \in Calls : IsRegistration(c) => IsRegistration(c)'
  BY RegistrationsStay
<1>1. CASE Elsewhere
  BY <1>0, <1>1, ElsewhereQuiet DEF BodiesRegister
<1>2. ASSUME NEW c \in Calls, synapi_api_key_write(c) \/ KeyOverrun(c)
      PROVE  BodiesRegister'
  <2>1. answer' = answer /\ got' = [got EXCEPT ![c] = Len(answer[c])]
    BY <1>2, ReadEffect
  <2>2. Len(answer[c]) \in Nat
    BY LenProperties DEF TypeOK, NetType
  <2> QED BY <1>0, <2>1, <2>2 DEF BodiesRegister, TypeOK, NetType
<1>3. ASSUME NEW c \in Calls, NetBytes(c)
      PROVE  BodiesRegister'
  <2>0. PICK b \in Seq(Byte) : \E n \in (Len(answer[c]) + 1)..Len(b) :
              /\ answer' = [answer EXCEPT ![c] = SubSeq(b, 1, n)]
              /\ Len(SubSeq(b, 1, n)) = n
              /\ got' = got
              /\ log[c].api_key_request /\ xfer[c] = "active"
    BY <1>3, ArriveEffect
  <2>1. PICK n \in (Len(answer[c]) + 1)..Len(b) :
              /\ answer' = [answer EXCEPT ![c] = SubSeq(b, 1, n)]
              /\ Len(SubSeq(b, 1, n)) = n
              /\ got' = got
              /\ log[c].api_key_request /\ xfer[c] = "active"
    BY <2>0
  <2>2. IsRegistration(c)
    BY <2>1 DEF MultiMirrorsPool, SlotsExclusive, IsRegistration
  <2>3. Len(answer[c]) \in Nat /\ Len(b) \in Nat /\ got[c] \in Nat
    BY LenProperties DEF TypeOK, NetType
  <2>4. got'[c] <= Len(answer'[c])
    BY <2>1, <2>3 DEF BodiesRegister, TypeOK, NetType
  <2> QED BY <1>0, <2>1, <2>2, <2>4 DEF BodiesRegister, TypeOK, NetType
<1> QED BY <1>1, <1>2, <1>3
        DEF Next, synapi_perform, RunSingle, Environment, Elsewhere

(* No step takes back a key that was given. *)
LEMMA GivenStep ==
    ASSUME TypeOK, BodiesRegister, Next, NEW k, GivenUrlKey(k)
    PROVE  GivenUrlKey(k)'
<1> DEFINE Same == \A c \in Calls : \A m \in 0..got[c] : \A j \in 1..m :
                      SubSeq(answer'[c], j, m) = SubSeq(answer[c], j, m)
           Grows == \A c \in Calls : got[c] \in Nat /\ got'[c] \in Nat /\ got[c] <= got'[c]
<1>0. \A c \in Calls : /\ got[c] \in Nat /\ answer[c] \in Seq(Byte) /\ Len(answer[c]) \in Nat
                       /\ got[c] <= Len(answer[c])
  BY LenProperties DEF TypeOK, NetType, BodiesRegister
<1>1. ASSUME Grows, Same PROVE GivenUrlKey(k)'
  <2>1. \A c \in Calls : \A m \in 1..got[c] : \A j \in 1..m :
                      SubSeq(answer'[c], j, m) = SubSeq(answer[c], j, m)
    <3> SUFFICES ASSUME NEW c \in Calls, NEW m \in 1..got[c], NEW j \in 1..m
                 PROVE  SubSeq(answer'[c], j, m) = SubSeq(answer[c], j, m)
      OBVIOUS
    <3>1. m \in 0..got[c]
      BY <1>0
    <3> QED BY <1>1, <3>1
  <2> QED BY <1>1, <2>1, RegistrationsStay, GivenKeysStay
<1>2. CASE Elsewhere
  <2>1. Grows /\ Same
    BY <1>0, <1>2, ElsewhereQuiet
  <2> QED BY <1>1, <2>1
<1>3. ASSUME NEW c \in Calls, synapi_api_key_write(c) \/ KeyOverrun(c)
      PROVE  GivenUrlKey(k)'
  <2>1. answer' = answer /\ got' = [got EXCEPT ![c] = Len(answer[c])]
    BY <1>3, ReadEffect
  <2>2. Grows /\ Same
    BY <1>0, <2>1 DEF TypeOK, NetType
  <2> QED BY <1>1, <2>2
<1>4. ASSUME NEW c \in Calls, NetBytes(c)
      PROVE  GivenUrlKey(k)'
  <2>1. PICK b \in Seq(Byte) : \E n \in (Len(answer[c]) + 1)..Len(b) :
              /\ SubSeq(b, 1, Len(answer[c])) = answer[c]
              /\ answer' = [answer EXCEPT ![c] = SubSeq(b, 1, n)]
              /\ got' = got
    BY <1>4, ArriveEffect
  <2>2. PICK n \in (Len(answer[c]) + 1)..Len(b) :
              /\ SubSeq(b, 1, Len(answer[c])) = answer[c]
              /\ answer' = [answer EXCEPT ![c] = SubSeq(b, 1, n)]
              /\ got' = got
    BY <2>1
  <2>3. \A m \in 0..got[c] : \A j \in 1..m :
           SubSeq(SubSeq(b, 1, n), j, m) = SubSeq(answer[c], j, m)
    BY <1>0, <2>2, ReadPartStays
  <2>4. \A d \in Calls : answer'[d] = IF d = c THEN SubSeq(b, 1, n) ELSE answer[d]
    BY <2>2 DEF TypeOK, NetType
  <2>5. Grows /\ Same
    BY <1>0, <2>2, <2>3, <2>4
  <2> QED BY <1>1, <2>5
<1> QED BY <1>2, <1>3, <1>4
        DEF Next, synapi_perform, RunSingle, Environment, Elsewhere

(* The steps that leave the key and the URLs alone. *)
LEMMA KeyKept ==
    ASSUME TypeOK, BodiesRegister, KeyEarned, Next,
           UNCHANGED keyVars, got' = got, fault' = "none" => fault = "none",
           fault' = "none" => \A c \in Calls : IsRegistration(c)' => IsRegistration(c)
    PROVE  KeyEarned'
<1> SUFFICES ASSUME fault' = "none", api_key_set'
             PROVE  /\ encoded_api_key' = curl_escape(api_key')
                    /\ \/ /\ InitialKey # NULL /\ api_key' = StoredKey(InitialKey)
                          /\ \A c \in Calls : ~IsRegistration(c)'
                       \/ \E c \in Calls :
                            /\ IsRegistration(c)'
                            /\ \E j \in 1..got'[c] :
                                  api_key' = StoredKey(SubSeq(answer'[c], j, got'[c]))
  BY DEF KeyEarned
<1>1. /\ fault = "none" /\ api_key_set /\ api_key' = api_key
      /\ encoded_api_key' = encoded_api_key
  BY DEF keyVars
<1>2. encoded_api_key = curl_escape(api_key)
  BY <1>1 DEF KeyEarned
<1>3. CASE /\ InitialKey # NULL /\ api_key = StoredKey(InitialKey)
           /\ \A c \in Calls : ~IsRegistration(c)
  BY <1>1, <1>2, <1>3
<1>4. ASSUME NEW c \in Calls, IsRegistration(c), NEW j \in 1..got[c],
             api_key = StoredKey(SubSeq(answer[c], j, got[c]))
      PROVE  \E d \in Calls :
                /\ IsRegistration(d)'
                /\ \E v \in 1..got'[d] : api_key' = StoredKey(SubSeq(answer'[d], v, got'[d]))
  <2>1. SubSeq(answer'[c], j, got[c]) = SubSeq(answer[c], j, got[c])
    <3>0. /\ got[c] \in Nat /\ answer[c] \in Seq(Byte) /\ Len(answer[c]) \in Nat
          /\ got[c] <= Len(answer[c])
      BY LenProperties DEF TypeOK, NetType, BodiesRegister
    <3>1. CASE answer' = answer
      BY <3>1
    <3>2. ASSUME NEW d \in Calls, NetBytes(d)
          PROVE  SubSeq(answer'[c], j, got[c]) = SubSeq(answer[c], j, got[c])
      <4>1. CASE d # c
        BY <3>2, <4>1, ArriveEffect DEF TypeOK, NetType
      <4>2. CASE d = c
        <5>1. PICK b \in Seq(Byte) : \E n \in (Len(answer[c]) + 1)..Len(b) :
                  /\ SubSeq(b, 1, Len(answer[c])) = answer[c]
                  /\ answer' = [answer EXCEPT ![c] = SubSeq(b, 1, n)]
          BY <3>2, <4>2, ArriveEffect
        <5>2. PICK n \in (Len(answer[c]) + 1)..Len(b) :
                  /\ SubSeq(b, 1, Len(answer[c])) = answer[c]
                  /\ answer' = [answer EXCEPT ![c] = SubSeq(b, 1, n)]
          BY <5>1
        <5>3. SubSeq(SubSeq(b, 1, n), j, got[c]) = SubSeq(answer[c], j, got[c])
          BY <3>0, <5>2, ReadPartStays
        <5> QED BY <5>2, <5>3 DEF TypeOK, NetType
      <4> QED BY <4>1, <4>2
    <3> QED BY <3>1, <3>2, ElsewhereQuiet, ReadEffect
            DEF Next, synapi_perform, RunSingle, Environment, Elsewhere
  <2>2. IsRegistration(c)'
    BY <1>4, RegistrationsStay
  <2> QED BY <1>1, <1>4, <2>1, <2>2
<1> QED BY <1>1, <1>2, <1>3, <1>4 DEF KeyEarned

(* No order of registrations, their answers and other requests puts a key that
   was not given in the handle or in a URL. *)
LEMMA KeysEarnedStep ==
    ASSUME TypeOK, SlotsExclusive, BodiesRegister, KeysEarned, Next
    PROVE  KeysEarned'
<1> USE DEF KeysEarned
<1>0. \A k : GivenUrlKey(k) => GivenUrlKey(k)'
  BY GivenStep
<1>1. ASSUME url' = url PROVE UrlKeysEarned'
  BY <1>0, <1>1, RegistrationsStay DEF UrlKeysEarned
<1>2. CASE NewServer
  <2>1. /\ log' = Append(log, synapi_new_server) /\ api_key_set' = FALSE
        /\ url' = [url EXCEPT ![NextCall] = synapi_build_url(synapi_new_server)]
    BY <1>2 DEF NewServer, synapi_send, KeySetAfterSend, synapi_new_server, Request
  <2>2. \A c \in Calls : c = NextCall => IsRegistration(c)'
    BY <2>1, LogGrows DEF synapi_new_server, Request
  <2>3. UrlKeysEarned'
    BY <1>0, <2>1, <2>2, RegistrationsStay DEF UrlKeysEarned, TypeOK, KeyType
  <2> QED BY <2>1, <2>3 DEF KeyEarned
<1>3. CASE NewServerNoHandle
  BY <1>1, <1>3 DEF NewServerNoHandle, NoFreeHandle, KeyEarned
<1>4. ASSUME NEW r \in Workload, Enqueue(r) \/ EnqueueFull(r)
      PROVE  KeysEarned'
  <2>1. /\ log' = Append(log, r) /\ UNCHANGED keyVars /\ url' = url /\ got' = got
        /\ fault' = fault
    BY <1>4 DEF Enqueue, EnqueueFull, netVars
  <2>2. \A c \in Calls : IsRegistration(c)' => IsRegistration(c)
    BY <2>1, LogGrows, WorkloadAssumption
  <2> QED BY <1>1, <2>1, <2>2, KeyKept
<1>5. CASE PerformSend
  <2>1. PICK c \in Calls, p \in Slots : c \in Queued /\ synapi_send(c, log[c], p, heap)
    BY <1>5, PerformSendCall
  <2> DEFINE r == log[c]
  <2>2. c \in 1..Len(log) /\ r \in Workload \cup {synapi_new_server}
    BY <2>1, ElementOfSeq DEF SlotsExclusive, TypeOK, ControlType
  <2>3. Ready /\ api_key_set /\ log' = log /\ got' = got /\ answer' = answer /\ fault' = fault
    BY <1>5 DEF PerformSend, InGame, KeyGate, netVars
  <2>4. /\ url' = [url EXCEPT ![c] = synapi_build_url(r)]
        /\ api_key_set' = (api_key_set /\ ~r.api_key_request)
        /\ api_key' = (IF r.api_key_request THEN <<>> ELSE api_key)
        /\ encoded_api_key' = encoded_api_key
    BY <2>1 DEF synapi_send, KeySetAfterSend
  <2>5. UrlKeysEarned'
    <3> SUFFICES ASSUME NEW d \in Calls, url'[d] # NULL, ~IsRegistration(d)',
                        NEW k, k = url'[d].key
                 PROVE  GivenUrlKey(k)'
      BY DEF UrlKeysEarned, GivenUrlKey
    <3>1. CASE d # c
      BY <1>0, <2>4, <3>1, RegistrationsStay DEF UrlKeysEarned, TypeOK, KeyType
    <3>2. CASE d = c
      <4>1. ~r.api_key_request
        BY <2>2, <2>3, <3>2 DEF IsRegistration
      <4>2. r.action # "SYN_SERVERS_NEW"
        BY <2>2, <4>1, WorkloadAssumption DEF synapi_new_server, Request
      <4>3. k = encoded_api_key
        BY <2>4, <3>2, <4>2 DEF synapi_build_url, TypeOK, KeyType
      <4>4. GivenUrlKey(encoded_api_key)
        BY <2>3, OpenKeyGiven
      <4> QED BY <1>0, <4>3, <4>4
    <3> QED BY <3>1, <3>2
  <2>6. KeyEarned'
    <3>1. CASE r.api_key_request
      BY <2>4, <3>1 DEF KeyEarned
    <3>2. CASE ~r.api_key_request
      <4>1. UNCHANGED <<log, got, answer, fault, api_key, encoded_api_key>> /\ api_key_set
        BY <2>3, <2>4, <3>2
      <4> QED BY <4>1 DEF KeyEarned, IsRegistration
    <3> QED BY <3>1, <3>2
  <2> QED BY <2>5, <2>6
<1>6. ASSUME NEW c \in Calls, synapi_api_key_write(c)
      PROVE  KeysEarned'
  <2>1. /\ answer' = answer /\ got' = [got EXCEPT ![c] = Len(answer[c])]
        /\ Unread(c) # <<>> /\ log' = log /\ url' = url
    BY <1>6, ReadEffect
  <2>2. /\ api_key' = StoredKey(Unread(c)) /\ encoded_api_key' = curl_escape(api_key')
    BY <1>6 DEF synapi_api_key_write, synapi_api_key
  <2>3. /\ got[c] \in Nat /\ answer[c] \in Seq(Byte) /\ Len(answer[c]) \in Nat
        /\ got[c] <= Len(answer[c])
    BY LenProperties DEF TypeOK, NetType, BodiesRegister
  <2>4. got[c] < Len(answer[c])
    BY <2>1, <2>3, SubSeqEmpty DEF Unread
  <2>5. IsRegistration(c)'
    <3>1. answer[c] # <<>>
      BY <2>3, <2>4, EmptySeq
    <3> QED BY <3>1, RegistrationsStay DEF BodiesRegister
  <2>6. got'[c] = Len(answer[c]) /\ got[c] + 1 \in 1..got'[c]
    BY <2>1, <2>3, <2>4 DEF TypeOK, NetType
  <2>7. api_key' = StoredKey(SubSeq(answer'[c], got[c] + 1, got'[c]))
    BY <2>1, <2>2, <2>6 DEF Unread
  <2>8. KeyEarned'
    BY <2>2, <2>5, <2>6, <2>7 DEF KeyEarned
  <2> QED BY <1>1, <2>1, <2>8
<1>7. ASSUME NEW c \in Calls, KeyOverrun(c)
      PROVE  KeysEarned'
  BY <1>1, <1>7, ReadEffect DEF KeyOverrun, KeyEarned
<1>8. ASSUME url' = url, log' = log, UNCHANGED keyVars, got' = got,
             fault' = "none" => fault = "none"
      PROVE  KeysEarned'
  BY <1>1, <1>8, KeyKept DEF IsRegistration
<1>9. CASE synapi_free \/ PerformNoHandle \/ PerformSkip \/ PerformTimeout
           \/ PerformReady \/ DriveDone \/ PerformReap \/ Scan \/ PerformNoMessage \/ Stopped
  BY <1>8, <1>9 DEF synapi_free, PerformNoHandle, NoFreeHandle, PerformSkip, PerformTimeout,
     PerformReady, Select, DriveDone, PerformReap, Scan, ScanNext, ScanFound, ScanOver,
     PerformNoMessage, Stopped, vars, netVars,
     Ready, InGame
<1>10. ASSUME NEW c \in Calls, Drive(c) \/ NetBytes(c) \/ NetClose(c)
       PROVE  KeysEarned'
  BY <1>8, <1>10 DEF Drive, Driving, DriveOne, RunConnect, RunIdle, RunSent, NetBytes,
     NetClose, Outside, Arrives, Ends, OnNetwork
<1> QED BY <1>2, <1>3, <1>4, <1>5, <1>6, <1>7, <1>9, <1>10
        DEF Next, Application, synapi_perform, RunSingle, Environment

(* The inductive invariant of the engine: which bodies may arrive is a matter
   of what the pool holds, and that of where each call is. *)
EngineInv == /\ TypeOK /\ SlotsExclusive /\ MultiMirrorsPool /\ ScanInv
             /\ BodiesRegister /\ KeysEarned

(* It holds in every reachable state. *)
LEMMA EngineInvariant == Spec => []EngineInv
<1>1. Init => BodiesRegister /\ KeysEarned
  <2> SUFFICES ASSUME Init PROVE BodiesRegister /\ KeysEarned
    OBVIOUS
  <2>1. \A c \in Calls : got[c] = 0 /\ answer[c] = <<>> /\ url[c] = NULL
    BY DEF Init, NetInit
  <2>2. log = <<>> /\ Len(log) = 0
    BY EmptySeq DEF Init
  <2>3. \A c : ~IsRegistration(c)
    BY <2>2 DEF IsRegistration
  <2>4. BodiesRegister
    BY <2>1, EmptySeq DEF BodiesRegister
  <2>5. KeyEarned
    BY <2>3 DEF Init, KeyEarned
  <2>6. UrlKeysEarned
    BY <2>1 DEF UrlKeysEarned
  <2> QED BY <2>4, <2>5, <2>6 DEF KeysEarned
<1>2. EngineInv /\ [Next]_vars => BodiesRegister' /\ KeysEarned'
  <2>1. EngineInv /\ Next => BodiesRegister' /\ KeysEarned'
    BY BodiesRegisterStep, KeysEarnedStep DEF EngineInv
  <2>2. BodiesRegister /\ UNCHANGED vars => BodiesRegister'
    BY DEF BodiesRegister, IsRegistration, vars, netVars
  <2>3. KeysEarned /\ UNCHANGED vars => KeysEarned'
    BY DEF KeysEarned, KeyEarned, UrlKeysEarned, GivenUrlKey, IsRegistration, vars, netVars,
           keyVars
  <2> QED BY <2>1, <2>2, <2>3 DEF EngineInv
<1> QED BY <1>1, <1>2, TypeCorrect, PoolAndHeapCorrect, PTL DEF Spec, EngineInv

(* Keys are earned before they are used: whatever order registrations, the
   pieces of their answers and other requests come in, the key behind an open
   gate and every key in a URL was given to synapi_api_key(). *)
THEOREM KeysAlwaysEarned == Spec => []KeysEarned
<1>1. EngineInv => KeysEarned
  BY DEF EngineInv
<1> QED BY <1>1, EngineInvariant, PTL

-----------------------------------------------------------------------------
(* A count of slots in use that is 0 means an empty array. *)
LEMMA NoneInUse ==
    ASSUME NEW array, Cardinality({s \in Slots : array[s] # NULL}) = 0
    PROVE  \A s \in Slots : array[s] = NULL
<1>1. IsFiniteSet(Slots)
  BY PoolSizeAssumption, FS_Interval DEF Slots
<1> DEFINE U == {s \in Slots : array[s] # NULL}
<1>2. IsFiniteSet(U)
  BY <1>1, FS_Subset
<1>3. U = {}
  BY <1>2, FS_EmptySet
<1> QED BY <1>3

(* The sample's loop ends, with a key, only when nothing is queued, nothing is
   attached to curl and no message is left to read. *)
THEOREM DrainIsComplete == Spec => []DrainedMeansDone
<1>1. TypeOK /\ MultiMirrorsPool => DrainedMeansDone
  <2> SUFFICES ASSUME TypeOK, MultiMirrorsPool, api_key_set, synapi_queued = 0
               PROVE  multi = {} /\ Queued = {} /\ msglist = <<>>
    BY DEF DrainedMeansDone
  <2> DEFINE P == {s \in Slots : pool[s] # NULL}
             R == {s \in Slots : requests[s] # NULL}
  <2>0. IsFiniteSet(Slots)
    BY PoolSizeAssumption, FS_Interval DEF Slots
  <2>1. IsFiniteSet(P) /\ IsFiniteSet(R)
    BY <2>0, FS_Subset
  <2>2. Cardinality(P) \in Nat /\ Cardinality(R) \in Nat
    BY <2>1, FS_CardinalityType
  <2>3. Cardinality(P) + Cardinality(R) = 0
    BY DEF synapi_queued
  <2>4. Cardinality(P) = 0 /\ Cardinality(R) = 0
    BY <2>2, <2>3
  <2>5. \A s \in Slots : pool[s] = NULL /\ requests[s] = NULL
    BY <2>4, NoneInUse
  <2>6. Queued = {} /\ InFlight = {}
    BY <2>5, NullAssumption DEF Queued, InFlight
  <2>7. multi = {} /\ \A k \in DOMAIN msglist : msglist[k] \notin Calls
    BY <2>6 DEF MultiMirrorsPool
  <2>8. msglist = <<>>
    BY <2>7, EmptySeq, LenProperties, ElementOfSeq DEF TypeOK, CurlType
  <2> QED BY <2>6, <2>7, <2>8
<1> QED BY <1>1, TypeCorrect, PoolMirrorsCurl, PTL

-----------------------------------------------------------------------------
(* A slot array holds fewer calls than it has slots as long as a slot is free,
   and then as many as it has slots. *)
LEMMA SlotCount ==
    ASSUME NEW array \in [Slots -> Calls \cup {NULL}], Injective(array),
           NEW S, S = {c \in Calls : \E s \in Slots : array[s] = c}
    PROVE  /\ (\E s \in Slots : array[s] = NULL) => Cardinality(S) < PoolSize
           /\ (\A s \in Slots : array[s] # NULL) => Cardinality(S) = PoolSize
<1> DEFINE U == {s \in Slots : array[s] # NULL}
           f == [s \in U |-> array[s]]
<1>1. PoolSize \in Nat /\ IsFiniteSet(Slots) /\ Cardinality(Slots) = PoolSize
  BY PoolSizeAssumption, FS_Interval DEF Slots
<1>2. /\ IsFiniteSet(U) /\ Cardinality(U) <= PoolSize
      /\ PoolSize = Cardinality(U) => U = Slots
  BY <1>1, FS_Subset
<1>3. f \in Bijection(U, S)
  <2>1. f \in [U -> S]
    OBVIOUS
  <2>2. \A a, b \in U : f[a] = f[b] => a = b
    BY DEF Injective
  <2>3. \A c \in S : \E s \in U : f[s] = c
    BY NullAssumption
  <2> QED BY <2>1, <2>2, <2>3 DEF Bijection, Injection, Surjection, IsInjective
<1>4. Cardinality(S) = Cardinality(U)
  BY <1>2, <1>3, FS_Bijection DEF ExistsBijection
<1>5. Cardinality(U) \in Nat
  BY <1>2, FS_CardinalityType
<1>6. ASSUME \E s \in Slots : array[s] = NULL PROVE Cardinality(U) # PoolSize
  BY <1>2, <1>6
<1>7. ASSUME \A s \in Slots : array[s] # NULL PROVE Cardinality(U) = PoolSize
  <2>1. U = Slots
    BY <1>7
  <2> QED BY <1>1, <2>1
<1> QED BY <1>1, <1>2, <1>4, <1>5, <1>6, <1>7

-----------------------------------------------------------------------------
(* The refinement mapping, as Box sees it. *)
Stat == [c \in Calls |-> StatusOf(c)]

(* What the box holds is what requests[] holds, and what it has handed out is
   what the pool holds. *)
LEMMA BoxContents ==
    ASSUME TypeOK, SlotsExclusive
    PROVE  /\ {c \in Calls : Stat[c] = "queued"} = Queued
           /\ {c \in Calls : Stat[c] = "sent"} \cup {c \in Calls : Stat[c] = "registering"}
              = InFlight
<1>1. Len(log) \in Nat
  BY LenProperties DEF TypeOK, ControlType
<1>2. \A c \in Calls : c \in Nat
  BY MaxCallsAssumption DEF Calls
<1>3. Queued \subseteq Calls /\ InFlight \subseteq Calls
  BY DEF Queued, InFlight
<1>4. \A c \in Queued \cup InFlight : ~(c > Len(log)) /\ c \notin dropped
  BY <1>1 DEF SlotsExclusive
<1>5. \A c \in Calls : StatusOf(c) = "queued" <=> c \in Queued
  BY <1>4 DEF StatusOf
<1>6. \A c \in Calls : StatusOf(c) \in {"sent", "registering"} <=> c \in InFlight
  BY <1>4 DEF StatusOf, SlotsExclusive
<1> QED BY <1>3, <1>5, <1>6 DEF Stat

(* A request whose slots and whose entry in the log stay keeps its status. *)
LEMMA StatusStays ==
    ASSUME NEW c \in Calls, (c > Len(log')) = (c > Len(log)),
           ~(c > Len(log)) => log'[c] = log[c],
           (c \in dropped') = (c \in dropped),
           (c \in Queued') = (c \in Queued),
           (c \in InFlight') = (c \in InFlight)
    PROVE  StatusOf(c)' = StatusOf(c)
  BY DEF StatusOf

(* Only the status of c changes. *)
LEMMA StatusMoves ==
    ASSUME NEW c \in Calls, NEW x, StatusOf(c)' = x,
           \A d \in Calls : d # c => StatusOf(d)' = StatusOf(d)
    PROVE  Stat' = [Stat EXCEPT ![c] = x]
  BY DEF Stat

(* A new entry in the log. *)
LEMMA LogAppend ==
    ASSUME TypeOK, NEW r \in Workload \cup {synapi_new_server}, log' = Append(log, r),
           NextCall \in Calls
    PROVE  /\ Len(log) \in Nat /\ NextCall > Len(log) /\ ~(NextCall > Len(log'))
           /\ log'[NextCall] = r
           /\ \A d \in Calls : d # NextCall => /\ (d > Len(log')) = (d > Len(log))
                                               /\ ~(d > Len(log)) => log'[d] = log[d]
<1>1. log \in Seq(Workload \cup {synapi_new_server})
  BY DEF TypeOK, ControlType
<1>2. /\ Len(log) \in Nat /\ NextCall = Len(log) + 1 /\ Len(log') = NextCall
      /\ log'[NextCall] = r /\ \A c \in 1..Len(log) : log'[c] = log[c]
  BY <1>1, AppendProperties, LenProperties DEF NextCall
<1>3. \A d \in Calls : d \in Nat /\ d >= 1
  BY MaxCallsAssumption DEF Calls
<1> QED BY <1>2, <1>3

-----------------------------------------------------------------------------
(***************************************************************************)
(* A registration is never queued: synapi_queue() sends it at once.  So    *)
(* what synapi_perform() sends from the queue never shuts the gate.        *)
(***************************************************************************)
QueuedOrdinary == \A c \in Queued : ~log[c].api_key_request

LEMMA QueuedOrdinaryStep ==
    ASSUME TypeOK, SlotsExclusive, QueuedOrdinary, Next
    PROVE  QueuedOrdinary'
<1>1. ASSUME log' = log, Queued' \subseteq Queued PROVE QueuedOrdinary'
  BY <1>1 DEF QueuedOrdinary
<1>2. ASSUME NEW r \in Workload \cup {synapi_new_server}, log' = Append(log, r),
             NextCall \in Calls, Queued' \subseteq Queued
      PROVE  QueuedOrdinary'
  <2>1. \A c \in Queued : c \in Calls /\ c # NextCall /\ ~(c > Len(log))
    BY <1>2, NextCallFresh, LogAppend DEF Queued, SlotsExclusive
  <2> QED BY <1>2, <2>1, LogAppend DEF QueuedOrdinary
<1>3. CASE NewServer
  <2>1. PICK p \in Slots : /\ pool[p] = NULL
                           /\ synapi_send(NextCall, synapi_new_server, p,
                                          heap \cup Allocated(NextCall))
    BY <1>3 DEF NewServer, synapi_get_curl_handle, First
  <2>2. NextCall \in Calls /\ log' = Append(log, synapi_new_server)
    BY <1>3 DEF NewServer
  <2>3. Queued' = Queued \ {NextCall}
    BY <2>1, <2>2, NextCallFresh, SendMoves DEF TypeOK
  <2> QED BY <1>2, <2>2, <2>3
<1>4. CASE NewServerNoHandle
  BY <1>2, <1>4 DEF NewServerNoHandle, NoFreeHandle, slotVars, Queued
<1>5. ASSUME NEW r \in Workload, EnqueueFull(r)
      PROVE  QueuedOrdinary'
  BY <1>2, <1>5 DEF EnqueueFull, slotVars, Queued
<1>6. ASSUME NEW r \in Workload, Enqueue(r)
      PROVE  QueuedOrdinary'
  <2>1. PICK s \in Slots : /\ requests[s] = NULL
                           /\ requests' = [requests EXCEPT ![s] = NextCall]
    BY <1>6 DEF Enqueue, FreeRequestSlot, First
  <2>2. NextCall \in Calls /\ log' = Append(log, r)
    BY <1>6 DEF Enqueue
  <2>3. Queued' \subseteq Queued \cup {NextCall}
    BY <2>1, <2>2 DEF Queued, TypeOK, SlotType
  <2>4. \A c \in Queued : c \in Calls /\ c # NextCall /\ ~(c > Len(log))
    BY <2>2, NextCallFresh, LogAppend DEF Queued, SlotsExclusive
  <2>5. ~r.api_key_request
    BY WorkloadAssumption
  <2> QED BY <2>2, <2>3, <2>4, <2>5, LogAppend DEF QueuedOrdinary
<1>7. CASE PerformSend
  <2>1. log' = log
    BY <1>7 DEF PerformSend
  <2>2. Queued' \subseteq Queued
    BY <1>7, PerformSendCall, SendMoves DEF TypeOK
  <2> QED BY <1>1, <2>1, <2>2
<1>8. CASE log' = log /\ requests' = requests
  BY <1>1, <1>8 DEF Queued
<1>9. CASE synapi_free \/ PerformNoHandle \/ PerformSkip \/ PerformTimeout
           \/ PerformReady \/ DriveDone \/ PerformReap \/ Scan \/ PerformNoMessage \/ Stopped
  BY <1>8, <1>9 DEF synapi_free, PerformNoHandle, NoFreeHandle, PerformSkip, PerformTimeout,
     PerformReady, Select, DriveDone, PerformReap, Scan, ScanNext, ScanFound, ScanOver,
     PerformNoMessage, Stopped, vars, slotVars
<1>10. CASE RunSingle
  BY <1>8, <1>10, RunEffect DEF RunSingle
<1>11. CASE Environment
  BY <1>8, <1>11 DEF Environment, NetBytes, NetClose, Outside, slotVars
<1> QED BY <1>3, <1>4, <1>5, <1>6, <1>7, <1>9, <1>10, <1>11
        DEF Next, Application, synapi_perform

-----------------------------------------------------------------------------
(* The box counts as the engine does. *)
LEMMA BoxCount ==
    ASSUME TypeOK, SlotsExclusive
    PROVE  /\ Box!In("queued") = Queued /\ Box!Outstanding = InFlight
           /\ \A S : Box!Cardinality(S) = Cardinality(S)
<1>1. Box!In("queued") = Queued /\ Box!Outstanding = InFlight
  BY BoxContents DEF Box!In, Box!Outstanding, Stat
<1>2. \A S : Box!Cardinality(S) = Cardinality(S)
  BY DEF Box!Cardinality, Cardinality
<1> QED BY <1>1, <1>2

(* All requests but n are where they were. *)
OthersStay(n) ==
    \A d \in Calls : d # n => /\ (d \in dropped') = (d \in dropped)
                              /\ (d \in Queued') = (d \in Queued)
                              /\ (d \in InFlight') = (d \in InFlight)

(* A call of the application starts the life of a request. *)
LEMMA NewMoves ==
    ASSUME TypeOK, Ready, NEW r \in Workload \cup {synapi_new_server},
           log' = Append(log, r), NEW n \in Calls, n = NextCall, OthersStay(n),
           NEW x, StatusOf(n)' = x
    PROVE  Box!Move(n, "new", x)
<1>1. /\ n > Len(log)
      /\ \A d \in Calls : d # n => /\ (d > Len(log')) = (d > Len(log))
                                   /\ ~(d > Len(log)) => log'[d] = log[d]
  BY LogAppend
<1>2. StatusOf(n) = "new"
  BY <1>1 DEF StatusOf
<1>3. \A d \in Calls : d # n => StatusOf(d)' = StatusOf(d)
  <2> SUFFICES ASSUME NEW d \in Calls, d # n PROVE StatusOf(d)' = StatusOf(d)
    OBVIOUS
  <2>1. /\ (d \in dropped') = (d \in dropped) /\ (d \in Queued') = (d \in Queued)
        /\ (d \in InFlight') = (d \in InFlight)
    BY DEF OthersStay
  <2> QED BY <1>1, <2>1, StatusStays
<1>4. Stat' = [Stat EXCEPT ![n] = x]
  BY <1>3, StatusMoves
<1> QED BY <1>2, <1>4 DEF Box!Move, Stat

(* A step of synapi_perform() moves a request on. *)
LEMMA OldMoves ==
    ASSUME Ready, log' = log, NEW n \in Calls, OthersStay(n),
           NEW x, NEW y, StatusOf(n) = x, StatusOf(n)' = y
    PROVE  Box!Move(n, x, y)
<1>1. \A d \in Calls : d # n => StatusOf(d)' = StatusOf(d)
  <2> SUFFICES ASSUME NEW d \in Calls, d # n PROVE StatusOf(d)' = StatusOf(d)
    OBVIOUS
  <2>1. /\ (d \in dropped') = (d \in dropped) /\ (d \in Queued') = (d \in Queued)
        /\ (d \in InFlight') = (d \in InFlight)
    BY DEF OthersStay
  <2> QED BY <2>1, StatusStays
<1>2. Stat' = [Stat EXCEPT ![n] = y]
  BY <1>1, StatusMoves
<1> QED BY <1>2 DEF Box!Move, Stat

-----------------------------------------------------------------------------
(* synapi_queue() with a free slot. *)
LEMMA AcceptStep ==
    ASSUME TypeOK, SlotsExclusive, NEW r \in Workload, Enqueue(r), NEW n, n = NextCall
    PROVE  n \in Calls /\ Box!Accept(n)
<1>1. PICK s \in Slots : requests[s] = NULL /\ requests' = [requests EXCEPT ![s] = n]
  BY DEF Enqueue, FreeRequestSlot, First
<1>2. /\ n \in Calls /\ log' = Append(log, r) /\ pool' = pool /\ dropped' = dropped
      /\ Ready /\ Ready' = Ready /\ api_key_set' = api_key_set
  BY DEF Enqueue, InGame, Ready, keyVars
<1>3. n \notin Queued \cup InFlight \cup dropped /\ ~(n > Len(log'))
  BY <1>2, NextCallFresh, LogAppend
<1>4. Queued' = Queued \cup {n} /\ InFlight' = InFlight
  BY <1>1, <1>2, NullAssumption DEF Queued, InFlight, TypeOK, SlotType
<1>5. StatusOf(n)' = "queued"
  BY <1>2, <1>3, <1>4 DEF StatusOf
<1>6. OthersStay(n)
  BY <1>2, <1>4 DEF OthersStay
<1>7. Box!Move(n, "new", "queued")
  BY <1>2, <1>5, <1>6, NewMoves
<1>8. Cardinality(Queued) < PoolSize
  BY <1>1, SlotCount DEF Queued, TypeOK, SlotType, SlotsExclusive
<1> QED BY <1>2, <1>7, <1>8, BoxCount DEF Box!Accept

(* synapi_queue() without one. *)
LEMMA RefuseStep ==
    ASSUME TypeOK, SlotsExclusive, NEW r \in Workload, EnqueueFull(r), NEW n, n = NextCall
    PROVE  n \in Calls /\ Box!Refuse(n)
<1>1. \A s \in Slots : requests[s] # NULL
  BY ScanFindsFree DEF EnqueueFull, FreeRequestSlot
<1>2. /\ n \in Calls /\ log' = Append(log, r) /\ dropped' = dropped \cup {n}
      /\ Ready /\ Ready' = Ready /\ api_key_set' = api_key_set
  BY DEF EnqueueFull, InGame, Ready, keyVars
<1>3. ~(n > Len(log'))
  BY <1>2, LogAppend
<1>4. Queued' = Queued /\ InFlight' = InFlight
  BY DEF EnqueueFull, slotVars, Queued, InFlight
<1>5. StatusOf(n)' = "refused"
  BY <1>2, <1>3 DEF StatusOf
<1>6. OthersStay(n)
  BY <1>2, <1>4 DEF OthersStay
<1>7. Box!Move(n, "new", "refused")
  BY <1>2, <1>5, <1>6, NewMoves
<1>8. Cardinality(Queued) = PoolSize
  BY <1>1, SlotCount DEF Queued, TypeOK, SlotType, SlotsExclusive
<1> QED BY <1>2, <1>7, <1>8, BoxCount DEF Box!Refuse

(* synapi_new_server(). *)
LEMMA RegisterStep ==
    ASSUME TypeOK, SlotsExclusive, NewServer, NEW n, n = NextCall
    PROVE  n \in Calls /\ Box!Register(n)
<1> DEFINE r == synapi_new_server
<1>1. PICK p \in Slots : pool[p] = NULL /\ synapi_send(n, r, p, heap \cup Allocated(n))
  BY DEF NewServer, synapi_get_curl_handle, First
<1>2. /\ n \in Calls /\ log' = Append(log, r) /\ dropped' = dropped /\ Ready /\ Ready' = Ready
  BY DEF NewServer, InGame, Ready
<1>3. n \notin Queued \cup InFlight \cup dropped /\ ~(n > Len(log')) /\ log'[n] = r
  BY <1>2, NextCallFresh, LogAppend
<1>4. Queued' = Queued \ {n} /\ InFlight' = InFlight \cup {n}
  BY <1>1, <1>2, <1>3, SendMoves DEF TypeOK
<1>5. r.api_key_request
  BY DEF synapi_new_server, Request
<1>6. api_key_set' = FALSE
  BY <1>1, <1>5 DEF synapi_send, KeySetAfterSend
<1> HIDE DEF r
<1>7. StatusOf(n)' = "registering"
  BY <1>2, <1>3, <1>4, <1>5 DEF StatusOf
<1>8. OthersStay(n)
  BY <1>2, <1>4 DEF OthersStay
<1>9. Box!Move(n, "new", "registering")
  BY <1>2, <1>7, <1>8, NewMoves DEF r
<1>10. Cardinality(InFlight) < PoolSize
  BY <1>1, SlotCount DEF InFlight, TypeOK, SlotType, SlotsExclusive
<1> QED BY <1>2, <1>6, <1>9, <1>10, BoxCount DEF Box!Register

(* synapi_new_server() without a free curl handle. *)
LEMMA FailingStep ==
    ASSUME TypeOK, SlotsExclusive, NewServerNoHandle
    PROVE  Box!Fail
<1> DEFINE r == synapi_new_server
<1>1. PICK n : n = NextCall
  OBVIOUS
<1>2. /\ n \in Calls /\ log' = Append(log, r) /\ dropped' = dropped /\ Ready /\ Ready' = FALSE
      /\ api_key_set' = api_key_set
  BY <1>1 DEF NewServerNoHandle, NoFreeHandle, InGame, Ready, keyVars
<1>3. n \notin Queued \cup InFlight \cup dropped /\ ~(n > Len(log'))
  BY <1>1, <1>2, NextCallFresh, LogAppend
<1>4. Queued' = Queued /\ InFlight' = InFlight
  BY DEF NewServerNoHandle, NoFreeHandle, slotVars, Queued, InFlight
<1>5. StatusOf(n)' = "ended"
  BY <1>2, <1>3, <1>4 DEF StatusOf
<1>6. OthersStay(n)
  BY <1>2, <1>4 DEF OthersStay
<1>7. Box!Move(n, "new", "ended")
  BY <1>1, <1>2, <1>5, <1>6, NewMoves
<1> QED BY <1>2, <1>7 DEF Box!Fail

(* synapi_perform() sends a queued request. *)
LEMMA DispatchStep ==
    ASSUME TypeOK, SlotsExclusive, QueuedOrdinary, PerformSend
    PROVE  \E n \in Calls : Box!Dispatch(n)
<1>1. PICK n \in Calls, p \in Slots :
              /\ n \in Queued /\ n \notin InFlight /\ n \notin dropped
              /\ pool[p] = NULL
              /\ synapi_send(n, log[n], p, heap)
  BY PerformSendCall
<1>2. /\ log' = log /\ dropped' = dropped /\ Ready /\ Ready' = Ready /\ api_key_set
  BY DEF PerformSend, InGame, KeyGate, Ready
<1>3. ~(n > Len(log))
  <2>1. Len(log) \in Nat /\ n \in 1..Len(log)
    BY <1>1, LenProperties DEF TypeOK, ControlType, SlotsExclusive
  <2> QED BY <2>1
<1>4. Queued' = Queued \ {n} /\ InFlight' = InFlight \cup {n}
  BY <1>1, SendMoves DEF TypeOK
<1>5. ~log[n].api_key_request
  BY <1>1 DEF QueuedOrdinary
<1>6. api_key_set' = api_key_set
  BY <1>1, <1>2, <1>5 DEF synapi_send, KeySetAfterSend
<1>7. StatusOf(n) = "queued" /\ StatusOf(n)' = "sent"
  BY <1>1, <1>2, <1>3, <1>4, <1>5 DEF StatusOf
<1>8. OthersStay(n)
  BY <1>2, <1>4 DEF OthersStay
<1>9. Box!Move(n, "queued", "sent")
  BY <1>2, <1>7, <1>8, OldMoves
<1>10. Cardinality(InFlight) < PoolSize
  BY <1>1, SlotCount DEF InFlight, TypeOK, SlotType, SlotsExclusive
<1>11. Box!Dispatch(n)
  BY <1>2, <1>6, <1>9, <1>10, BoxCount DEF Box!Dispatch
<1> QED BY <1>11

(* synapi_perform() reaps a finished transfer. *)
LEMMA FinishStep ==
    ASSUME TypeOK, SlotsExclusive, MultiMirrorsPool, ScanInv, ScanFound
    PROVE  \E n \in Calls : Box!Finish(n)
<1>1. PICK n : n = existing_handle
  OBVIOUS
<1>2. /\ log' = log /\ dropped' = dropped /\ requests' = requests
      /\ alive' = alive /\ Ready /\ api_key_set' = api_key_set
      /\ synapi_free_curl_handle({n}) /\ fault' = fault
      /\ i \in Slots /\ pool[i] = n
  BY <1>1, PoolSizeAssumption
     DEF ScanFound, Scanning, keyVars, Slots, TypeOK, ControlType
<1>3. Ready' = Ready
  BY <1>2 DEF Ready
<1>4. n \in Calls /\ n \in InFlight
  BY <1>1, <1>2 DEF ScanFound, Scanning, ScanInv, InFlight
<1>5. Queued' = Queued /\ InFlight' = InFlight \ {n}
  BY <1>2, <1>4, NullAssumption
     DEF synapi_free_curl_handle, Queued, InFlight, TypeOK, SlotType
<1>6. n \notin Queued \cup dropped /\ ~(n > Len(log))
  <2>1. Len(log) \in Nat /\ n \in 1..Len(log) /\ n \notin Queued \cup dropped
    BY <1>4, LenProperties DEF TypeOK, ControlType, SlotsExclusive
  <2> QED BY <2>1
<1>7. StatusOf(n) \in {"sent", "registering"} /\ StatusOf(n)' = "ended"
  BY <1>2, <1>4, <1>5, <1>6 DEF StatusOf
<1>8. OthersStay(n)
  BY <1>2, <1>5 DEF OthersStay
<1>9. \E x \in {"sent", "registering"} : Box!Move(n, x, "ended")
  BY <1>2, <1>4, <1>7, <1>8, OldMoves
<1>10. Box!Finish(n)
  BY <1>2, <1>3, <1>9 DEF Box!Finish
<1> QED BY <1>4, <1>10

(* synapi_free(). *)
LEMMA CloseStep ==
    ASSUME TypeOK, SlotsExclusive, synapi_free
    PROVE  Box!Close
<1>1. /\ log' = log /\ dropped' = dropped /\ requests' = requests
      /\ Ready /\ Ready' = FALSE /\ api_key_set' = api_key_set
      /\ pool' = [s \in Slots |-> NULL]
  BY DEF synapi_free, InGame, Ready, keyVars
<1>2. Queued' = Queued /\ InFlight' = {}
  BY <1>1, NullAssumption DEF Queued, InFlight
<1>3. \A c \in InFlight : c \notin Queued \cup dropped /\ ~(c > Len(log))
  <2>1. Len(log) \in Nat
    BY LenProperties DEF TypeOK, ControlType
  <2> QED BY <2>1 DEF SlotsExclusive
<1>4. \A c \in Calls : StatusOf(c)' = IF c \in InFlight THEN "ended" ELSE StatusOf(c)
  BY <1>1, <1>2, <1>3 DEF StatusOf
<1>5. Stat' = [c \in Calls |-> IF c \in InFlight THEN "ended" ELSE Stat[c]]
  BY <1>4 DEF Stat
<1> QED BY <1>1, <1>5, BoxCount DEF Box!Close, Stat

(* The write callback: only an outstanding registration has an answer. *)
LEMMA AnswerStep ==
    ASSUME TypeOK, SlotsExclusive, MultiMirrorsPool, BodiesRegister,
           NEW c \in Calls, synapi_api_key_write(c)
    PROVE  Box!Answer
<1>1. /\ xfer[c] = "active" /\ api_key_set' = TRUE /\ Ready /\ Ready' = Ready
      /\ requests' = requests /\ pool' = pool /\ log' = log /\ dropped' = dropped
  BY DEF synapi_api_key_write, synapi_api_key, Driving, RunRead, Ready, slotVars
<1>2. answer[c] # <<>>
  <2>1. got[c] \in Nat /\ Unread(c) # <<>>
    BY ReadEffect DEF TypeOK, NetType
  <2>2. answer[c] = <<>> => Len(answer[c]) = 0
    BY EmptySeq
  <2>3. Len(answer[c]) = 0 => Unread(c) = <<>>
    BY <2>1, SubSeqEmpty DEF Unread
  <2> QED BY <2>1, <2>2, <2>3
<1>3. c \in InFlight /\ log[c].api_key_request
  BY <1>1, <1>2 DEF MultiMirrorsPool, BodiesRegister, IsRegistration
<1>4. ~(c > Len(log)) /\ c \notin Queued \cup dropped
  <2>1. Len(log) \in Nat /\ c \in 1..Len(log) /\ c \notin Queued \cup dropped
    BY <1>3, LenProperties DEF TypeOK, ControlType, SlotsExclusive
  <2> QED BY <2>1
<1>5. StatusOf(c) = "registering"
  BY <1>3, <1>4 DEF StatusOf
<1>6. Stat' = Stat
  BY <1>1 DEF Stat, StatusOf, Queued, InFlight
<1> QED BY <1>1, <1>5, <1>6 DEF Box!Answer, Box!In, Stat

(* The steps that the box does not see, or sees only as a failure. *)
LEMMA QuietStep ==
    ASSUME log' = log, requests' = requests, pool' = pool, dropped' = dropped,
           api_key_set' = api_key_set
    PROVE  /\ Ready' = Ready => UNCHANGED Box!vars
           /\ Ready /\ Ready' = FALSE => Box!Fail
<1>1. Stat' = Stat
  BY DEF Stat, StatusOf, Queued, InFlight
<1> QED BY <1>1 DEF Box!vars, Box!Fail, Stat

LEMMA BoxStep ==
    ASSUME EngineInv, QueuedOrdinary, Next
    PROVE  Box!Next \/ UNCHANGED Box!vars
<1> USE DEF EngineInv
<1>1. CASE NewServer
  <2>1. PICK n : n = NextCall
    OBVIOUS
  <2> QED BY <1>1, <2>1, RegisterStep DEF Box!Next
<1>2. CASE NewServerNoHandle
  BY <1>2, FailingStep DEF Box!Next
<1>3. ASSUME NEW r \in Workload, Enqueue(r) \/ EnqueueFull(r)
      PROVE  Box!Next
  <2>1. PICK n : n = NextCall
    OBVIOUS
  <2> QED BY <1>3, <2>1, AcceptStep, RefuseStep DEF Box!Next
<1>4. CASE synapi_free
  BY <1>4, CloseStep DEF Box!Next
<1>5. CASE PerformSend
  BY <1>5, DispatchStep DEF Box!Next
<1>6. CASE ScanFound
  BY <1>6, FinishStep DEF Box!Next
<1>7. ASSUME NEW c \in Calls, synapi_api_key_write(c)
      PROVE  Box!Next
  BY <1>7, AnswerStep DEF Box!Next
<1>8. CASE PerformNoHandle \/ \E c \in Calls : KeyOverrun(c)
  <2>1. /\ log' = log /\ requests' = requests /\ pool' = pool /\ dropped' = dropped
        /\ api_key_set' = api_key_set /\ Ready /\ Ready' = FALSE
    BY <1>8 DEF PerformNoHandle, NoFreeHandle, KeyOverrun, Driving, InGame, Ready, slotVars,
                keyVars
  <2> QED BY <2>1, QuietStep DEF Box!Next
<1>9. ASSUME log' = log, requests' = requests, pool' = pool, dropped' = dropped,
             api_key_set' = api_key_set, alive' = alive, fault' = fault
      PROVE  UNCHANGED Box!vars
  BY <1>9, QuietStep DEF Ready
<1>10. CASE PerformSkip \/ PerformTimeout \/ PerformReady \/ DriveDone \/ PerformNoMessage
            \/ PerformReap \/ ScanNext \/ ScanOver \/ Stopped
  <2>1. ScanNext => fault' = fault
    BY ScanNextSafe
  <2> QED
    BY <1>9, <1>10, <2>1 DEF PerformSkip, PerformTimeout, PerformReady, Select, DriveDone,
       PerformReap, ScanNext, ScanOver, PerformNoMessage, Stopped, vars, slotVars, keyVars
<1>11. ASSUME NEW c \in Calls, Drive(c) \/ NetBytes(c) \/ NetClose(c)
       PROVE  UNCHANGED Box!vars
  BY <1>9, <1>11 DEF Drive, Driving, NetBytes, NetClose, Outside, slotVars, keyVars
<1> QED BY <1>1, <1>2, <1>3, <1>4, <1>5, <1>6, <1>7, <1>8, <1>10, <1>11
        DEF Next, Application, synapi_perform, RunSingle, Environment, Scan

(* The engine implements the box: every request is handed to curl at most
   once and only through an open gate, is refused only by a full queue and
   never comes back to it, and only the answer to an outstanding registration
   opens the gate. *)
THEOREM EngineImplementsBox == Spec => ImplementsBox
<1>1. Init => QueuedOrdinary /\ Box!Init
  <2> SUFFICES ASSUME Init PROVE QueuedOrdinary /\ Box!Init
    OBVIOUS
  <2>1. Queued = {} /\ Len(log) = 0
    BY NullAssumption, EmptySeq DEF Init, Queued
  <2>2. \A c \in Calls : StatusOf(c) = "new"
    BY <2>1, MaxCallsAssumption DEF StatusOf, Calls
  <2>3. api_key_set \in BOOLEAN /\ Ready = TRUE
    BY DEF Init, Ready
  <2> QED BY <2>1, <2>2, <2>3 DEF QueuedOrdinary, Box!Init
<1>2. EngineInv /\ QueuedOrdinary /\ [Next]_vars => QueuedOrdinary'
  <2>1. EngineInv /\ QueuedOrdinary /\ Next => QueuedOrdinary'
    BY QueuedOrdinaryStep DEF EngineInv
  <2>2. QueuedOrdinary /\ UNCHANGED vars => QueuedOrdinary'
    BY DEF QueuedOrdinary, Queued, vars, slotVars
  <2> QED BY <2>1, <2>2
<1>3. EngineInv /\ QueuedOrdinary /\ [Next]_vars => [Box!Next]_(Box!vars)
  <2>1. EngineInv /\ QueuedOrdinary /\ Next => [Box!Next]_(Box!vars)
    BY BoxStep
  <2>2. UNCHANGED vars => UNCHANGED Box!vars
    BY QuietStep DEF vars, slotVars, keyVars, Ready
  <2> QED BY <2>1, <2>2
<1>4. Spec => []EngineInv
  BY EngineInvariant
<1> QED BY <1>1, <1>2, <1>3, <1>4, PTL DEF Spec, ImplementsBox, Box!Spec
=============================================================================
