------------------------------- MODULE Synapi -------------------------------
(***************************************************************************)
(* The request engine of the synapi client library (synapi/api/synapi.c),  *)
(* on top of libcurl's multi interface (module CurlMulti).                 *)
(*                                                                         *)
(* Everything in the library runs on the game thread: the application      *)
(* calls synapi_new_server(), synapi_update_player() ... between frames,   *)
(* and synapi_perform() once per frame.  The network runs concurrently, so *)
(* synapi_perform() is split where it looks at the network: it sends at    *)
(* most one request, selects, lets curl drive every attached transfer, and *)
(* reads at most one message, for whose handle it scans the pool (the five *)
(* values of phase).  The scan goes slot by slot, because the loop it runs *)
(* and the one in synapi_free_curl_handle(), which it calls, share the     *)
(* global i; the other loops that call one of their own end with it.       *)
(*                                                                         *)
(* The n-th request the application submits is call n.  It names the       *)
(* request struct, and later the curl handle, that the code allocates for  *)
(* it: each call allocates fresh ones and no pointer is reused.            *)
(***************************************************************************)
EXTENDS ApiKey, CurlMulti

CONSTANTS PoolSize,    \* pool_size: the length of both requests[] and pool[]
          InitialKey,  \* the api_key argument of synapi_init(), or NULL
          Workload,    \* the ordinary requests the application submits
          DrivePeriod, \* frames between unconditional drives, 5 in the code
          NULL

Slots == 0..(PoolSize - 1)

-----------------------------------------------------------------------------
(***************************************************************************)
(* The arguments each public action passes to synapi_queue().  internal_id *)
(* is the player the request is about; for a new player it travels in the  *)
(* options, for the others also in user_data, which ends up in the URL.    *)
(***************************************************************************)
Request(action, method, api_key_request, user_data, internal_id) ==
    [action |-> action, method |-> method, api_key_request |-> api_key_request,
     user_data |-> user_data, internal_id |-> internal_id]

synapi_new_server == Request("SYN_SERVERS_NEW", "SYN_POST", TRUE, 0, NULL)

synapi_update_server == Request("SYN_SERVERS_UPDATE", "SYN_PUT", FALSE, 0, NULL)

synapi_new_player(id) == Request("SYN_PLAYERS_NEW", "SYN_POST", FALSE, 0, id)

synapi_update_player(id) == Request("SYN_PLAYERS_UPDATE", "SYN_PUT", FALSE, id, id)

synapi_delete_player(id) == Request("SYN_PLAYERS_DELETE", "SYN_DELETE", FALSE, id, id)

synapi_heartbeat == Request("SYN_HEARTBEAT", "SYN_PUT", FALSE, 0, NULL)

ASSUME PoolSizeAssumption == PoolSize \in Nat \ {0}
ASSUME DrivePeriodAssumption == DrivePeriod \in Nat \ {0}
ASSUME NullAssumption == NULL \notin Calls
ASSUME InitialKeyAssumption == InitialKey \in {NULL} \cup Seq(Byte)
ASSUME WorkloadAssumption ==
    \A r \in Workload : r.api_key_request = FALSE /\ r.action # "SYN_SERVERS_NEW"

-----------------------------------------------------------------------------
VARIABLES log,              \* the request of each call so far, in call order
          requests, pool,   \* the two slot arrays of synapi_t
          api_key, api_key_set, encoded_api_key,
          counter,          \* multi_perform_counter
          phase,            \* where in synapi_perform() the game thread is
          i,                \* the loop variable of the scan for a finished transfer
          existing_handle,  \* the handle the message was for that it scans for
          url,              \* the URL each sent request was given
          dropped,          \* calls synapi_queue() found no slot for
          heap,             \* what the library has allocated for the calls
          alive,            \* synapi_free() has not been called
          fault             \* the undefined behaviour that ended the program

slotVars == <<requests, pool>>
keyVars  == <<api_key, api_key_set, encoded_api_key>>
scanVars == <<i, existing_handle>>
vars     == <<log, slotVars, keyVars, curlVars, counter, phase, scanVars, netVars, url,
              dropped, heap, alive, fault>>

Queued   == {c \in Calls : \E s \in Slots : requests[s] = c}
InFlight == {c \in Calls : \E s \in Slots : pool[s] = c}
Ready    == alive /\ fault = "none"
InGame   == Ready /\ phase = "game"
NextCall == Len(log) + 1

(* The index at which a scan of the array from 0 first meets x. *)
First(array, x, s) == array[s] = x /\ \A t \in Slots : t < s => array[t] # x

(* Variant: the scan stops one slot early. *)
FirstUsedShort(array, s) == /\ s < PoolSize - 1 /\ array[s] # NULL
                            /\ \A t \in Slots : t < s => array[t] = NULL

(* The index at which a scan first meets something other than NULL. *)
FirstUsed(array, s) == array[s] # NULL /\ \A t \in Slots : t < s => array[t] = NULL

-----------------------------------------------------------------------------
(***************************************************************************)
(* synapi_init(): both arrays empty, no key unless one was passed.         *)
(***************************************************************************)
Init ==
    /\ log = <<>>
    /\ requests = [s \in Slots |-> NULL]
    /\ pool = [s \in Slots |-> NULL]
    /\ api_key_set = (InitialKey # NULL)
    /\ api_key = IF InitialKey = NULL THEN <<>> ELSE StoredKey(InitialKey)
    /\ encoded_api_key = IF InitialKey = NULL THEN NULL
                         ELSE curl_escape(StoredKey(InitialKey))
    /\ curl_multi_init /\ NetInit
    /\ counter = 0 /\ phase = "game"
    /\ i = 0 /\ existing_handle = NULL
    /\ url = [c \in Calls |-> NULL]
    /\ dropped = {} /\ heap = {}
    /\ alive = TRUE /\ fault = "none"

(***************************************************************************)
(* synapi_build_url(): only the registration URL is built without the key. *)
(***************************************************************************)
synapi_build_url(r) ==
    [player |-> IF r.action \in {"SYN_PLAYERS_UPDATE", "SYN_PLAYERS_DELETE"}
                THEN r.user_data ELSE NULL,
     key    |-> IF r.action = "SYN_SERVERS_NEW" THEN NULL ELSE encoded_api_key]

(* Variant: the registration does not shut the gate. *)
KeySetWhileRegistering(r) == api_key_set

(* A registration withdraws the key it is going to replace. *)
KeySetAfterSend(r) == api_key_set /\ ~r.api_key_request

(* Variant: the slot is not cleared. *)
FreeRequestKeepsSlot(c) == UNCHANGED requests

(* synapi_free_request(): the slot that refers to the request is cleared. *)
synapi_free_request(c) ==
    requests' = [s \in Slots |-> IF requests[s] = c THEN NULL ELSE requests[s]]

(* Variant: the scan stops one slot early. *)
GetCurlHandleShort(p) == First(pool, NULL, p) /\ p < PoolSize - 1

(* synapi_get_curl_handle(): the pool slot the next handle goes to. *)
synapi_get_curl_handle(p) == First(pool, NULL, p)

(***************************************************************************)
(* synapi_send() of call c with request r, using pool slot p, when the     *)
(* heap holds h: the curl handle takes the headers over and the request    *)
(* struct is freed.  The old encoded_api_key stays.                        *)
(***************************************************************************)
synapi_send(c, r, p, h) ==
    /\ url' = [url EXCEPT ![c] = synapi_build_url(r)]
    /\ pool' = [pool EXCEPT ![p] = c]
    /\ api_key_set' = KeySetAfterSend(r)
    /\ api_key' = IF r.api_key_request THEN <<>> ELSE api_key
    /\ curl_multi_add_handle(c)
    /\ synapi_free_request(c)
    /\ heap' = (h \cup {<<"curl", c>>}) \ {<<"request", c>>}
    /\ UNCHANGED encoded_api_key

(* synapi_get_curl_handle() falls off its end and returns no pointer. *)
PoolExhausted == \A p \in Slots : ~synapi_get_curl_handle(p)

NoFreeHandle == /\ fault' = "no_free_handle"
                /\ UNCHANGED <<slotVars, keyVars, curlVars, counter, phase, scanVars, netVars,
                               url, dropped, heap, alive>>

Allocated(c) == {<<"request", c>>, <<"headers", c>>}

(***************************************************************************)
(* The application's calls.  synapi_queue() sends a registration at once.  *)
(***************************************************************************)
NewServer ==
    /\ InGame /\ NextCall \in Calls
    /\ log' = Append(log, synapi_new_server)
    /\ \E p \in Slots :
          /\ synapi_get_curl_handle(p)
          /\ synapi_send(NextCall, synapi_new_server, p, heap \cup Allocated(NextCall))
    /\ UNCHANGED <<msglist, todo, counter, phase, scanVars, netVars, dropped, alive, fault>>

NewServerNoHandle ==
    /\ InGame /\ NextCall \in Calls
    /\ PoolExhausted
    /\ log' = Append(log, synapi_new_server)
    /\ NoFreeHandle

(* Variant: every request goes to the first slot. *)
FirstRequestSlot(s) == s = 0

(* The slot a scan of requests[] chooses for a new request. *)
FreeRequestSlot(s) == First(requests, NULL, s)

Enqueue(r) ==
    /\ InGame /\ NextCall \in Calls
    /\ log' = Append(log, r)
    /\ \E s \in Slots :
          /\ FreeRequestSlot(s)
          /\ requests' = [requests EXCEPT ![s] = NextCall]
    /\ heap' = heap \cup Allocated(NextCall)
    /\ UNCHANGED <<pool, keyVars, curlVars, counter, phase, scanVars, netVars, url, dropped,
                   alive, fault>>

(* synapi_queue() returns -1 and nothing refers to the request any more. *)
EnqueueFull(r) ==
    /\ InGame /\ NextCall \in Calls
    /\ \A s \in Slots : ~FreeRequestSlot(s)
    /\ log' = Append(log, r)
    /\ dropped' = dropped \cup {NextCall}
    /\ heap' = heap \cup Allocated(NextCall)
    /\ UNCHANGED <<slotVars, keyVars, curlVars, counter, phase, scanVars, netVars, url,
                   alive, fault>>

(***************************************************************************)
(* synapi_free(): what the pool's handles hold besides the handle itself   *)
(* and everything requests[] refers to stays allocated.                    *)
(***************************************************************************)
synapi_free ==
    /\ InGame
    /\ alive' = FALSE
    /\ curl_multi_cleanup
    /\ heap' = heap \ ({"curl"} \X InFlight)
    /\ pool' = [s \in Slots |-> NULL]
    /\ UNCHANGED <<log, requests, keyVars, todo, counter, phase, scanVars, netVars, url,
                   dropped, fault>>

(* Variant: transfers in the pool are not counted. *)
QueuedRequestsOnly == Cardinality({s \in Slots : requests[s] # NULL})

(* synapi_queued(): without a key the transfers in the pool do not count. *)
synapi_queued ==
    (IF api_key_set THEN Cardinality({s \in Slots : pool[s] # NULL}) ELSE 0)
    + Cardinality({s \in Slots : requests[s] # NULL})

-----------------------------------------------------------------------------
(* Only with a key are queued requests turned into transfers. *)
KeyGate == api_key_set

(***************************************************************************)
(* synapi_perform(), first part: with a key, the queued request in the     *)
(* lowest slot is sent, whether or not the pool has room for it.           *)
(***************************************************************************)
PerformSend ==
    /\ InGame /\ KeyGate
    /\ \E s, p \in Slots :
          /\ FirstUsed(requests, s)
          /\ synapi_get_curl_handle(p)
          /\ synapi_send(requests[s], log[requests[s]], p, heap)
    /\ phase' = "select"
    /\ UNCHANGED <<log, msglist, todo, counter, scanVars, netVars, dropped, alive, fault>>

PerformNoHandle ==
    /\ InGame /\ KeyGate
    /\ \E s \in Slots : FirstUsed(requests, s)
    /\ PoolExhausted
    /\ NoFreeHandle
    /\ UNCHANGED log

PerformSkip ==
    /\ InGame
    /\ KeyGate => \A s \in Slots : ~FirstUsed(requests, s)
    /\ phase' = "select"
    /\ UNCHANGED <<log, slotVars, keyVars, curlVars, counter, scanVars, netVars, url,
                   dropped, heap, alive, fault>>

(***************************************************************************)
(* select() and the decision to drive.  A socket can be ready only if some *)
(* transfer has been driven before and so has a socket; an error or a      *)
(* timeout is always possible and counts one frame.                        *)
(***************************************************************************)
SelectReady == DrivePeriod

(* Variant: a frame without activity is not counted. *)
SelectTimeoutUncounted == counter

SelectTimeout == counter + 1

(* Variant: the counter is not reset by a drive. *)
SelectWithoutReset(n) ==
    /\ Ready /\ phase = "select"
    /\ counter' = n
    /\ IF n = DrivePeriod THEN phase' = "drive" /\ DriveStart
       ELSE phase' = "reap" /\ todo' = todo
    /\ UNCHANGED <<log, slotVars, keyVars, multi, xfer, msglist, scanVars, netVars, url,
                   dropped, heap, alive, fault>>

Select(n) ==
    /\ Ready /\ phase = "select"
    /\ IF n = DrivePeriod
       THEN counter' = 0 /\ phase' = "drive" /\ DriveStart
       ELSE counter' = n /\ phase' = "reap" /\ todo' = todo
    /\ UNCHANGED <<log, slotVars, keyVars, multi, xfer, msglist, scanVars, netVars, url,
                   dropped, heap, alive, fault>>

PerformTimeout == Select(SelectTimeout)

PerformReady == curl_multi_fdset # {} /\ Select(SelectReady)

(***************************************************************************)
(* curl_multi_perform(): one step per attached handle.  Whatever a drive   *)
(* does that calls back into the library is an action of its own below.    *)
(***************************************************************************)
Driving == /\ Ready /\ phase = "drive"
           /\ UNCHANGED <<log, slotVars, counter, phase, scanVars, url, dropped, heap, alive>>

Drive(c) == /\ Driving
            /\ RunConnect(c) \/ RunIdle(c) \/ RunSent(c)
            /\ UNCHANGED <<keyVars, fault>>

(* Variant: the gate stays as it is. *)
ApiKeyUnannounced(bytes) ==
    /\ api_key' = StoredKey(bytes)
    /\ encoded_api_key' = curl_escape(StoredKey(bytes))
    /\ UNCHANGED api_key_set

(***************************************************************************)
(* synapi_api_key(): whatever bytes it is given become the key.            *)
(***************************************************************************)
synapi_api_key(bytes) ==
    /\ api_key' = StoredKey(bytes)
    /\ api_key_set' = TRUE
    /\ encoded_api_key' = curl_escape(StoredKey(bytes))

(* The write callback, with the bytes curl has read. *)
synapi_api_key_write(c) ==
    /\ Driving
    /\ RunRead(c)
    /\ synapi_api_key(Unread(c))
    /\ UNCHANGED fault

(***************************************************************************)
(* The terminator synapi_api_key() writes past the end of api_key[] hits   *)
(* the low byte of encoded_api_key, which is freed next.  Without a harm   *)
(* only if that byte was 0 already: synapi_api_key_write() above.          *)
(***************************************************************************)
KeyOverrun(c) ==
    /\ Driving
    /\ RunRead(c)
    /\ Overruns(Unread(c))
    /\ encoded_api_key # NULL
    /\ fault' = "key_overrun"
    /\ UNCHANGED keyVars

DriveDone ==
    /\ Ready /\ phase = "drive" /\ DriveOver
    /\ phase' = "reap"
    /\ UNCHANGED <<log, slotVars, keyVars, curlVars, counter, scanVars, netVars, url,
                   dropped, heap, alive, fault>>

(* Variant: the header list is not freed with the handle. *)
FreeHandleOnly(found) ==
    /\ pool' = [s \in Slots |-> IF pool[s] \in found THEN NULL ELSE pool[s]]
    /\ heap' = heap \ ({"curl"} \X found)

(* Variant: the pool slot is not cleared. *)
FreeHandleKeepsSlot(found) ==
    /\ heap' = heap \ ({"curl", "headers"} \X found)
    /\ UNCHANGED pool

synapi_free_curl_handle(found) ==
    /\ pool' = [s \in Slots |-> IF pool[s] \in found THEN NULL ELSE pool[s]]
    /\ heap' = heap \ ({"curl", "headers"} \X found)

(* Variant: the loop over the slots has a variable of its own. *)
OwnLoopVariable(k) == k

(* Where synapi_free_curl_handle() leaves i, which was k: its loop over the
   slots, which clears the handle's, runs to the end. *)
AfterFreeLoop(k) == PoolSize

(***************************************************************************)
(* curl_multi_info_read() takes the oldest message off the list, and the   *)
(* pool is scanned for the handle it is for.                               *)
(***************************************************************************)
PerformReap ==
    /\ Ready /\ phase = "reap" /\ msglist # <<>>
    /\ existing_handle' = Head(msglist) /\ msglist' = Tail(msglist)
    /\ phase' = "scan" /\ i' = 0
    /\ UNCHANGED <<log, slotVars, keyVars, multi, xfer, todo, counter, netVars, url,
                   dropped, heap, alive, fault>>

Scanning == Ready /\ phase = "scan"

(* curl frees a message with the handle it is for, when that is detached. *)
MessageFreed == existing_handle \notin multi

(* A slot in use is compared with the message. *)
ScanNext ==
    /\ Scanning /\ i < PoolSize /\ pool[i] # existing_handle
    /\ i' = i + 1
    /\ fault' = IF pool[i] # NULL /\ MessageFreed THEN "freed_message" ELSE fault
    /\ UNCHANGED <<log, slotVars, keyVars, curlVars, counter, phase, existing_handle,
                   netVars, url, dropped, heap, alive>>

(* The handle is detached and freed; then the scan goes on behind i. *)
ScanFound ==
    /\ Scanning /\ i < PoolSize /\ pool[i] = existing_handle
    /\ curl_multi_remove_handle({existing_handle}, msglist)
    /\ synapi_free_curl_handle({existing_handle})
    /\ i' = AfterFreeLoop(i) + 1
    /\ UNCHANGED <<log, requests, keyVars, todo, counter, phase, existing_handle, netVars,
                   url, dropped, alive, fault>>

ScanOver ==
    /\ Scanning /\ ~(i < PoolSize)
    /\ phase' = "game" /\ i' = 0 /\ existing_handle' = NULL
    /\ UNCHANGED <<log, slotVars, keyVars, curlVars, counter, netVars, url, dropped, heap,
                   alive, fault>>

Scan == ScanNext \/ ScanFound \/ ScanOver

PerformNoMessage ==
    /\ Ready /\ phase = "reap" /\ msglist = <<>>
    /\ phase' = "game"
    /\ UNCHANGED <<log, slotVars, keyVars, curlVars, counter, scanVars, netVars, url,
                   dropped, heap, alive, fault>>

-----------------------------------------------------------------------------
(***************************************************************************)
(* The network acts at any time.  Only the body of a registration's answer *)
(* reaches the library.                                                    *)
(***************************************************************************)
Outside == /\ Ready
           /\ UNCHANGED <<log, slotVars, keyVars, counter, phase, scanVars, url, dropped,
                          heap, alive, fault>>

NetBytes(c) == Outside /\ Arrives(c) /\ log[c].api_key_request

NetClose(c) == Outside /\ Ends(c)

-----------------------------------------------------------------------------
Application == \/ NewServer \/ NewServerNoHandle \/ synapi_free
               \/ \E r \in Workload : Enqueue(r) \/ EnqueueFull(r)

RunSingle == \E c \in Calls : Drive(c) \/ synapi_api_key_write(c) \/ KeyOverrun(c)

synapi_perform == \/ PerformSend \/ PerformNoHandle \/ PerformSkip
                  \/ PerformTimeout \/ PerformReady
                  \/ RunSingle \/ DriveDone
                  \/ PerformReap \/ Scan \/ PerformNoMessage

Environment == \E c \in Calls : NetBytes(c) \/ NetClose(c)

(* Nothing happens to a handle that was freed, or after a fault. *)
Stopped == ~Ready /\ UNCHANGED vars

Next == Application \/ synapi_perform \/ Environment \/ Stopped

Spec == Init /\ [][Next]_vars

(***************************************************************************)
(* GameFrame() calls synapi_perform() on every frame, and curl returns     *)
(* from every call, so the steps of synapi_perform() keep being taken.     *)
(* Nothing is assumed of the application or of the network.                *)
(***************************************************************************)
FairSpec == Spec /\ WF_vars(synapi_perform)
-----------------------------------------------------------------------------
Escaped == [percent : BOOLEAN, byte : Byte]

ControlType ==
    /\ log \in Seq(Workload \cup {synapi_new_server}) /\ Len(log) <= MaxCalls
    /\ counter \in 0..(DrivePeriod - 1)
    /\ phase \in {"game", "select", "drive", "reap", "scan"}
    /\ i \in 0..(PoolSize + 1) /\ existing_handle \in Calls \cup {NULL}
    /\ phase # "scan" => i = 0 /\ existing_handle = NULL
    /\ dropped \subseteq Calls
    /\ alive \in BOOLEAN
    /\ fault \in {"none", "no_free_handle", "key_overrun", "freed_message"}

SlotType ==
    /\ requests \in [Slots -> Calls \cup {NULL}]
    /\ pool \in [Slots -> Calls \cup {NULL}]
    /\ heap \subseteq ({"request", "headers", "curl"} \X Calls)

KeyType ==
    /\ api_key \in Seq(Byte) /\ api_key_set \in BOOLEAN
    /\ encoded_api_key \in {NULL} \cup Seq(Escaped)
    /\ url \in [Calls -> {NULL} \cup [player : {NULL} \cup {r.user_data : r \in Workload},
                                      key : {NULL} \cup Seq(Escaped)]]

(* Type invariant: in particular multi_perform_counter stays below the number
   it is compared with, so the comparison for equality never misses it. *)
TypeOK == ControlType /\ SlotType /\ KeyType /\ CurlType /\ NetType

Injective(array) == \A s, t \in Slots : array[s] = array[t] /\ array[s] # NULL => s = t

(* A call is in at most one place: one slot of requests[], one slot of
   pool[], or dropped.  The request synapi_send() hands to curl has left
   requests[] by the time synapi_send() returns, so no frame sends it again. *)
SlotsExclusive ==
    /\ Injective(requests) /\ Injective(pool)
    /\ Queued \cap InFlight = {}
    /\ dropped \cap (Queued \cup InFlight) = {}
    /\ Queued \cup InFlight \cup dropped \subseteq 1..Len(log)

(* The pool and curl agree: the pool holds exactly the handles attached to
   the multi handle, and every finished one of them has exactly one message,
   on the list or just being looked at.  So no finished transfer is left in
   the pool without a message to reap it.  A drive works on attached handles
   only and leaves none out. *)
MultiMirrorsPool ==
    /\ multi = InFlight
    /\ \A c \in Calls : xfer[c] # "none" <=> c \in multi
    /\ \A c \in Calls : xfer[c] = "msgsent" <=>
          \/ \E k \in DOMAIN msglist : msglist[k] = c
          \/ c = existing_handle /\ c \in multi
    /\ \A j, k \in DOMAIN msglist : msglist[j] = msglist[k] => j = k
    /\ \A k \in DOMAIN msglist : msglist[k] # existing_handle
    /\ todo \subseteq multi /\ (phase # "drive" => todo = {})

(* While the library is in use it has neither freed what it still refers to
   nor lost what it allocated, except for the requests synapi_queue() had no
   slot for: those stay allocated for good. *)
HeapExact ==
    alive => heap = ({"request"} \X (Queued \cup dropped))
                    \cup ({"headers"} \X (Queued \cup dropped \cup InFlight))
                    \cup ({"curl"} \X InFlight)

(* The scan for a message's handle always finds it, and what it does after
   that is safe: detaching the handle has freed the message, yet the scan goes
   on and would compare every slot in use behind it with the message, if the
   loop that clears the slot did not bring the shared i to the end. *)
ScanReapsOnce ==
    /\ fault # "freed_message"
    /\ phase = "scan" /\ i >= PoolSize => MessageFreed

IsRegistration(c) == c \in 1..Len(log) /\ log[c].api_key_request

(* k is the escaped form of bytes synapi_api_key() was really given, by the
   application or by one call of a registration's write callback. *)
GivenUrlKey(k) ==
    \/ InitialKey # NULL /\ k = curl_escape(StoredKey(InitialKey))
    \/ \E c \in Calls : /\ IsRegistration(c)
                        /\ \E n \in 1..got[c] : \E j \in 1..n :
                              k = curl_escape(StoredKey(SubSeq(answer[c], j, n)))

(* An open gate was earned after the newest registration: the key is the
   one passed to synapi_init() only if no registration was ever sent, and
   otherwise it is the last piece read of some registration's answer; what
   goes into URLs is always the escaped form of that same key. *)
KeyEarned ==
    fault = "none" /\ api_key_set =>
      /\ encoded_api_key = curl_escape(api_key)
      /\ \/ /\ InitialKey # NULL /\ api_key = StoredKey(InitialKey)
            /\ \A c \in Calls : ~IsRegistration(c)
         \/ \E c \in Calls :
              /\ IsRegistration(c)
              /\ \E j \in 1..got[c] : api_key = StoredKey(SubSeq(answer[c], j, got[c]))

(* No ordinary request was ever sent before there was a key: every URL holds
   the escaped form of bytes that synapi_api_key() was really given. *)
UrlKeysEarned ==
    \A c \in Calls : url[c] # NULL /\ ~IsRegistration(c) => GivenUrlKey(url[c].key)

(* Keys are earned before they are used, in the handle and in every URL, in
   whatever order registrations, their answers and other requests meet. *)
KeysEarned == KeyEarned /\ UrlKeysEarned

(* Losing a request and running out of curl handles both need more calls
   than the arrays have slots: within pool_size calls the library neither
   drops a request nor reaches the end of synapi_get_curl_handle(). *)
OverloadOnly ==
    dropped # {} \/ fault = "no_free_handle" => Len(log) > PoolSize

(* The loop "while (synapi_queued(handle) != 0) synapi_perform(handle)" of the
   sample ends, once there is a key, only when nothing is outstanding. *)
DrainedMeansDone ==
    alive /\ api_key_set /\ synapi_queued = 0 =>
        multi = {} /\ Queued = {} /\ msglist = <<>>

-----------------------------------------------------------------------------
Over == ~alive \/ fault # "none"

(* A request handed to curl is eventually started, although a new transfer has
   no socket that could wake select(): only the frame counter gets curl to
   work on it. *)
SentIsStarted ==
    \A c \in Calls : xfer[c] = "init" ~> (xfer[c] # "init" \/ Over)

(* A transfer that is over on the network is eventually removed from the
   pool, although a frame drives curl only every DrivePeriod-th time unless
   a socket is ready, and reaps only one message. *)
AnsweredIsReaped ==
    \A c \in Calls : closed[c] ~> (c \notin InFlight \/ Over)

(* Once the application stops submitting, every queued request leaves the
   queue, unless the key is taken away from under it. *)
QueueDrains ==
    \A c \in Calls :
      (c \in Queued /\ Len(log) = MaxCalls) ~> (c \notin Queued \/ ~api_key_set \/ Over)

(* A registration opens the gate again if any body reaches it, however late
   and in whatever pieces, also when an older registration gets it: only one
   that ends without a body leaves the queue waiting for ever. *)
BodyOpensGate ==
    \A c \in Calls :
      (Unread(c) # <<>> /\ Len(log) = MaxCalls) ~> (api_key_set \/ Over)
=============================================================================
