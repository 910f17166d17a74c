----------------------------- MODULE DBManager -----------------------------
(***************************************************************************)
(* SourceMod's threaded database operations (core/Database.cpp, with the   *)
(* operations of core/smn_database.cpp), on top of ThreadWorker.           *)
(*                                                                         *)
(* An operation is put into a queue by priority and one job is made for    *)
(* it; the worker's job takes an operation (not necessarily that one),     *)
(* runs its thread part and puts it into the think queue; the game thread  *)
(* runs the think part of one operation per frame, or of all operations of *)
(* an owner that unloads, and destroys them.  The think part calls a       *)
(* plugin's function, which may call the database manager again.           *)
(*                                                                         *)
(* Operation n is the n-th that AddToThreadQueue() accepted.  One that it  *)
(* refuses is run at once by its caller and leaves nothing behind.         *)
(***************************************************************************)
EXTENDS ThreadWorker, Sublists

CONSTANTS Plugins, Extensions,  \* the identities that own operations
          Drivers,              \* the driver objects extensions register
          DefaultDrivers,       \* those whose identifier is driver_default
          Prios,                \* the priorities in use, 0 the highest
          NULL

ASSUME PriosAssumption == Prios \subseteq 0..2 /\ 0 \in Prios
ASSUME NullOwnsNothing == /\ NULL \notin Plugins \cup Extensions \cup Drivers
                          /\ (Plugins \cup Extensions) \cap Drivers = {}

Owners == Plugins \cup Extensions

VARIABLES ops,          \* owner, driver and prio of each accepted operation
          m_OpQueue,    \* per priority, the operations no job has taken
          cur,          \* the operation in its thread part, or NoJob
          m_ThinkQueue,
          thinking,     \* the operation in its think part, or NoJob
          templist,     \* operations a handler took out of the think queue
          handler,      \* the handler the game thread is in
          subject,      \* the driver or owner that handler is about
          adding,       \* the driver AddDriver() is about to register
          loaded,       \* the owners that are not unloaded
          disallow,     \* the plugins with the property DisallowDBThreads
          s_pAddBlock,
          m_drivers, m_pDefault, realDriver,  \* of a conf without a driver
          m_drSafety,   \* the drivers OnWorkerStart() prepared
          destroyed

opVars   == <<ops, m_OpQueue>>
gameVars == <<thinking, templist, handler, subject, adding, loaded, disallow, s_pAddBlock,
              m_drivers, m_pDefault, realDriver, destroyed>>
dbVars   == <<opVars, gameVars, cur, m_ThinkQueue, m_drSafety>>
vars     == <<workerVars, dbVars>>

Init ==
    /\ WorkerInit
    /\ ops = <<>> /\ m_OpQueue = [p \in Prios |-> <<>>]
    /\ cur = NoJob /\ m_ThinkQueue = <<>> /\ thinking = NoJob /\ templist = <<>>
    /\ handler = "none" /\ subject = NULL /\ adding = NULL
    /\ loaded = Owners /\ disallow = {} /\ s_pAddBlock = NULL
    /\ m_drivers = <<>> /\ m_pDefault = NULL /\ realDriver = NULL
    /\ m_drSafety = <<>> /\ destroyed = {}

-----------------------------------------------------------------------------
(***************************************************************************)
(* The worker thread.                                                      *)
(***************************************************************************)
OnWorkerStart == /\ Begin /\ m_drSafety' = m_drivers
                 /\ UNCHANGED <<opVars, gameVars, cur, m_ThinkQueue>>

OnWorkerStop == /\ Exit /\ m_drSafety' = <<>>
                /\ UNCHANGED <<opVars, gameVars, cur, m_ThinkQueue>>

WorkerLoop == (RunLoop \/ SpuriousWakeup) /\ UNCHANGED dbVars

(* The highest priority that has an operation. *)
GetLikelyQueue == CHOOSE p \in Prios :
    \/ m_OpQueue[p] # <<>> /\ \A q \in Prios : q < p => m_OpQueue[q] = <<>>
    \/ \A q \in Prios : m_OpQueue[q] = <<>>

(* Variant: the operation stays in the queue. *)
TakeLeaves == UNCHANGED m_OpQueue

TakePops == m_OpQueue' = [m_OpQueue EXCEPT ![GetLikelyQueue] = Tail(@)]

(* RunThread(): under m_pQueueLock the job takes an operation. *)
RunThreadTake ==
    /\ pc = "job" /\ cur = NoJob /\ m_OpQueue[GetLikelyQueue] # <<>>
    /\ cur' = Head(m_OpQueue[GetLikelyQueue])
    /\ TakePops
    /\ UNCHANGED <<workerVars, ops, gameVars, m_ThinkQueue, m_drSafety>>

(* The thread part, and under m_pThinkLock the think queue.  A job that found
   no operation is over at once. *)
RunThreadPut ==
    /\ cur # NoJob \/ m_OpQueue[GetLikelyQueue] = <<>>
    /\ RunFrameJobDone
    /\ cur' = NoJob
    /\ m_ThinkQueue' = IF cur = NoJob THEN m_ThinkQueue ELSE Append(m_ThinkQueue, cur)
    /\ UNCHANGED <<opVars, gameVars, m_drSafety>>

-----------------------------------------------------------------------------
(***************************************************************************)
(* The game thread.  It is free for a call unless one has not returned; a  *)
(* call comes from a frame or from a plugin's function in a think part.    *)
(***************************************************************************)
Free        == caller = "idle" /\ adding = NULL /\ made = Len(ops)
TopLevel    == Free /\ handler = "none" /\ thinking = NoJob
InThink     == Free /\ thinking # NoJob
Acts(owner) == owner \in loaded /\ (TopLevel \/ (InThink /\ ops[thinking].owner = owner))

(* FindOrLoadDriver() of driver_default, for a driver that is registered. *)
FindDefault == LET found == Keep(m_drivers, DefaultDrivers)
               IN  IF found = <<>> THEN NULL ELSE Head(found)

GetDefaultDriver == IF m_pDefault = NULL THEN FindDefault ELSE m_pDefault

(* Variant: an unloading plugin is not told from any other. *)
NeverRefused(owner) == s_pAddBlock = owner

(* SQL_TQuery() and SQL_TConnect() look at DisallowDBThreads first. *)
Refused(owner) == owner \in disallow \/ s_pAddBlock = owner

(* Variant: the newest operation goes first. *)
GetQueuePushFront(prio) ==
    m_OpQueue' = [m_OpQueue EXCEPT ![prio] = <<Len(ops) + 1>> \o @]

GetQueuePush(prio) == m_OpQueue' = [m_OpQueue EXCEPT ![prio] = Append(@, Len(ops) + 1)]

(* The worker is made and started if need be and the operation is queued. *)
AddToThreadQueue(owner, driver, prio) ==
    /\ Acts(owner) /\ ~Refused(owner) /\ Len(ops) < MaxJobs
    /\ ops' = Append(ops, [owner |-> owner, driver |-> driver, prio |-> prio])
    /\ GetQueuePush(prio)
    /\ IF m_state = "stopped" THEN Start ELSE UNCHANGED workerVars
    /\ UNCHANGED <<thinking, templist, handler, subject, adding, loaded, disallow,
                   s_pAddBlock, m_drivers, realDriver, destroyed, cur, m_ThinkQueue,
                   m_drSafety>>

(* Then the job is made for it. *)
AddMakeThread == made < Len(ops) /\ MakeThread /\ UNCHANGED dbVars

(* A query goes to the driver of an open database, a connection to a named
   driver ... *)
SQL_TQuery(owner, prio) ==
    \E k \in DOMAIN m_drivers : /\ AddToThreadQueue(owner, m_drivers[k], prio)
                                /\ UNCHANGED m_pDefault

(* ... or to the default one. *)
SQL_TConnect(owner) ==
    /\ GetDefaultDriver # NULL
    /\ AddToThreadQueue(owner, GetDefaultDriver, 0)
    /\ m_pDefault' = GetDefaultDriver

(* Connect() on the game thread, with the conf that names no driver. *)
Connect ==
    /\ TopLevel \/ InThink
    /\ m_pDefault' = IF realDriver = NULL THEN GetDefaultDriver ELSE m_pDefault
    /\ realDriver' = IF realDriver = NULL THEN m_pDefault' ELSE realDriver
    /\ UNCHANGED <<workerVars, opVars, cur, m_ThinkQueue, m_drSafety, thinking, templist,
                   handler, subject, adding, loaded, disallow, s_pAddBlock, m_drivers,
                   destroyed>>

(* The configuration is read again: all ConfDbInfo are new. *)
OnSourceModLevelChange ==
    /\ TopLevel /\ realDriver' = NULL
    /\ UNCHANGED <<workerVars, opVars, cur, m_ThinkQueue, m_drSafety, thinking, templist,
                   handler, subject, adding, loaded, disallow, s_pAddBlock, m_drivers,
                   m_pDefault, destroyed>>

-----------------------------------------------------------------------------
(* Variant: the worker goes on. *)
KeepWorkerThread == UNCHANGED workerVars

KillWorkerThread == IF m_state = "stopped" THEN UNCHANGED workerVars ELSE Stop(FALSE)

(* An extension registers its driver; a plugin's call may have loaded it. *)
AddDriver(d) ==
    /\ TopLevel \/ InThink
    /\ d \notin ToSet(m_drivers) \cup {subject}
    /\ adding' = d /\ KillWorkerThread
    /\ UNCHANGED <<opVars, cur, m_ThinkQueue, m_drSafety, thinking, templist, handler,
                   subject, loaded, disallow, s_pAddBlock, m_drivers, m_pDefault,
                   realDriver, destroyed>>

AddDriverRest ==
    /\ adding # NULL /\ caller = "idle"
    /\ m_drivers' = Append(m_drivers, adding) /\ adding' = NULL
    /\ UNCHANGED <<workerVars, opVars, cur, m_ThinkQueue, m_drSafety, thinking, templist,
                   handler, subject, loaded, disallow, s_pAddBlock, m_pDefault, realDriver,
                   destroyed>>

(* Only a dropped identity is kept from adding operations meanwhile. *)
AddBlock(h, who) == IF h = "drop" THEN who ELSE s_pAddBlock

(* RemoveDriver(), OnPluginUnloaded(), OnSourceModIdentityDropped() and
   OnSourceModShutdown() all begin by killing the worker. *)
Enter(h, who) ==
    /\ TopLevel /\ handler' = h /\ subject' = who /\ KillWorkerThread
    /\ s_pAddBlock' = AddBlock(h, who)
    /\ UNCHANGED <<opVars, cur, m_ThinkQueue, m_drSafety, thinking, templist, adding,
                   loaded, disallow, m_drivers, m_pDefault, realDriver, destroyed>>

RemoveDriver(d) == d \in ToSet(m_drivers) /\ Enter("remove", d)
OnPluginUnloaded(p) == p \in Plugins \cap loaded /\ Enter("unload", p)
OnSourceModIdentityDropped(x) == x \in Extensions \cap loaded /\ Enter("drop", x)
OnSourceModShutdown == Enter("shutdown", NULL)

(* The operations of a set move from the think queue to templist. *)
TakeOut(S) ==
    /\ templist' = Keep(m_ThinkQueue, S)
    /\ m_ThinkQueue' = Keep(m_ThinkQueue, DOMAIN ops \ S)

(* Variant: the confs and the think queue are left alone. *)
ForgetDriverOnly ==
    /\ m_drivers' = Keep(m_drivers, Drivers \ {subject})
    /\ UNCHANGED <<realDriver, templist, m_ThinkQueue>>

ForgetDriver ==
    /\ m_drivers' = Keep(m_drivers, Drivers \ {subject})
    /\ realDriver' = IF realDriver = subject THEN NULL ELSE realDriver
    /\ TakeOut({n \in DOMAIN ops : ops[n].driver = subject})

RemoveDriverRest ==
    /\ handler = "remove" /\ Free
    /\ ForgetDriver
    /\ handler' = "think"
    /\ UNCHANGED <<workerVars, opVars, cur, m_drSafety, thinking, subject, adding, loaded,
                   disallow, s_pAddBlock, m_pDefault, destroyed>>

DropOwnerRest ==
    /\ handler \in {"unload", "drop"} /\ Free
    /\ disallow' = IF handler = "unload" THEN disallow \cup {subject} ELSE disallow
    /\ TakeOut({n \in DOMAIN ops : ops[n].owner = subject})
    /\ handler' = "think"
    /\ UNCHANGED <<workerVars, opVars, cur, m_drSafety, thinking, subject, adding, loaded,
                   s_pAddBlock, m_drivers, m_pDefault, realDriver, destroyed>>

ThinkNext ==
    /\ handler = "think" /\ Free /\ thinking = NoJob /\ templist # <<>>
    /\ thinking' = Head(templist) /\ templist' = Tail(templist)
    /\ UNCHANGED <<workerVars, opVars, cur, m_ThinkQueue, m_drSafety, handler, subject,
                   adding, loaded, disallow, s_pAddBlock, m_drivers, m_pDefault,
                   realDriver, destroyed>>

HandlerReturns ==
    /\ \/ handler = "think" /\ thinking = NoJob /\ templist = <<>> /\ Free
       \/ handler = "shutdown" /\ Free
    /\ handler' = IF handler = "shutdown" THEN "over" ELSE "none"
    /\ loaded' = loaded \ {subject} /\ subject' = NULL /\ s_pAddBlock' = NULL
    /\ UNCHANGED <<workerVars, opVars, cur, m_ThinkQueue, m_drSafety, thinking, templist,
                   adding, disallow, m_drivers, m_pDefault, realDriver, destroyed>>

(* RunFrame() of the manager: one think part per frame. *)
ThinkFrame ==
    /\ TopLevel /\ m_ThinkQueue # <<>>
    /\ thinking' = Head(m_ThinkQueue) /\ m_ThinkQueue' = Tail(m_ThinkQueue)
    /\ UNCHANGED <<workerVars, opVars, cur, m_drSafety, templist, handler, subject, adding,
                   loaded, disallow, s_pAddBlock, m_drivers, m_pDefault, realDriver,
                   destroyed>>

ThinkDone ==
    /\ InThink
    /\ destroyed' = destroyed \cup {thinking} /\ thinking' = NoJob
    /\ UNCHANGED <<workerVars, opVars, cur, m_ThinkQueue, m_drSafety, templist, handler,
                   subject, adding, loaded, disallow, s_pAddBlock, m_drivers, m_pDefault,
                   realDriver>>

-----------------------------------------------------------------------------
WorkerThread == OnWorkerStart \/ WorkerLoop \/ RunThreadTake \/ RunThreadPut \/ OnWorkerStop

GameContinues == \/ AddMakeThread \/ AddDriverRest \/ RemoveDriverRest \/ DropOwnerRest
                 \/ ThinkNext \/ HandlerReturns \/ ThinkDone
                 \/ (StopSignal \/ StopReturns) /\ UNCHANGED dbVars

Calls == \/ Connect \/ OnSourceModLevelChange \/ OnSourceModShutdown
         \/ \E o \in Owners : SQL_TConnect(o) \/ \E p \in Prios : SQL_TQuery(o, p)
         \/ \E d \in Drivers : AddDriver(d) \/ RemoveDriver(d)
         \/ \E o \in Owners : OnPluginUnloaded(o) \/ OnSourceModIdentityDropped(o)

Over == handler = "over" /\ UNCHANGED vars

Next == WorkerThread \/ GameContinues \/ ThinkFrame \/ Calls \/ Over

Spec == Init /\ [][Next]_vars

(***************************************************************************)
(* As for FairWorker; and whatever else the game thread does, frames come  *)
(* again and again, and each of them calls RunFrame().                     *)
(***************************************************************************)
FairSpec ==
    /\ Spec
    /\ WF_vars(OnWorkerStart \/ (RunLoop /\ UNCHANGED dbVars) \/ RunThreadTake
                 \/ RunThreadPut \/ OnWorkerStop)
    /\ WF_vars(GameContinues) /\ SF_vars(ThinkFrame)

-----------------------------------------------------------------------------
OpIds == 1..MaxJobs

(* Type invariant. *)
DBTypeOK ==
    /\ WorkerTypeOK
    /\ ops \in Seq([owner : Owners, driver : Drivers, prio : Prios])
    /\ m_OpQueue \in [Prios -> Seq(OpIds)] /\ m_ThinkQueue \in Seq(OpIds)
    /\ templist \in Seq(OpIds) /\ destroyed \subseteq OpIds
    /\ cur \in {NoJob} \cup OpIds /\ thinking \in {NoJob} \cup OpIds
    /\ handler \in {"none", "remove", "unload", "drop", "shutdown", "think", "over"}
    /\ subject \in Owners \cup Drivers \cup {NULL}
    /\ loaded \subseteq Owners /\ disallow \subseteq Plugins
    /\ s_pAddBlock \in Extensions \cup {NULL}
    /\ m_drivers \in Seq(Drivers) /\ m_drSafety \in Seq(Drivers)
    /\ {adding, m_pDefault, realDriver} \subseteq Drivers \cup {NULL}

One(n) == IF n = NoJob THEN <<>> ELSE <<n>>
Queued(p) == Keep(m_ThinkQueue \o One(cur), {n \in DOMAIN ops : ops[n].prio = p}) \o m_OpQueue[p]
Waiting == UNION {ToSet(m_OpQueue[p]) : p \in Prios}
InThread == Waiting \cup ToSet(One(cur)) \cup ToSet(m_ThinkQueue)
InSystem == InThread \cup ToSet(templist) \cup ToSet(One(thinking))

(* No operation is lost, thought twice or used after it is destroyed: each
   one is in exactly one queue, in the hands of one thread, or destroyed. *)
OpsConserved ==
    /\ InSystem \cup destroyed = DOMAIN ops /\ InSystem \cap destroyed = {}
    /\ IsInjective(m_ThinkQueue) /\ IsInjective(templist)
    /\ \A p \in Prios : IsInjective(m_OpQueue[p])
    /\ \A p, q \in Prios : p # q => ToSet(m_OpQueue[p]) \cap ToSet(m_OpQueue[q]) = {}
    /\ Waiting \cap (ToSet(m_ThinkQueue) \cup ToSet(templist)) = {}
    /\ ToSet(m_ThinkQueue) \cap ToSet(templist) = {}
    /\ cur \notin Waiting \cup ToSet(m_ThinkQueue) \cup ToSet(templist)
    /\ thinking \notin InThread \cup ToSet(templist)

(* Jobs and operations stay in step, although a job may take an operation
   other than the one it was made for: no job finds the queues empty ("wtf?"),
   and no operation is left in them without a job. *)
JobsMatchOps ==
    Cardinality(Waiting) = Len(m_ThreadQueue) + (IF pc = "job" /\ cur = NoJob THEN 1 ELSE 0)
                             + (Len(ops) - made)

(* Every operation is somewhere, and the worker has a job for each one that
   waits for it. *)
DBInv == DBTypeOK /\ OpsConserved /\ JobsMatchOps

(* The operations of one priority run their thread parts and stand in the
   think queue in the order they were added, across restarts of the worker. *)
PriorityKeepsOrder ==
    \A p \in Prios : \A i, k \in DOMAIN Queued(p) : i < k => Queued(p)[i] < Queued(p)[k]

(* A plugin or extension that is gone owns no operation: none of them can
   call its function any more. *)
GoneOwnsNothing == \A n \in InSystem : ops[n].owner \in loaded

(* Whatever RemoveDriver() forgets, queued operations and the confs refer to
   registered drivers, or to the one m_pDefault refers to. *)
DriversKnown ==
    LET known == ToSet(m_drivers) \cup {m_pDefault}
    IN  /\ \A n \in InSystem \ (ToSet(templist) \cup {thinking}) : ops[n].driver \in known
        /\ realDriver \in known \cup {NULL}

(* The worker shuts down exactly the drivers it initialised: m_drivers does
   not change between its start and its end. *)
SafetyMatches == pc \in Places \ {"none", "start", "done"} => m_drSafety = m_drivers

(* The handlers walk the think queue without m_pThinkLock, but never beside
   the worker. *)
UnlockedWalkAlone == handler \in {"remove", "unload", "drop"} /\ Free => pc = "none"

(* What the game thread does to drivers and to the think queue without a lock
   it does when there is no worker. *)
WorkerApart == SafetyMatches /\ UnlockedWalkAlone

(* Database.cpp:308, "Join the thread and let the queries flush": killing the
   worker ends. *)
KillReturns == caller = "join" ~> caller = "idle"
=============================================================================
