-------------------------- MODULE DBManagerProofs --------------------------
(***************************************************************************)
(* Theorems about the database manager: where an operation is, that a job  *)
(* is there for each one that waits, and that what the game thread does    *)
(* without a lock it does without a worker, for any number of operations,  *)
(* owners, drivers and priorities.                                         *)
(***************************************************************************)
EXTENDS DBManager, ThreadWorkerProofs, SublistProofs, FiniteSetTheorems

-----------------------------------------------------------------------------
(***************************************************************************)
(* The worker inside the manager.                                          *)
(***************************************************************************)

(* Whatever the manager does, its worker sees a step of its own or nothing. *)
LEMMA WorkerSees ==
    ASSUME [Next]_vars
    PROVE  [WorkerNext]_workerVars
<1>1. ASSUME NEW o, NEW d, NEW p, AddToThreadQueue(o, d, p) PROVE [WorkerNext]_workerVars
  BY <1>1 DEF AddToThreadQueue, WorkerNext, Owner
<1>2. ASSUME KillWorkerThread PROVE [WorkerNext]_workerVars
  BY <1>2 DEF KillWorkerThread, WorkerNext, Owner
<1>3. CASE WorkerThread
  BY <1>3 DEF WorkerThread, OnWorkerStart, OnWorkerStop, WorkerLoop, RunThreadTake,
              RunThreadPut, WorkerNext, RunThread
<1>4. CASE GameContinues
  <2>1. CASE AddMakeThread
    BY <2>1 DEF AddMakeThread, WorkerNext, Owner
  <2>2. CASE (StopSignal \/ StopReturns) /\ UNCHANGED dbVars
    BY <2>2 DEF WorkerNext, Owner, OwnerReturns
  <2>3. CASE AddDriverRest \/ RemoveDriverRest \/ DropOwnerRest \/ ThinkNext
               \/ HandlerReturns \/ ThinkDone
    BY <2>3 DEF AddDriverRest, RemoveDriverRest, DropOwnerRest, ThinkNext, HandlerReturns,
                ThinkDone
  <2> QED BY <1>4, <2>1, <2>2, <2>3 DEF GameContinues
<1>5. CASE Calls
  <2>1. CASE Connect \/ OnSourceModLevelChange
    BY <2>1 DEF Connect, OnSourceModLevelChange
  <2>2. CASE \E o \in Owners : SQL_TConnect(o) \/ \E p \in Prios : SQL_TQuery(o, p)
    BY <1>1, <2>2 DEF SQL_TConnect, SQL_TQuery
  <2>3. CASE \/ OnSourceModShutdown
             \/ \E d \in Drivers : AddDriver(d) \/ RemoveDriver(d)
             \/ \E o \in Owners : OnPluginUnloaded(o) \/ OnSourceModIdentityDropped(o)
    BY <1>2, <2>3 DEF OnSourceModShutdown, AddDriver, RemoveDriver, OnPluginUnloaded,
                      OnSourceModIdentityDropped, Enter
  <2> QED BY <1>5, <2>1, <2>2, <2>3 DEF Calls
<1>6. CASE ThinkFrame \/ Over \/ UNCHANGED vars
  BY <1>6 DEF ThinkFrame, Over, vars
<1> QED
  BY <1>3, <1>4, <1>5, <1>6 DEF Next

LEMMA WorkerInside == Spec => []WorkerIInv
<1>1. Init => WorkerIInv
  BY WorkerIInvInit DEF Init
<1>2. WorkerIInv /\ [Next]_vars => WorkerIInv'
  BY WorkerSees, WorkerIInvStep
<1> QED
  BY <1>1, <1>2, PTL DEF Spec

-----------------------------------------------------------------------------
(***************************************************************************)
(* The game thread's control: what each handler may rely on.               *)
(***************************************************************************)
(* The handlers that have killed the worker and done nothing else yet. *)
Killed == {"remove", "unload", "drop", "shutdown"}

(* While a driver is being added, or one of these handlers is at its start,
   the worker is stopped and stays so: whoever could start it again is not
   free to call.  It was stopped to flush, so it leaves no job behind. *)
GameControl ==
    /\ ~m_FlushType
    /\ adding # NULL => m_state = "stopped"
    /\ handler \in Killed => m_state = "stopped" /\ thinking = NoJob /\ adding = NULL
    /\ handler # "think" => templist = <<>>
    /\ made <= Len(ops)
    /\ pc # "job" => cur = NoJob
    /\ m_state = "stopped" /\ caller = "idle" => m_ThreadQueue = <<>>

(* Whom a handler is about; one that unloads an owner has seen to it that the
   owner's calls are refused before it runs any of its think parts. *)
SubjectKnown ==
    /\ handler \in {"none", "shutdown", "over"} => subject = NULL
    /\ handler = "remove" => subject \in Drivers
    /\ handler = "unload" => subject \in Plugins
    /\ handler = "drop" => subject \in Extensions /\ s_pAddBlock = subject
    /\ handler = "think" /\ subject \in Owners => Refused(subject)

(* What KillWorkerThread() does to the worker. *)
LEMMA KillDoes ==
    ASSUME KillWorkerThread, GameControl, Handshake
    PROVE  /\ m_state' = "stopped" /\ ~m_FlushType'
           /\ UNCHANGED <<m_ThreadQueue, made, pc, job, cancelled, ran>>
           /\ m_state' = "stopped" /\ caller' = "idle" => m_ThreadQueue' = <<>>
  BY DEF KillWorkerThread, Stop, Call, GameControl, Handshake, StateTyped, workerVars, ownerVars,
         threadVars

(* What a step of the loop, a wakeup or a signal does to the worker. *)
LEMMA LoopDoes ==
    ASSUME RunLoop \/ SpuriousWakeup, WorkerIInv
    PROVE  /\ UNCHANGED ownerVars /\ pc # "job" /\ m_state' = m_state
           /\ \/ pc' # "job" /\ m_ThreadQueue' = m_ThreadQueue
              \/ pc' = "job" /\ m_ThreadQueue # <<>> /\ m_ThreadQueue' = Tail(m_ThreadQueue)
<1> USE DEF RunLoop, SpuriousWakeup, At, ownerVars
<1>1. CASE RunFrame
  BY <1>1 DEF RunFrame, PopThreadFromQueue
<1>2. CASE ReadState \/ CountJobs \/ AddSignalWait \/ AddSignalReturns
  BY <1>2 DEF ReadState, CountJobs, AddSignalWait, AddSignalReturns
<1>3. CASE Recheck
  BY <1>3 DEF Recheck
<1>4. CASE PauseSignalWait \/ RunFrameOver \/ FlushOver
  BY <1>4 DEF PauseSignalWait, RunFrameOver, FlushOver
<1>5. CASE SpuriousWakeup
  BY <1>5 DEF SpuriousWakeup, Awake
<1> QED BY <1>1, <1>2, <1>3, <1>4, <1>5

LEMMA SignalDoes ==
    ASSUME StopSignal \/ MakeThread, WorkerIInv
    PROVE  /\ (pc' = "job") <=> (pc = "job")
           /\ UNCHANGED <<m_state, m_FlushType>>
           /\ StopSignal => caller' = "join" /\ UNCHANGED <<m_ThreadQueue, made>>
           /\ MakeThread => /\ m_ThreadQueue' = Append(m_ThreadQueue, made + 1)
                            /\ m_state = "running" /\ made' = made + 1 /\ caller' = caller
                            /\ made < MaxJobs
<1>1. CASE StopSignal
  BY <1>1 DEF StopSignal, Signal, Awake, MakeThread
<1>2. CASE MakeThread
  BY <1>2 DEF MakeThread, AddThreadToQueue, Signal, Awake, StopSignal, Call
<1> QED BY <1>1, <1>2

(* Lists of drivers and operations, by what Keep(), Head() and Tail() give. *)
LEMMA FindDefaultIs ==
    ASSUME m_drivers \in Seq(Drivers)
    PROVE  FindDefault \in ToSet(m_drivers) \cup {NULL} /\ ToSet(m_drivers) \subseteq Drivers
<1> DEFINE found == Keep(m_drivers, DefaultDrivers)
<1>1. found \in Seq(Drivers) /\ ToSet(found) = ToSet(m_drivers) \cap DefaultDrivers
  BY KeepIs
<1>2. FindDefault = IF found = <<>> THEN NULL ELSE Head(found)
  BY DEF FindDefault
<1> HIDE DEF found
<1>3. found # <<>> => Head(found) \in ToSet(found)
  BY <1>1, HeadTailIs
<1> QED BY <1>1, <1>2, <1>3, EmptyIs

LEMMA LikelyIs ==
    /\ GetLikelyQueue \in Prios
    /\ (\E p \in Prios : m_OpQueue[p] # <<>>) <=> m_OpQueue[GetLikelyQueue] # <<>>
<1> DEFINE Likely(p) == \/ m_OpQueue[p] # <<>> /\ \A q \in Prios : q < p => m_OpQueue[q] = <<>>
                        \/ \A q \in Prios : m_OpQueue[q] = <<>>
<1>1. \E p \in Prios : Likely(p)
  <2> DEFINE T == {p \in Prios : m_OpQueue[p] # <<>>}
  <2>1. T \subseteq Nat /\ Prios \subseteq Nat /\ 0 \in Prios
    <3>1. 0..2 \subseteq Nat
      OBVIOUS
    <3>2. Prios \subseteq Nat /\ 0 \in Prios
      BY <3>1, PriosAssumption
    <3> QED BY <3>2
  <2>2. CASE T = {}
    BY <2>1, <2>2
  <2>3. CASE T # {}
    <3>1. PICK p \in T : \A q \in T : p <= q
      BY <2>1, <2>3, LeastOf
    <3>2. \A q \in Prios : q < p => q \notin T
      BY <2>1, <3>1
    <3> QED BY <3>1, <3>2
  <2> QED BY <2>2, <2>3
<1>2. GetLikelyQueue = CHOOSE p \in Prios : Likely(p)
  BY DEF GetLikelyQueue
<1>3. GetLikelyQueue \in Prios /\ Likely(GetLikelyQueue)
  BY <1>1, <1>2
<1> QED BY <1>3

-----------------------------------------------------------------------------
LEMMA DBTypeInit == Init => DBTypeOK /\ GameControl /\ SubjectKnown
<1> SUFFICES ASSUME Init PROVE DBTypeOK /\ GameControl /\ SubjectKnown
  OBVIOUS
<1>1. WorkerTypeOK
  BY WorkerIInvInit DEF Init, WorkerIInv
<1>2. \A S : <<>> \in Seq(S)
  BY EmptySeq
<1>3. DBTypeOK
  BY <1>1, <1>2 DEF Init, DBTypeOK, Owners
<1> QED
  BY <1>3 DEF Init, WorkerInit, GameControl, SubjectKnown, Killed

(* Types, for each group of actions. *)
LEMMA TypeAdd ==
    ASSUME DBTypeOK, WorkerTypeOK', NEW o \in Owners, NEW d \in Drivers, NEW p \in Prios,
           AddToThreadQueue(o, d, p), m_pDefault' \in Drivers \cup {NULL}
    PROVE  DBTypeOK'
<1> DEFINE R == [owner : Owners, driver : Drivers, prio : Prios]
           x == [owner |-> o, driver |-> d, prio |-> p]
<1>1. ops \in Seq(R) /\ x \in R
  BY DEF DBTypeOK
<1>2. Append(ops, x) \in Seq(R)
  <2> HIDE DEF R, x
  <2> QED BY <1>1, AppendProperties
<1>3. Len(ops) + 1 \in OpIds
  BY <1>1, LenProperties, MaxJobsAssumption DEF AddToThreadQueue, OpIds
<1>4. Append(m_OpQueue[p], Len(ops) + 1) \in Seq(OpIds)
  <2>1. m_OpQueue[p] \in Seq(OpIds)
    BY DEF DBTypeOK
  <2> QED BY <1>3, <2>1, AppendProperties
<1>5. m_OpQueue' \in [Prios -> Seq(OpIds)]
  BY <1>4 DEF DBTypeOK, AddToThreadQueue, GetQueuePush
<1> QED
  BY <1>2, <1>5 DEF DBTypeOK, AddToThreadQueue, OpIds

LEMMA TypeThreadSide ==
    ASSUME DBTypeOK, WorkerTypeOK', WorkerThread
    PROVE  DBTypeOK'
<1> USE DEF DBTypeOK, opVars, gameVars
<1>1. CASE OnWorkerStart \/ OnWorkerStop
  <2>1. <<>> \in Seq(Drivers)
    BY EmptySeq
  <2> QED BY <1>1, <2>1 DEF OnWorkerStart, OnWorkerStop, OpIds
<1>2. CASE WorkerLoop
  BY <1>2 DEF WorkerLoop, dbVars, OpIds
<1>3. CASE RunThreadTake
  <2>1. m_OpQueue[GetLikelyQueue] \in Seq(OpIds) /\ m_OpQueue[GetLikelyQueue] # <<>>
    BY <1>3, LikelyIs DEF RunThreadTake
  <2>2. Head(m_OpQueue[GetLikelyQueue]) \in OpIds /\ Tail(m_OpQueue[GetLikelyQueue]) \in Seq(OpIds)
    BY <2>1, HeadTailProperties
  <2>3. m_OpQueue' \in [Prios -> Seq(OpIds)]
    BY <1>3, <2>2 DEF RunThreadTake, TakePops
  <2> QED BY <1>3, <2>2, <2>3 DEF RunThreadTake, OpIds
<1>4. CASE RunThreadPut
  <2>1. m_ThinkQueue' \in Seq(OpIds)
    BY <1>4, AppendProperties DEF RunThreadPut
  <2> QED BY <1>4, <2>1 DEF RunThreadPut, OpIds
<1> QED
  BY <1>1, <1>2, <1>3, <1>4 DEF WorkerThread

LEMMA TypeGameSide ==
    ASSUME DBTypeOK, WorkerTypeOK', SubjectKnown, GameContinues \/ ThinkFrame
    PROVE  DBTypeOK'
<1> USE DEF DBTypeOK, opVars, gameVars, SubjectKnown
<1>1. CASE AddMakeThread \/ ((StopSignal \/ StopReturns) /\ UNCHANGED dbVars)
  BY <1>1 DEF AddMakeThread, dbVars, OpIds
<1>2. CASE AddDriverRest
  <2>1. adding \in Drivers /\ m_drivers \in Seq(Drivers)
    BY <1>2 DEF AddDriverRest
  <2>2. Append(m_drivers, adding) \in Seq(Drivers)
    BY <2>1, AppendProperties
  <2> QED BY <1>2, <2>2 DEF AddDriverRest, OpIds
<1>3. ASSUME NEW S, TakeOut(S) PROVE templist' \in Seq(OpIds) /\ m_ThinkQueue' \in Seq(OpIds)
  <2>1. m_ThinkQueue \in Seq(OpIds)
    OBVIOUS
  <2> QED BY <1>3, <2>1, KeepIs DEF TakeOut
<1>4. CASE RemoveDriverRest
  <2>1. Keep(m_drivers, Drivers \ {subject}) \in Seq(Drivers)
    BY KeepIs
  <2>2. templist' \in Seq(OpIds) /\ m_ThinkQueue' \in Seq(OpIds)
    BY <1>3, <1>4 DEF RemoveDriverRest, ForgetDriver
  <2> QED BY <1>4, <2>1, <2>2 DEF RemoveDriverRest, ForgetDriver, OpIds
<1>5. CASE DropOwnerRest
  <2>1. templist' \in Seq(OpIds) /\ m_ThinkQueue' \in Seq(OpIds)
    BY <1>3, <1>5 DEF DropOwnerRest
  <2> QED BY <1>5, <2>1 DEF DropOwnerRest, OpIds
<1>6. CASE ThinkNext
  <2>1. Head(templist) \in OpIds /\ Tail(templist) \in Seq(OpIds)
    BY <1>6, HeadTailProperties DEF ThinkNext
  <2> QED BY <1>6, <2>1 DEF ThinkNext, OpIds
<1>7. CASE ThinkFrame
  <2>1. Head(m_ThinkQueue) \in OpIds /\ Tail(m_ThinkQueue) \in Seq(OpIds)
    BY <1>7, HeadTailProperties DEF ThinkFrame
  <2> QED BY <1>7, <2>1 DEF ThinkFrame, OpIds
<1>8. CASE HandlerReturns
  BY <1>8 DEF HandlerReturns, OpIds
<1>9. CASE ThinkDone
  <2>1. thinking \in OpIds
    BY <1>9 DEF ThinkDone, InThink
  <2> QED BY <1>9, <2>1 DEF ThinkDone, OpIds
<1> QED
  BY <1>1, <1>2, <1>4, <1>5, <1>6, <1>7, <1>8, <1>9 DEF GameContinues

LEMMA TypeCalls ==
    ASSUME DBTypeOK, WorkerTypeOK', Calls
    PROVE  DBTypeOK'
<1>0. FindDefault \in Drivers \cup {NULL} /\ ToSet(m_drivers) \subseteq Drivers
      /\ GetDefaultDriver \in Drivers \cup {NULL}
  BY FindDefaultIs DEF DBTypeOK, GetDefaultDriver
<1>1. CASE Connect \/ OnSourceModLevelChange
  BY <1>0, <1>1 DEF Connect, OnSourceModLevelChange, DBTypeOK, opVars, OpIds
<1>2. ASSUME NEW o \in Owners, SQL_TConnect(o) PROVE DBTypeOK'
  <2>1. GetDefaultDriver \in Drivers /\ m_pDefault' \in Drivers \cup {NULL} /\ 0 \in Prios
    BY <1>0, <1>2, PriosAssumption DEF SQL_TConnect
  <2> QED BY <1>2, <2>1, TypeAdd DEF SQL_TConnect
<1>3. ASSUME NEW o \in Owners, NEW p \in Prios, SQL_TQuery(o, p) PROVE DBTypeOK'
  <2>1. PICK k \in DOMAIN m_drivers : AddToThreadQueue(o, m_drivers[k], p) /\ UNCHANGED m_pDefault
    BY <1>3 DEF SQL_TQuery
  <2>2. m_drivers[k] \in Drivers /\ m_pDefault' \in Drivers \cup {NULL}
    BY <1>0, <2>1 DEF ToSet, DBTypeOK
  <2> QED BY <2>1, <2>2, TypeAdd
<1>4. ASSUME NEW h \in {"remove", "unload", "drop", "shutdown"},
             NEW w \in Owners \cup Drivers \cup {NULL}, Enter(h, w), h = "drop" => w \in Extensions
      PROVE  DBTypeOK'
  BY <1>4 DEF Enter, AddBlock, DBTypeOK, opVars, OpIds
<1>5. ASSUME NEW d \in Drivers, AddDriver(d) PROVE DBTypeOK'
  BY <1>5 DEF AddDriver, DBTypeOK, opVars, OpIds
<1>6. ASSUME NEW d \in Drivers, RemoveDriver(d) PROVE DBTypeOK'
  BY <1>4, <1>6 DEF RemoveDriver
<1>7. ASSUME NEW o \in Owners, OnPluginUnloaded(o) \/ OnSourceModIdentityDropped(o) PROVE DBTypeOK'
  BY <1>4, <1>7 DEF OnPluginUnloaded, OnSourceModIdentityDropped
<1>8. CASE OnSourceModShutdown
  BY <1>4, <1>8 DEF OnSourceModShutdown
<1> QED
  BY <1>1, <1>2, <1>3, <1>5, <1>6, <1>7, <1>8 DEF Calls

LEMMA DBTypeStep ==
    ASSUME DBTypeOK, WorkerTypeOK', SubjectKnown, [Next]_vars
    PROVE  DBTypeOK'
<1>1. CASE Over \/ UNCHANGED vars
  BY <1>1 DEF Over, vars, dbVars, opVars, gameVars, DBTypeOK, OpIds
<1> QED
  BY <1>1, TypeThreadSide, TypeGameSide, TypeCalls DEF Next

-----------------------------------------------------------------------------
LEMMA ControlThread ==
    ASSUME DBTypeOK, WorkerIInv, GameControl, SubjectKnown, WorkerThread
    PROVE  GameControl' /\ SubjectKnown'
<1> USE DEF GameControl, SubjectKnown, Refused, Killed, opVars, gameVars
<1>0. (m_state = "stopped" /\ caller = "idle" => pc = "none") /\ JobHeld
  BY DEF WorkerIInv, Handshake, StoppedMeansEnded
<1>1. CASE OnWorkerStart
  BY <1>0, <1>1 DEF OnWorkerStart, Begin, At, ownerVars
<1>2. CASE OnWorkerStop
  BY <1>0, <1>2 DEF OnWorkerStop, Exit, At, ownerVars
<1>3. CASE WorkerLoop
  <2>1. /\ UNCHANGED ownerVars /\ pc # "job" /\ m_state' = m_state
        /\ \/ pc' # "job" /\ m_ThreadQueue' = m_ThreadQueue
           \/ pc' = "job" /\ m_ThreadQueue # <<>> /\ m_ThreadQueue' = Tail(m_ThreadQueue)
    BY <1>3, LoopDoes DEF WorkerLoop
  <2>2. UNCHANGED dbVars
    BY <1>3 DEF WorkerLoop
  <2> QED BY <2>1, <2>2 DEF ownerVars, dbVars
<1>4. CASE RunThreadTake
  BY <1>0, <1>4 DEF RunThreadTake, workerVars, ownerVars, threadVars
<1>5. CASE RunThreadPut
  BY <1>0, <1>5 DEF RunThreadPut, RunFrameJobDone, At, ownerVars
<1> QED
  BY <1>1, <1>2, <1>3, <1>4, <1>5 DEF WorkerThread

LEMMA ControlGame ==
    ASSUME DBTypeOK, WorkerIInv, GameControl, SubjectKnown, GameContinues \/ ThinkFrame
    PROVE  GameControl' /\ SubjectKnown'
<1> USE DEF GameControl, SubjectKnown, Refused, Killed, opVars, gameVars
<1>0. Len(ops) \in Nat /\ made \in Nat
  BY LenProperties DEF DBTypeOK, WorkerIInv, WorkerTypeOK
<1>1. CASE AddMakeThread
  <2>1. /\ (pc' = "job") <=> (pc = "job")
        /\ UNCHANGED <<m_state, m_FlushType>>
        /\ m_state = "running" /\ made' = made + 1
    BY <1>1, SignalDoes DEF AddMakeThread
  <2>2. made < Len(ops) /\ UNCHANGED dbVars
    BY <1>1 DEF AddMakeThread
  <2>3. made' <= Len(ops)'
    BY <1>0, <2>1, <2>2 DEF dbVars
  <2> QED BY <2>1, <2>2, <2>3 DEF dbVars
<1>2. CASE StopSignal /\ UNCHANGED dbVars
  <2>1. /\ (pc' = "job") <=> (pc = "job")
        /\ UNCHANGED <<m_state, m_FlushType>>
        /\ caller' = "join" /\ UNCHANGED <<m_ThreadQueue, made>>
    BY <1>2, SignalDoes
  <2> QED BY <1>2, <2>1 DEF dbVars
<1>3. CASE StopReturns /\ UNCHANGED dbVars
  BY <1>3 DEF StopReturns, WaitForThread, dbVars
<1>4. CASE AddDriverRest
  BY <1>4 DEF AddDriverRest, workerVars, ownerVars, threadVars
<1>5. CASE RemoveDriverRest
  <2>1. subject \in Drivers /\ subject \notin Owners
    BY <1>5, NullOwnsNothing DEF RemoveDriverRest, Owners
  <2> QED BY <1>5, <2>1 DEF RemoveDriverRest, workerVars, ownerVars, threadVars
<1>6. CASE DropOwnerRest
  BY <1>6 DEF DropOwnerRest, workerVars, ownerVars, threadVars
<1>7. CASE ThinkNext
  BY <1>7 DEF ThinkNext, workerVars, ownerVars, threadVars
<1>8. CASE HandlerReturns
  BY <1>8 DEF HandlerReturns, workerVars, ownerVars, threadVars
<1>9. CASE ThinkFrame
  BY <1>9 DEF ThinkFrame, TopLevel, workerVars, ownerVars, threadVars
<1>10. CASE ThinkDone
  BY <1>10 DEF ThinkDone, workerVars, ownerVars, threadVars
<1> QED
  BY <1>1, <1>2, <1>3, <1>4, <1>5, <1>6, <1>7, <1>8, <1>9, <1>10 DEF GameContinues

LEMMA ControlAdd ==
    ASSUME DBTypeOK, WorkerIInv, GameControl, SubjectKnown,
           NEW o \in Owners, NEW d \in Drivers, NEW p \in Prios, AddToThreadQueue(o, d, p)
    PROVE  GameControl' /\ SubjectKnown'
<1> USE DEF GameControl, SubjectKnown, Refused, Killed, opVars, gameVars
<1>1. Len(ops') = Len(ops) + 1 /\ Len(ops) \in Nat /\ made \in Nat
  <2>1. \A S : \A q \in Seq(S) : \A x \in S : Len(Append(q, x)) = Len(q) + 1 /\ Len(q) \in Nat
    BY AppendProperties, LenProperties
  <2>2. [owner |-> o, driver |-> d, prio |-> p] \in [owner : Owners, driver : Drivers, prio : Prios]
    OBVIOUS
  <2>3. ops \in Seq([owner : Owners, driver : Drivers, prio : Prios]) /\ made \in Nat
    BY DEF DBTypeOK, WorkerIInv, WorkerTypeOK
  <2> QED BY <2>1, <2>2, <2>3 DEF AddToThreadQueue
<1>2. adding = NULL /\ caller = "idle" /\ handler \notin Killed /\ made' = made
  BY DEF AddToThreadQueue, Acts, TopLevel, InThink, Free, Start, Call, workerVars, ownerVars
<1>3. /\ m_FlushType' = m_FlushType /\ m_ThreadQueue' = m_ThreadQueue
      /\ m_state' # "stopped" /\ (pc' # "job" => pc # "job" \/ m_state = "stopped")
  BY DEF AddToThreadQueue, Start, workerVars, ownerVars, threadVars
<1>4. m_state = "stopped" => pc = "none"
  BY <1>2 DEF WorkerIInv, Handshake, StoppedMeansEnded
<1> QED
  BY <1>1, <1>2, <1>3, <1>4 DEF AddToThreadQueue

LEMMA ControlCalls ==
    ASSUME DBTypeOK, WorkerIInv, GameControl, SubjectKnown, Calls
    PROVE  GameControl' /\ SubjectKnown'
<1>1. CASE Connect \/ OnSourceModLevelChange
  BY <1>1 DEF Connect, OnSourceModLevelChange, opVars, workerVars, ownerVars, threadVars,
              GameControl, SubjectKnown, Refused, Killed
<1>2. ASSUME NEW o \in Owners, SQL_TConnect(o) PROVE GameControl' /\ SubjectKnown'
  <2>1. GetDefaultDriver \in Drivers /\ 0 \in Prios
    BY <1>2, FindDefaultIs, PriosAssumption DEF SQL_TConnect, DBTypeOK, GetDefaultDriver
  <2> QED BY <1>2, <2>1, ControlAdd DEF SQL_TConnect
<1>3. ASSUME NEW o \in Owners, NEW p \in Prios, SQL_TQuery(o, p)
      PROVE  GameControl' /\ SubjectKnown'
  <2>1. PICK k \in DOMAIN m_drivers : AddToThreadQueue(o, m_drivers[k], p)
    BY <1>3 DEF SQL_TQuery
  <2>2. m_drivers[k] \in Drivers
    BY <2>1, FindDefaultIs DEF ToSet, DBTypeOK
  <2> QED BY <2>1, <2>2, ControlAdd
<1>4. Handshake
  BY DEF WorkerIInv
<1>5. ASSUME NEW h \in Killed, NEW w, Enter(h, w), h = "shutdown" => w = NULL,
             h = "remove" => w \in Drivers, h = "unload" => w \in Plugins,
             h = "drop" => w \in Extensions
      PROVE  GameControl' /\ SubjectKnown'
  <2>1. KillWorkerThread /\ thinking = NoJob /\ adding = NULL /\ handler = "none"
    BY <1>5 DEF Enter, TopLevel, Free
  <2>2. /\ m_state' = "stopped" /\ ~m_FlushType' /\ UNCHANGED <<made, pc>>
        /\ m_state' = "stopped" /\ caller' = "idle" => m_ThreadQueue' = <<>>
    BY <1>4, <2>1, KillDoes
  <2> QED
    BY <1>5, <2>1, <2>2 DEF Enter, AddBlock, opVars, GameControl, SubjectKnown, Refused, Killed
<1>6. ASSUME NEW d \in Drivers, AddDriver(d) PROVE GameControl' /\ SubjectKnown'
  <2>1. KillWorkerThread /\ (handler = "none" \/ thinking # NoJob)
    BY <1>6 DEF AddDriver, TopLevel, InThink, Free
  <2>2. /\ m_state' = "stopped" /\ ~m_FlushType' /\ UNCHANGED <<made, pc>>
        /\ m_state' = "stopped" /\ caller' = "idle" => m_ThreadQueue' = <<>>
    BY <1>4, <2>1, KillDoes
  <2> QED
    BY <1>6, <2>1, <2>2 DEF AddDriver, opVars, GameControl, SubjectKnown, Refused, Killed
<1>7. ASSUME NEW d \in Drivers, RemoveDriver(d) PROVE GameControl' /\ SubjectKnown'
  BY <1>5, <1>7 DEF RemoveDriver, Killed
<1>8. ASSUME NEW o \in Owners, OnPluginUnloaded(o) \/ OnSourceModIdentityDropped(o)
      PROVE  GameControl' /\ SubjectKnown'
  BY <1>5, <1>8 DEF OnPluginUnloaded, OnSourceModIdentityDropped, Killed
<1>9. CASE OnSourceModShutdown
  BY <1>5, <1>9 DEF OnSourceModShutdown, Killed
<1> QED
  BY <1>1, <1>2, <1>3, <1>6, <1>7, <1>8, <1>9 DEF Calls

LEMMA ControlStep ==
    ASSUME DBTypeOK, WorkerIInv, GameControl, SubjectKnown, [Next]_vars
    PROVE  GameControl' /\ SubjectKnown'
<1>1. CASE Over \/ UNCHANGED vars
  BY <1>1 DEF Over, vars, dbVars, opVars, gameVars, workerVars, ownerVars, threadVars,
              GameControl, SubjectKnown, Refused, Killed
<1> QED
  BY <1>1, ControlThread, ControlGame, ControlCalls DEF Next

-----------------------------------------------------------------------------
(***************************************************************************)
(* Drivers and the worker.                                                 *)
(***************************************************************************)
LEMMA SafetyStep ==
    ASSUME WorkerIInv, GameControl, SafetyMatches, [Next]_vars
    PROVE  SafetyMatches'
<1> DEFINE Outside == {"none", "start", "done"}
<1>0. m_state = "stopped" /\ caller = "idle" => pc = "none"
  BY DEF WorkerIInv, Handshake, StoppedMeansEnded
<1>1. CASE OnWorkerStart \/ OnWorkerStop
  BY <1>1 DEF OnWorkerStart, OnWorkerStop, Exit, gameVars, SafetyMatches
<1>2. ASSUME UNCHANGED <<m_drSafety, m_drivers>>, pc' \notin Outside => pc \notin Outside
      PROVE  SafetyMatches'
  BY <1>2 DEF SafetyMatches, Places, WorkerIInv, WorkerTypeOK
<1>3. CASE WorkerLoop
  <2>1. pc \notin Outside
    BY <1>3 DEF WorkerLoop, RunLoop, SpuriousWakeup, ReadState, CountJobs, AddSignalWait,
                AddSignalReturns, Recheck, PauseSignalWait, RunFrame, RunFrameOver, FlushOver, At
  <2> QED BY <1>2, <1>3, <2>1 DEF WorkerLoop, dbVars, gameVars
<1>4. CASE RunThreadTake \/ RunThreadPut
  <2>1. pc \notin Outside
    BY <1>4 DEF RunThreadTake, RunThreadPut, RunFrameJobDone, At
  <2> QED BY <1>2, <1>4, <2>1 DEF RunThreadTake, RunThreadPut, gameVars
<1>5. CASE AddMakeThread \/ ((StopSignal \/ StopReturns) /\ UNCHANGED dbVars)
  <2>1. pc' \notin Outside => pc \notin Outside
    BY <1>5 DEF AddMakeThread, MakeThread, AddThreadToQueue, StopSignal, StopReturns, Signal, Awake
  <2> QED BY <1>2, <1>5, <2>1 DEF AddMakeThread, dbVars, gameVars
<1>6. CASE AddDriverRest \/ RemoveDriverRest
  <2>1. pc = "none" /\ pc' = pc
    BY <1>0, <1>6 DEF AddDriverRest, RemoveDriverRest, GameControl, Killed, Free, workerVars,
                      threadVars
  <2> QED BY <2>1 DEF SafetyMatches
<1>7. CASE DropOwnerRest \/ ThinkNext \/ HandlerReturns \/ ThinkDone \/ ThinkFrame
  BY <1>2, <1>7 DEF DropOwnerRest, ThinkNext, HandlerReturns, ThinkDone, ThinkFrame, workerVars,
                    threadVars
<1>8. CASE Connect \/ OnSourceModLevelChange \/ Over \/ UNCHANGED vars
  BY <1>2, <1>8 DEF Connect, OnSourceModLevelChange, Over, vars, dbVars, gameVars, workerVars,
                    threadVars
<1>9. ASSUME NEW o, NEW d, NEW p, AddToThreadQueue(o, d, p) PROVE SafetyMatches'
  <2>1. pc' \notin Outside => pc \notin Outside
    BY <1>9 DEF AddToThreadQueue, Start, workerVars, threadVars
  <2> QED BY <1>2, <1>9, <2>1 DEF AddToThreadQueue
<1>10. ASSUME KillWorkerThread PROVE pc' = pc
  BY <1>10 DEF KillWorkerThread, Stop, workerVars, threadVars
<1>11. ASSUME NEW d, AddDriver(d) PROVE SafetyMatches'
  BY <1>2, <1>10, <1>11 DEF AddDriver
<1>12. ASSUME NEW h, NEW w, Enter(h, w) PROVE SafetyMatches'
  BY <1>2, <1>10, <1>12 DEF Enter
<1>13. CASE WorkerThread
  BY <1>1, <1>3, <1>4, <1>13 DEF WorkerThread
<1>14. CASE GameContinues
  BY <1>5, <1>6, <1>7, <1>14 DEF GameContinues
<1>15. CASE Calls
  BY <1>8, <1>9, <1>11, <1>12, <1>15 DEF Calls, SQL_TConnect, SQL_TQuery, RemoveDriver,
     OnPluginUnloaded, OnSourceModIdentityDropped, OnSourceModShutdown
<1> QED
  BY <1>7, <1>8, <1>13, <1>14, <1>15 DEF Next

(* A handler that walks the think queue without its lock is alone. *)
LEMMA WalksAlone ==
    ASSUME WorkerIInv, GameControl
    PROVE  UnlockedWalkAlone
  BY DEF WorkerIInv, Handshake, StoppedMeansEnded, GameControl, Killed, UnlockedWalkAlone, Free

-----------------------------------------------------------------------------
(***************************************************************************)
(* Where operations are.                                                   *)
(***************************************************************************)
places == <<ops, m_OpQueue, cur, m_ThinkQueue, templist, thinking, destroyed>>

(* The steps that move an operation. *)
Moves == \/ RunThreadTake
         \/ RunThreadPut /\ cur # NoJob
         \/ \E o \in Owners, d \in Drivers, p \in Prios : AddToThreadQueue(o, d, p)
         \/ RemoveDriverRest \/ DropOwnerRest
         \/ ThinkNext \/ ThinkFrame \/ ThinkDone

LEMMA OthersStay ==
    ASSUME DBTypeOK, [Next]_vars
    PROVE  Moves \/ UNCHANGED places
<1> USE DEF places, opVars, gameVars
<1>1. CASE WorkerThread
  BY <1>1 DEF WorkerThread, OnWorkerStart, OnWorkerStop, WorkerLoop, RunThreadPut, Moves, dbVars
<1>2. CASE GameContinues
  BY <1>2 DEF GameContinues, Moves, AddMakeThread, AddDriverRest, HandlerReturns, dbVars
<1>3. CASE Calls
  <2>1. CASE Connect \/ OnSourceModLevelChange
    BY <2>1 DEF Connect, OnSourceModLevelChange
  <2>2. ASSUME NEW o \in Owners, SQL_TConnect(o) PROVE Moves
    <3>1. GetDefaultDriver \in Drivers /\ 0 \in Prios
      BY <2>2, FindDefaultIs, PriosAssumption DEF SQL_TConnect, DBTypeOK, GetDefaultDriver
    <3> QED BY <2>2, <3>1 DEF SQL_TConnect, Moves
  <2>3. ASSUME NEW o \in Owners, NEW p \in Prios, SQL_TQuery(o, p) PROVE Moves
    <3>1. PICK k \in DOMAIN m_drivers : AddToThreadQueue(o, m_drivers[k], p)
      BY <2>3 DEF SQL_TQuery
    <3>2. m_drivers[k] \in Drivers
      BY <3>1, FindDefaultIs DEF ToSet, DBTypeOK
    <3> QED BY <3>1, <3>2 DEF Moves
  <2>4. CASE \/ OnSourceModShutdown
             \/ \E d \in Drivers : AddDriver(d) \/ RemoveDriver(d)
             \/ \E o \in Owners : OnPluginUnloaded(o) \/ OnSourceModIdentityDropped(o)
    BY <2>4 DEF OnSourceModShutdown, AddDriver, RemoveDriver, OnPluginUnloaded,
                OnSourceModIdentityDropped, Enter
  <2> QED BY <1>3, <2>1, <2>2, <2>3, <2>4 DEF Calls
<1>4. CASE ThinkFrame \/ Over \/ UNCHANGED vars
  BY <1>4 DEF Moves, Over, vars, dbVars
<1> QED
  BY <1>1, <1>2, <1>3, <1>4 DEF Next

(* An operation in hand is a list of at most one. *)
LEMMA OneIs ==
    /\ ToSet(One(NoJob)) = {} /\ \A n : n # NoJob => ToSet(One(n)) = {n}
    /\ \A T, n : n \in T \/ n = NoJob => One(n) \in Seq(T)
    /\ \A n, u, v : ~Precedes(One(n), u, v)
<1>1. \A n : ToSet(<<n>>) = {n}
  BY DEF ToSet
<1>2. \A n, u, v : ~Precedes(<<n>>, u, v)
  BY DEF Precedes
<1> QED BY <1>1, <1>2, EmptyIs, EmptySeq DEF One

LEMMA InWaiting ==
    \A n : n \in Waiting <=> \E p \in Prios : n \in ToSet(m_OpQueue[p])
  BY DEF Waiting

(* A job takes the first operation of a queue. *)
LEMMA ConservedTake ==
    ASSUME DBTypeOK, OpsConserved, RunThreadTake
    PROVE  /\ OpsConserved' /\ cur = NoJob /\ cur' \in Waiting /\ Waiting' = Waiting \ {cur'}
           /\ InThread' = InThread /\ InSystem' = InSystem
<1>0. PICK p \in Prios : p = GetLikelyQueue
  BY LikelyIs
<1> DEFINE q == m_OpQueue[p]
<1>1. /\ q \in Seq(OpIds) /\ q # <<>> /\ IsInjective(q) /\ cur = NoJob /\ cur' = Head(q)
      /\ m_OpQueue' = [m_OpQueue EXCEPT ![p] = Tail(q)] /\ m_OpQueue \in [Prios -> Seq(OpIds)]
      /\ UNCHANGED <<ops, m_ThinkQueue, templist, thinking, destroyed>>
  BY <1>0 DEF RunThreadTake, TakePops, DBTypeOK, OpsConserved, gameVars
<1>2. PICK h \in OpIds : h = Head(q)
  BY <1>1, HeadTailProperties
<1>3. h \in ToSet(q) /\ ToSet(Tail(q)) = ToSet(q) \ {h} /\ IsInjective(Tail(q))
  BY <1>1, <1>2, PopOnce
<1>4. m_OpQueue'[p] = Tail(q) /\ \A r \in Prios : r # p => m_OpQueue'[r] = m_OpQueue[r]
  BY <1>1
<1>5. \A r \in Prios : r # p => h \notin ToSet(m_OpQueue[r])
  BY <1>3 DEF OpsConserved
<1> HIDE DEF q
<1>6. \A r \in Prios : ToSet(m_OpQueue'[r]) = ToSet(m_OpQueue[r]) \ {h}
  BY <1>3, <1>4, <1>5 DEF q
<1>7. Waiting' = Waiting \ {h} /\ h \in Waiting
  <2>1. \A n : n \in Waiting' <=> \E r \in Prios : n \in ToSet(m_OpQueue'[r])
    BY DEF Waiting
  <2> QED BY <1>3, <1>6, <2>1, InWaiting DEF q
<1>8. \A r \in Prios : IsInjective(m_OpQueue'[r])
  BY <1>3, <1>4 DEF OpsConserved
<1>9. \A r, t \in Prios : r # t => ToSet(m_OpQueue'[r]) \cap ToSet(m_OpQueue'[t]) = {}
  BY <1>6 DEF OpsConserved
<1>10. ToSet(One(cur)) = {} /\ ToSet(One(cur')) = {h} /\ h # NoJob /\ cur' = h
  BY <1>1, <1>2, OneIs DEF OpIds, NoJob
<1>11. InThread' = InThread /\ InSystem' = InSystem
  BY <1>1, <1>7, <1>10 DEF InThread, InSystem
<1>12. OpsConserved'
  BY <1>1, <1>7, <1>8, <1>9, <1>10, <1>11 DEF OpsConserved, InThread
<1> QED BY <1>1, <1>7, <1>10, <1>11, <1>12

(* Its thread part is over. *)
LEMMA ConservedPut ==
    ASSUME DBTypeOK, OpsConserved, RunThreadPut, cur # NoJob
    PROVE  /\ OpsConserved' /\ Waiting' = Waiting
           /\ InThread' = InThread /\ InSystem' = InSystem
<1>1. /\ m_ThinkQueue' = Append(m_ThinkQueue, cur) /\ cur' = NoJob /\ cur \in OpIds
      /\ UNCHANGED <<ops, m_OpQueue, templist, thinking, destroyed>>
      /\ m_ThinkQueue \in Seq(OpIds) /\ IsInjective(m_ThinkQueue) /\ cur \notin ToSet(m_ThinkQueue)
  BY DEF RunThreadPut, opVars, gameVars, DBTypeOK, OpsConserved
<1>2. IsInjective(m_ThinkQueue') /\ ToSet(m_ThinkQueue') = ToSet(m_ThinkQueue) \cup {cur}
  BY <1>1, PushOnce
<1>3. ToSet(One(cur)) = {cur} /\ ToSet(One(cur')) = {}
  BY <1>1, OneIs
<1>4. Waiting' = Waiting
  BY <1>1 DEF Waiting
<1>5. InThread' = InThread /\ InSystem' = InSystem
  BY <1>1, <1>2, <1>3, <1>4 DEF InThread, InSystem
<1>6. NoJob \notin OpIds /\ m_OpQueue \in [Prios -> Seq(OpIds)] /\ templist \in Seq(OpIds)
      /\ m_ThinkQueue \in Seq(OpIds)
  BY DEF OpIds, NoJob, DBTypeOK
<1>7. NoJob \notin Waiting \cup ToSet(m_ThinkQueue') \cup ToSet(templist)
  BY <1>1, <1>2, <1>6, InWaiting, EmptyIs
<1>8. OpsConserved'
  <2>1. Waiting' \cap (ToSet(m_ThinkQueue') \cup ToSet(templist')) = {}
    BY <1>1, <1>2, <1>4 DEF OpsConserved
  <2>2. ToSet(m_ThinkQueue') \cap ToSet(templist') = {}
    BY <1>1, <1>2 DEF OpsConserved
  <2>3. cur' \notin Waiting' \cup ToSet(m_ThinkQueue') \cup ToSet(templist')
    BY <1>1, <1>4, <1>7
  <2>4. thinking' \notin InThread' \cup ToSet(templist')
    BY <1>1, <1>5 DEF OpsConserved
  <2>5. /\ InSystem' \cup destroyed' = DOMAIN ops' /\ InSystem' \cap destroyed' = {}
        /\ IsInjective(m_ThinkQueue') /\ IsInjective(templist')
        /\ \A p \in Prios : IsInjective(m_OpQueue'[p])
        /\ \A p, q \in Prios : p # q => ToSet(m_OpQueue'[p]) \cap ToSet(m_OpQueue'[q]) = {}
    BY <1>1, <1>2, <1>5 DEF OpsConserved
  <2> QED BY <2>1, <2>2, <2>3, <2>4, <2>5 DEF OpsConserved
<1> QED BY <1>4, <1>5, <1>8

(* A new operation is in no queue yet. *)
LEMMA ConservedAdd ==
    ASSUME DBTypeOK, OpsConserved, NEW o \in Owners, NEW d \in Drivers, NEW p \in Prios,
           AddToThreadQueue(o, d, p)
    PROVE  /\ OpsConserved' /\ Len(ops) + 1 \notin Waiting
           /\ Waiting' = Waiting \cup {Len(ops) + 1}
           /\ InThread' = InThread \cup {Len(ops) + 1} /\ InSystem' = InSystem \cup {Len(ops) + 1}
           /\ Len(ops') = Len(ops) + 1 /\ Len(ops) \in Nat /\ DOMAIN ops = 1..Len(ops)
           /\ DOMAIN ops' = 1..(Len(ops) + 1) /\ \A n \in DOMAIN ops : ops'[n] = ops[n]
           /\ ops'[Len(ops) + 1] = [owner |-> o, driver |-> d, prio |-> p]
<1> DEFINE R == [owner : Owners, driver : Drivers, prio : Prios]
           x == [owner |-> o, driver |-> d, prio |-> p]
<1>0. PICK n \in OpIds : n = Len(ops) + 1
  BY LenProperties, MaxJobsAssumption DEF AddToThreadQueue, OpIds, DBTypeOK
<1>1. /\ Len(ops) \in Nat /\ DOMAIN ops = 1..Len(ops) /\ DOMAIN ops' = 1..(Len(ops) + 1)
      /\ Len(ops') = Len(ops) + 1 /\ \A k \in 1..Len(ops) : ops'[k] = ops[k]
      /\ ops'[Len(ops) + 1] = x
  <2>1. ops \in Seq(R) /\ x \in R /\ ops' = Append(ops, x)
    BY DEF DBTypeOK, AddToThreadQueue
  <2> HIDE DEF R, x
  <2> QED BY <2>1, AppendProperties, LenProperties
<1>2. n \notin DOMAIN ops /\ n \notin InSystem /\ n \notin destroyed
      /\ DOMAIN ops' = DOMAIN ops \cup {n}
  BY <1>0, <1>1 DEF OpsConserved
<1>3. /\ UNCHANGED <<cur, m_ThinkQueue, templist, thinking, destroyed>>
      /\ m_OpQueue' = [m_OpQueue EXCEPT ![p] = Append(m_OpQueue[p], n)]
      /\ m_OpQueue \in [Prios -> Seq(OpIds)] /\ n # NoJob
  BY <1>0 DEF AddToThreadQueue, GetQueuePush, DBTypeOK, OpIds, NoJob
<1>4. n \notin Waiting /\ n \notin ToSet(m_OpQueue[p])
  BY <1>2, InWaiting DEF InSystem, InThread
<1>5. /\ IsInjective(Append(m_OpQueue[p], n))
      /\ ToSet(Append(m_OpQueue[p], n)) = ToSet(m_OpQueue[p]) \cup {n}
  <2>1. m_OpQueue[p] \in Seq(OpIds) /\ IsInjective(m_OpQueue[p])
    BY <1>3 DEF OpsConserved
  <2> QED BY <1>4, <2>1, PushOnce
<1>6. /\ m_OpQueue'[p] = Append(m_OpQueue[p], n)
      /\ \A r \in Prios : r # p => m_OpQueue'[r] = m_OpQueue[r]
  BY <1>3
<1>7. Waiting' = Waiting \cup {n}
  <2>1. \A k : k \in Waiting' <=> \E r \in Prios : k \in ToSet(m_OpQueue'[r])
    BY DEF Waiting
  <2> QED BY <1>5, <1>6, <2>1, InWaiting
<1>8. \A r \in Prios : IsInjective(m_OpQueue'[r])
  BY <1>5, <1>6 DEF OpsConserved
<1>9. \A r \in Prios : n \notin ToSet(m_OpQueue[r])
  BY <1>4, InWaiting
<1>10. \A r, t \in Prios : r # t => ToSet(m_OpQueue'[r]) \cap ToSet(m_OpQueue'[t]) = {}
  <2> SUFFICES ASSUME NEW r \in Prios, NEW t \in Prios, r # t
               PROVE  ToSet(m_OpQueue'[r]) \cap ToSet(m_OpQueue'[t]) = {}
    OBVIOUS
  <2>1. ToSet(m_OpQueue[r]) \cap ToSet(m_OpQueue[t]) = {}
    BY DEF OpsConserved
  <2>2. CASE r = p
    BY <1>5, <1>6, <1>9, <2>1, <2>2
  <2>3. CASE r # p
    BY <1>5, <1>6, <1>9, <2>1, <2>3
  <2> QED BY <2>2, <2>3
<1>11. InThread' = InThread \cup {n} /\ InSystem' = InSystem \cup {n}
  BY <1>3, <1>7 DEF InThread, InSystem
<1>12. cur # n /\ thinking # n
  BY <1>2, <1>3, OneIs DEF InSystem, InThread
<1>13. n \notin ToSet(m_ThinkQueue) \cup ToSet(templist)
  BY <1>2 DEF InSystem, InThread
<1>14. OpsConserved'
  <2>1. InSystem' \cup destroyed' = DOMAIN ops' /\ InSystem' \cap destroyed' = {}
    BY <1>2, <1>3, <1>11 DEF OpsConserved
  <2>2. /\ IsInjective(m_ThinkQueue)' /\ IsInjective(templist)'
        /\ ToSet(m_ThinkQueue)' = ToSet(m_ThinkQueue) /\ ToSet(templist)' = ToSet(templist)
    BY <1>3 DEF OpsConserved
  <2>3. /\ (Waiting \cap (ToSet(m_ThinkQueue) \cup ToSet(templist)) = {})'
        /\ (ToSet(m_ThinkQueue) \cap ToSet(templist) = {})'
    BY <1>7, <1>13, <2>2 DEF OpsConserved
  <2>4. (cur \notin Waiting \cup ToSet(m_ThinkQueue) \cup ToSet(templist))'
    BY <1>3, <1>7, <1>12, <2>2 DEF OpsConserved
  <2>5. (thinking \notin InThread \cup ToSet(templist))'
    BY <1>3, <1>11, <1>12, <2>2 DEF OpsConserved
  <2> QED BY <1>8, <1>10, <2>1, <2>2, <2>3, <2>4, <2>5 DEF OpsConserved
<1> QED BY <1>0, <1>1, <1>4, <1>7, <1>11, <1>14

(* Operations are taken out of the think queue: all that a handler is about,
   or the first one. *)
LEMMA ConservedTakeOut ==
    ASSUME DBTypeOK, OpsConserved, NEW S \in SUBSET DOMAIN ops, TakeOut(S), templist = <<>>,
           UNCHANGED <<ops, m_OpQueue, cur, thinking, destroyed>>
    PROVE  /\ OpsConserved' /\ Waiting' = Waiting /\ InSystem' = InSystem
           /\ ToSet(templist') = ToSet(m_ThinkQueue) \cap S
           /\ ToSet(m_ThinkQueue') = ToSet(m_ThinkQueue) \ S
<1>1. m_ThinkQueue \in Seq(OpIds) /\ IsInjective(m_ThinkQueue) /\ ToSet(m_ThinkQueue) \subseteq DOMAIN ops
  BY DEF DBTypeOK, OpsConserved, InSystem, InThread
<1>2. /\ IsInjective(templist') /\ ToSet(templist') = ToSet(m_ThinkQueue) \cap S
      /\ IsInjective(m_ThinkQueue')
      /\ ToSet(m_ThinkQueue') = ToSet(m_ThinkQueue) \cap (DOMAIN ops \ S)
  BY <1>1, KeepOnce DEF TakeOut
<1>3. ToSet(m_ThinkQueue') = ToSet(m_ThinkQueue) \ S /\ ToSet(templist) = {}
  BY <1>1, <1>2, EmptyIs
<1>4. Waiting' = Waiting
  BY DEF Waiting
<1>5. InSystem' = InSystem /\ InThread' \cup ToSet(templist') = InThread
  BY <1>2, <1>3, <1>4 DEF InThread, InSystem
<1>6. OpsConserved'
  BY <1>2, <1>3, <1>4, <1>5 DEF OpsConserved
<1> QED BY <1>2, <1>3, <1>4, <1>5, <1>6

LEMMA ConservedThink ==
    ASSUME DBTypeOK, OpsConserved, ThinkFrame \/ ThinkNext
    PROVE  /\ OpsConserved' /\ Waiting' = Waiting /\ thinking' # NoJob /\ InSystem' = InSystem
           /\ InThread' \subseteq InThread /\ ToSet(templist') \subseteq ToSet(templist)
           /\ thinking' \in (IF ThinkFrame THEN ToSet(m_ThinkQueue) ELSE ToSet(templist))
<1>0. /\ m_ThinkQueue \in Seq(OpIds) /\ templist \in Seq(OpIds) /\ NoJob \notin OpIds
      /\ thinking = NoJob /\ UNCHANGED <<ops, m_OpQueue, cur, destroyed>>
      /\ ToSet(One(thinking)) = {}
      /\ \A n : n # NoJob => ToSet(One(n)) = {n}
  BY OneIs DEF DBTypeOK, OpIds, NoJob, ThinkFrame, ThinkNext, TopLevel, opVars
<1>1. Waiting' = Waiting
  BY <1>0 DEF Waiting
<1>2. CASE ThinkFrame
  <2>1. /\ m_ThinkQueue # <<>> /\ IsInjective(m_ThinkQueue) /\ templist' = templist
        /\ thinking' = Head(m_ThinkQueue) /\ m_ThinkQueue' = Tail(m_ThinkQueue)
    BY <1>2 DEF ThinkFrame, OpsConserved
  <2>2. /\ thinking' \in OpIds /\ thinking' \in ToSet(m_ThinkQueue)
        /\ ToSet(m_ThinkQueue') = ToSet(m_ThinkQueue) \ {thinking'} /\ IsInjective(m_ThinkQueue')
    BY <1>0, <2>1, PopOnce
  <2>3. thinking' # NoJob /\ ToSet(One(thinking')) = {thinking'}
    BY <1>0, <2>2
  <2>4. InThread' = Waiting \cup ToSet(One(cur)) \cup ToSet(m_ThinkQueue')
        /\ ToSet(templist)' = ToSet(templist)
    BY <1>0, <1>1, <2>1 DEF InThread
  <2>5. InSystem' = InSystem /\ InThread' \subseteq InThread /\ InThread' \cup {thinking'} = InThread
    BY <1>0, <1>1, <2>2, <2>3, <2>4 DEF InThread, InSystem
  <2>6. cur # thinking'
    BY <2>2 DEF OpsConserved
  <2>7. thinking' \notin Waiting /\ thinking' \notin ToSet(templist) /\ thinking' \notin ToSet(One(cur))
    BY <2>2, <2>6, OneIs DEF OpsConserved
  <2>8. OpsConserved'
    BY <1>0, <1>1, <2>1, <2>2, <2>4, <2>5, <2>7 DEF OpsConserved
  <2> QED BY <1>1, <1>2, <2>1, <2>2, <2>3, <2>5, <2>8
<1>3. CASE ThinkNext /\ ~ThinkFrame
  <2>1. /\ templist # <<>> /\ IsInjective(templist) /\ m_ThinkQueue' = m_ThinkQueue
        /\ thinking' = Head(templist) /\ templist' = Tail(templist)
    BY <1>3 DEF ThinkNext, OpsConserved
  <2>2. /\ thinking' \in OpIds /\ thinking' \in ToSet(templist)
        /\ ToSet(templist') = ToSet(templist) \ {thinking'} /\ IsInjective(templist')
    BY <1>0, <2>1, PopOnce
  <2>3. thinking' # NoJob /\ ToSet(One(thinking')) = {thinking'}
    BY <1>0, <2>2
  <2>4. InThread' = InThread
    BY <1>0, <1>1, <2>1 DEF InThread
  <2>5. InSystem' = InSystem
    BY <1>0, <1>1, <2>2, <2>3, <2>4 DEF InSystem
  <2>6. cur # thinking'
    BY <2>2 DEF OpsConserved
  <2>7. thinking' \notin InThread
    BY <2>2, <2>6, OneIs DEF OpsConserved, InThread
  <2>8. OpsConserved'
    BY <1>0, <1>1, <2>1, <2>2, <2>4, <2>5, <2>7 DEF OpsConserved
  <2> QED BY <1>1, <1>3, <2>1, <2>2, <2>3, <2>4, <2>5, <2>8
<1> QED BY <1>2, <1>3

LEMMA ConservedDone ==
    ASSUME DBTypeOK, OpsConserved, ThinkDone
    PROVE  /\ OpsConserved' /\ Waiting' = Waiting
           /\ InThread' = InThread /\ InSystem' \subseteq InSystem
<1>1. /\ thinking # NoJob /\ destroyed' = destroyed \cup {thinking} /\ thinking' = NoJob
      /\ UNCHANGED <<ops, m_OpQueue, cur, m_ThinkQueue, templist>>
  BY DEF ThinkDone, InThink, opVars
<1>2. Waiting' = Waiting
  BY <1>1 DEF Waiting
<1>3. InThread' = InThread
  BY <1>1, <1>2 DEF InThread
<1>4. ToSet(One(thinking)) = {thinking} /\ ToSet(One(thinking')) = {}
  BY <1>1, OneIs
<1>5. InSystem' = InThread \cup ToSet(templist) /\ InSystem = InSystem' \cup {thinking}
      /\ thinking \notin InSystem'
  BY <1>1, <1>3, <1>4 DEF InSystem, OpsConserved
<1>6. NoJob \notin OpIds /\ m_OpQueue \in [Prios -> Seq(OpIds)] /\ templist \in Seq(OpIds)
      /\ m_ThinkQueue \in Seq(OpIds) /\ cur \in OpIds \cup {NoJob}
  BY DEF OpIds, NoJob, DBTypeOK
<1>7. NoJob \notin InThread \cup ToSet(templist)
  BY <1>6, InWaiting, EmptyIs, OneIs DEF InThread
<1>8. OpsConserved'
  BY <1>1, <1>2, <1>3, <1>5, <1>7 DEF OpsConserved
<1> QED BY <1>2, <1>3, <1>5, <1>8

LEMMA ConservedStep ==
    ASSUME DBTypeOK, GameControl, OpsConserved, [Next]_vars
    PROVE  OpsConserved'
<1>1. CASE UNCHANGED places
  BY <1>1 DEF places, OpsConserved, InSystem, InThread, Waiting
<1>2. CASE RemoveDriverRest
  <2>1. templist = <<>> /\ TakeOut({n \in DOMAIN ops : ops[n].driver = subject})
        /\ UNCHANGED <<ops, m_OpQueue, cur, thinking, destroyed>>
    BY <1>2 DEF RemoveDriverRest, ForgetDriver, GameControl, opVars
  <2> QED BY <2>1, ConservedTakeOut
<1>3. CASE DropOwnerRest
  <2>1. templist = <<>> /\ TakeOut({n \in DOMAIN ops : ops[n].owner = subject})
        /\ UNCHANGED <<ops, m_OpQueue, cur, thinking, destroyed>>
    BY <1>3 DEF DropOwnerRest, GameControl, opVars
  <2> QED BY <2>1, ConservedTakeOut
<1> QED
  BY <1>1, <1>2, <1>3, OthersStay, ConservedTake, ConservedPut, ConservedAdd, ConservedThink,
     ConservedDone DEF Moves

(* Every operation that waits has its number among the operations. *)
LEMMA WaitingFinite ==
    ASSUME DBTypeOK, OpsConserved
    PROVE  /\ IsFiniteSet(Waiting) /\ Cardinality(Waiting) \in Nat
           /\ Cardinality(Waiting) = 0 <=> Waiting = {}
<1>1. Waiting \subseteq 1..Len(ops) /\ Len(ops) \in Nat
  BY LenProperties DEF OpsConserved, InSystem, InThread, DBTypeOK
<1>2. IsFiniteSet(1..Len(ops))
  BY <1>1, FS_Interval
<1>3. IsFiniteSet(Waiting)
  BY <1>1, <1>2, FS_Subset
<1> QED BY <1>3, FS_CardinalityType, FS_EmptySet

(* A job that runs finds an operation. *)
LEMMA JobFindsOne ==
    ASSUME DBTypeOK, WorkerIInv, GameControl, OpsConserved, JobsMatchOps, pc = "job", cur = NoJob
    PROVE  m_OpQueue[GetLikelyQueue] # <<>>
<1>1. /\ Cardinality(Waiting) \in Nat /\ Cardinality(Waiting) = 0 <=> Waiting = {}
  BY WaitingFinite
<1>2. Len(m_ThreadQueue) \in Nat /\ Len(ops) \in Nat /\ made \in Nat /\ made <= Len(ops)
  BY LenProperties DEF DBTypeOK, WorkerIInv, WorkerTypeOK, GameControl
<1>3. Waiting # {}
  BY <1>1, <1>2, WaitingFinite DEF JobsMatchOps
<1>4. PICK p \in Prios : ToSet(m_OpQueue[p]) # {}
  BY <1>3, InWaiting
<1>5. m_OpQueue[p] # <<>>
  BY <1>4, EmptyIs
<1> QED BY <1>5, LikelyIs

LEMMA JobsStep ==
    ASSUME DBTypeOK, WorkerIInv, GameControl, OpsConserved, JobsMatchOps, [Next]_vars
    PROVE  JobsMatchOps'
<1>0. /\ Len(m_ThreadQueue) \in Nat /\ Len(ops) \in Nat /\ made \in Nat /\ made <= Len(ops)
      /\ m_ThreadQueue \in Seq(Jobs) /\ IsFiniteSet(Waiting) /\ Cardinality(Waiting) \in Nat
  BY LenProperties, WaitingFinite DEF DBTypeOK, WorkerIInv, WorkerTypeOK, GameControl
<1>00. m_state = "stopped" /\ caller = "idle" => pc = "none"
  BY DEF WorkerIInv, Handshake, StoppedMeansEnded
<1>1. ASSUME Waiting' = Waiting, UNCHANGED <<m_ThreadQueue, made, cur>>, Len(ops)' = Len(ops),
             pc' = "job" <=> pc = "job"
      PROVE  JobsMatchOps'
  BY <1>1 DEF JobsMatchOps
<1>2. CASE RunThreadTake
  <2>1. /\ cur = NoJob /\ cur' \in Waiting /\ Waiting' = Waiting \ {cur'} /\ pc = "job"
        /\ UNCHANGED <<m_ThreadQueue, made, pc, ops>>
    BY <1>2, ConservedTake DEF RunThreadTake, workerVars, ownerVars, threadVars
  <2>2. PICK h \in Waiting : h = cur'
    BY <2>1
  <2>3. Cardinality(Waiting') = Cardinality(Waiting) - 1
    <3>1. Cardinality(Waiting \ {h}) = Cardinality(Waiting) - 1
      BY <1>0, <2>2, FS_RemoveElement
    <3> QED BY <2>1, <2>2, <3>1
  <2>4. cur' # NoJob
    <3>1. cur' \in OpIds
      BY <1>2, LikelyIs, HeadTailProperties DEF RunThreadTake, DBTypeOK
    <3> QED BY <3>1 DEF OpIds, NoJob
  <2> QED BY <1>0, <2>1, <2>3, <2>4 DEF JobsMatchOps
<1>3. CASE RunThreadPut
  <2>1. /\ pc = "job" /\ pc' # "job" /\ UNCHANGED <<m_ThreadQueue, made, ops>>
    BY <1>3 DEF RunThreadPut, RunFrameJobDone, At, ownerVars, opVars
  <2>2. cur # NoJob
    BY <1>3, <2>1, JobFindsOne DEF RunThreadPut
  <2>3. Waiting' = Waiting
    BY <1>3, <2>2, ConservedPut
  <2> QED BY <1>0, <2>1, <2>2, <2>3 DEF JobsMatchOps
<1>4. CASE WorkerLoop
  <2>1. /\ made' = made /\ pc # "job" /\ cur = NoJob
        /\ \/ pc' # "job" /\ m_ThreadQueue' = m_ThreadQueue
           \/ pc' = "job" /\ m_ThreadQueue # <<>> /\ m_ThreadQueue' = Tail(m_ThreadQueue)
    BY <1>4, LoopDoes DEF WorkerLoop, ownerVars, GameControl
  <2>2. UNCHANGED places
    BY <1>4 DEF WorkerLoop, dbVars, opVars, gameVars, places
  <2>3. Waiting' = Waiting /\ cur' = cur /\ ops' = ops
    BY <2>2 DEF Waiting, places
  <2>4. CASE pc' # "job" /\ m_ThreadQueue' = m_ThreadQueue
    BY <1>1, <2>1, <2>3, <2>4
  <2>5. CASE pc' = "job" /\ m_ThreadQueue # <<>> /\ m_ThreadQueue' = Tail(m_ThreadQueue)
    <3>1. Len(m_ThreadQueue') = Len(m_ThreadQueue) - 1
      BY <1>0, <2>5, HeadTailProperties
    <3> QED BY <1>0, <2>1, <2>3, <2>5, <3>1 DEF JobsMatchOps
  <2> QED BY <2>1, <2>4, <2>5
<1>5. CASE OnWorkerStart \/ OnWorkerStop
  <2>1. Waiting' = Waiting
    BY <1>5 DEF OnWorkerStart, OnWorkerStop, opVars, Waiting
  <2> QED
    BY <1>1, <1>5, <2>1 DEF OnWorkerStart, OnWorkerStop, Begin, Exit, At, ownerVars, opVars
<1>6. CASE AddMakeThread
  <2>1. /\ (pc' = "job") <=> (pc = "job")
        /\ m_ThreadQueue' = Append(m_ThreadQueue, made + 1) /\ made' = made + 1 /\ made < MaxJobs
    BY <1>6, SignalDoes DEF AddMakeThread
  <2>2. Waiting' = Waiting /\ cur' = cur /\ ops' = ops
    BY <1>6 DEF AddMakeThread, dbVars, opVars, Waiting
  <2>3. Len(m_ThreadQueue') = Len(m_ThreadQueue) + 1
    <3>1. made + 1 \in Jobs
      BY <1>0, <2>1, MaxJobsAssumption DEF Jobs
    <3> QED BY <1>0, <2>1, <3>1, AppendProperties
  <2> QED BY <1>0, <2>1, <2>2, <2>3 DEF JobsMatchOps
<1>7. CASE StopSignal /\ UNCHANGED dbVars
  <2>1. /\ (pc' = "job") <=> (pc = "job")
        /\ UNCHANGED <<m_ThreadQueue, made>>
    BY <1>7, SignalDoes
  <2>2. Waiting' = Waiting /\ cur' = cur /\ ops' = ops
    BY <1>7 DEF dbVars, opVars, Waiting
  <2> QED BY <1>1, <2>1, <2>2
<1>8. CASE StopReturns /\ UNCHANGED dbVars
  <2>1. pc = "done" /\ m_ThreadQueue' = <<>> /\ made' = made /\ pc' = "none"
    BY <1>8 DEF StopReturns, WaitForThread
  <2>2. m_ThreadQueue = <<>>
    BY <2>1 DEF WorkerIInv, Handshake, Flushed, GameControl
  <2>3. Waiting' = Waiting /\ cur' = cur /\ ops' = ops
    BY <1>8 DEF dbVars, opVars, Waiting
  <2> QED BY <1>1, <2>1, <2>2, <2>3
<1>9. ASSUME NEW o \in Owners, NEW d \in Drivers, NEW p \in Prios, AddToThreadQueue(o, d, p)
      PROVE  JobsMatchOps'
  <2>0. PICK n : n = Len(ops) + 1
    OBVIOUS
  <2>1. n \notin Waiting /\ Waiting' = Waiting \cup {n} /\ Len(ops') = Len(ops) + 1
    BY <1>9, <2>0, ConservedAdd
  <2>2. Cardinality(Waiting \cup {n}) = Cardinality(Waiting) + 1
    BY <1>0, <2>1, FS_AddElement
  <2>3. caller = "idle" /\ UNCHANGED <<m_ThreadQueue, made, cur>>
    BY <1>9 DEF AddToThreadQueue, Acts, TopLevel, InThink, Free, Start, Call, workerVars,
                ownerVars
  <2>4. pc' = "job" <=> pc = "job"
    BY <1>9, <1>00, <2>3 DEF AddToThreadQueue, Start, workerVars, threadVars
  <2>5. (Cardinality(Waiting))' = Cardinality(Waiting) + 1
    BY <2>1, <2>2
  <2> DEFINE busy == IF pc = "job" /\ cur = NoJob THEN 1 ELSE 0
  <2>6. busy \in {0, 1} /\ busy' = busy
    BY <2>3, <2>4
  <2>7. Cardinality(Waiting) = Len(m_ThreadQueue) + busy + (Len(ops) - made)
    BY DEF JobsMatchOps
  <2>8. Len(m_ThreadQueue)' = Len(m_ThreadQueue) /\ Len(ops)' = Len(ops) + 1 /\ made' = made
    BY <2>1, <2>3
  <2> HIDE DEF busy
  <2>9. Cardinality(Waiting)' = Len(m_ThreadQueue)' + busy' + (Len(ops)' - made')
    BY <1>0, <2>5, <2>6, <2>7, <2>8
  <2> QED BY <2>9 DEF JobsMatchOps, busy
<1>10. ASSUME UNCHANGED <<m_OpQueue, m_ThreadQueue, made, cur, ops, pc>> PROVE JobsMatchOps'
  <2>1. Waiting' = Waiting
    BY <1>10 DEF Waiting
  <2> QED BY <1>1, <1>10, <2>1
<1>11. CASE AddDriverRest \/ RemoveDriverRest \/ DropOwnerRest \/ ThinkNext \/ HandlerReturns
              \/ ThinkDone \/ ThinkFrame
  BY <1>10, <1>11 DEF AddDriverRest, RemoveDriverRest, DropOwnerRest, ThinkNext, HandlerReturns,
     ThinkDone, ThinkFrame, opVars, workerVars, ownerVars, threadVars
<1>12. CASE Connect \/ OnSourceModLevelChange \/ Over \/ UNCHANGED vars
  BY <1>10, <1>12 DEF Connect, OnSourceModLevelChange, Over, vars, dbVars, opVars, workerVars,
                      ownerVars, threadVars
<1>13. ASSUME KillWorkerThread PROVE UNCHANGED <<m_ThreadQueue, made, pc>>
  BY <1>13 DEF KillWorkerThread, Stop, workerVars, threadVars, ownerVars
<1>14. ASSUME NEW d, AddDriver(d) PROVE JobsMatchOps'
  BY <1>10, <1>13, <1>14 DEF AddDriver, opVars
<1>15. ASSUME NEW h, NEW w, Enter(h, w) PROVE JobsMatchOps'
  BY <1>10, <1>13, <1>15 DEF Enter, opVars
<1>16. CASE WorkerThread
  BY <1>2, <1>3, <1>4, <1>5, <1>16 DEF WorkerThread
<1>17. CASE GameContinues
  BY <1>6, <1>7, <1>8, <1>11, <1>17 DEF GameContinues
<1>18. CASE Calls
  <2>1. ASSUME NEW o \in Owners, SQL_TConnect(o) PROVE JobsMatchOps'
    <3>1. GetDefaultDriver \in Drivers /\ 0 \in Prios
      BY <2>1, FindDefaultIs, PriosAssumption DEF SQL_TConnect, DBTypeOK, GetDefaultDriver
    <3> QED BY <1>9, <2>1, <3>1 DEF SQL_TConnect
  <2>2. ASSUME NEW o \in Owners, NEW p \in Prios, SQL_TQuery(o, p) PROVE JobsMatchOps'
    <3>1. PICK k \in DOMAIN m_drivers : AddToThreadQueue(o, m_drivers[k], p)
      BY <2>2 DEF SQL_TQuery
    <3>2. m_drivers[k] \in Drivers
      BY <3>1, FindDefaultIs DEF ToSet, DBTypeOK
    <3> QED BY <1>9, <3>1, <3>2
  <2> QED
    BY <1>12, <1>14, <1>15, <1>18, <2>1, <2>2 DEF Calls, RemoveDriver, OnPluginUnloaded,
       OnSourceModIdentityDropped, OnSourceModShutdown
<1> QED
  BY <1>11, <1>12, <1>16, <1>17, <1>18 DEF Next

-----------------------------------------------------------------------------
(***************************************************************************)
(* Owners and drivers.                                                     *)
(***************************************************************************)

(* Once the worker is killed and every operation has had its job, all that is
   left of the threaded part is the think queue. *)
LEMMA KilledLeavesThink ==
    ASSUME DBTypeOK, WorkerIInv, GameControl, OpsConserved, JobsMatchOps,
           m_state = "stopped", Free
    PROVE  Waiting = {} /\ cur = NoJob /\ InThread = ToSet(m_ThinkQueue)
<1>1. pc = "none" /\ m_ThreadQueue = <<>> /\ made = Len(ops) /\ cur = NoJob
  BY DEF Free, WorkerIInv, Handshake, StoppedMeansEnded, GameControl
<1>2. Len(ops) \in Nat /\ Len(m_ThreadQueue) = 0
  BY <1>1, LenProperties DEF DBTypeOK
<1>3. Cardinality(Waiting) = 0
  BY <1>1, <1>2 DEF JobsMatchOps
<1> QED BY <1>1, <1>3, WaitingFinite, OneIs DEF InThread

(* An unloading owner: what it has is in the hands of the handler. *)
Purged ==
    handler = "think" /\ subject \in Owners =>
        /\ \A n \in InThread : ops[n].owner # subject
        /\ \A n \in ToSet(templist) \cup ToSet(One(thinking)) : ops[n].owner = subject

(* The steps that change neither the handler nor an operation's place leave
   all this alone; those that enter or leave a handler end it. *)
LEMMA HandlerStays ==
    ASSUME [Next]_vars
    PROVE  \/ UNCHANGED <<handler, subject>>
           \/ handler' \in {"none", "over"} \cup Killed
           \/ RemoveDriverRest \/ DropOwnerRest
<1>1. CASE WorkerThread
  BY <1>1 DEF WorkerThread, OnWorkerStart, OnWorkerStop, WorkerLoop, RunThreadTake, RunThreadPut,
              dbVars, gameVars
<1>2. CASE GameContinues \/ ThinkFrame
  BY <1>2 DEF GameContinues, AddMakeThread, AddDriverRest, ThinkNext, HandlerReturns, ThinkDone,
              ThinkFrame, dbVars, gameVars
<1>3. CASE Calls
  BY <1>3 DEF Calls, Connect, OnSourceModLevelChange, SQL_TConnect, SQL_TQuery, AddToThreadQueue,
              AddDriver, RemoveDriver, OnPluginUnloaded, OnSourceModIdentityDropped,
              OnSourceModShutdown, Enter, Killed
<1>4. CASE Over \/ UNCHANGED vars
  BY <1>4 DEF Over, vars, dbVars, gameVars
<1> QED BY <1>1, <1>2, <1>3, <1>4 DEF Next

LEMMA PurgedStep ==
    ASSUME DBTypeOK, WorkerIInv, GameControl, SubjectKnown, OpsConserved, JobsMatchOps, Purged,
           [Next]_vars
    PROVE  Purged'
<1>0. InSystem \subseteq DOMAIN ops
  BY DEF OpsConserved
<1>1. CASE RemoveDriverRest
  <2>1. subject' \notin Owners
    BY <1>1, NullOwnsNothing DEF RemoveDriverRest, SubjectKnown, Owners
  <2> QED BY <2>1 DEF Purged
<1>2. CASE DropOwnerRest
  <2> DEFINE S == {n \in DOMAIN ops : ops[n].owner = subject}
  <2>1. /\ templist = <<>> /\ TakeOut(S) /\ thinking = NoJob /\ m_state = "stopped" /\ Free
        /\ UNCHANGED <<ops, m_OpQueue, cur, thinking, destroyed, subject>>
    BY <1>2 DEF DropOwnerRest, GameControl, Killed, opVars
  <2>2. Waiting = {} /\ cur = NoJob
    BY <2>1, KilledLeavesThink
  <2>3. /\ Waiting' = {} /\ ToSet(templist') \subseteq S
        /\ ToSet(m_ThinkQueue') = ToSet(m_ThinkQueue) \ S
    BY <2>1, <2>2, ConservedTakeOut
  <2>4. InThread' = ToSet(m_ThinkQueue') /\ ToSet(One(thinking')) = {}
    BY <2>1, <2>2, <2>3, OneIs DEF InThread
  <2>5. ToSet(m_ThinkQueue) \subseteq DOMAIN ops
    BY <1>0 DEF InSystem, InThread
  <2> QED BY <2>1, <2>3, <2>4, <2>5 DEF Purged
<1>3. ASSUME UNCHANGED <<handler, subject>>, handler = "think", subject \in Owners
      PROVE  Purged'
  <2>0. /\ \A n \in InThread : ops[n].owner # subject
        /\ \A n \in ToSet(templist) \cup ToSet(One(thinking)) : ops[n].owner = subject
    BY <1>3 DEF Purged
  <2>1. CASE UNCHANGED places
    BY <2>1, <1>3, <2>0 DEF Purged, places, InThread, Waiting
  <2>2. CASE RunThreadTake
    BY <1>3, <2>0, <2>2, ConservedTake DEF RunThreadTake, gameVars, Purged
  <2>3. CASE RunThreadPut /\ cur # NoJob
    BY <1>3, <2>0, <2>3, ConservedPut DEF RunThreadPut, gameVars, opVars, Purged
  <2>4. ASSUME NEW o \in Owners, NEW d \in Drivers, NEW p \in Prios, AddToThreadQueue(o, d, p)
        PROVE  FALSE
    <3>1. thinking # NoJob /\ ops[thinking].owner = o /\ ~Refused(o)
      BY <1>3, <2>4 DEF AddToThreadQueue, Acts, TopLevel, InThink
    <3>2. o = subject
      BY <2>0, <3>1, OneIs
    <3> QED BY <1>3, <3>1, <3>2 DEF SubjectKnown
  <2>5. CASE ThinkFrame
    BY <1>3, <2>5 DEF ThinkFrame, TopLevel
  <2>6. CASE ThinkNext /\ ~ThinkFrame
    <3>1. /\ InThread' \subseteq InThread /\ ToSet(templist') \subseteq ToSet(templist)
          /\ thinking' \in ToSet(templist) /\ thinking' # NoJob
      BY <2>6, ConservedThink
    <3>2. ops' = ops /\ ToSet(One(thinking')) = {thinking'}
      BY <2>6, <3>1, OneIs DEF ThinkNext, opVars
    <3> QED BY <1>3, <2>0, <3>1, <3>2 DEF Purged
  <2>7. CASE ThinkDone
    <3>1. InThread' = InThread /\ UNCHANGED <<ops, templist>> /\ ToSet(One(thinking')) = {}
      BY <2>7, ConservedDone, OneIs DEF ThinkDone, opVars
    <3> QED BY <1>3, <2>0, <3>1 DEF Purged
  <2> QED
    BY <1>1, <1>2, <2>1, <2>2, <2>3, <2>4, <2>5, <2>6, <2>7, OthersStay DEF Moves
<1> QED
  BY <1>1, <1>2, <1>3, HandlerStays DEF Purged, Killed

LEMMA GoneStep ==
    ASSUME DBTypeOK, WorkerIInv, GameControl, SubjectKnown, OpsConserved, JobsMatchOps, Purged,
           GoneOwnsNothing, [Next]_vars
    PROVE  GoneOwnsNothing'
<1>0. InSystem \subseteq DOMAIN ops /\ \A n \in InSystem : ops[n].owner \in loaded
  BY DEF OpsConserved, GoneOwnsNothing
<1>1. CASE HandlerReturns
  <2>1. UNCHANGED places /\ loaded' = loaded \ {subject}
    BY <1>1 DEF HandlerReturns, places, opVars
  <2>2. InSystem' = InSystem /\ ops' = ops
    BY <2>1 DEF places, InSystem, InThread, Waiting
  <2>3. CASE handler = "think" /\ subject \in Owners
    <3>1. InSystem = InThread
      BY <1>1, <2>3, OneIs, EmptyIs DEF HandlerReturns, InSystem
    <3> QED BY <1>0, <2>1, <2>2, <2>3, <3>1 DEF Purged, GoneOwnsNothing
  <2>4. CASE subject \notin Owners
    <3>1. loaded' = loaded
      BY <2>1, <2>4 DEF DBTypeOK
    <3> QED BY <1>0, <2>2, <3>1 DEF GoneOwnsNothing
  <2>5. handler # "think" => subject \notin Owners
    BY <1>1, NullOwnsNothing DEF HandlerReturns, SubjectKnown, Owners
  <2> QED BY <2>3, <2>4, <2>5
<1>2. ~HandlerReturns => loaded' = loaded
  <2>1. CASE WorkerThread
    BY <2>1 DEF WorkerThread, OnWorkerStart, OnWorkerStop, WorkerLoop, RunThreadTake,
                RunThreadPut, dbVars, gameVars
  <2>2. CASE GameContinues \/ ThinkFrame
    BY <2>2 DEF GameContinues, AddMakeThread, AddDriverRest, ThinkNext, ThinkDone,
                ThinkFrame, dbVars, gameVars, RemoveDriverRest, DropOwnerRest
  <2>3. CASE Calls
    BY <2>3 DEF Calls, Connect, OnSourceModLevelChange, SQL_TConnect, SQL_TQuery,
                AddToThreadQueue, AddDriver, RemoveDriver, OnPluginUnloaded,
                OnSourceModIdentityDropped, OnSourceModShutdown, Enter
  <2>4. CASE Over \/ UNCHANGED vars
    BY <2>4 DEF Over, vars, dbVars, gameVars
  <2> QED BY <2>1, <2>2, <2>3, <2>4 DEF Next
<1>3. ASSUME loaded' = loaded, ops' = ops, InSystem' \subseteq InSystem PROVE GoneOwnsNothing'
  BY <1>0, <1>3 DEF GoneOwnsNothing
<1>4. ASSUME loaded' = loaded PROVE GoneOwnsNothing'
  <2>1. CASE UNCHANGED places
    BY <1>3, <1>4, <2>1 DEF places, InSystem, InThread, Waiting
  <2>2. CASE RunThreadTake \/ (RunThreadPut /\ cur # NoJob)
    BY <1>3, <1>4, <2>2, ConservedTake, ConservedPut DEF RunThreadTake, RunThreadPut, opVars
  <2>3. ASSUME NEW o \in Owners, NEW d \in Drivers, NEW p \in Prios, AddToThreadQueue(o, d, p)
        PROVE  GoneOwnsNothing'
    <3>1. /\ InSystem' = InSystem \cup {Len(ops) + 1} /\ \A n \in DOMAIN ops : ops'[n] = ops[n]
          /\ ops'[Len(ops) + 1] = [owner |-> o, driver |-> d, prio |-> p]
      BY <2>3, ConservedAdd
    <3>2. o \in loaded
      BY <2>3 DEF AddToThreadQueue, Acts
    <3>3. ops'[Len(ops) + 1].owner = o
      BY <3>1
    <3> QED BY <1>0, <1>4, <3>1, <3>2, <3>3 DEF GoneOwnsNothing
  <2>4. CASE ThinkFrame \/ ThinkNext
    BY <1>3, <1>4, <2>4, ConservedThink DEF ThinkFrame, ThinkNext, opVars
  <2>5. CASE ThinkDone
    BY <1>3, <1>4, <2>5, ConservedDone DEF ThinkDone, opVars
  <2>6. CASE RemoveDriverRest
    <3>1. templist = <<>> /\ TakeOut({n \in DOMAIN ops : ops[n].driver = subject})
          /\ UNCHANGED <<ops, m_OpQueue, cur, thinking, destroyed>>
      BY <2>6 DEF RemoveDriverRest, ForgetDriver, GameControl, opVars
    <3> QED BY <1>3, <1>4, <3>1, ConservedTakeOut
  <2>7. CASE DropOwnerRest
    <3>1. templist = <<>> /\ TakeOut({n \in DOMAIN ops : ops[n].owner = subject})
          /\ UNCHANGED <<ops, m_OpQueue, cur, thinking, destroyed>>
      BY <2>7 DEF DropOwnerRest, GameControl, opVars
    <3> QED BY <1>3, <1>4, <3>1, ConservedTakeOut
  <2> QED
    BY <2>1, <2>2, <2>3, <2>4, <2>5, <2>6, <2>7, OthersStay DEF Moves
<1> QED BY <1>1, <1>2, <1>4

(* The drivers a queued operation or a conf may refer to. *)
Known == ToSet(m_drivers) \cup {m_pDefault}

DriversIn ==
    /\ \A n \in InThread : ops[n].driver \in Known
    /\ realDriver \in Known \cup {NULL}

(* Only RemoveDriver() takes a driver away; m_pDefault is set once. *)
LEMMA KnownGrows ==
    ASSUME DBTypeOK, [Next]_vars, ~RemoveDriverRest
    PROVE  Known \ {NULL} \subseteq Known'
<1>1. ASSUME UNCHANGED <<m_drivers, m_pDefault>> PROVE Known' = Known
  BY <1>1 DEF Known
<1>2. ASSUME m_drivers' = m_drivers, m_pDefault' \in {GetDefaultDriver, m_pDefault}
      PROVE  Known \ {NULL} \subseteq Known'
  BY <1>2 DEF GetDefaultDriver, Known
<1>3. CASE WorkerThread
  BY <1>1, <1>3 DEF WorkerThread, OnWorkerStart, OnWorkerStop, WorkerLoop, RunThreadTake,
     RunThreadPut, dbVars, gameVars
<1>4. CASE AddDriverRest
  <2>1. adding \in Drivers /\ m_drivers \in Seq(Drivers)
    BY <1>4 DEF AddDriverRest, DBTypeOK
  <2>2. ToSet(m_drivers') = ToSet(m_drivers) \cup {adding}
    BY <1>4, <2>1, AppendIs DEF AddDriverRest
  <2> QED BY <1>4, <2>2 DEF AddDriverRest, Known
<1>5. CASE (GameContinues \/ ThinkFrame) /\ ~AddDriverRest
  BY <1>1, <1>5 DEF GameContinues, AddMakeThread, ThinkNext, ThinkDone, ThinkFrame, dbVars,
     gameVars, DropOwnerRest, HandlerReturns
<1>6. CASE Calls
  <2>1. CASE Connect \/ \E o \in Owners : SQL_TConnect(o)
    BY <1>2, <2>1 DEF Connect, SQL_TConnect, AddToThreadQueue
  <2>2. CASE OnSourceModLevelChange \/ \E o \in Owners, p \in Prios : SQL_TQuery(o, p)
    BY <1>1, <2>2 DEF OnSourceModLevelChange, SQL_TQuery, AddToThreadQueue
  <2>3. CASE \/ OnSourceModShutdown
             \/ \E d \in Drivers : AddDriver(d) \/ RemoveDriver(d)
             \/ \E o \in Owners : OnPluginUnloaded(o) \/ OnSourceModIdentityDropped(o)
    BY <1>1, <2>3 DEF OnSourceModShutdown, AddDriver, RemoveDriver, OnPluginUnloaded,
                OnSourceModIdentityDropped, Enter
  <2> QED BY <1>6, <2>1, <2>2, <2>3 DEF Calls
<1>7. CASE Over \/ UNCHANGED vars
  BY <1>1, <1>7 DEF Over, vars, dbVars, gameVars
<1> QED BY <1>3, <1>4, <1>5, <1>6, <1>7 DEF Next

(* A conf takes the default driver, or none. *)
LEMMA ConfStep ==
    ASSUME DBTypeOK, [Next]_vars, ~RemoveDriverRest
    PROVE  realDriver' = realDriver \/ realDriver' \in {m_pDefault', NULL}
<1>1. CASE WorkerThread
  BY <1>1 DEF WorkerThread, OnWorkerStart, OnWorkerStop, WorkerLoop, RunThreadTake,
              RunThreadPut, dbVars, gameVars
<1>2. CASE GameContinues \/ ThinkFrame
  BY <1>2 DEF GameContinues, AddMakeThread, AddDriverRest, ThinkNext, ThinkDone, ThinkFrame,
              dbVars, gameVars, DropOwnerRest, HandlerReturns
<1>3. CASE Calls
  BY <1>3 DEF Calls, Connect, OnSourceModLevelChange, SQL_TConnect, SQL_TQuery, AddToThreadQueue,
              AddDriver, RemoveDriver, OnPluginUnloaded, OnSourceModIdentityDropped,
              OnSourceModShutdown, Enter
<1>4. CASE Over \/ UNCHANGED vars
  BY <1>4 DEF Over, vars, dbVars, gameVars
<1> QED BY <1>1, <1>2, <1>3, <1>4 DEF Next

(* An operation is added for a driver that is known by then. *)
LEMMA AddKnown ==
    ASSUME DBTypeOK, [Next]_vars, ops' # ops
    PROVE  \E o \in Owners, d \in Drivers, p \in Prios : AddToThreadQueue(o, d, p) /\ d \in Known'
<1>1. CASE WorkerThread \/ GameContinues \/ ThinkFrame \/ Over \/ UNCHANGED vars
  BY <1>1 DEF WorkerThread, OnWorkerStart, OnWorkerStop, WorkerLoop, RunThreadTake, RunThreadPut,
              GameContinues, AddMakeThread, AddDriverRest, RemoveDriverRest, ThinkNext, ThinkDone,
              ThinkFrame, DropOwnerRest, HandlerReturns, Over, vars, dbVars, opVars
<1>2. ASSUME NEW o \in Owners, SQL_TConnect(o)
      PROVE  \E d \in Drivers, p \in Prios : AddToThreadQueue(o, d, p) /\ d \in Known'
  <2>1. GetDefaultDriver \in Drivers /\ 0 \in Prios
    BY <1>2, FindDefaultIs, PriosAssumption DEF SQL_TConnect, DBTypeOK, GetDefaultDriver
  <2> QED BY <1>2, <2>1 DEF SQL_TConnect, Known
<1>3. ASSUME NEW o \in Owners, NEW p \in Prios, SQL_TQuery(o, p)
      PROVE  \E d \in Drivers : AddToThreadQueue(o, d, p) /\ d \in Known'
  <2>1. PICK k \in DOMAIN m_drivers : AddToThreadQueue(o, m_drivers[k], p)
    BY <1>3 DEF SQL_TQuery
  <2>2. m_drivers[k] \in Drivers /\ m_drivers[k] \in ToSet(m_drivers)
    BY <2>1, FindDefaultIs DEF ToSet, DBTypeOK
  <2> QED BY <2>1, <2>2 DEF AddToThreadQueue, Known
<1>4. CASE Calls /\ ~ \E o \in Owners : SQL_TConnect(o) \/ \E p \in Prios : SQL_TQuery(o, p)
  BY <1>4 DEF Calls, Connect, OnSourceModLevelChange, AddDriver, RemoveDriver, OnPluginUnloaded,
              OnSourceModIdentityDropped, OnSourceModShutdown, Enter, opVars
<1> QED BY <1>1, <1>2, <1>3, <1>4 DEF Next

LEMMA DriversStep ==
    ASSUME DBTypeOK, WorkerIInv, GameControl, SubjectKnown, OpsConserved, JobsMatchOps, DriversIn,
           [Next]_vars
    PROVE  DriversIn'
<1>0. /\ InThread \subseteq DOMAIN ops /\ NULL \notin Drivers
      /\ \A n \in DOMAIN ops : ops[n].driver \in Drivers
  <2>1. \A S : \A s \in Seq(S) : \A n \in DOMAIN s : s[n] \in S
    BY ElementOfSeq, LenProperties
  <2>2. ops \in Seq([owner : Owners, driver : Drivers, prio : Prios])
    BY DEF DBTypeOK
  <2>3. \A n \in DOMAIN ops : ops[n] \in [owner : Owners, driver : Drivers, prio : Prios]
    BY <2>1, <2>2
  <2> QED BY <2>3, NullOwnsNothing DEF OpsConserved, InSystem
<1>1. CASE RemoveDriverRest
  <2> DEFINE S == {n \in DOMAIN ops : ops[n].driver = subject}
  <2>1. /\ templist = <<>> /\ TakeOut(S) /\ m_state = "stopped" /\ Free /\ m_pDefault' = m_pDefault
        /\ UNCHANGED <<ops, m_OpQueue, cur, thinking, destroyed, subject>>
        /\ m_drivers' = Keep(m_drivers, Drivers \ {subject})
        /\ realDriver' = IF realDriver = subject THEN NULL ELSE realDriver
    BY <1>1 DEF RemoveDriverRest, ForgetDriver, GameControl, Killed, opVars
  <2>2. Waiting = {} /\ cur = NoJob /\ InThread = ToSet(m_ThinkQueue)
    BY <2>1, KilledLeavesThink
  <2>3. Waiting' = {} /\ ToSet(m_ThinkQueue') = ToSet(m_ThinkQueue) \ S
    BY <2>1, <2>2, ConservedTakeOut
  <2>4. InThread' = ToSet(m_ThinkQueue')
    BY <2>1, <2>2, <2>3, OneIs DEF InThread
  <2>5. ToSet(m_drivers') = ToSet(m_drivers) \cap (Drivers \ {subject})
    BY <2>1, KeepIs DEF DBTypeOK
  <2>6. Known \ {subject} \subseteq Known' \cup {NULL}
    <3>1. ToSet(m_drivers) \subseteq Drivers
      BY FindDefaultIs DEF DBTypeOK
    <3> QED BY <2>1, <2>5, <3>1 DEF Known
  <2>7. realDriver' \in Known' \cup {NULL}
    BY <2>1, <2>6 DEF DriversIn
  <2>8. ASSUME NEW n \in InThread' PROVE ops'[n].driver \in Known'
    <3>1. n \in InThread /\ n \notin S /\ n \in DOMAIN ops
      BY <1>0, <2>2, <2>3, <2>4
    <3>2. ops[n].driver \in Known \ {subject} /\ ops[n].driver # NULL
      BY <1>0, <3>1 DEF DriversIn
    <3> QED BY <2>1, <2>6, <3>2
  <2> QED BY <2>7, <2>8 DEF DriversIn
<1>2. CASE ~RemoveDriverRest
  <2>1. Known \ {NULL} \subseteq Known'
    BY <1>2, KnownGrows
  <2>2. realDriver' \in Known' \cup {NULL}
    BY <1>2, <2>1, ConfStep DEF DriversIn, Known
  <2>3. \A n \in InThread : ops[n].driver \in Known'
    BY <1>0, <2>1 DEF DriversIn
  <2>4. CASE ops' # ops
    <3>1. PICK o \in Owners, d \in Drivers, p \in Prios : AddToThreadQueue(o, d, p) /\ d \in Known'
      BY <2>4, AddKnown
    <3>2. /\ InThread' = InThread \cup {Len(ops) + 1} /\ \A n \in DOMAIN ops : ops'[n] = ops[n]
          /\ ops'[Len(ops) + 1] = [owner |-> o, driver |-> d, prio |-> p]
      BY <3>1, ConservedAdd
    <3>3. ops'[Len(ops) + 1].driver = d
      BY <3>2
    <3> QED BY <1>0, <2>2, <2>3, <3>1, <3>2, <3>3 DEF DriversIn
  <2>5. CASE ops' = ops
    <3>1. InThread' \subseteq InThread
      <4>1. CASE UNCHANGED places
        BY <4>1 DEF places, InThread, Waiting
      <4>2. CASE RunThreadTake \/ (RunThreadPut /\ cur # NoJob)
        BY <4>2, ConservedTake, ConservedPut
      <4>3. CASE ThinkFrame \/ ThinkNext \/ ThinkDone
        BY <4>3, ConservedThink, ConservedDone
      <4>4. CASE DropOwnerRest
        <5>1. templist = <<>> /\ TakeOut({n \in DOMAIN ops : ops[n].owner = subject})
              /\ UNCHANGED <<ops, m_OpQueue, cur, thinking, destroyed>>
          BY <4>4 DEF DropOwnerRest, GameControl, opVars
        <5>2. Waiting' = Waiting /\ ToSet(m_ThinkQueue') \subseteq ToSet(m_ThinkQueue)
          BY <5>1, ConservedTakeOut
        <5> QED BY <5>1, <5>2 DEF InThread
      <4>5. ASSUME NEW o \in Owners, NEW d \in Drivers, NEW p \in Prios, AddToThreadQueue(o, d, p)
            PROVE  FALSE
        <5>1. Len(ops') = Len(ops) + 1 /\ Len(ops) \in Nat
          BY <4>5, ConservedAdd
        <5> QED BY <2>5, <5>1
      <4> QED BY <1>2, <4>1, <4>2, <4>3, <4>4, <4>5, OthersStay DEF Moves
    <3> QED BY <2>2, <2>3, <2>5, <3>1 DEF DriversIn
  <2> QED BY <2>4, <2>5
<1> QED BY <1>1, <1>2

-----------------------------------------------------------------------------
(***************************************************************************)
(* The order within a priority.                                            *)
(***************************************************************************)
Line == m_ThinkQueue \o One(cur)

(* PriorityKeepsOrder, said of what stands before what: an operation's number
   is its turn. *)
InTurn ==
    /\ \A p \in Prios : \A n \in ToSet(m_OpQueue[p]) : ops[n].prio = p
    /\ \A u, v : Precedes(Line, u, v) /\ ops[u].prio = ops[v].prio => u < v
    /\ \A p \in Prios : \A u, v : Precedes(m_OpQueue[p], u, v) => u < v
    /\ \A p \in Prios : \A u \in ToSet(Line) : \A v \in ToSet(m_OpQueue[p]) :
          ops[u].prio = p => u < v

LEMMA LineIs ==
    ASSUME NEW think \in Seq(OpIds), NEW c \in {NoJob} \cup OpIds
    PROVE  /\ think \o One(c) \in Seq(OpIds)
           /\ ToSet(think \o One(c)) = ToSet(think) \cup ToSet(One(c))
           /\ \A u, v : Precedes(think \o One(c), u, v) <=>
                 Precedes(think, u, v) \/ (u \in ToSet(think) /\ v \in ToSet(One(c)))
<1>1. One(c) \in Seq(OpIds) /\ \A u, v : ~Precedes(One(c), u, v)
  BY OneIs
<1> QED BY <1>1, ConcatIs

LEMMA InTurnMeans ==
    ASSUME DBTypeOK, OpsConserved, InTurn
    PROVE  PriorityKeepsOrder
<1> SUFFICES ASSUME NEW p \in Prios, NEW i \in DOMAIN Queued(p), NEW k \in DOMAIN Queued(p), i < k
             PROVE  Queued(p)[i] < Queued(p)[k]
  BY DEF PriorityKeepsOrder
<1> DEFINE S == {n \in DOMAIN ops : ops[n].prio = p}
           kept == Keep(Line, S)
<1>1. Line \in Seq(OpIds) /\ m_OpQueue[p] \in Seq(OpIds)
  BY LineIs DEF DBTypeOK, Line
<1>2. /\ kept \in Seq(OpIds) /\ ToSet(kept) = ToSet(Line) \cap S
      /\ \A u, v : Precedes(kept, u, v) <=> Precedes(Line, u, v) /\ u \in S /\ v \in S
  BY <1>1, KeepIs
<1>3. Queued(p) = kept \o m_OpQueue[p]
  BY DEF Queued, Line
<1> HIDE DEF kept
<1>4. \A u, v : Precedes(Queued(p), u, v) =>
         \/ Precedes(kept, u, v) \/ Precedes(m_OpQueue[p], u, v)
         \/ u \in ToSet(kept) /\ v \in ToSet(m_OpQueue[p])
  BY <1>1, <1>2, <1>3, ConcatIs
<1>5. Precedes(Queued(p), Queued(p)[i], Queued(p)[k])
  BY DEF Precedes
<1>6. PICK u, v : u = Queued(p)[i] /\ v = Queued(p)[k]
  OBVIOUS
<1>7. Precedes(Queued(p), u, v)
  BY <1>5, <1>6
<1>8. CASE Precedes(kept, u, v)
  BY <1>2, <1>6, <1>8 DEF InTurn
<1>9. CASE Precedes(m_OpQueue[p], u, v)
  BY <1>6, <1>9 DEF InTurn
<1>10. CASE u \in ToSet(kept) /\ v \in ToSet(m_OpQueue[p])
  BY <1>2, <1>6, <1>10 DEF InTurn
<1> QED BY <1>4, <1>7, <1>8, <1>9, <1>10

(* Taking operations out of the queues disturbs nobody's turn. *)
LEMMA FewerInTurn ==
    ASSUME InTurn, ops' = ops, m_OpQueue' = m_OpQueue, ToSet(Line') \subseteq ToSet(Line),
           \A u, v : Precedes(Line', u, v) => Precedes(Line, u, v)
    PROVE  InTurn'
  BY DEF InTurn

LEMMA InTurnStep ==
    ASSUME DBTypeOK, GameControl, OpsConserved, InTurn, [Next]_vars
    PROVE  InTurn'
<1>0. /\ m_ThinkQueue \in Seq(OpIds) /\ cur \in {NoJob} \cup OpIds
      /\ m_OpQueue \in [Prios -> Seq(OpIds)] /\ InThread \subseteq DOMAIN ops
  BY DEF DBTypeOK, OpsConserved, InSystem
<1>1. /\ ToSet(Line) = ToSet(m_ThinkQueue) \cup ToSet(One(cur))
      /\ \A u, v : Precedes(Line, u, v) <=>
            Precedes(m_ThinkQueue, u, v) \/ (u \in ToSet(m_ThinkQueue) /\ v \in ToSet(One(cur)))
  BY <1>0, LineIs DEF Line
<1>2. ASSUME NEW think \in Seq(OpIds), m_ThinkQueue' = think, cur' = cur
      PROVE  /\ ToSet(Line') = ToSet(think) \cup ToSet(One(cur))
             /\ \A u, v : Precedes(Line', u, v) <=>
                   Precedes(think, u, v) \/ (u \in ToSet(think) /\ v \in ToSet(One(cur)))
  BY <1>0, <1>2, LineIs DEF Line
<1>3. CASE UNCHANGED places
  BY <1>3, FewerInTurn DEF places, Line
<1>4. CASE RunThreadTake
  <2>0. PICK p \in Prios : p = GetLikelyQueue
    BY LikelyIs
  <2> DEFINE q == m_OpQueue[p]
  <2>1. /\ q \in Seq(OpIds) /\ q # <<>> /\ cur = NoJob /\ cur' = Head(q)
        /\ m_OpQueue' = [m_OpQueue EXCEPT ![p] = Tail(q)]
        /\ UNCHANGED <<ops, m_ThinkQueue>>
    BY <1>0, <1>4, <2>0 DEF RunThreadTake, TakePops
  <2>2. PICK h \in OpIds : h = Head(q)
    BY <2>1, HeadTailProperties
  <2>3. /\ ToSet(q) = {h} \cup ToSet(Tail(q))
        /\ \A u, v : Precedes(q, u, v) <=> Precedes(Tail(q), u, v) \/ (u = h /\ v \in ToSet(Tail(q)))
    BY <2>1, <2>2, HeadTailIs
  <2>4. /\ ToSet(One(cur)) = {} /\ ToSet(One(h)) = {h} /\ cur' = h
    BY <2>1, <2>2, OneIs DEF OpIds, NoJob
  <2>5. /\ ToSet(Line') = ToSet(m_ThinkQueue) \cup {h}
        /\ \A u, v : Precedes(Line', u, v) <=>
              Precedes(m_ThinkQueue, u, v) \/ (u \in ToSet(m_ThinkQueue) /\ v = h)
    <3>1. Line' = m_ThinkQueue \o One(h)
      BY <2>1, <2>4 DEF Line
    <3> QED BY <1>0, <2>4, <3>1, LineIs
  <2>6. ToSet(Line) = ToSet(m_ThinkQueue) /\ \A u, v : Precedes(Line, u, v) <=> Precedes(m_ThinkQueue, u, v)
    BY <1>1, <2>4
  <2>7. m_OpQueue'[p] = Tail(q) /\ \A r \in Prios : r # p => m_OpQueue'[r] = m_OpQueue[r]
    BY <1>0, <2>1
  <2>8. /\ \A n \in ToSet(q) : ops[n].prio = p
        /\ \A u, v : Precedes(q, u, v) => u < v
        /\ \A u \in ToSet(m_ThinkQueue) : \A v \in ToSet(q) : ops[u].prio = p => u < v
    BY <2>6 DEF InTurn
  <2> HIDE DEF q
  <2>9. \A r \in Prios : /\ ToSet(m_OpQueue'[r]) \subseteq ToSet(m_OpQueue[r])
                         /\ \A u, v : Precedes(m_OpQueue'[r], u, v) => Precedes(m_OpQueue[r], u, v)
    BY <2>3, <2>7 DEF q
  <2>10. \A r \in Prios : \A n \in ToSet(m_OpQueue'[r]) : ops[n].prio = r
    BY <2>9 DEF InTurn
  <2>11. \A u, v : Precedes(Line', u, v) /\ ops[u].prio = ops[v].prio => u < v
    <3> SUFFICES ASSUME NEW u, NEW v, Precedes(Line', u, v), ops[u].prio = ops[v].prio
                 PROVE  u < v
      OBVIOUS
    <3>1. CASE Precedes(m_ThinkQueue, u, v)
      BY <2>6, <3>1 DEF InTurn
    <3>2. CASE u \in ToSet(m_ThinkQueue) /\ v = h
      BY <2>3, <2>8, <3>2
    <3> QED BY <2>5, <3>1, <3>2
  <2>12. \A r \in Prios : \A u, v : Precedes(m_OpQueue'[r], u, v) => u < v
    BY <2>9 DEF InTurn
  <2>13. \A r \in Prios : \A u \in ToSet(Line') : \A v \in ToSet(m_OpQueue'[r]) :
            ops[u].prio = r => u < v
    <3> SUFFICES ASSUME NEW r \in Prios, NEW u \in ToSet(Line'), NEW v \in ToSet(m_OpQueue'[r]),
                        ops[u].prio = r
                 PROVE  u < v
      OBVIOUS
    <3>1. CASE u \in ToSet(m_ThinkQueue)
      BY <2>6, <2>9, <3>1 DEF InTurn
    <3>2. CASE u = h
      <4>1. r = p /\ v \in ToSet(Tail(q))
        BY <2>3, <2>7, <2>8, <3>2
      <4> QED BY <2>3, <2>8, <3>2, <4>1
    <3> QED BY <2>5, <3>1, <3>2
  <2> QED BY <2>1, <2>10, <2>11, <2>12, <2>13 DEF InTurn
<1>5. CASE RunThreadPut /\ cur # NoJob
  <2>1. /\ m_ThinkQueue' = Append(m_ThinkQueue, cur) /\ cur' = NoJob /\ UNCHANGED <<ops, m_OpQueue>>
        /\ cur \in OpIds
    BY <1>0, <1>5 DEF RunThreadPut, opVars
  <2>2. /\ m_ThinkQueue' \in Seq(OpIds) /\ ToSet(m_ThinkQueue') = ToSet(m_ThinkQueue) \cup {cur}
        /\ \A u, v : Precedes(m_ThinkQueue', u, v) <=>
              Precedes(m_ThinkQueue, u, v) \/ (u \in ToSet(m_ThinkQueue) /\ v = cur)
    BY <1>0, <2>1, AppendIs
  <2>3. /\ ToSet(Line') = ToSet(m_ThinkQueue')
        /\ \A u, v : Precedes(Line', u, v) <=> Precedes(m_ThinkQueue', u, v)
    <3>1. Line' = m_ThinkQueue' \o One(NoJob) /\ ToSet(One(NoJob)) = {}
      BY <2>1, OneIs DEF Line
    <3> QED BY <2>2, <3>1, LineIs
  <2>4. ToSet(One(cur)) = {cur}
    BY <1>5, OneIs
  <2> QED BY <1>1, <2>1, <2>2, <2>3, <2>4, FewerInTurn
<1>6. ASSUME NEW o \in Owners, NEW d \in Drivers, NEW p \in Prios, AddToThreadQueue(o, d, p)
      PROVE  InTurn'
  <2>0. PICK n \in OpIds : n = Len(ops) + 1
    BY <1>6, LenProperties, MaxJobsAssumption DEF AddToThreadQueue, OpIds, DBTypeOK
  <2>1. /\ m_OpQueue' = [m_OpQueue EXCEPT ![p] = Append(m_OpQueue[p], n)]
        /\ UNCHANGED <<cur, m_ThinkQueue>>
    BY <1>6, <2>0 DEF AddToThreadQueue, GetQueuePush
  <2>2. /\ Len(ops) \in Nat /\ DOMAIN ops = 1..Len(ops)
        /\ \A k \in DOMAIN ops : ops'[k] = ops[k]
        /\ ops'[n] = [owner |-> o, driver |-> d, prio |-> p]
    BY <1>6, <2>0, ConservedAdd
  <2>3. ops'[n].prio = p /\ \A k \in DOMAIN ops : k < n
    BY <2>0, <2>2
  <2>4. /\ m_OpQueue'[p] = Append(m_OpQueue[p], n)
        /\ \A r \in Prios : r # p => m_OpQueue'[r] = m_OpQueue[r]
    BY <1>0, <2>1
  <2>5. /\ ToSet(m_OpQueue'[p]) = ToSet(m_OpQueue[p]) \cup {n}
        /\ \A u, v : Precedes(m_OpQueue'[p], u, v) <=>
              Precedes(m_OpQueue[p], u, v) \/ (u \in ToSet(m_OpQueue[p]) /\ v = n)
    <3>1. m_OpQueue[p] \in Seq(OpIds)
      BY <1>0
    <3> QED BY <2>4, <3>1, AppendIs
  <2>6. Line' = Line
    BY <2>1 DEF Line
  <2>7. ToSet(Line) \subseteq DOMAIN ops /\ \A r \in Prios : ToSet(m_OpQueue[r]) \subseteq DOMAIN ops
    BY <1>0, <1>1, InWaiting DEF InThread
  <2>8. \A r \in Prios : \A k \in ToSet(m_OpQueue'[r]) : ops'[k].prio = r
    <3> SUFFICES ASSUME NEW r \in Prios, NEW k \in ToSet(m_OpQueue'[r]) PROVE ops'[k].prio = r
      OBVIOUS
    <3>1. CASE k \in ToSet(m_OpQueue[r])
      <4>1. k \in DOMAIN ops /\ ops[k].prio = r
        BY <2>7, <3>1 DEF InTurn
      <4> QED BY <2>2, <4>1
    <3>2. CASE r = p /\ k = n
      BY <2>3, <3>2
    <3> QED BY <2>4, <2>5, <3>1, <3>2
  <2>9. \A u, v : Precedes(Line, u, v) /\ ops'[u].prio = ops'[v].prio => u < v
    <3> SUFFICES ASSUME NEW u, NEW v, Precedes(Line, u, v), ops'[u].prio = ops'[v].prio
                 PROVE  u < v
      OBVIOUS
    <3>1. u \in DOMAIN ops /\ v \in DOMAIN ops
      BY <2>7, PrecedesIn
    <3> QED BY <2>2, <3>1 DEF InTurn
  <2>10. \A r \in Prios : \A u, v : Precedes(m_OpQueue'[r], u, v) => u < v
    BY <2>3, <2>4, <2>5, <2>7 DEF InTurn
  <2>11. \A r \in Prios : \A u \in ToSet(Line) : \A v \in ToSet(m_OpQueue'[r]) :
            ops'[u].prio = r => u < v
    <3> SUFFICES ASSUME NEW r \in Prios, NEW u \in ToSet(Line), NEW v \in ToSet(m_OpQueue'[r]),
                        ops'[u].prio = r
                 PROVE  u < v
      OBVIOUS
    <3>1. u \in DOMAIN ops /\ ops'[u] = ops[u]
      BY <2>2, <2>7
    <3>2. CASE v \in ToSet(m_OpQueue[r])
      BY <3>1, <3>2 DEF InTurn
    <3>3. CASE v = n
      BY <2>3, <3>1, <3>3
    <3> QED BY <2>4, <2>5, <3>2, <3>3
  <2> QED BY <2>6, <2>8, <2>9, <2>10, <2>11 DEF InTurn
<1>7. CASE ThinkFrame
  <2>1. m_ThinkQueue # <<>> /\ m_ThinkQueue' = Tail(m_ThinkQueue) /\ UNCHANGED <<ops, m_OpQueue, cur>>
    BY <1>7 DEF ThinkFrame, opVars
  <2>2. /\ m_ThinkQueue' \in Seq(OpIds) /\ ToSet(m_ThinkQueue') \subseteq ToSet(m_ThinkQueue)
        /\ \A u, v : Precedes(m_ThinkQueue', u, v) => Precedes(m_ThinkQueue, u, v)
    BY <1>0, <2>1, HeadTailIs
  <2> QED BY <1>1, <1>2, <2>1, <2>2, FewerInTurn
<1>8. CASE ThinkNext \/ ThinkDone
  BY <1>8, FewerInTurn DEF ThinkNext, ThinkDone, opVars, Line
<1>9. ASSUME NEW S, TakeOut(S), UNCHANGED <<ops, m_OpQueue, cur>> PROVE InTurn'
  <2>1. /\ m_ThinkQueue' \in Seq(OpIds) /\ ToSet(m_ThinkQueue') \subseteq ToSet(m_ThinkQueue)
        /\ \A u, v : Precedes(m_ThinkQueue', u, v) => Precedes(m_ThinkQueue, u, v)
    BY <1>0, <1>9, KeepIs DEF TakeOut
  <2> QED BY <1>1, <1>2, <1>9, <2>1, FewerInTurn
<1>10. CASE RemoveDriverRest \/ DropOwnerRest
  BY <1>9, <1>10 DEF RemoveDriverRest, ForgetDriver, DropOwnerRest, opVars
<1> QED
  BY <1>3, <1>4, <1>5, <1>6, <1>7, <1>8, <1>10, OthersStay DEF Moves

-----------------------------------------------------------------------------
(***************************************************************************)
(* The theorems.                                                           *)
(***************************************************************************)
DBIInv == /\ WorkerIInv /\ DBTypeOK /\ GameControl /\ SubjectKnown /\ SafetyMatches
          /\ OpsConserved /\ JobsMatchOps /\ Purged /\ GoneOwnsNothing /\ DriversIn /\ InTurn

LEMMA DBIInvInit == Init => DBIInv
<1> SUFFICES ASSUME Init PROVE DBIInv
  OBVIOUS
<1>1. WorkerIInv
  BY WorkerIInvInit DEF Init
<1>2. DBTypeOK /\ GameControl /\ SubjectKnown
  BY DBTypeInit
<1>3. /\ ToSet(m_ThinkQueue) = {} /\ ToSet(templist) = {} /\ ToSet(One(cur)) = {}
      /\ ToSet(One(thinking)) = {} /\ ToSet(Line) = {}
      /\ \A p \in Prios : m_OpQueue[p] = <<>> /\ ToSet(m_OpQueue[p]) = {}
      /\ \A u, v : ~Precedes(Line, u, v)
  <2>1. Line = <<>>
    BY DEF Init, Line, One
  <2> QED BY <2>1, EmptyIs, OneIs DEF Init
<1>4. Waiting = {} /\ InThread = {} /\ InSystem = {} /\ DOMAIN ops = {} /\ destroyed = {}
  BY <1>3, InWaiting DEF InThread, InSystem, Init
<1>5. OpsConserved
  BY <1>3, <1>4, EmptyIs DEF OpsConserved, Init
<1>6. JobsMatchOps
  <2>1. Cardinality(Waiting) = 0
    BY <1>4, FS_EmptySet
  <2> QED BY <2>1 DEF JobsMatchOps, Init, WorkerInit
<1>7. SafetyMatches /\ Purged /\ GoneOwnsNothing /\ DriversIn
  BY <1>4 DEF SafetyMatches, Purged, GoneOwnsNothing, DriversIn, Known, Init, WorkerInit
<1>8. InTurn
  BY <1>3, EmptyIs DEF InTurn
<1> QED BY <1>1, <1>2, <1>5, <1>6, <1>7, <1>8 DEF DBIInv

LEMMA DBIInvStep ==
    ASSUME DBIInv, [Next]_vars
    PROVE  DBIInv'
<1> USE DEF DBIInv
<1>1. WorkerIInv'
  BY WorkerSees, WorkerIInvStep
<1>2. DBTypeOK'
  BY <1>1, DBTypeStep DEF WorkerIInv
<1>3. GameControl' /\ SubjectKnown'
  BY ControlStep
<1>4. SafetyMatches'
  BY SafetyStep
<1>5. OpsConserved'
  BY ConservedStep
<1>6. JobsMatchOps'
  BY JobsStep
<1>7. Purged'
  BY PurgedStep
<1>8. GoneOwnsNothing'
  BY GoneStep
<1>9. DriversIn'
  BY DriversStep
<1>10. InTurn'
  BY InTurnStep
<1> QED BY <1>1, <1>2, <1>3, <1>4, <1>5, <1>6, <1>7, <1>8, <1>9, <1>10

LEMMA DBIInvHolds == Spec => []DBIInv
  BY DBIInvInit, DBIInvStep, PTL DEF Spec

(* AddToThreadQueue(), RunThread(), RunFrame() and the handlers that empty the
   queues lose no operation and destroy none twice, and the worker has a job
   for every operation that waits: RunThread() never finds the queues empty. *)
THEOREM OperationsConserved == Spec => []DBInv
<1>1. DBIInv => DBInv
  BY DEF DBIInv, DBInv
<1> QED BY <1>1, DBIInvHolds, PTL

(* Operations of one priority keep the order in which AddToThreadQueue() took
   them, through both queues and every restart of the worker. *)
THEOREM PrioritiesInOrder == Spec => []PriorityKeepsOrder
<1>1. DBIInv => PriorityKeepsOrder
  BY InTurnMeans DEF DBIInv
<1> QED BY <1>1, DBIInvHolds, PTL

(* OnPluginUnloaded() and OnSourceModIdentityDropped() leave no operation of
   the owner behind, although the think parts they run call the owner's
   functions. *)
THEOREM NothingOutlivesOwner == Spec => []GoneOwnsNothing
<1>1. DBIInv => GoneOwnsNothing
  BY DEF DBIInv
<1> QED BY <1>1, DBIInvHolds, PTL

(* After RemoveDriver() no queued operation and no conf refers to the driver,
   unless it is the default one. *)
THEOREM DriversRegistered == Spec => []DriversKnown
<1>1. ASSUME DBIInv PROVE DriversKnown
  <2>1. InSystem \ (ToSet(templist) \cup {thinking}) \subseteq InThread
    BY OneIs DEF InSystem
  <2> QED BY <1>1, <2>1 DEF DBIInv, DriversIn, Known, DriversKnown
<1> QED BY <1>1, DBIInvHolds, PTL

(* The drivers do not change between OnWorkerStart() and OnWorkerStop(), and
   the handlers that walk the think queue without a lock have no worker beside
   them. *)
THEOREM WorkerKeptApart == Spec => []WorkerApart
<1>1. DBIInv => WorkerApart
  BY WalksAlone DEF DBIInv, WorkerApart
<1> QED BY <1>1, DBIInvHolds, PTL
=============================================================================
