------------------------- MODULE ThreadWorkerProofs -------------------------
(***************************************************************************)
(* Theorems about the worker thread: what the handshake between the worker *)
(* and the thread that owns it guarantees, for any number of jobs, any     *)
(* m_perFrame, and any interleaving with lost signals and spurious wakeups.*)
(***************************************************************************)
EXTENDS ThreadWorker, SequenceTheorems, TLAPS

(* The three states of WorkerState. *)
StateTyped == m_state \in {"stopped", "running", "paused"}

(* The worker that announced itself has not been forgotten: m_Waiting stays
   set from the announcement until the wait is over. *)
Announced == pc \in {"towait", "asleep"} => m_Waiting

(* Only RunFrame() holds a job. *)
JobHeld == pc # "job" => job = NoJob

(* Unpause() is over before anything else changes the state. *)
UnpausingRuns == caller = "unpausing" => m_state = "running"

(* A worker on its way out is stopped, and inside a frame its copy of the
   state is the one that let it in. *)
Leaving ==
    /\ pc \in {"flush", "exit", "done"} => m_state = "stopped"
    /\ pc = "job" /\ this_state = "stopped" => m_state = "stopped"
    /\ pc \in {"frame", "topause", "paused"} => this_state # "stopped"

(* A worker that was told to flush leaves only with an empty queue. *)
Flushed == pc \in {"exit", "done"} /\ ~m_FlushType => m_ThreadQueue = <<>>

(* The inductive invariant: StoppedMeansEnded and FlushRunsAll each rest on
   where the worker can be when its owner may start it again. *)
Handshake == /\ StateTyped /\ Announced /\ JobHeld /\ UnpausingRuns /\ Leaving
             /\ Flushed /\ StoppedMeansEnded

-----------------------------------------------------------------------------
(* Nothing has been started. *)
LEMMA HandshakeInit == WorkerInit => Handshake
  BY DEF WorkerInit, Handshake, StateTyped, Announced, JobHeld, UnpausingRuns, Leaving, Flushed,
         StoppedMeansEnded, NoJob

(* The worker's own steps: it leaves the loop only for a state it has read
   under the lock, which its owner does not change back while it lives. *)
LEMMA HandshakeThread ==
    ASSUME Handshake, RunThread \/ SpuriousWakeup
    PROVE  Handshake'
<1> USE DEF Handshake, StateTyped, Announced, JobHeld, UnpausingRuns, Leaving, Flushed,
            StoppedMeansEnded, At, ownerVars
<1>1. CASE Begin \/ ReadState \/ AddSignalWait \/ AddSignalReturns \/ PauseSignalWait
  BY <1>1 DEF Begin, ReadState, AddSignalWait, AddSignalReturns, PauseSignalWait
<1>2. CASE CountJobs
  BY <1>2 DEF CountJobs
<1>3. CASE Recheck
  BY <1>3 DEF Recheck
<1>4. CASE RunFrame
  BY <1>4 DEF RunFrame, PopThreadFromQueue
<1>5. CASE RunFrameJobDone
  BY <1>5 DEF RunFrameJobDone
<1>6. CASE RunFrameOver \/ FlushOver \/ Exit
  BY <1>6 DEF RunFrameOver, FlushOver, Exit
<1>7. CASE SpuriousWakeup
  BY <1>7 DEF SpuriousWakeup, Awake
<1> QED
  BY <1>1, <1>2, <1>3, <1>4, <1>5, <1>6, <1>7 DEF RunThread, RunLoop

(* The owner's calls. *)
LEMMA HandshakeOwner ==
    ASSUME Handshake, Owner
    PROVE  Handshake'
<1> USE DEF Handshake, StateTyped, Announced, JobHeld, UnpausingRuns, Leaving, Flushed,
            StoppedMeansEnded, Call
<1>1. CASE Start
  BY <1>1 DEF Start
<1>2. CASE MakeThread
  BY <1>2 DEF MakeThread, AddThreadToQueue, Signal, Awake
<1>3. CASE Pause \/ Unpause
  BY <1>3 DEF Pause, Unpause
<1>4. ASSUME NEW flush_cancel \in BOOLEAN, Stop(flush_cancel)
      PROVE  Handshake'
  BY <1>4 DEF Stop
<1>5. CASE UnpauseSignal \/ StopSignal
  BY <1>5 DEF UnpauseSignal, StopSignal, Signal, Awake
<1>6. CASE StopReturns
  BY <1>6 DEF StopReturns, WaitForThread
<1> QED
  BY <1>1, <1>2, <1>3, <1>4, <1>5, <1>6 DEF Owner, OwnerReturns

LEMMA HandshakeStep ==
    ASSUME Handshake, [WorkerNext]_workerVars
    PROVE  Handshake'
<1>1. CASE WorkerNext
  BY <1>1, HandshakeThread, HandshakeOwner DEF WorkerNext
<1>2. CASE UNCHANGED workerVars
  BY <1>2 DEF Handshake, StateTyped, Announced, JobHeld, UnpausingRuns, Leaving, Flushed,
              StoppedMeansEnded, workerVars, ownerVars, threadVars
<1> QED
  BY <1>1, <1>2

(* The handshake holds in every behaviour. *)
LEMMA HandshakeHolds == WorkerSpec => []Handshake
  BY HandshakeInit, HandshakeStep, PTL DEF WorkerSpec

-----------------------------------------------------------------------------
(* When no call of the owner is under way and the worker is stopped, its
   thread has ended and holds no job: Stop() may destroy the locks. *)
THEOREM StoppedWorkerEnded == WorkerSpec => []StoppedMeansEnded
<1>1. Handshake => StoppedMeansEnded
  BY DEF Handshake
<1> QED
  BY <1>1, HandshakeHolds, PTL

(* A new job always wakes a worker that sleeps for want of one. *)
THEOREM NewJobWakes == WorkerSpec => NextJobWakes
<1>1. Handshake /\ [WorkerNext]_workerVars => [made' # made => pc' # "asleep"]_workerVars
  <2> SUFFICES ASSUME Handshake, WorkerNext, made' # made
               PROVE  pc' # "asleep"
    OBVIOUS
  <2>1. MakeThread
    BY DEF WorkerNext, RunThread, RunLoop, SpuriousWakeup, Owner, OwnerReturns, Begin, ReadState,
           CountJobs, AddSignalWait, AddSignalReturns, Recheck, PauseSignalWait, RunFrame,
           RunFrameJobDone, RunFrameOver, FlushOver, Exit, At, ownerVars, Start, Pause, Unpause,
           Stop, UnpauseSignal, StopSignal, StopReturns
  <2> QED
    BY <2>1 DEF MakeThread, AddThreadToQueue, Signal, Awake, Handshake, Announced
<1> QED
  BY <1>1, HandshakeHolds, PTL DEF WorkerSpec, NextJobWakes

(* Stop(false) loses no job: when it throws the rest of the queue away, that
   rest is empty unless the caller asked for it. *)
THEOREM FlushLosesNothing == WorkerSpec => FlushRunsAll
<1>1. Handshake /\ [WorkerNext]_workerVars => [cancelled' # cancelled => m_FlushType]_workerVars
  <2> SUFFICES ASSUME Handshake, WorkerNext, cancelled' # cancelled
               PROVE  m_FlushType
    OBVIOUS
  <2>1. StopReturns
    BY DEF WorkerNext, RunThread, RunLoop, SpuriousWakeup, Owner, OwnerReturns, Begin, ReadState,
           CountJobs, AddSignalWait, AddSignalReturns, Recheck, PauseSignalWait, RunFrame,
           RunFrameJobDone, RunFrameOver, FlushOver, Exit, At, ownerVars, Start, Pause, Unpause,
           Stop, UnpauseSignal, StopSignal, MakeThread
  <2>2. m_ThreadQueue # <<>>
    BY <2>1 DEF StopReturns
  <2> QED
    BY <2>1, <2>2 DEF StopReturns, WaitForThread, Handshake, Flushed
<1> QED
  BY <1>1, HandshakeHolds, PTL DEF WorkerSpec, FlushRunsAll

-----------------------------------------------------------------------------
(* Inside the loop a frame has room for the job it runs; a flush is only for a
   worker that has read that it is stopped. *)
FrameRoom == /\ pc = "job" /\ this_state # "stopped" => frame < PerFrame
             /\ pc = "flush" => this_state = "stopped"
             /\ pc = "job" => job # NoJob

(* The worker's own steps keep the types. *)
LEMMA TypeThread ==
    ASSUME WorkerTypeOK, Handshake, FrameRoom, RunThread \/ SpuriousWakeup
    PROVE  WorkerTypeOK' /\ FrameRoom'
<1> USE MaxJobsAssumption, PerFrameAssumption
        DEF WorkerTypeOK, FrameRoom, Places, Jobs, NoJob, At, ownerVars
<1>1. CASE Begin \/ ReadState \/ AddSignalWait \/ AddSignalReturns \/ PauseSignalWait
  BY <1>1 DEF Begin, ReadState, AddSignalWait, AddSignalReturns, PauseSignalWait
<1>2. CASE CountJobs
  BY <1>2 DEF CountJobs
<1>3. CASE Recheck
  BY <1>3 DEF Recheck
<1>4. CASE RunFrame
  <2>1. Head(m_ThreadQueue) \in Jobs /\ Tail(m_ThreadQueue) \in Seq(Jobs)
    BY <1>4, HeadTailProperties DEF RunFrame
  <2>2. pc \in {"frame", "flush"} /\ pc' = "job" /\ (pc = "frame" => frame < PerFrame)
    BY <1>4 DEF RunFrame
  <2>3. UNCHANGED <<m_state, m_FlushType, caller, made, cancelled, this_state, frame, ran, m_Waiting>>
    BY <1>4 DEF RunFrame
  <2>4. job' \in Jobs /\ m_ThreadQueue' \in Seq(Jobs)
    BY <1>4, <2>1 DEF RunFrame, PopThreadFromQueue
  <2>5. WorkerTypeOK'
    BY <2>2, <2>3, <2>4
  <2>6. FrameRoom'
    BY <2>2, <2>3, <2>4
  <2> QED
    BY <2>5, <2>6
<1>5. CASE RunFrameJobDone
  BY <1>5 DEF RunFrameJobDone, Handshake
<1>6. CASE RunFrameOver
  BY <1>6 DEF RunFrameOver
<1>7. CASE FlushOver \/ Exit
  BY <1>7 DEF FlushOver, Exit
<1>8. CASE SpuriousWakeup
  BY <1>8 DEF SpuriousWakeup, Awake
<1> QED
  BY <1>1, <1>2, <1>3, <1>4, <1>5, <1>6, <1>7, <1>8 DEF RunThread, RunLoop

(* The owner's calls keep the types. *)
LEMMA TypeOwner ==
    ASSUME WorkerTypeOK, Handshake, FrameRoom, Owner
    PROVE  WorkerTypeOK' /\ FrameRoom'
<1> USE MaxJobsAssumption, PerFrameAssumption
        DEF WorkerTypeOK, FrameRoom, Places, Jobs, NoJob, Call
<1>1. CASE Start
  BY <1>1 DEF Start
<1>2. CASE MakeThread
  <2>1. made + 1 \in 1..MaxJobs /\ Append(m_ThreadQueue, made + 1) \in Seq(Jobs)
    BY <1>2, AppendProperties DEF MakeThread
  <2>2. pc' = pc \/ pc' = "woken"
    BY <1>2 DEF MakeThread, AddThreadToQueue, Signal, Awake
  <2>3. /\ made' = made + 1 /\ m_ThreadQueue' = Append(m_ThreadQueue, made + 1)
        /\ UNCHANGED <<m_state, m_FlushType, m_Waiting, caller, cancelled, this_state, frame,
                       job, ran>>
    BY <1>2 DEF MakeThread, AddThreadToQueue
  <2> QED
    BY <2>1, <2>2, <2>3
<1>3. CASE Pause \/ Unpause
  BY <1>3 DEF Pause, Unpause
<1>4. ASSUME NEW flush_cancel \in BOOLEAN, Stop(flush_cancel)
      PROVE  WorkerTypeOK' /\ FrameRoom'
  BY <1>4 DEF Stop
<1>5. CASE UnpauseSignal
  <2>1. pc' = pc \/ pc' = "woken" \/ (pc = "paused" /\ pc' = "frame")
    BY <1>5 DEF UnpauseSignal, Signal, Awake
  <2>2. /\ caller' = "idle"
        /\ UNCHANGED <<m_state, m_FlushType, m_Waiting, m_ThreadQueue, made, cancelled,
                       this_state, frame, job, ran>>
    BY <1>5 DEF UnpauseSignal
  <2> QED
    BY <2>1, <2>2
<1>6. CASE StopSignal
  <2>1. pc' = pc \/ pc' = "woken"
    BY <1>6 DEF StopSignal, Signal, Awake
  <2>2. /\ caller' = "join"
        /\ UNCHANGED <<m_state, m_FlushType, m_Waiting, m_ThreadQueue, made, cancelled,
                       this_state, frame, job, ran>>
    BY <1>6 DEF StopSignal
  <2> QED
    BY <2>1, <2>2
<1>7. CASE StopReturns
  <2>1. {m_ThreadQueue[k] : k \in DOMAIN m_ThreadQueue} \subseteq Jobs
    BY ElementOfSeq, LenProperties
  <2> QED
    BY <1>7, <2>1, EmptySeq DEF StopReturns
<1> QED
  BY <1>1, <1>2, <1>3, <1>4, <1>5, <1>6, <1>7 DEF Owner, OwnerReturns

-----------------------------------------------------------------------------
(* Taking the oldest job out of the queue, and putting it behind those that
   have run, does not change what was accepted. *)
LEMMA HeadMoves ==
    ASSUME NEW S, NEW r \in Seq(S), NEW q \in Seq(S), q # <<>>
    PROVE  (r \o <<Head(q)>>) \o Tail(q) = (r \o <<>>) \o q
<1>1. Head(q) \in S /\ Tail(q) \in Seq(S) /\ <<Head(q)>> \in Seq(S)
  BY HeadTailProperties
<1>2. <<Head(q)>> \o Tail(q) = q
  <2>1. <<Head(q)>> \o Tail(q) \in Seq(S) /\ Len(<<Head(q)>> \o Tail(q)) = Len(q)
    BY <1>1, HeadTailProperties, ConcatProperties, LenProperties
  <2>2. \A i \in 1..Len(q) : (<<Head(q)>> \o Tail(q))[i] = q[i]
    BY <1>1, HeadTailProperties, ConcatProperties, LenProperties
  <2> QED
    BY <2>1, <2>2, SeqEqual
<1>3. r \o <<>> = r
  BY ConcatEmptySeq
<1> QED
  BY <1>1, <1>2, <1>3, ConcatAssociative

(* What was accepted is a sequence of jobs. *)
LEMMA AcceptedType ==
    ASSUME WorkerTypeOK
    PROVE  /\ Running \in Seq(Jobs) /\ ran \o Running \in Seq(Jobs)
           /\ Accepted \in Seq(Jobs) /\ DOMAIN Accepted = 1..Len(Accepted)
           /\ Len(Accepted) \in Nat
<1>1. Running \in Seq(Jobs)
  BY EmptySeq DEF Running, WorkerTypeOK
<1>2. ran \o Running \in Seq(Jobs) /\ Accepted \in Seq(Jobs)
  BY <1>1, ConcatProperties DEF Accepted, WorkerTypeOK
<1> QED
  BY <1>1, <1>2, LenProperties

(* The worker only moves jobs along. *)
LEMMA OrderThread ==
    ASSUME WorkerTypeOK, Handshake, FrameRoom, JobsInOrder, RunThread \/ SpuriousWakeup
    PROVE  JobsInOrder'
<1>1. UNCHANGED ownerVars
  BY DEF RunThread, RunLoop, SpuriousWakeup, Begin, ReadState, CountJobs, AddSignalWait,
         AddSignalReturns, Recheck, PauseSignalWait, RunFrame, RunFrameJobDone, RunFrameOver,
         FlushOver, Exit, At
<1>2. Accepted' = Accepted
  <2>1. CASE RunFrame
    <3>1. /\ pc # "job" /\ m_ThreadQueue # <<>> /\ ran' = ran
          /\ job' = Head(m_ThreadQueue) /\ m_ThreadQueue' = Tail(m_ThreadQueue)
      BY <2>1 DEF RunFrame, PopThreadFromQueue, At
    <3>2. Running = <<>>
      BY <3>1 DEF Handshake, JobHeld, Running
    <3>3. Running' = <<Head(m_ThreadQueue)>>
      <4>1. Head(m_ThreadQueue) \in Jobs
        BY <3>1, HeadTailProperties DEF WorkerTypeOK
      <4> QED
        BY <3>1, <4>1, MaxJobsAssumption DEF Running, Jobs, NoJob
    <3> QED
      BY <3>1, <3>2, <3>3, HeadMoves DEF Accepted, WorkerTypeOK
  <2>2. CASE RunFrameJobDone
    <3>1. /\ pc = "job" /\ ran' = Append(ran, job) /\ job' = NoJob
          /\ m_ThreadQueue' = m_ThreadQueue
      BY <2>2 DEF RunFrameJobDone, At
    <3>2. job \in Jobs /\ Running = <<job>> /\ Running' = <<>>
      BY <3>1 DEF FrameRoom, Running, WorkerTypeOK
    <3>3. ran \in Seq(Jobs) /\ Append(ran, job) \in Seq(Jobs)
      BY <3>2, AppendProperties DEF WorkerTypeOK
    <3>4. ran' \o <<>> = Append(ran, job)
      BY <3>1, <3>3, ConcatEmptySeq
    <3>5. Append(ran, job) = ran \o <<job>>
      BY <3>2, <3>3, AppendIsConcat
    <3> QED
      BY <3>1, <3>2, <3>4, <3>5 DEF Accepted
  <2>3. CASE (RunThread \/ SpuriousWakeup) /\ ~RunFrame /\ ~RunFrameJobDone
    <3>1. ran' = ran /\ job' = job /\ m_ThreadQueue' = m_ThreadQueue
      BY <2>3 DEF RunThread, RunLoop, SpuriousWakeup, Begin, ReadState, CountJobs,
                  AddSignalWait, AddSignalReturns, Recheck, PauseSignalWait, RunFrameOver,
                  FlushOver, Exit
    <3> QED
      BY <3>1 DEF Accepted, Running
  <2> QED
    BY <2>1, <2>2, <2>3
<1> QED
  BY <1>1, <1>2 DEF JobsInOrder, ownerVars

(* The owner adds a job that is newer than all others, or throws away the
   newest ones. *)
LEMMA OrderOwner ==
    ASSUME WorkerTypeOK, Handshake, JobsInOrder, Owner
    PROVE  JobsInOrder'
<1>0. /\ Accepted \in Seq(Jobs) /\ DOMAIN Accepted = 1..Len(Accepted) /\ Len(Accepted) \in Nat
      /\ ran \in Seq(Jobs) /\ m_ThreadQueue \in Seq(Jobs) /\ made \in Nat
      /\ ran \o Running \in Seq(Jobs)
  BY AcceptedType, MaxJobsAssumption DEF WorkerTypeOK
<1>1. CASE MakeThread
  <2>1. /\ made' = made + 1 /\ m_ThreadQueue' = Append(m_ThreadQueue, made + 1)
        /\ UNCHANGED <<ran, job, cancelled>>
        /\ made + 1 \in Jobs
    BY <1>1, <1>0, MaxJobsAssumption DEF MakeThread, AddThreadToQueue, Call, Jobs
  <2>2. Accepted' = Append(Accepted, made + 1)
    <3>1. <<made + 1>> \in Seq(Jobs) /\ Running' = Running
      BY <2>1 DEF Running
    <3>2. (ran \o Running) \o (m_ThreadQueue \o <<made + 1>>) = Accepted \o <<made + 1>>
      BY <1>0, <3>1, ConcatAssociative DEF Accepted
    <3>3. /\ Append(m_ThreadQueue, made + 1) = m_ThreadQueue \o <<made + 1>>
          /\ Append(Accepted, made + 1) = Accepted \o <<made + 1>>
      BY <1>0, <2>1, AppendIsConcat
    <3> QED
      BY <2>1, <3>1, <3>2, <3>3 DEF Accepted
  <2> DEFINE a == Accepted
             n == Len(a)
  <2>3. /\ DOMAIN Append(a, made + 1) = 1..(n + 1)
        /\ \A k \in 1..n : Append(a, made + 1)[k] = a[k] /\ a[k] \in 1..made
        /\ Append(a, made + 1)[n + 1] = made + 1
    <3>1. \A k \in 1..n : a[k] \in 1..made
      BY <1>0 DEF JobsInOrder
    <3> QED
      BY <1>0, <2>1, <3>1, AppendProperties, LenProperties
  <2>4. \A i, k \in 1..n : i < k => a[i] < a[k]
    BY <1>0 DEF JobsInOrder
  <2>5. {a[k] : k \in 1..n} \cup cancelled = 1..made /\ {a[k] : k \in 1..n} \cap cancelled = {}
    BY <1>0 DEF JobsInOrder
  <2>6. n \in Nat
    BY <1>0
  <2> DEFINE b == Accepted'
  <2>7. /\ DOMAIN b = 1..(n + 1) /\ b[n + 1] = made + 1
        /\ \A k \in 1..n : b[k] = a[k] /\ a[k] \in 1..made
    BY <2>2, <2>3
  <2> HIDE DEF a, b, n
  <2>8. \A i, k \in 1..(n + 1) : i < k => b[i] < b[k]
    <3> SUFFICES ASSUME NEW i \in 1..(n + 1), NEW k \in 1..(n + 1), i < k
                 PROVE  b[i] < b[k]
      OBVIOUS
    <3>1. CASE k \in 1..n
      BY <2>4, <2>6, <2>7, <3>1
    <3>2. CASE k = n + 1
      <4>1. i \in 1..n
        BY <2>6, <3>2
      <4> QED
        BY <1>0, <2>7, <3>2, <4>1
    <3> QED
      BY <2>6, <3>1, <3>2
  <2>9. {b[k] : k \in 1..(n + 1)} = {a[k] : k \in 1..n} \cup {made + 1}
    <3>1. 1..(n + 1) = 1..n \cup {n + 1}
      BY <2>6
    <3> QED
      BY <2>7, <3>1
  <2>10. {b[k] : k \in 1..(n + 1)} \cup cancelled = 1..(made + 1)
    <3>1. 1..(made + 1) = 1..made \cup {made + 1}
      BY <1>0
    <3> QED
      BY <2>5, <2>9, <3>1
  <2>11. {b[k] : k \in 1..(n + 1)} \cap cancelled = {}
    <3>1. made + 1 \notin cancelled
      BY <2>5, <1>0
    <3> QED
      BY <2>5, <2>9, <3>1
  <2> QED
    BY <2>1, <2>7, <2>8, <2>10, <2>11 DEF b, JobsInOrder
<1>2. CASE StopReturns
  <2> DEFINE q == m_ThreadQueue
             m == Len(q)
             n == Len(ran)
  <2>1. /\ Running = <<>> /\ UNCHANGED <<ran, job, made>> /\ m_ThreadQueue' = <<>>
        /\ cancelled' = cancelled \cup {q[k] : k \in DOMAIN q}
    BY <1>2 DEF StopReturns, WaitForThread, Handshake, JobHeld, Running
  <2>2. Accepted = ran \o q /\ Accepted' = ran
    BY <1>0, <2>1, ConcatEmptySeq DEF Accepted, Running
  <2>3. /\ m \in Nat /\ n \in Nat /\ DOMAIN q = 1..m /\ DOMAIN ran = 1..n
        /\ Len(Accepted) = n + m
        /\ \A k \in 1..n : Accepted[k] = ran[k]
        /\ \A k \in 1..m : Accepted[n + k] = q[k]
    BY <1>0, <2>2, LenProperties, ConcatProperties
  <2>4. \A i, k \in 1..(n + m) : i < k => Accepted[i] < Accepted[k]
    BY <1>0, <2>3 DEF JobsInOrder
  <2> HIDE DEF m, n, q
  <2>5. {Accepted[k] : k \in 1..(n + m)} = {ran[k] : k \in 1..n} \cup {q[k] : k \in 1..m}
    <3>1. ASSUME NEW k \in 1..(n + m)
          PROVE  Accepted[k] \in {ran[j] : j \in 1..n} \cup {q[j] : j \in 1..m}
      <4>1. CASE k <= n
        BY <2>3, <4>1
      <4>2. CASE k > n
        <5>1. k - n \in 1..m /\ k = n + (k - n)
          BY <2>3, <4>2
        <5> QED
          BY <2>3, <5>1
      <4> QED
        BY <2>3, <4>1, <4>2
    <3>2. \A k \in 1..n : ran[k] = Accepted[k] /\ k \in 1..(n + m)
      BY <2>3
    <3>3. \A k \in 1..m : q[k] = Accepted[n + k] /\ n + k \in 1..(n + m)
      BY <2>3
    <3> QED
      BY <3>1, <3>2, <3>3
  <2>6. {ran[k] : k \in 1..n} \cap {q[k] : k \in 1..m} = {}
    <3> SUFFICES ASSUME NEW i \in 1..n, NEW k \in 1..m
                 PROVE  ran[i] # q[k]
      OBVIOUS
    <3>1. i < n + k /\ i \in 1..(n + m) /\ n + k \in 1..(n + m)
      BY <2>3
    <3>2. Accepted[i] < Accepted[n + k] /\ Accepted[i] \in Nat
      BY <1>0, <2>3, <2>4, <3>1, ElementOfSeq, MaxJobsAssumption DEF Jobs
    <3> QED
      BY <2>3, <3>2
  <2>7. /\ {Accepted[k] : k \in 1..(n + m)} \cup cancelled = 1..made
        /\ {Accepted[k] : k \in 1..(n + m)} \cap cancelled = {}
    BY <1>0, <2>3 DEF JobsInOrder
  <2>8. \A i, k \in 1..n : i < k => ran[i] < ran[k]
    BY <2>3, <2>4
  <2>9. cancelled' = cancelled \cup {q[k] : k \in 1..m}
    BY <2>1, <2>3 DEF q
  <2>10. /\ {ran[k] : k \in 1..n} \cup cancelled' = 1..made
         /\ {ran[k] : k \in 1..n} \cap cancelled' = {}
    BY <2>5, <2>6, <2>7, <2>9
  <2> DEFINE b == Accepted'
  <2>11. b = ran /\ DOMAIN b = 1..n
    BY <2>2, <2>3
  <2> HIDE DEF b
  <2>12. /\ \A i, k \in DOMAIN b : i < k => b[i] < b[k]
         /\ {b[k] : k \in DOMAIN b} \cup cancelled' = 1..made
         /\ {b[k] : k \in DOMAIN b} \cap cancelled' = {}
    BY <2>8, <2>10, <2>11
  <2> QED
    BY <2>1, <2>12 DEF b, JobsInOrder
<1>3. CASE ~MakeThread /\ ~StopReturns
  <2>1. UNCHANGED <<ran, job, m_ThreadQueue, made, cancelled>>
    BY <1>3 DEF Owner, OwnerReturns, Start, Pause, Unpause, Stop, UnpauseSignal, StopSignal, Call
  <2>2. Accepted' = Accepted
    BY <2>1 DEF Accepted, Running
  <2> QED
    BY <2>1, <2>2 DEF JobsInOrder
<1> QED
  BY <1>1, <1>2, <1>3

-----------------------------------------------------------------------------
(* Together the parts are inductive. *)
WorkerIInv == WorkerTypeOK /\ Handshake /\ FrameRoom /\ JobsInOrder

LEMMA WorkerIInvInit == WorkerInit => WorkerIInv
<1> SUFFICES ASSUME WorkerInit
             PROVE  WorkerIInv
  OBVIOUS
<1>1. WorkerTypeOK /\ FrameRoom
  <2>1. <<>> \in Seq(Jobs)
    BY EmptySeq
  <2>2. frame \in 0..PerFrame /\ made \in 0..MaxJobs
    BY MaxJobsAssumption, PerFrameAssumption DEF WorkerInit
  <2> QED
    BY <2>1, <2>2 DEF WorkerInit, WorkerTypeOK, FrameRoom, Places, NoJob
<1>2. Handshake
  BY HandshakeInit
<1>3. JobsInOrder
  <2>1. Accepted = <<>>
    BY ConcatEmptySeq, EmptySeq DEF WorkerInit, Accepted, Running
  <2>2. DOMAIN Accepted = {}
    BY <2>1
  <2>3. cancelled = {} /\ 1..made = {}
    BY DEF WorkerInit
  <2> QED
    BY <2>2, <2>3 DEF JobsInOrder
<1> QED
  BY <1>1, <1>2, <1>3 DEF WorkerIInv

LEMMA WorkerIInvStep ==
    ASSUME WorkerIInv, [WorkerNext]_workerVars
    PROVE  WorkerIInv'
<1>1. CASE RunThread \/ SpuriousWakeup
  BY <1>1, HandshakeThread, TypeThread, OrderThread DEF WorkerIInv
<1>2. CASE Owner
  BY <1>2, HandshakeOwner, TypeOwner, OrderOwner DEF WorkerIInv
<1>3. CASE UNCHANGED workerVars
  <2>1. Handshake'
    BY <1>3, HandshakeStep DEF WorkerIInv
  <2>2. WorkerTypeOK' /\ FrameRoom'
    BY <1>3 DEF WorkerIInv, WorkerTypeOK, FrameRoom, workerVars, ownerVars, threadVars
  <2>3. Accepted' = Accepted /\ made' = made /\ cancelled' = cancelled
    BY <1>3 DEF Accepted, Running, workerVars, ownerVars, threadVars
  <2>4. JobsInOrder'
    BY <2>3 DEF WorkerIInv, JobsInOrder
  <2> QED
    BY <2>1, <2>2, <2>4 DEF WorkerIInv
<1> QED
  BY <1>1, <1>2, <1>3 DEF WorkerNext

(* No job is lost, run twice or overtaken, whatever the two threads do, and a
   stopped worker has no thread. *)
THEOREM WorkerCorrect == WorkerSpec => []WorkerInv
<1>1. WorkerInit => WorkerIInv
  BY WorkerIInvInit
<1>2. WorkerIInv /\ [WorkerNext]_workerVars => WorkerIInv'
  BY WorkerIInvStep
<1>3. WorkerIInv => WorkerInv
  BY DEF WorkerIInv, WorkerInv, Handshake
<1> QED
  BY <1>1, <1>2, <1>3, PTL DEF WorkerSpec
=============================================================================
