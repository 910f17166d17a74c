---------------------------- MODULE ThreadWorker ----------------------------
(***************************************************************************)
(* SourceMod's worker thread (core/thread/ThreadWorker.cpp on top of       *)
(* BaseWorker.cpp and the POSIX threader): one thread that runs the jobs   *)
(* of a queue, and the thread that owns it and starts, feeds, pauses and   *)
(* stops it.                                                               *)
(*                                                                         *)
(* A step is what a thread does between two points where the other one can *)
(* see it: a critical section of m_StateLock or m_QueueLock, or an access  *)
(* to m_Waiting outside any lock.  An event signal is a condition variable *)
(* without a predicate: Signal() wakes a thread that waits at that moment  *)
(* and is forgotten otherwise, and Wait() may return without a signal.     *)
(***************************************************************************)
EXTENDS Naturals, Sequences, FiniteSets

CONSTANTS MaxJobs,  \* bound on the jobs given to the worker
          PerFrame  \* m_perFrame, 1 unless SetMaxThreadsPerFrame() is used

ASSUME MaxJobsAssumption == MaxJobs \in Nat
ASSUME PerFrameAssumption == PerFrame \in Nat \ {0}

Jobs  == 1..MaxJobs
NoJob == 0

VARIABLES m_state,        \* "stopped", "running" or "paused"
          m_Waiting, m_FlushType,
          m_ThreadQueue,  \* the jobs that wait, oldest first
          pc,             \* where the worker's RunThread() is, or "none"
          this_state,     \* its copy of m_state
          frame,          \* jobs run in the current RunFrame()
          job,            \* the job it runs, or NoJob
          caller,         \* where the owning thread is: "idle", "unpausing",
                          \* "stopping" (state set, not signalled) or "join"
          made,           \* how many jobs MakeThread() has accepted
          ran,            \* the jobs that have run, in that order
          cancelled       \* the jobs Flush(true) has thrown away

ownerVars  == <<m_state, m_FlushType, caller, made, cancelled>>
threadVars == <<pc, this_state, frame, job, ran>>
workerVars == <<ownerVars, threadVars, m_Waiting, m_ThreadQueue>>

WorkerInit ==
    /\ m_state = "stopped" /\ m_Waiting = FALSE /\ m_FlushType = FALSE
    /\ m_ThreadQueue = <<>>
    /\ pc = "none" /\ this_state = "stopped" /\ frame = 0 /\ job = NoJob
    /\ caller = "idle" /\ made = 0 /\ ran = <<>> /\ cancelled = {}

-----------------------------------------------------------------------------
(***************************************************************************)
(* RunThread().                                                            *)
(***************************************************************************)
At(place) == pc = place /\ UNCHANGED ownerVars

Begin == /\ At("start") /\ pc' = "check"
         /\ UNCHANGED <<this_state, frame, job, ran, m_Waiting, m_ThreadQueue>>

ReadState == /\ At("check")
             /\ this_state' = m_state
             /\ pc' = IF m_state = "stopped" THEN "recheck" ELSE "count"
             /\ UNCHANGED <<frame, job, ran, m_Waiting, m_ThreadQueue>>

(* With m_QueueLock: the worker announces that it is going to wait. *)
CountJobs == /\ At("count")
             /\ m_Waiting' = (m_ThreadQueue = <<>> \/ m_Waiting)
             /\ pc' = IF m_ThreadQueue = <<>> THEN "towait" ELSE "recheck"
             /\ UNCHANGED <<this_state, frame, job, ran, m_ThreadQueue>>

(* Without any lock it then goes to wait. *)
AddSignalWait == /\ At("towait") /\ pc' = "asleep"
                 /\ UNCHANGED <<this_state, frame, job, ran, m_Waiting, m_ThreadQueue>>

AddSignalReturns == /\ At("woken") /\ pc' = "recheck" /\ m_Waiting' = FALSE
                    /\ UNCHANGED <<this_state, frame, job, ran, m_ThreadQueue>>

(* Variant: a stopped worker is not told from a running one. *)
RecheckIgnoresStop ==
    /\ At("recheck")
    /\ this_state' = m_state
    /\ pc' = IF m_state = "paused" THEN "topause" ELSE "frame"
    /\ UNCHANGED <<frame, job, ran, m_Waiting, m_ThreadQueue>>

Recheck == /\ At("recheck")
           /\ this_state' = m_state
           /\ pc' = CASE m_state = "running" -> "frame"
                      [] m_state = "paused"  -> "topause"
                      [] OTHER -> IF m_FlushType THEN "exit" ELSE "flush"
           /\ UNCHANGED <<frame, job, ran, m_Waiting, m_ThreadQueue>>

PauseSignalWait == /\ At("topause") /\ pc' = "paused"
                   /\ UNCHANGED <<this_state, frame, job, ran, m_Waiting, m_ThreadQueue>>

(* Variant: the newest job is taken. *)
PopNewest == /\ job' = m_ThreadQueue[Len(m_ThreadQueue)]
             /\ m_ThreadQueue' = SubSeq(m_ThreadQueue, 1, Len(m_ThreadQueue) - 1)

PopThreadFromQueue == job' = Head(m_ThreadQueue) /\ m_ThreadQueue' = Tail(m_ThreadQueue)

(* RunFrame(), in the loop and, for "flush", until the queue is empty. *)
RunFrame == /\ At("frame") \/ At("flush")
            /\ pc = "frame" => frame < PerFrame
            /\ m_ThreadQueue # <<>>
            /\ PopThreadFromQueue
            /\ pc' = "job"
            /\ UNCHANGED <<this_state, frame, ran, m_Waiting>>

(* The job has run; RunFrame() looks for the next one. *)
RunFrameJobDone == /\ At("job")
                   /\ ran' = Append(ran, job) /\ job' = NoJob
                   /\ IF this_state = "stopped" THEN pc' = "flush" /\ frame' = 0
                      ELSE pc' = "frame" /\ frame' = frame + 1
                   /\ UNCHANGED <<this_state, m_Waiting, m_ThreadQueue>>

RunFrameOver == /\ At("frame")
                /\ frame = PerFrame \/ m_ThreadQueue = <<>>
                /\ pc' = "check" /\ frame' = 0
                /\ UNCHANGED <<this_state, job, ran, m_Waiting, m_ThreadQueue>>

FlushOver == /\ At("flush") /\ m_ThreadQueue = <<>> /\ pc' = "exit"
             /\ UNCHANGED <<this_state, frame, job, ran, m_Waiting, m_ThreadQueue>>

Exit == /\ At("exit") /\ pc' = "done"
        /\ UNCHANGED <<this_state, frame, job, ran, m_Waiting, m_ThreadQueue>>

(* Where a waiting thread goes on; after a pause it runs a frame at once. *)
Awake(place) == CASE place = "asleep" -> "woken" [] place = "paused" -> "frame"
                  [] OTHER -> place

(* pthread_cond_wait() returns although nobody signalled. *)
SpuriousWakeup == /\ At("asleep") \/ At("paused")
                  /\ pc' = Awake(pc)
                  /\ UNCHANGED <<this_state, frame, job, ran, m_Waiting, m_ThreadQueue>>

-----------------------------------------------------------------------------
(***************************************************************************)
(* The owning thread.  Signal(place) is what is left of a signal when      *)
(* nobody waits for it: nothing.                                           *)
(***************************************************************************)
Signal(place) == pc' = IF pc = place THEN Awake(pc) ELSE pc

Call == caller = "idle" /\ UNCHANGED <<this_state, frame, job, ran>>

Start == /\ Call /\ m_state = "stopped"
         /\ m_state' = "running" /\ m_Waiting' = FALSE /\ pc' = "start"
         /\ UNCHANGED <<m_FlushType, m_ThreadQueue, caller, made, cancelled>>

(* Variant: a waiting worker is not signalled. *)
AddUnsignalled == /\ m_ThreadQueue' = Append(m_ThreadQueue, made + 1)
                  /\ UNCHANGED pc

(* With m_QueueLock. *)
AddThreadToQueue == /\ m_ThreadQueue' = Append(m_ThreadQueue, made + 1)
                    /\ IF m_Waiting THEN Signal("asleep") ELSE UNCHANGED pc

(* A worker that is paused or stopped takes no job: MakeThread() is NULL. *)
MakeThread == /\ Call /\ m_state = "running" /\ made < MaxJobs
              /\ AddThreadToQueue
              /\ made' = made + 1
              /\ UNCHANGED <<m_state, m_FlushType, m_Waiting, caller, cancelled>>

Pause == /\ Call /\ m_state = "running"
         /\ m_state' = "paused"
         /\ UNCHANGED <<m_FlushType, m_Waiting, m_ThreadQueue, pc, caller, made, cancelled>>

Unpause == /\ Call /\ m_state = "paused"
           /\ m_state' = "running" /\ caller' = "unpausing"
           /\ UNCHANGED <<m_FlushType, m_Waiting, m_ThreadQueue, pc, made, cancelled>>

UnpauseSignal ==
    /\ caller = "unpausing" /\ caller' = "idle"
    /\ IF m_Waiting /\ pc = "asleep" THEN Signal("asleep") ELSE Signal("paused")
    /\ UNCHANGED <<m_state, m_FlushType, m_Waiting, m_ThreadQueue, made, cancelled,
                   this_state, frame, job, ran>>

(* Stopping a paused worker calls Unpause(), which finds the worker stopped
   already and returns without a signal. *)
Stop(flush_cancel) ==
    /\ Call /\ m_state # "stopped"
    /\ m_state' = "stopped" /\ m_FlushType' = flush_cancel
    /\ caller' = IF m_state = "paused" THEN "join" ELSE "stopping"
    /\ UNCHANGED <<m_Waiting, m_ThreadQueue, pc, made, cancelled>>

(* With m_QueueLock. *)
StopSignal == /\ caller = "stopping" /\ caller' = "join"
              /\ IF m_Waiting THEN Signal("asleep") ELSE UNCHANGED pc
              /\ UNCHANGED <<m_state, m_FlushType, m_Waiting, m_ThreadQueue, made,
                             cancelled, this_state, frame, job, ran>>

(* Variant: Stop() does not wait for the thread to end. *)
DetachThread == caller = "join"

WaitForThread == caller = "join" /\ pc = "done"

(* The thread has ended: what is left in the queue is thrown away. *)
StopReturns ==
    /\ WaitForThread
    /\ caller' = "idle" /\ pc' = "none"
    /\ cancelled' = cancelled \cup {m_ThreadQueue[k] : k \in DOMAIN m_ThreadQueue}
    /\ m_ThreadQueue' = <<>>
    /\ UNCHANGED <<m_state, m_FlushType, m_Waiting, made, this_state, frame, job, ran>>

-----------------------------------------------------------------------------
RunLoop == \/ ReadState \/ CountJobs \/ AddSignalWait \/ AddSignalReturns \/ Recheck
           \/ PauseSignalWait \/ RunFrame \/ RunFrameOver \/ FlushOver

RunThread == Begin \/ RunLoop \/ RunFrameJobDone \/ Exit

OwnerReturns == UnpauseSignal \/ StopSignal \/ StopReturns

Owner == \/ Start \/ MakeThread \/ Pause \/ Unpause \/ OwnerReturns
         \/ \E flush_cancel \in BOOLEAN : Stop(flush_cancel)

WorkerNext == RunThread \/ SpuriousWakeup \/ Owner

WorkerSpec == WorkerInit /\ [][WorkerNext]_workerVars

(***************************************************************************)
(* Both threads are scheduled, jobs end, and a call that has begun goes    *)
(* on.  Nothing wakes a thread except a signal, and nobody is obliged to   *)
(* make the next call.                                                     *)
(***************************************************************************)
FairWorker == /\ WorkerSpec
              /\ WF_workerVars(RunThread) /\ WF_workerVars(OwnerReturns)

-----------------------------------------------------------------------------
Places == {"none", "start", "check", "count", "towait", "asleep", "woken", "recheck",
           "topause", "paused", "frame", "job", "flush", "exit", "done"}

(* Type invariant. *)
WorkerTypeOK ==
    /\ m_state \in {"stopped", "running", "paused"}
    /\ this_state \in {"stopped", "running", "paused"}
    /\ m_Waiting \in BOOLEAN /\ m_FlushType \in BOOLEAN
    /\ m_ThreadQueue \in Seq(Jobs) /\ ran \in Seq(Jobs)
    /\ pc \in Places /\ caller \in {"idle", "unpausing", "stopping", "join"}
    /\ frame \in 0..PerFrame /\ made \in 0..MaxJobs
    /\ job \in {NoJob} \cup Jobs /\ cancelled \subseteq Jobs

Running == IF job = NoJob THEN <<>> ELSE <<job>>
Accepted == ran \o Running \o m_ThreadQueue

(* No job is lost, run twice or overtaken, in whatever order the two threads
   and Stop() meet: what has run, what runs and what waits are the jobs
   MakeThread() accepted, oldest first, less the ones thrown away. *)
JobsInOrder ==
    /\ \A i, k \in DOMAIN Accepted : i < k => Accepted[i] < Accepted[k]
    /\ {Accepted[k] : k \in DOMAIN Accepted} \cup cancelled = 1..made
    /\ {Accepted[k] : k \in DOMAIN Accepted} \cap cancelled = {}

(* Stop(false) throws nothing away: the thread it joins has emptied the
   queue, although it may have read the old state and gone on, or waited. *)
FlushRunsAll == [][cancelled' # cancelled => m_FlushType]_workerVars

(* When a call to the owner is over the worker is stopped only if its thread
   has ended: no job runs while the owner frees the locks and the worker. *)
StoppedMeansEnded == (m_state = "stopped" /\ caller = "idle") => pc = "none" /\ job = NoJob

(* A signal may come too early and be lost, but never for good: the next job
   always wakes a worker that waits for one, because a sleeping worker is
   always announced by m_Waiting. *)
NextJobWakes == [][made' # made => pc' # "asleep"]_workerVars

Asleep == pc \in {"asleep", "paused"}

(* The worker at rest and at work: well typed, jobs in order, and no thread
   behind a stopped worker. *)
WorkerInv == WorkerTypeOK /\ JobsInOrder /\ StoppedMeansEnded

(* Stop() returns unless the worker is left asleep: its own handshake with
   the worker has no other way to hang. *)
StopHangsOnlyAsleep == caller = "join" ~> (caller = "idle" \/ Asleep)

(* A job that waits is run or thrown away unless the worker is left asleep. *)
JobsHangOnlyAsleep ==
    \A j \in Jobs : (\E k \in DOMAIN m_ThreadQueue : m_ThreadQueue[k] = j)
                        ~> (j \in cancelled \/ Asleep \/ \E k \in DOMAIN ran : ran[k] = j)

(* Whoever waits for the worker, a caller of Stop() or a job, waits in vain
   only for a worker that sleeps and that nobody has signalled. *)
HangsOnlyAsleep == StopHangsOnlyAsleep /\ JobsHangOnlyAsleep
=============================================================================
