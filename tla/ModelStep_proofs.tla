--------------------------- MODULE ModelStep_proofs ---------------------------
(***************************************************************************)
(* Proofs about a simulation step, for any number of clusters and workers, *)
(* with and without failures, in both rendering modes.                     *)
(***************************************************************************)
EXTENDS ModelStep, TaskQueueLemmas

\* The variables of the threads are well typed; a worker that matches a
\* cluster holds the task of one.
ThreadsTypeOK ==
  /\ mpc \in MainPc
  /\ next_push \in Task \cup {ClustersNum + 1}
  /\ wpc \in [Worker -> WorkerPc]
  /\ held \in [Worker -> Task \cup {NULL}]
  /\ cluster_tasks_completed \subseteq Cluster
  /\ step_completed \in BOOLEAN
  /\ success \in BOOLEAN
  /\ matched \in [Cluster -> Nat]
  /\ integrated \in BOOLEAN
  /\ lost \in BOOLEAN
  /\ \A w \in Worker : wpc[w] = "match" => held[w] \in Cluster

\* The queue never holds more than the main thread has pushed in this step:
\* it clears the queue first, and the workers only take tasks out.
PushProgress ==
  /\ mpc \in {"push", "publish"} => next_push \in Task /\ last + 1 <= next_push
  /\ mpc = "publish" <=> pushing # NoPush

\* The inductive invariant.
IInv == QueueInv /\ ThreadsTypeOK /\ PushProgress

\* Init establishes the inductive invariant.
LEMMA IInvInit == Init => IInv
<1> SUFFICES ASSUME Init PROVE IInv
  OBVIOUS
<1>1. QueueInv
  BY QueueInitInv DEF Init
<1>2. ThreadsTypeOK
  <2>1. next_push \in Task
    BY TasksAssumption, ClustersAssumption DEF Init
  <2>2. /\ mpc \in MainPc
        /\ wpc \in [Worker -> WorkerPc]
        /\ held \in [Worker -> Task \cup {NULL}]
        /\ \A w \in Worker : wpc[w] # "match"
    BY DEF Init, MainPc, WorkerPc
  <2>3. /\ cluster_tasks_completed \subseteq Cluster
        /\ step_completed \in BOOLEAN /\ success \in BOOLEAN
        /\ matched \in [Cluster -> Nat]
        /\ integrated \in BOOLEAN /\ lost \in BOOLEAN
    BY DEF Init
  <2> QED
    BY <2>1, <2>2, <2>3 DEF ThreadsTypeOK
<1>3. PushProgress
  BY DEF Init, QueueInit, PushProgress
<1> QED
  BY <1>1, <1>2, <1>3 DEF IInv

\* What the main thread does outside its pushes leaves the queue alone.
LEMMA MainElsewhereInv ==
  ASSUME IInv,
         \/ FrameStart \/ Hit \/ AwaitPreviousStep \/ UnsetClusters
         \/ UnsetStep \/ StoreParameters \/ React \/ AwaitStep \/ ReadResults
  PROVE  IInv'
<1> USE DEF MainGoes, syncVars, historyVars
<1>1. UNCHANGED <<queueVars, next_push, wpc, held, lost>>
  BY DEF FrameStart, Hit, AwaitPreviousStep, UnsetClusters, UnsetStep,
         StoreParameters, React, AwaitStep, ReadResults
<1>2. mpc' \in MainPc \ {"push", "publish"} /\ mpc # "publish"
  BY DEF FrameStart, Hit, AwaitPreviousStep, UnsetClusters, UnsetStep,
         StoreParameters, React, AwaitStep, ReadResults, MainPc
<1>3. /\ cluster_tasks_completed' \subseteq Cluster
      /\ step_completed' \in BOOLEAN /\ success' \in BOOLEAN
      /\ matched' \in [Cluster -> Nat] /\ integrated' \in BOOLEAN
  <2> USE DEF IInv, ThreadsTypeOK
  <2>1. CASE UnsetClusters
    BY <2>1 DEF UnsetClusters
  <2>2. CASE UnsetStep
    <3>1. [c \in Cluster |-> 0] \in [Cluster -> Nat]
      OBVIOUS
    <3> QED
      BY <2>2, <3>1 DEF UnsetStep
  <2>3. CASE StoreParameters
    BY <2>3 DEF StoreParameters
  <2>4. CASE UNCHANGED <<syncVars, historyVars>>
    BY <2>4
  <2> QED
    BY <2>1, <2>2, <2>3, <2>4
    DEF FrameStart, Hit, AwaitPreviousStep, React, AwaitStep, ReadResults
<1>4. QueueInv'
  BY <1>1, UnchangedInv DEF IInv
<1>5. ThreadsTypeOK'
  BY <1>1, <1>2, <1>3 DEF IInv, ThreadsTypeOK
<1>6. PushProgress'
  BY <1>1, <1>2 DEF IInv, PushProgress, queueVars
<1> QED
  BY <1>4, <1>5, <1>6 DEF IInv

\* The main thread's clear and pushes keep the queue behind next_push.
LEMMA MainPushesInv == ASSUME IInv, ClearQueue \/ PushTask \/ PublishTask PROVE IInv'
<1> USE TasksAssumption, ClustersAssumption
    DEF IInv, ThreadsTypeOK, MainGoes, MainPc, syncVars, historyVars
<1>1. CASE ClearQueue
  <2>1. QueueInv'
    BY <1>1, ClearInv DEF ClearQueue
  <2>2. PushProgress'
    BY <1>1 DEF ClearQueue, Clear, clear_unsafe, PushProgress
  <2> QED
    BY <1>1, <2>1, <2>2 DEF ClearQueue
<1>2. CASE PushTask
  <2>1. next_push \in Task /\ last + 1 <= next_push
    BY <1>2 DEF PushTask, PushProgress
  <2>2. QueueInv'
    BY <1>2, <2>1, PushStoreInv DEF PushTask
  <2>3. pushing' # NoPush
    BY <1>2, <2>1, PointerAssumption DEF PushTask, PushStore, NoPush
  <2>4. PushProgress'
    BY <1>2, <2>1, <2>3 DEF PushTask, PushStore, PushProgress
  <2> QED
    BY <1>2, <2>2, <2>4 DEF PushTask
<1>3. CASE PublishTask
  <2>1. next_push \in Task /\ last + 1 <= next_push /\ last \in Int
    BY <1>3 DEF PublishTask, PushProgress, QueueInv, QueueTypeOK
  <2>2. QueueInv'
    BY <1>3, PushPublishInv DEF PublishTask
  <2>3. pushing' = NoPush /\ last' = last + 1 /\ next_push' = next_push + 1
    BY <1>3 DEF PublishTask, PushPublish
  <2>4. PushProgress'
    BY <1>3, <2>1, <2>3 DEF PublishTask, PushProgress, final_task
  <2>5. pushing.overtaken \in BOOLEAN
    BY <1>3 DEF PublishTask, PushPublish, QueueInv, QueueTypeOK, Push
  <2>6. ThreadsTypeOK'
    BY <1>3, <2>1, <2>3, <2>5 DEF PublishTask
  <2> QED
    BY <2>2, <2>4, <2>6
<1> QED
  BY <1>1, <1>2, <1>3

\* A worker that does not touch the queue disturbs neither it nor the pushes.
LEMMA WorkElsewhereInv ==
  ASSUME IInv, NEW w \in Worker,
         \/ WaitForTasks(w) \/ SkipCluster(w) \/ StartMatch(w) \/ MatchShape(w)
         \/ SkipIntegration(w) \/ StartIntegration(w) \/ Integrate(w)
         \/ TaskFails(w) \/ AbortFlag(w) \/ AbortClusters(w) \/ AbortStep(w)
  PROVE  IInv'
<1> USE DEF WorkerGoes, TaskReturns, syncVars, historyVars
<1>1. UNCHANGED <<queueVars, mpc, next_push, lost>>
  BY DEF WaitForTasks, SkipCluster, StartMatch, MatchShape, SkipIntegration,
         StartIntegration, Integrate, TaskFails, AbortFlag, AbortClusters, AbortStep
<1>2. /\ wpc' \in [Worker -> WorkerPc]
      /\ held' \in [Worker -> Task \cup {NULL}]
      /\ \A v \in Worker : wpc'[v] = "match" => held'[v] \in Cluster
  <2> USE DEF IInv, ThreadsTypeOK, WorkerPc
  <2>1. CASE \/ SkipCluster(w) \/ MatchShape(w) \/ SkipIntegration(w) \/ Integrate(w)
    BY <2>1 DEF SkipCluster, MatchShape, SkipIntegration, Integrate
  <2>2. CASE WaitForTasks(w) \/ StartIntegration(w)
    BY <2>2 DEF WaitForTasks, StartIntegration
  <2>3. CASE StartMatch(w)
    BY <2>3 DEF StartMatch
  <2>4. CASE TaskFails(w) \/ AbortFlag(w) \/ AbortClusters(w)
    BY <2>4 DEF TaskFails, AbortFlag, AbortClusters
  <2>5. CASE AbortStep(w)
    BY <2>5 DEF AbortStep
  <2> QED
    BY <2>1, <2>2, <2>3, <2>4, <2>5
<1>3. /\ cluster_tasks_completed' \subseteq Cluster
      /\ step_completed' \in BOOLEAN /\ success' \in BOOLEAN
      /\ matched' \in [Cluster -> Nat] /\ integrated' \in BOOLEAN
  <2> USE DEF IInv, ThreadsTypeOK
  <2>1. CASE MatchShape(w)
    BY <2>1 DEF MatchShape
  <2>2. CASE Integrate(w)
    BY <2>2 DEF Integrate
  <2>3. CASE AbortFlag(w) \/ AbortClusters(w) \/ AbortStep(w)
    BY <2>3 DEF AbortFlag, AbortClusters, AbortStep
  <2>4. CASE UNCHANGED <<syncVars, historyVars>>
    BY <2>4
  <2> QED
    BY <2>1, <2>2, <2>3, <2>4
    DEF WaitForTasks, SkipCluster, StartMatch, SkipIntegration, StartIntegration,
        TaskFails
<1>4. QueueInv'
  BY <1>1, UnchangedInv DEF IInv
<1>5. ThreadsTypeOK'
  BY <1>1, <1>2, <1>3 DEF IInv, ThreadsTypeOK
<1>6. PushProgress'
  BY <1>1 DEF IInv, PushProgress, queueVars
<1> QED
  BY <1>4, <1>5, <1>6 DEF IInv

\* A worker's pop, or the clear of its abort, only shortens the queue.
LEMMA WorkOnQueueInv ==
  ASSUME IInv, NEW w \in Worker, PopTask(w) \/ AbortQueue(w)
  PROVE  IInv'
<1>1. /\ QueueInv'
      /\ last' <= last /\ (pushing' = NoPush <=> pushing = NoPush)
      /\ UNCHANGED <<mpc, next_push, syncVars, historyVars>>
      /\ wpc' \in [Worker -> WorkerPc]
      /\ held' \in [Worker -> Task \cup {NULL}]
      /\ \A v \in Worker : wpc'[v] = "match" => wpc[v] = "match" /\ held'[v] = held[v]
  <2> last \in Int /\ last >= -1 /\ pushing \in Push \cup {NoPush}
    BY DEF IInv, QueueInv, QueueTypeOK
  <2>1. ASSUME clear_unsafe
        PROVE  last' <= last /\ (pushing' = NoPush <=> pushing = NoPush)
    BY <2>1 DEF clear_unsafe, Push, NoPush
  <2>2. CASE AbortQueue(w)
    <3>1. QueueInv' /\ last' <= last /\ (pushing' = NoPush <=> pushing = NoPush)
      BY <2>1, <2>2, ClearInv DEF AbortQueue, Clear, IInv
    <3> QED
      BY <2>2, <3>1 DEF AbortQueue, WorkerGoes, WorkerPc, IInv, ThreadsTypeOK
  <2>3. CASE PopTask(w)
    <3>1. PICK task \in Task \cup {NULL} :
            /\ Pop(task)
            /\ held' = [held EXCEPT ![w] = task]
            /\ WorkerGoes(w, "pop", IF task = NULL THEN "wait" ELSE "execute")
      BY <2>3 DEF PopTask
    <3>2. QueueInv'
      BY <3>1, PopInv DEF IInv
    <3>3. last' <= last /\ (pushing' = NoPush <=> pushing = NoPush)
      BY <3>1, <2>1 DEF Pop, PopLast, PopEarlier, queueVars
    <3>4. /\ wpc' \in [Worker -> WorkerPc]
          /\ held' \in [Worker -> Task \cup {NULL}]
          /\ \A v \in Worker :
               wpc'[v] = "match" => wpc[v] = "match" /\ held'[v] = held[v]
      BY <3>1 DEF WorkerGoes, WorkerPc, IInv, ThreadsTypeOK
    <3> QED
      BY <2>3, <3>2, <3>3, <3>4 DEF PopTask
  <2> QED
    BY <2>2, <2>3
<1>2. ThreadsTypeOK'
  BY <1>1 DEF IInv, ThreadsTypeOK, syncVars, historyVars
<1>3. PushProgress'
  <2>1. last \in Int /\ last' \in Int
    BY <1>1 DEF IInv, QueueInv, QueueTypeOK
  <2>2. \A t \in Task : t \in Int
    BY TasksAssumption, ClustersAssumption
  <2> QED
    BY <1>1, <2>1, <2>2 DEF IInv, PushProgress
<1> QED
  BY <1>1, <1>2, <1>3 DEF IInv

\* Every step preserves the inductive invariant.
LEMMA IInvNext == IInv /\ [Next]_vars => IInv'
<1> SUFFICES ASSUME IInv, [Next]_vars PROVE IInv'
  OBVIOUS
<1>1. CASE Main
  BY <1>1, MainElsewhereInv, MainPushesInv DEF Main
<1>2. ASSUME NEW w \in Worker, Work(w) PROVE IInv'
  BY <1>2, WorkElsewhereInv, WorkOnQueueInv DEF Work
<1>3. CASE UNCHANGED vars
  <2>1. QueueInv'
    BY <1>3, UnchangedInv DEF IInv, vars
  <2> QED
    BY <1>3, <2>1 DEF IInv, ThreadsTypeOK, PushProgress, vars, queueVars,
                      syncVars, historyVars
<1> QED
  BY <1>1, <1>2, <1>3 DEF Next

\* The inductive invariant holds in every reachable state.
LEMMA IInvCorrect == Spec => []IInv
  BY IInvInit, IInvNext, PTL DEF Spec

\* In every reachable state the variables of the queue and of the threads
\* have their types: no push leaves the array, no worker holds a slot that
\* was never written (task_queue.cpp:18-56, model.cpp:587-656).
THEOREM TypeCorrect == Spec => []TypeOK
<1>1. IInv => TypeOK
  BY DEF IInv, QueueInv, ThreadsTypeOK, TypeOK
<1> QED
  BY <1>1, IInvCorrect, PTL

\* compute_next_step_async() never finds the queue full, however many
\* clusters there are and whatever the workers and their aborts do in the
\* meantime: the size that init_tasks() gives the queue suffices
\* (model.cpp:458, 604-610).
THEOREM PushNeverRefusedCorrect == Spec => []PushNeverRefused
<1>1. IInv => PushNeverRefused
  <2> SUFFICES ASSUME IInv, mpc = "push" PROVE ~ is_full
    BY DEF PushNeverRefused
  <2>1. next_push \in 0 .. ClustersNum /\ last + 1 <= next_push
    BY TasksAssumption DEF IInv, PushProgress
  <2>2. last \in Int /\ Size \in Int /\ Size > ClustersNum /\ ClustersNum \in Int
    BY SizeAssumption, ClustersAssumption, TasksAssumption
    DEF IInv, QueueInv, QueueTypeOK
  <2> QED
    BY <2>1, <2>2 DEF is_full
<1> QED
  BY <1>1, IInvCorrect, PTL

-----------------------------------------------------------------------------
(* A step is a barrier, and its success is honest. *)

\* What each worker holds where; only a failed worker is in an abort.
WorkersOK ==
  \A w \in Worker :
    /\ held[w] = NULL <=> wpc[w] \in {"wait", "pop", "ended"}
    /\ wpc[w] = "integrate" => held[w] = final_task /\ success
    /\ success => wpc[w] \notin {"abort_queue", "abort_clusters", "abort_step", "ended"}

Pushing == mpc \in {"push", "publish"}

\* As long as no push was lost, every task of the step is in one place only,
\* and the tasks leave the queue in the order in which they were pushed.
Ordered ==
  ~ lost =>
    /\ \A i, j \in first .. last : i < j => tasks[i] < tasks[j]
    /\ \A i \in first .. last, w \in Worker : held[w] # NULL => held[w] < tasks[i]
    /\ \A i \in first .. last, c \in Cluster : matched[c] > 0 => c < tasks[i]
    /\ \A v, w \in Worker : v # w /\ held[v] = held[w] => held[w] = NULL
    /\ \A w \in Worker, c \in Cluster : matched[c] > 0 => held[w] # c
    /\ \A c \in Cluster : matched[c] <= 1
    /\ Pushing =>
         /\ \A w \in Worker : held[w] # NULL => held[w] < next_push
         /\ \A c \in Cluster : matched[c] > 0 => c < next_push

\* Task t was pushed in this step, and nobody will ever execute it.
Gone(t) ==
  /\ t < next_push
  /\ \A i \in first .. last : tasks[i] # t
  /\ tasks[0] # t
  /\ \A w \in Worker : held[w] # t
  /\ t \in Cluster => matched[t] = 0

\* A push that was overtaken leaves a task that is gone, so that the step can
\* not complete.
LostIsGone == lost => \E t \in Task : Gone(t)

Idle(w) == wpc[w] \in {"wait", "pop"}

\* Every task of the step has been handed out, and the clusters are matched.
Consumed == is_empty /\ ~ lost /\ \A c \in Cluster : matched[c] = 1

Finished == (\A w \in Worker : Idle(w)) /\ Consumed /\ integrated

\* Between two steps, the main thread has seen the first one succeed.
BetweenSteps ==
  \/ mpc \in {"hit", "begin", "unset_clusters", "unset_step"}
  \/ ~ UpdateOnGpu /\ mpc \in {"read", "frame"}

StepStarting == mpc \in {"store", "clear"}

StepRunning ==
  \/ mpc \in {"push", "publish", "react", "wait"}
  \/ UpdateOnGpu /\ mpc \in {"read", "frame"}

BetweenOK == BetweenSteps => success /\ step_completed /\ Finished

StartingOK ==
  /\ StepStarting =>
       /\ success /\ ~ step_completed
       /\ \A w \in Worker : Idle(w)
       /\ is_empty /\ ~ lost
       /\ \A c \in Cluster : matched[c] = 0
  /\ mpc = "unset_step" \/ StepStarting => cluster_tasks_completed = {}

RunningOK ==
  StepRunning /\ success =>
    /\ cluster_tasks_completed = {c \in Cluster : matched[c] > 0}
    /\ step_completed => Finished /\ ~ Pushing
    /\ \A w \in Worker : wpc[w] = "integrate" =>
         Consumed /\ ~ Pushing /\ \A v \in Worker : v # w => Idle(v)

ReadingOK ==
  /\ mpc = "stopped" => ~ success
  /\ mpc \in {"read", "frame"} =>
       /\ \A c \in Cluster : matched[c] > 0
       /\ ~ lost => \A w \in Worker : wpc[w] # "match"

\* While tasks are pushed, the slots up to `last' hold tasks of this step that
\* were pushed before the next one; an overtaken push finds the queue as a
\* clear left it, with such a task in its first slot.
PushOK ==
  /\ Pushing => \A i \in 0 .. last : tasks[i] < next_push
  /\ mpc = "publish" => pushing.task = next_push
  /\ pushing.overtaken => last = -1 /\ tasks[0] \in Task /\ tasks[0] < next_push

\* The inductive invariant.
SInv ==
  /\ IInv
  /\ WorkersOK
  /\ Ordered
  /\ LostIsGone
  /\ BetweenOK
  /\ StartingOK
  /\ RunningOK
  /\ ReadingOK
  /\ PushOK

\* The types that the proofs below rely on.
LEMMA SInvTypes ==
  ASSUME SInv
  PROVE  /\ first \in Int /\ last \in Int /\ first >= 0
         /\ ClustersNum \in Nat /\ ClustersNum > 0
         /\ Task = 0 .. ClustersNum /\ NULL \notin Task
         /\ Cluster = 0 .. ClustersNum - 1 /\ final_task = ClustersNum
         /\ Cluster \subseteq Task /\ final_task \in Task
         /\ \A i \in 0 .. last : tasks[i] \in Task
         /\ first .. last \subseteq 0 .. last
         /\ tasks \in [Slot -> Task \cup {Garbage}]
         /\ next_push \in Int
         /\ wpc \in [Worker -> WorkerPc]
         /\ held \in [Worker -> Task \cup {NULL}]
         /\ matched \in [Cluster -> Nat]
         /\ mpc \in MainPc
         /\ is_empty <=> first > last
         /\ mpc = "publish" <=> pushing # NoPush
<1>1. /\ first \in Int /\ last \in Int /\ first >= 0
      /\ tasks \in [Slot -> Task \cup {Garbage}]
      /\ \A i \in 0 .. last : tasks[i] \in Task
      /\ first .. last \subseteq 0 .. last
  BY SizeAssumption
  DEF SInv, IInv, QueueInv, QueueTypeOK, ReachableSlotsWritten, Slot
<1>2. /\ ClustersNum \in Nat /\ ClustersNum > 0
      /\ Task = 0 .. ClustersNum /\ NULL \notin Task
      /\ Cluster = 0 .. ClustersNum - 1 /\ final_task = ClustersNum
      /\ Cluster \subseteq Task /\ final_task \in Task
  BY ClustersAssumption, TasksAssumption, PointerAssumption DEF Cluster, final_task
<1>3. next_push \in Int
  BY <1>2 DEF SInv, IInv, ThreadsTypeOK
<1> QED
  BY <1>1, <1>2, <1>3 DEF SInv, IInv, ThreadsTypeOK, PushProgress, is_empty

\* Init establishes the invariant.
LEMMA SInvInit == Init => SInv
<1> SUFFICES ASSUME Init PROVE SInv
  OBVIOUS
<1>1. IInv
  BY IInvInit
<1>2. WorkersOK
  BY DEF Init, WorkersOK
<1>3. first = 0 /\ last = -1 /\ pushing = NoPush /\ ~ lost
  BY DEF Init, QueueInit
<1>4. Ordered
  <2>1. first .. last = {} /\ ~ pushing.overtaken
    BY <1>3 DEF NoPush
  <2>2. \A w \in Worker, c \in Cluster : held[w] = NULL /\ c # NULL /\ matched[c] = 1
    BY PointerAssumption, TasksAssumption, ClustersAssumption DEF Init, Cluster
  <2> QED
    BY <2>1, <2>2 DEF Init, Ordered, Pushing
<1>5. LostIsGone
  BY <1>3 DEF LostIsGone
<1>6. Finished
  BY <1>3 DEF Init, Finished, Consumed, Idle, is_empty
<1>7. BetweenOK /\ StartingOK /\ RunningOK /\ ReadingOK /\ PushOK
  BY <1>3, <1>6 DEF Init, BetweenOK, StartingOK, RunningOK, ReadingOK, PushOK,
                    StepStarting, StepRunning, Pushing, NoPush
<1> QED
  BY <1>1, <1>2, <1>4, <1>5, <1>7 DEF SInv

-----------------------------------------------------------------------------
(* The main thread. *)

\* The steps of the main thread that only move it on.
LEMMA MainMovesSafe ==
  ASSUME SInv,
         FrameStart \/ Hit \/ AwaitPreviousStep \/ React \/ AwaitStep \/ ReadResults
  PROVE  SInv'
<1> USE DEF MainGoes, syncVars, historyVars
<1>1. UNCHANGED <<queueVars, next_push, wpc, held, syncVars, historyVars>>
  BY DEF FrameStart, Hit, AwaitPreviousStep, React, AwaitStep, ReadResults
<1>2. mpc' \notin {"push", "publish", "unset_step", "store", "clear"}
      /\ mpc # "publish"
  BY DEF FrameStart, Hit, AwaitPreviousStep, React, AwaitStep, ReadResults
<1>3. IInv'
  BY MainElsewhereInv DEF SInv
<1>4. WorkersOK' /\ Ordered' /\ LostIsGone'
  BY <1>1, <1>2 DEF SInv, queueVars, WorkersOK, Ordered, Pushing, LostIsGone, Gone
<1>5. (Consumed' <=> Consumed) /\ (Finished' <=> Finished)
  BY <1>1 DEF queueVars, Consumed, Finished, is_empty, Idle
<1>6. StartingOK'
  BY <1>2 DEF StartingOK, StepStarting
<1>7. BetweenOK'
  <2> SUFFICES ASSUME BetweenSteps' PROVE success /\ step_completed /\ Finished
    BY <1>1, <1>5 DEF BetweenOK
  <2>1. CASE BetweenSteps
    BY <2>1 DEF SInv, BetweenOK
  <2>2. CASE StepRunning /\ success /\ step_completed
    BY <2>2 DEF SInv, RunningOK
  <2> QED
    BY <2>1, <2>2, ModeAssumption
    DEF BetweenSteps, StepRunning, FrameStart, Hit, AwaitPreviousStep, React,
        AwaitStep, ReadResults
<1>8. RunningOK'
  <2>1. StepRunning' => StepRunning
    BY ModeAssumption
    DEF StepRunning, FrameStart, Hit, AwaitPreviousStep, React, AwaitStep, ReadResults
  <2>2. ~ Pushing'
    BY <1>2 DEF Pushing
  <2> QED
    BY <1>1, <1>5, <2>1, <2>2 DEF SInv, RunningOK, Idle
<1>9. ReadingOK'
  <2>1. mpc' = "stopped" => ~ success
    BY DEF FrameStart, Hit, AwaitPreviousStep, React, AwaitStep, ReadResults
  <2>2. ASSUME mpc' \in {"read", "frame"}
        PROVE  /\ \A c \in Cluster : matched[c] > 0
               /\ ~ lost => \A w \in Worker : wpc[w] # "match"
    <3>1. CASE mpc = "read"
      BY <3>1 DEF SInv, ReadingOK
    <3>2. CASE mpc = "wait"
      <4>1. success /\ IF UpdateOnGpu THEN cluster_tasks_completed = Cluster ELSE step_completed
        BY <2>2, <3>2 DEF FrameStart, Hit, AwaitPreviousStep, React, AwaitStep, ReadResults
      <4>2. \A c \in Cluster : matched[c] > 0
        BY <3>2, <4>1, ModeAssumption
        DEF SInv, RunningOK, StepRunning, Finished, Consumed
      <4>3. ~ lost => \A w \in Worker : wpc[w] # "match"
        BY <4>2 DEF SInv, Ordered, IInv, ThreadsTypeOK
      <4> QED
        BY <4>2, <4>3
    <3> QED
      BY <2>2, <3>1, <3>2
      DEF FrameStart, Hit, AwaitPreviousStep, React, AwaitStep, ReadResults
  <2> QED
    BY <1>1, <1>2, <2>1, <2>2 DEF ReadingOK
<1>10. PushOK'
  BY <1>1, <1>2 DEF SInv, PushOK, Pushing, queueVars
<1> QED
  BY <1>3, <1>4, <1>6, <1>7, <1>8, <1>9, <1>10 DEF SInv

\* The steps that prepare a new step find the previous one finished.
LEMMA MainPreparesSafe ==
  ASSUME SInv, UnsetClusters \/ UnsetStep \/ StoreParameters \/ ClearQueue
  PROVE  SInv'
<1> USE DEF MainGoes, syncVars, historyVars
<1>1. success /\ (\A w \in Worker : Idle(w)) /\ is_empty /\ ~ lost
  BY DEF SInv, BetweenOK, BetweenSteps, StartingOK, StepStarting, Finished, Consumed,
         UnsetClusters, UnsetStep, StoreParameters, ClearQueue
<1>2. success' /\ UNCHANGED <<wpc, held, lost>> /\ first' > last'
  <2>1. first > last
    BY <1>1 DEF is_empty
  <2>2. CASE UnsetClusters \/ UnsetStep
    BY <1>1, <2>1, <2>2 DEF UnsetClusters, UnsetStep, queueVars
  <2>3. CASE StoreParameters
    BY <1>1, <2>1, <2>3 DEF StoreParameters, queueVars
  <2>4. CASE ClearQueue
    BY <1>1, <2>4 DEF ClearQueue, Clear, clear_unsafe
  <2> QED
    BY <2>2, <2>3, <2>4
<1>3. IInv'
  BY MainElsewhereInv, MainPushesInv DEF SInv
<1>4. is_empty' /\ first' .. last' = {}
  <2>1. first' \in Int /\ last' \in Int
    BY <1>3 DEF IInv, QueueInv, QueueTypeOK
  <2> QED
    BY <1>2, <2>1 DEF is_empty
<1>5. ~ pushing'.overtaken /\ mpc' # "publish" /\ (\A w \in Worker : held[w] = NULL)
  <2>1. pushing' = NoPush
    BY <1>3 DEF IInv, PushProgress, UnsetClusters, UnsetStep, StoreParameters, ClearQueue
  <2>2. \A w \in Worker : held[w] = NULL
    BY <1>1 DEF SInv, WorkersOK, Idle
  <2> QED
    BY <2>1, <2>2 DEF NoPush, UnsetClusters, UnsetStep, StoreParameters, ClearQueue
<1>6. WorkersOK'
  BY <1>1, <1>2 DEF SInv, WorkersOK
<1>7. LostIsGone'
  BY <1>1, <1>2 DEF LostIsGone
<1>8. \/ \A c \in Cluster : matched'[c] = 0
      \/ mpc' = "unset_step" /\ \A c \in Cluster : matched'[c] = 1
  <2>1. CASE UnsetClusters
    BY <2>1 DEF SInv, BetweenOK, BetweenSteps, Finished, Consumed, UnsetClusters
  <2>2. CASE UnsetStep
    BY <2>2 DEF UnsetStep
  <2>3. CASE StoreParameters \/ ClearQueue
    BY <2>3 DEF SInv, StartingOK, StepStarting, StoreParameters, ClearQueue
  <2> QED
    BY <2>1, <2>2, <2>3
<1>9. Ordered'
  <2>1. \A w \in Worker, c \in Cluster : held'[w] # c
    BY <1>2, <1>5, SInvTypes
  <2>2. Pushing' => \A c \in Cluster : matched'[c] = 0
    BY <1>8 DEF Pushing
  <2>3. \A c \in Cluster : matched'[c] <= 1
    BY <1>8
  <2> QED
    BY <1>2, <1>4, <1>5, <2>1, <2>2, <2>3 DEF Ordered
<1>10. BetweenOK' /\ ReadingOK'
  <2>1. CASE UnsetClusters
    BY <1>1, <2>1 DEF SInv, BetweenOK, BetweenSteps, ReadingOK, UnsetClusters,
                      Finished, Consumed, is_empty, queueVars, Idle
  <2>2. CASE UnsetStep \/ StoreParameters \/ ClearQueue
    BY <2>2 DEF BetweenOK, BetweenSteps, ReadingOK, UnsetStep, StoreParameters,
                ClearQueue
  <2> QED
    BY <2>1, <2>2
<1>11. StartingOK'
  <2>1. cluster_tasks_completed' = {}
    BY DEF SInv, StartingOK, StepStarting, UnsetClusters, UnsetStep, StoreParameters,
           ClearQueue
  <2>2. StepStarting' => ~ step_completed'
    BY DEF SInv, StartingOK, StepStarting, UnsetClusters, UnsetStep, StoreParameters,
           ClearQueue
  <2> QED
    BY <1>1, <1>2, <1>4, <1>8, <2>1, <2>2 DEF StartingOK, StepStarting, Idle
<1>12. RunningOK'
  <2>1. CASE ClearQueue
    <3>1. cluster_tasks_completed' = {} /\ ~ step_completed'
          /\ (\A c \in Cluster : ~ matched'[c] > 0)
      BY <2>1 DEF SInv, StartingOK, StepStarting, ClearQueue
    <3> QED
      BY <1>1, <1>2, <3>1 DEF RunningOK, Idle
  <2>2. CASE UnsetClusters \/ UnsetStep \/ StoreParameters
    BY <2>2 DEF RunningOK, StepRunning, UnsetClusters, UnsetStep, StoreParameters
  <2> QED
    BY <2>1, <2>2
<1>13. PushOK'
  <2>1. Pushing' => 0 .. last' = {}
    BY DEF Pushing, UnsetClusters, UnsetStep, StoreParameters, ClearQueue, Clear,
           clear_unsafe
  <2> QED
    BY <1>5, <2>1 DEF PushOK
<1> QED
  BY <1>3, <1>6, <1>7, <1>9, <1>10, <1>11, <1>12, <1>13 DEF SInv

\* The store of a push is seen by nobody.
LEMMA PushTaskSafe == ASSUME SInv, PushTask PROVE SInv'
<1> USE DEF MainGoes, syncVars, historyVars
<1>1. IInv'
  BY MainPushesInv DEF SInv
<1>2. /\ mpc = "push" /\ mpc' = "publish" /\ pushing' = [task |-> next_push,
            set_event |-> next_push = final_task, overtaken |-> FALSE]
      /\ first' = first /\ last' = last
      /\ tasks' = [tasks EXCEPT ![last + 1] = next_push]
      /\ UNCHANGED <<next_push, wpc, held, cluster_tasks_completed, step_completed,
                     success, matched, integrated, lost>>
  BY DEF PushTask, PushStore
<1>3. \A i \in first .. last : tasks'[i] = tasks[i]
  BY <1>2, SInvTypes
<1>4. tasks'[0] = tasks[0] \/ tasks'[0] = next_push
  BY <1>2, SInvTypes
<1>5. WorkersOK'
  BY <1>2 DEF SInv, WorkersOK
<1>6. Ordered'
  BY <1>2, <1>3 DEF SInv, Ordered, Pushing
<1>7. LostIsGone'
  <2> SUFFICES ASSUME lost PROVE \E t \in Task : Gone(t)'
    BY <1>2 DEF LostIsGone
  <2>1. PICK t \in Task : Gone(t)
    BY DEF SInv, LostIsGone
  <2>2. tasks'[0] # t
    BY <1>4, <2>1, SInvTypes DEF Gone
  <2>3. Gone(t)'
    BY <1>2, <1>3, <2>1, <2>2 DEF Gone
  <2> QED
    BY <2>3
<1>8. BetweenOK' /\ StartingOK' /\ ReadingOK'
  BY <1>2 DEF SInv, BetweenOK, BetweenSteps, StartingOK, StepStarting, ReadingOK
<1>9. RunningOK'
  <2>1. StepRunning /\ Pushing /\ Pushing'
    BY <1>2 DEF StepRunning, Pushing
  <2> QED
    BY <1>2, <2>1 DEF SInv, RunningOK, Idle
<1>10. PushOK'
  <2>1. \A i \in 0 .. last : tasks'[i] < next_push
    BY <1>2, SInvTypes DEF SInv, PushOK, Pushing
  <2> QED
    BY <1>2, <2>1 DEF PushOK
<1> QED
  BY <1>1, <1>5, <1>6, <1>7, <1>8, <1>9, <1>10 DEF SInv

\* The increment that ends a push shows its task to the workers; when the
\* push was overtaken, its task is gone.
LEMMA PublishTaskSafe == ASSUME SInv, PublishTask PROVE SInv'
<1> USE DEF MainGoes, syncVars, historyVars
<1>1. IInv'
  BY MainPushesInv DEF SInv
<1>2. /\ mpc = "publish" /\ mpc' = IF next_push = final_task THEN "react" ELSE "push"
      /\ last' = last + 1 /\ pushing' = NoPush /\ next_push' = next_push + 1
      /\ lost' = (lost \/ pushing.overtaken)
      /\ UNCHANGED <<first, tasks, wpc, held, cluster_tasks_completed, step_completed,
                     success, matched, integrated>>
  BY DEF PublishTask, PushPublish
<1>3. /\ pushing.task = next_push /\ next_push \in Task
      /\ pushing \in Push
      /\ first <= last + 1
      /\ ~ pushing.overtaken => tasks[last + 1] = next_push
      /\ pushing.overtaken => last = -1 /\ first = 0 /\ tasks[0] \in Task /\ tasks[0] < next_push
  <2>1. pushing # NoPush
    BY <1>2, SInvTypes
  <2> QED
    BY <1>2, <2>1, SInvTypes
    DEF SInv, PushOK, IInv, PushProgress, QueueInv, QueueTypeOK, IndicesOK,
        StoredTaskWillBePublished
<1>4. first .. last' = (first .. last) \cup {last + 1}
  BY <1>2, <1>3, SInvTypes
<1>5. WorkersOK'
  BY <1>2 DEF SInv, WorkersOK
<1>6. Ordered'
  <2> SUFFICES ASSUME ~ lost, ~ pushing.overtaken PROVE Ordered'
    BY <1>2 DEF Ordered
  <2>1. /\ \A i \in first .. last : tasks[i] < next_push
        /\ \A w \in Worker : held[w] # NULL => held[w] < next_push
        /\ \A c \in Cluster : matched[c] > 0 => c < next_push
    BY <1>2, SInvTypes DEF SInv, Ordered, PushOK, Pushing
  <2>2. \A i \in first .. last' :
          \/ i = last + 1 /\ tasks[i] = next_push
          \/ i \in first .. last /\ i < last + 1 /\ tasks[i] < next_push
    BY <1>3, <1>4, <2>1, SInvTypes
  <2>3. /\ \A i, j \in first .. last' : i < j => tasks[i] < tasks[j]
        /\ \A i \in first .. last', w \in Worker : held[w] # NULL => held[w] < tasks[i]
        /\ \A i \in first .. last', c \in Cluster : matched[c] > 0 => c < tasks[i]
    <3>1. /\ \A i, j \in first .. last : i < j => tasks[i] < tasks[j]
          /\ \A i \in first .. last, w \in Worker : held[w] # NULL => held[w] < tasks[i]
          /\ \A i \in first .. last, c \in Cluster : matched[c] > 0 => c < tasks[i]
      BY DEF SInv, Ordered
    <3>2. ASSUME NEW i \in first .. last', NEW j \in first .. last', i < j
          PROVE  tasks[i] < tasks[j]
      <4>1. i \in first .. last
        BY <1>2, <1>4, <3>2, SInvTypes
      <4> QED
        BY <2>2, <3>1, <3>2, <4>1
    <3> QED
      BY <2>1, <2>2, <3>1, <3>2
  <2>4. Pushing' =>
          /\ \A w \in Worker : held[w] # NULL => held[w] < next_push + 1
          /\ \A c \in Cluster : matched[c] > 0 => c < next_push + 1
    <3>1. \A w \in Worker : held[w] # NULL => held[w] \in Int
      BY SInvTypes
    <3> QED
      BY <2>1, <3>1, SInvTypes
  <2> QED
    BY <1>2, <2>3, <2>4 DEF SInv, Ordered
<1>7. LostIsGone'
  <2>1. CASE lost
    <3>1. PICK t \in Task : Gone(t)
      BY <2>1 DEF SInv, LostIsGone
    <3>2. tasks[last + 1] # t
      BY <1>3, <3>1, SInvTypes DEF Gone
    <3>3. t < next_push + 1
      BY <3>1, SInvTypes DEF Gone
    <3>4. Gone(t)'
      BY <1>2, <1>4, <3>1, <3>2, <3>3 DEF Gone
    <3> QED
      BY <3>4 DEF LostIsGone
  <2>2. CASE ~ lost /\ pushing.overtaken
    <3> PICK t \in Task : t = next_push
      BY <1>3
    <3>1. /\ first .. last' = {0}
          /\ tasks[0] # t
          /\ \A w \in Worker : held[w] # t
          /\ t \in Cluster => matched[t] = 0
      <4>1. /\ \A w \in Worker : held[w] # NULL => held[w] < next_push
            /\ \A c \in Cluster : matched[c] > 0 => c < next_push
        BY <1>2, <1>3, <2>2 DEF SInv, Ordered, Pushing
      <4>2. \A w \in Worker : held[w] # t
        BY <4>1, <1>3, SInvTypes
      <4>3. t \in Cluster => matched[t] = 0
        BY <4>1, SInvTypes
      <4>4. first .. last' = {0}
        BY <1>2, <1>3, <2>2
      <4>5. tasks[0] # t
        BY <1>3, <2>2, SInvTypes
      <4> QED
        BY <4>2, <4>3, <4>4, <4>5
    <3>2. t < next_push + 1
      BY SInvTypes
    <3>3. Gone(t)'
      BY <1>2, <3>1, <3>2 DEF Gone
    <3> QED
      BY <3>3 DEF LostIsGone
  <2> QED
    BY <1>2, <2>1, <2>2 DEF LostIsGone
<1>8. BetweenOK' /\ StartingOK' /\ ReadingOK'
  BY <1>2 DEF BetweenOK, BetweenSteps, StartingOK, StepStarting, ReadingOK
<1>9. RunningOK'
  <2>1. StepRunning /\ Pushing
    BY <1>2 DEF StepRunning, Pushing
  <2> QED
    BY <1>2, <2>1 DEF SInv, RunningOK, Idle
<1>10. PushOK'
  <2>1. \A i \in 0 .. last : tasks[i] \in Task /\ tasks[i] < next_push
    BY <1>2, SInvTypes DEF SInv, PushOK, Pushing
  <2>2. tasks[last + 1] \in Task /\ tasks[last + 1] < next_push + 1
    BY <1>3, SInvTypes
  <2>3. \A i \in 0 .. last' : i \in 0 .. last \/ i = last + 1
    BY <1>2, SInvTypes
  <2>4. \A i \in 0 .. last' : tasks[i] < next_push + 1
    BY <2>1, <2>2, <2>3, SInvTypes
  <2>5. mpc' # "publish" /\ ~ pushing'.overtaken
    BY <1>2 DEF NoPush
  <2> QED
    BY <1>2, <2>4, <2>5 DEF PushOK
<1> QED
  BY <1>1, <1>5, <1>6, <1>7, <1>8, <1>9, <1>10 DEF SInv

-----------------------------------------------------------------------------
(* The workers. *)

\* While a worker is busy, the step it works for is under way, or the main
\* thread has stopped; a step under way that did not fail is not complete.
LEMMA BusyWorker ==
  ASSUME SInv, NEW w \in Worker, ~ Idle(w)
  PROVE  /\ ~ BetweenSteps /\ ~ StepStarting /\ mpc # "unset_step"
         /\ success => StepRunning /\ ~ step_completed
         /\ success => \A v \in Worker : v # w => wpc[v] # "integrate"
<1>1. ~ BetweenSteps /\ ~ StepStarting /\ mpc # "unset_step"
  BY DEF SInv, BetweenOK, BetweenSteps, StartingOK, Finished
<1>2. success => StepRunning
  BY <1>1, SInvTypes
  DEF SInv, ReadingOK, BetweenSteps, StepStarting, StepRunning, MainPc
<1> QED
  BY <1>1, <1>2 DEF SInv, RunningOK, Finished

\* So what a busy worker does cannot disturb the main thread's preparations.
LEMMA BusyWorkerSafe ==
  ASSUME SInv, NEW w \in Worker, ~ Idle(w), mpc' = mpc
  PROVE  BetweenOK' /\ StartingOK'
BY BusyWorker DEF BetweenOK, BetweenSteps, StartingOK, StepStarting

\* An idle worker looks for work, and there is none.
LEMMA IdleWorkerSafe ==
  ASSUME SInv, NEW w \in Worker,
         WaitForTasks(w) \/ (PopTask(w) /\ UNCHANGED <<queueVars, held>>)
  PROVE  SInv'
<1> USE DEF WorkerGoes, syncVars, historyVars
<1>1. UNCHANGED <<queueVars, mpc, next_push, held, syncVars, historyVars>>
  BY DEF WaitForTasks, PopTask
<1>2. IInv'
  BY WorkElsewhereInv, WorkOnQueueInv DEF SInv
<1>3. \A v \in Worker : wpc'[v] = wpc[v] \/ {wpc[v], wpc'[v]} \subseteq {"wait", "pop"}
  <2>1. CASE WaitForTasks(w)
    BY <2>1, SInvTypes DEF WaitForTasks
  <2>2. CASE PopTask(w) /\ UNCHANGED held
    <3>1. PICK task \in Task \cup {NULL} :
            held' = [held EXCEPT ![w] = task]
            /\ WorkerGoes(w, "pop", IF task = NULL THEN "wait" ELSE "execute")
      BY <2>2 DEF PopTask
    <3>2. task = NULL
      <4>1. held[w] = NULL
        BY <3>1 DEF SInv, WorkersOK
      <4>2. held'[w] = task
        BY <3>1, SInvTypes
      <4> QED
        BY <2>2, <4>1, <4>2
    <3> QED
      BY <3>1, <3>2, SInvTypes
  <2> QED
    BY <1>1, <2>1, <2>2
<1>4. \A v \in Worker : Idle(v)' <=> Idle(v)
  BY <1>3 DEF Idle
<1>5. /\ \A v \in Worker : wpc'[v] = "integrate" <=> wpc[v] = "integrate"
      /\ \A v \in Worker : wpc'[v] = "match" <=> wpc[v] = "match"
      /\ \A v \in Worker : wpc'[v] \in {"wait", "pop", "ended"} <=> wpc[v] \in {"wait", "pop", "ended"}
      /\ \A v \in Worker :
           wpc'[v] \in {"abort_queue", "abort_clusters", "abort_step", "ended"}
             <=> wpc[v] \in {"abort_queue", "abort_clusters", "abort_step", "ended"}
  BY <1>3
<1>6. (Consumed' <=> Consumed) /\ (Finished' <=> Finished)
  BY <1>1, <1>4 DEF queueVars, Consumed, Finished, is_empty
<1>7. WorkersOK' /\ Ordered' /\ LostIsGone'
  BY <1>1, <1>5 DEF SInv, queueVars, WorkersOK, Ordered, Pushing, LostIsGone, Gone
<1>8. BetweenOK' /\ StartingOK'
  BY <1>1, <1>4, <1>6
  DEF SInv, queueVars, BetweenOK, BetweenSteps, StartingOK, StepStarting, is_empty
<1>9. RunningOK'
  BY <1>1, <1>4, <1>5, <1>6 DEF SInv, RunningOK, StepRunning, Pushing
<1>10. ReadingOK' /\ PushOK'
  BY <1>1, <1>5 DEF SInv, queueVars, ReadingOK, PushOK, Pushing
<1> QED
  BY <1>2, <1>7, <1>8, <1>9, <1>10 DEF SInv

\* A clear, and the pop of the last task, empty the queue under a push.
LEMMA EmptiedPushOK ==
  ASSUME SInv, clear_unsafe, UNCHANGED <<tasks, mpc, next_push>>
  PROVE  PushOK'
<1>1. first' = 0 /\ last' = -1 /\ 0 .. last' = {}
  BY DEF clear_unsafe
<1>2. pushing.overtaken => last = -1 /\ tasks[0] \in Task /\ tasks[0] < next_push
  BY DEF SInv, PushOK
<1>3. mpc = "publish" => pushing'.task = next_push
  <2>1. pushing'.task = pushing.task
    BY DEF clear_unsafe, SInv, IInv, QueueInv, QueueTypeOK, Push, NoPush
  <2> QED
    BY <2>1 DEF SInv, PushOK
<1>4. pushing # NoPush /\ last # -1 => tasks[0] \in Task /\ tasks[0] < next_push
  <2> SUFFICES ASSUME pushing # NoPush, last # -1
               PROVE  tasks[0] \in Task /\ tasks[0] < next_push
    OBVIOUS
  <2>1. Pushing
    BY SInvTypes DEF Pushing
  <2>2. last \in -1 .. Size - 1
    BY DEF SInv, IInv, QueueInv, QueueTypeOK
  <2>3. 0 \in 0 .. last
    BY <2>2, SizeAssumption
  <2> QED
    BY <2>1, <2>3, SInvTypes DEF SInv, PushOK
<1>5. pushing'.overtaken => tasks[0] \in Task /\ tasks[0] < next_push
  BY <1>2, <1>4 DEF clear_unsafe
<1> QED
  BY <1>1, <1>3, <1>5 DEF PushOK, Pushing

\* The worker pops a task, which nobody else has.
LEMMA TaskPoppedSafe ==
  ASSUME SInv, NEW w \in Worker, PopTask(w), ~ UNCHANGED <<queueVars, held>>
  PROVE  SInv'
<1> USE DEF WorkerGoes, syncVars, historyVars
<1>1. IInv'
  BY WorkOnQueueInv DEF SInv
<1>2. PICK task \in Task \cup {NULL} :
        /\ Pop(task)
        /\ held' = [held EXCEPT ![w] = task]
        /\ WorkerGoes(w, "pop", IF task = NULL THEN "wait" ELSE "execute")
  BY DEF PopTask
<1>3. UNCHANGED <<mpc, next_push, syncVars, historyVars>>
  BY DEF PopTask
<1>4. ~ is_empty /\ task = tasks[first] /\ (PopLast \/ PopEarlier)
  <2>1. CASE is_empty /\ task = NULL /\ UNCHANGED queueVars
    <3>1. held[w] = NULL
      BY <1>2 DEF SInv, WorkersOK
    <3>2. held' = held
      BY <1>2, <2>1, <3>1, SInvTypes
    <3> QED
      BY <2>1, <3>2
  <2> QED
    BY <1>2, <2>1 DEF Pop
<1>5. first \in first .. last /\ task \in Task /\ task # NULL
  BY <1>4, SInvTypes
<1>6. /\ wpc[w] = "pop" /\ wpc' = [wpc EXCEPT ![w] = "execute"]
      /\ held' = [held EXCEPT ![w] = task] /\ held[w] = NULL
  BY <1>2, <1>5 DEF SInv, WorkersOK
<1>7. /\ wpc'[w] = "execute" /\ held'[w] = task
      /\ \A v \in Worker : v # w => wpc'[v] = wpc[v] /\ held'[v] = held[v]
  BY <1>6, SInvTypes
<1>8. tasks' = tasks /\ \A i \in first' .. last' : i \in first .. last /\ first < i
  <2>1. CASE PopLast
    BY <2>1 DEF PopLast, clear_unsafe
  <2>2. CASE PopEarlier
    <3>1. first' = first + 1 /\ last' = last /\ tasks' = tasks
      BY <2>2 DEF PopEarlier
    <3> QED
      BY <3>1, SInvTypes
  <2> QED
    BY <1>4, <2>1, <2>2
<1>9. ~ Consumed /\ ~ Finished
  BY <1>4 DEF Consumed, Finished
<1>10. WorkersOK'
  BY <1>3, <1>5, <1>7 DEF SInv, WorkersOK
<1>11. Ordered'
  <2> SUFFICES ASSUME ~ lost PROVE Ordered'
    BY <1>3 DEF Ordered
  <2>1. /\ \A i, j \in first .. last : i < j => tasks[i] < tasks[j]
        /\ \A i \in first .. last, v \in Worker : held[v] # NULL => held[v] < tasks[i]
        /\ \A i \in first .. last, c \in Cluster : matched[c] > 0 => c < tasks[i]
        /\ \A u, v \in Worker : u # v /\ held[u] = held[v] => held[v] = NULL
        /\ \A v \in Worker, c \in Cluster : matched[c] > 0 => held[v] # c
        /\ \A c \in Cluster : matched[c] <= 1
    BY DEF SInv, Ordered
  <2>2. /\ \A i \in first' .. last' : task < tasks[i]
        /\ \A v \in Worker : held[v] # NULL => held[v] < task
        /\ \A c \in Cluster : matched[c] > 0 => c < task
    BY <1>4, <1>5, <1>8, <2>1
  <2>3. \A v \in Worker : held[v] # task
    BY <1>5, <2>2, SInvTypes
  <2>4. \A v \in Worker, c \in Cluster : matched[c] > 0 => held'[v] # c
    BY <1>5, <1>7, <2>1, <2>2, SInvTypes
  <2>5. \A u, v \in Worker : u # v /\ held'[u] = held'[v] => held'[v] = NULL
    BY <1>7, <2>1, <2>3
  <2>6. \A i \in first' .. last', v \in Worker : held'[v] # NULL => held'[v] < tasks[i]
    BY <1>7, <1>8, <2>1, <2>2
  <2>7. Pushing => \A v \in Worker : held'[v] # NULL => held'[v] < next_push
    <3>1. Pushing => task < next_push
      BY <1>4, <1>5, SInvTypes DEF SInv, PushOK
    <3> QED
      BY <1>7, <3>1 DEF SInv, Ordered
  <2>8. Pushing => \A c \in Cluster : matched[c] > 0 => c < next_push
    BY DEF SInv, Ordered
  <2> QED
    BY <1>3, <1>8, <2>1, <2>4, <2>5, <2>6, <2>7, <2>8 DEF Ordered, Pushing
<1>12. LostIsGone'
  <2> SUFFICES ASSUME lost PROVE \E t \in Task : Gone(t)'
    BY <1>3 DEF LostIsGone
  <2>1. PICK t \in Task : Gone(t)
    BY DEF SInv, LostIsGone
  <2>2. task # t
    BY <1>4, <1>5, <2>1 DEF Gone
  <2>3. Gone(t)'
    BY <1>3, <1>7, <1>8, <2>1, <2>2 DEF Gone
  <2> QED
    BY <2>3
<1>13. BetweenOK' /\ StartingOK'
  BY <1>3, <1>4, <1>9
  DEF SInv, BetweenOK, BetweenSteps, StartingOK, StepStarting
<1>14. RunningOK'
  BY <1>3, <1>7, <1>9 DEF SInv, RunningOK, StepRunning
<1>15. ReadingOK'
  BY <1>3, <1>7 DEF SInv, ReadingOK
<1>16. PushOK'
  <2>1. CASE PopLast
    BY <1>3, <2>1, EmptiedPushOK DEF PopLast
  <2>2. CASE PopEarlier
    BY <1>3, <2>2 DEF SInv, PushOK, Pushing, PopEarlier
  <2> QED
    BY <1>4, <2>1, <2>2
<1> QED
  BY <1>1, <1>10, <1>11, <1>12, <1>13, <1>14, <1>15, <1>16 DEF SInv

\* A cluster is matched, which its event tells.
LEMMA MatchShapeSafe ==
  ASSUME SInv, NEW w \in Worker, MatchShape(w)
  PROVE  SInv'
<1> USE DEF WorkerGoes, TaskReturns
<1>1. IInv'
  BY WorkElsewhereInv DEF SInv
<1>2. /\ wpc[w] = "match" /\ ~ Idle(w)
      /\ wpc'[w] = "wait" /\ held'[w] = NULL
      /\ \A v \in Worker : v # w => wpc'[v] = wpc[v] /\ held'[v] = held[v]
      /\ UNCHANGED <<queueVars, mpc, next_push, step_completed, success, integrated, lost>>
  BY SInvTypes DEF MatchShape, Idle
<1>3. held[w] \in Cluster /\ held[w] # NULL
  BY <1>2, SInvTypes DEF SInv, IInv, ThreadsTypeOK
<1>4. /\ matched' = [matched EXCEPT ![held[w]] = @ + 1]
      /\ cluster_tasks_completed' = cluster_tasks_completed \cup {held[w]}
  BY DEF MatchShape
<1>5. /\ matched'[held[w]] = matched[held[w]] + 1
      /\ \A c \in Cluster : c # held[w] => matched'[c] = matched[c]
      /\ \A c \in Cluster : matched'[c] > 0 <=> matched[c] > 0 \/ c = held[w]
  BY <1>3, <1>4, SInvTypes
<1>6. WorkersOK'
  BY <1>2 DEF SInv, WorkersOK
<1>7. Ordered'
  <2> SUFFICES ASSUME ~ lost PROVE Ordered'
    BY <1>2 DEF Ordered
  <2>1. /\ \A i, j \in first .. last : i < j => tasks[i] < tasks[j]
        /\ \A i \in first .. last, v \in Worker : held[v] # NULL => held[v] < tasks[i]
        /\ \A i \in first .. last, c \in Cluster : matched[c] > 0 => c < tasks[i]
        /\ \A u, v \in Worker : u # v /\ held[u] = held[v] => held[v] = NULL
        /\ \A v \in Worker, c \in Cluster : matched[c] > 0 => held[v] # c
        /\ \A c \in Cluster : matched[c] <= 1
        /\ Pushing =>
             /\ \A v \in Worker : held[v] # NULL => held[v] < next_push
             /\ \A c \in Cluster : matched[c] > 0 => c < next_push
    BY DEF SInv, Ordered
  <2>2. \A c \in Cluster : matched'[c] <= 1
    <3>1. matched \in [Cluster -> Nat]
      BY SInvTypes DEF SInv, IInv, ThreadsTypeOK
    <3>2. matched[held[w]] \in Nat /\ ~ (matched[held[w]] > 0)
      BY <1>3, <2>1, <3>1
    <3>3. matched'[held[w]] = 1
      BY <1>5, <3>2
    <3> QED BY <1>5, <2>1, <3>3
  <2>3. \A v \in Worker, c \in Cluster : matched'[c] > 0 => held'[v] # c
    BY <1>2, <1>3, <1>5, <2>1, SInvTypes
  <2>4. /\ \A i \in first .. last, v \in Worker : held'[v] # NULL => held'[v] < tasks[i]
        /\ \A i \in first .. last, c \in Cluster : matched'[c] > 0 => c < tasks[i]
        /\ \A u, v \in Worker : u # v /\ held'[u] = held'[v] => held'[v] = NULL
        /\ Pushing =>
             /\ \A v \in Worker : held'[v] # NULL => held'[v] < next_push
             /\ \A c \in Cluster : matched'[c] > 0 => c < next_push
    <3>1. /\ \A i \in first .. last, v \in Worker : held'[v] # NULL => held'[v] < tasks[i]
          /\ \A u, v \in Worker : u # v /\ held'[u] = held'[v] => held'[v] = NULL
          /\ Pushing => \A v \in Worker : held'[v] # NULL => held'[v] < next_push
      BY <1>2, <2>1
    <3>2. \A i \in first .. last : held[w] < tasks[i]
      BY <1>3, <2>1
    <3>3. \A i \in first .. last, c \in Cluster : matched'[c] > 0 => c < tasks[i]
      BY <1>5, <2>1, <3>2
    <3>4. Pushing => \A c \in Cluster : matched'[c] > 0 => c < next_push
      BY <1>3, <1>5, <2>1
    <3> QED BY <3>1, <3>3, <3>4
  <2> QED
    BY <1>2, <2>1, <2>2, <2>3, <2>4 DEF Ordered, Pushing, queueVars
<1>8. LostIsGone'
  <2> SUFFICES ASSUME lost PROVE \E t \in Task : Gone(t)'
    BY <1>2 DEF LostIsGone
  <2>1. PICK t \in Task : Gone(t)
    BY DEF SInv, LostIsGone
  <2>2. t # NULL /\ held[w] # t
    BY <2>1, SInvTypes DEF Gone
  <2>3. Gone(t)'
    BY <1>2, <1>5, <2>1, <2>2 DEF Gone, queueVars
  <2> QED
    BY <2>3
<1>9. BetweenOK' /\ StartingOK'
  BY <1>2, BusyWorkerSafe
<1>10. RunningOK'
  <2> SUFFICES ASSUME StepRunning, success PROVE RunningOK'
    BY <1>2 DEF RunningOK, StepRunning
  <2>1. cluster_tasks_completed = {c \in Cluster : matched[c] > 0}
    BY DEF SInv, RunningOK
  <2>2. cluster_tasks_completed' = {c \in Cluster : matched'[c] > 0}
    BY <1>3, <1>4, <1>5, <2>1
  <2>3. ~ step_completed' /\ \A v \in Worker : wpc'[v] # "integrate"
    BY <1>2, BusyWorker
  <2> QED
    BY <2>2, <2>3 DEF RunningOK
<1>11. ReadingOK' /\ PushOK'
  BY <1>2, <1>5 DEF SInv, ReadingOK, PushOK, Pushing, queueVars
<1> QED
  BY <1>1, <1>6, <1>7, <1>8, <1>9, <1>10, <1>11 DEF SInv

\* A task starts or fails: whoever starts to match a cluster is its first.
LEMMA TaskStartsOrFailsSafe ==
  ASSUME SInv, NEW w \in Worker, StartMatch(w) \/ TaskFails(w)
  PROVE  SInv'
<1> USE DEF WorkerGoes
<1>1. IInv'
  BY WorkElsewhereInv DEF SInv
<1>2. /\ ~ Idle(w) /\ wpc[w] \in {"execute", "match", "integrate"}
      /\ wpc'[w] \in {"match", "abort"}
      /\ wpc'[w] = "match" => held[w] \in Cluster
      /\ \A v \in Worker : v # w => wpc'[v] = wpc[v]
      /\ UNCHANGED <<queueVars, mpc, next_push, held, syncVars, historyVars>>
  BY SInvTypes DEF StartMatch, TaskFails, Idle
<1>3. WorkersOK' /\ Ordered' /\ LostIsGone'
  BY <1>2 DEF SInv, queueVars, syncVars, historyVars, WorkersOK, Ordered, Pushing,
              LostIsGone, Gone
<1>4. BetweenOK' /\ StartingOK'
  BY <1>2, BusyWorkerSafe
<1>5. RunningOK'
  <2> SUFFICES ASSUME StepRunning, success PROVE RunningOK'
    BY <1>2 DEF RunningOK, StepRunning, syncVars
  <2>1. ~ step_completed' /\ \A v \in Worker : wpc'[v] # "integrate"
    BY <1>2, BusyWorker DEF syncVars
  <2> QED
    BY <1>2, <2>1 DEF SInv, RunningOK, syncVars, historyVars
<1>6. ReadingOK'
  <2>1. ASSUME mpc \in {"read", "frame"}, ~ lost PROVE wpc'[w] # "match"
    <3>1. \A c \in Cluster : held[w] # c
      BY <2>1 DEF SInv, ReadingOK, Ordered
    <3> QED
      BY <1>2, <3>1
  <2> QED
    BY <1>2, <2>1 DEF SInv, ReadingOK, syncVars, historyVars
<1>7. PushOK'
  BY <1>2 DEF SInv, PushOK, Pushing, queueVars
<1> QED
  BY <1>1, <1>3, <1>4, <1>5, <1>6, <1>7 DEF SInv

\* The final task starts when nothing else of the step is left to do.
LEMMA StartIntegrationSafe ==
  ASSUME SInv, NEW w \in Worker, StartIntegration(w)
  PROVE  SInv'
<1> USE DEF WorkerGoes
<1>1. IInv'
  BY WorkElsewhereInv DEF SInv
<1>2. /\ ~ Idle(w) /\ wpc[w] = "execute" /\ wpc'[w] = "integrate"
      /\ held[w] = final_task /\ cluster_tasks_completed = Cluster /\ success
      /\ \A v \in Worker : v # w => wpc'[v] = wpc[v]
      /\ UNCHANGED <<queueVars, mpc, next_push, held, syncVars, historyVars>>
  BY SInvTypes DEF StartIntegration, Idle
<1>3. StepRunning /\ ~ step_completed /\ \A v \in Worker : v # w => wpc[v] # "integrate"
  BY <1>2, BusyWorker
<1>4. \A c \in Cluster : matched[c] > 0
  BY <1>2, <1>3 DEF SInv, RunningOK
<1>5. ~ lost
  <2> SUFFICES ASSUME lost PROVE FALSE
    OBVIOUS
  <2>1. PICK t \in Task : Gone(t)
    BY DEF SInv, LostIsGone
  <2>2. t \in Cluster => FALSE
    BY <1>4, <2>1, SInvTypes DEF Gone
  <2>3. t # final_task
    BY <1>2, <2>1 DEF Gone
  <2> QED
    BY <2>2, <2>3, SInvTypes
<1>6. /\ \A i \in first .. last, v \in Worker : held[v] # NULL => held[v] < tasks[i]
      /\ \A u, v \in Worker : u # v /\ held[u] = held[v] => held[v] = NULL
      /\ \A v \in Worker, c \in Cluster : matched[c] > 0 => held[v] # c
      /\ \A c \in Cluster : matched[c] <= 1
      /\ Pushing => \A v \in Worker : held[v] # NULL => held[v] < next_push
  BY <1>5 DEF SInv, Ordered
<1>7. final_task # NULL
  BY SInvTypes
<1>8. Consumed
  <2>1. is_empty
    <3> SUFFICES ASSUME first <= last PROVE FALSE
      BY SInvTypes
    <3>1. first \in first .. last
      BY SInvTypes
    <3>2. final_task < tasks[first]
      BY <1>2, <1>6, <1>7, <3>1
    <3> QED
      BY <3>1, <3>2, SInvTypes
  <2>2. \A c \in Cluster : matched[c] = 1
    BY <1>4, <1>6, SInvTypes
  <2> QED
    BY <1>5, <2>1, <2>2 DEF Consumed
<1>9. ASSUME NEW v \in Worker, v # w PROVE Idle(v)
  <2>1. held[v] \notin Cluster
    BY <1>4, <1>6
  <2>2. held[v] # final_task
    BY <1>2, <1>6, <1>7, <1>9
  <2>3. held[v] = NULL
    BY <2>1, <2>2, SInvTypes
  <2> QED
    BY <1>2, <2>3 DEF SInv, WorkersOK, Idle
<1>10. ~ Pushing
  BY <1>2, <1>6, <1>7, SInvTypes DEF SInv, IInv, PushProgress, Pushing
<1>11. WorkersOK' /\ Ordered' /\ LostIsGone'
  BY <1>2 DEF SInv, queueVars, syncVars, historyVars, WorkersOK, Ordered, Pushing,
              LostIsGone, Gone
<1>12. BetweenOK' /\ StartingOK'
  BY <1>2, BusyWorkerSafe
<1>13. RunningOK'
  <2>1. Consumed' /\ ~ Pushing' /\ ~ step_completed'
    BY <1>2, <1>3, <1>8, <1>10
    DEF Consumed, Pushing, is_empty, queueVars, syncVars, historyVars
  <2>2. \A v \in Worker : v # w => Idle(v)' /\ wpc'[v] # "integrate"
    BY <1>2, <1>3, <1>9 DEF Idle
  <2> QED
    BY <1>2, <1>3, <2>1, <2>2 DEF SInv, RunningOK, syncVars, historyVars
<1>14. ReadingOK' /\ PushOK'
  BY <1>2 DEF SInv, ReadingOK, PushOK, Pushing, queueVars, syncVars, historyVars
<1> QED
  BY <1>1, <1>11, <1>12, <1>13, <1>14 DEF SInv

\* The integration ends the step, and leaves nobody at work.
LEMMA IntegrateSafe ==
  ASSUME SInv, NEW w \in Worker, Integrate(w)
  PROVE  SInv'
<1> USE DEF WorkerGoes, TaskReturns
<1>1. IInv'
  BY WorkElsewhereInv DEF SInv
<1>2. wpc[w] = "integrate" /\ ~ Idle(w)
  BY DEF Integrate, Idle
<1>3. held[w] = final_task /\ success
  BY <1>2 DEF SInv, WorkersOK
<1>4. /\ wpc'[w] = "wait" /\ held'[w] = NULL
      /\ \A v \in Worker : v # w => wpc'[v] = wpc[v] /\ held'[v] = held[v]
      /\ step_completed' /\ integrated'
      /\ UNCHANGED <<queueVars, mpc, next_push, cluster_tasks_completed, success,
                     matched, lost>>
  BY <1>3, SInvTypes DEF Integrate
<1>5. StepRunning /\ Consumed /\ ~ Pushing /\ \A v \in Worker : v # w => Idle(v)
  BY <1>2, <1>3, BusyWorker DEF SInv, RunningOK
<1>6. WorkersOK'
  BY <1>4 DEF SInv, WorkersOK
<1>7. Ordered'
  <2>1. \A v \in Worker : held'[v] = NULL \/ held'[v] = held[v]
    BY <1>4
  <2>2. \A c \in Cluster : c # NULL
    BY SInvTypes
  <2> QED
    BY <1>4, <1>5, <2>1, <2>2 DEF SInv, Ordered, Pushing, queueVars
<1>8. LostIsGone'
  BY <1>4, <1>5 DEF Consumed, LostIsGone
<1>9. BetweenOK' /\ StartingOK'
  BY <1>2, <1>4, BusyWorkerSafe
<1>10. RunningOK'
  <2>1. Consumed' /\ ~ Pushing'
    BY <1>4, <1>5 DEF Consumed, Pushing, is_empty, queueVars
  <2>2. \A v \in Worker : Idle(v)'
    BY <1>4, <1>5 DEF Idle
  <2>3. Finished'
    BY <1>4, <2>1, <2>2 DEF Finished
  <2>4. \A v \in Worker : wpc'[v] # "integrate"
    BY <2>2 DEF Idle
  <2>5. cluster_tasks_completed = {c \in Cluster : matched[c] > 0}
    BY <1>3, <1>5 DEF SInv, RunningOK
  <2> QED
    BY <1>4, <2>1, <2>3, <2>4, <2>5 DEF RunningOK
<1>11. ReadingOK' /\ PushOK'
  BY <1>4 DEF SInv, ReadingOK, PushOK, Pushing, queueVars
<1> QED
  BY <1>1, <1>6, <1>7, <1>8, <1>9, <1>10, <1>11 DEF SInv

\* What workers do once the step has failed, outside the queue.
LEMMA AfterFailureSafe ==
  ASSUME SInv, NEW w \in Worker,
         \/ SkipCluster(w) \/ SkipIntegration(w)
         \/ AbortFlag(w) \/ AbortClusters(w) \/ AbortStep(w)
  PROVE  SInv'
<1> USE DEF WorkerGoes, TaskReturns, syncVars, historyVars
<1>1. IInv'
  BY WorkElsewhereInv DEF SInv
<1>2. /\ ~ Idle(w) /\ ~ success'
      /\ UNCHANGED <<queueVars, mpc, next_push, historyVars>>
      /\ \A v \in Worker : v # w => wpc'[v] = wpc[v] /\ held'[v] = held[v]
      /\ \/ wpc'[w] \in {"wait", "ended"} /\ held'[w] = NULL
         \/ wpc'[w] \in {"abort_queue", "abort_step"} /\ held'[w] = held[w]
            /\ wpc[w] \in {"abort", "abort_clusters"}
  BY SInvTypes
  DEF SkipCluster, SkipIntegration, AbortFlag, AbortClusters, AbortStep, Idle,
      SInv, WorkersOK
<1>3. \A v \in Worker : v # w => wpc[v] # "integrate"
  BY <1>2, BusyWorker DEF SInv, WorkersOK
<1>4. WorkersOK'
  BY <1>2, <1>3 DEF SInv, WorkersOK
<1>5. \A v \in Worker : held'[v] = NULL \/ held'[v] = held[v]
  BY <1>2
<1>6. Ordered'
  <2>1. \A c \in Cluster : c # NULL
    BY SInvTypes
  <2> QED
    BY <1>2, <1>5, <2>1 DEF SInv, Ordered, Pushing, queueVars
<1>7. LostIsGone'
  <2>1. \A t \in Task : t # NULL
    BY SInvTypes
  <2> QED
    BY <1>2, <1>5, <2>1 DEF SInv, LostIsGone, Gone, queueVars
<1>8. BetweenOK' /\ StartingOK'
  BY <1>2, BusyWorkerSafe
<1>9. RunningOK' /\ ReadingOK' /\ PushOK'
  BY <1>2 DEF SInv, RunningOK, ReadingOK, PushOK, Pushing, queueVars
<1> QED
  BY <1>1, <1>4, <1>6, <1>7, <1>8, <1>9 DEF SInv

\* An abort empties the queue, perhaps under a push.
LEMMA AbortQueueSafe ==
  ASSUME SInv, NEW w \in Worker, AbortQueue(w)
  PROVE  SInv'
<1> USE DEF WorkerGoes, syncVars, historyVars
<1>1. IInv'
  BY WorkOnQueueInv DEF SInv
<1>2. /\ ~ Idle(w) /\ ~ success /\ ~ success'
      /\ clear_unsafe /\ first' .. last' = {}
      /\ UNCHANGED <<tasks, mpc, next_push, held, historyVars>>
      /\ wpc[w] = "abort_queue" /\ wpc'[w] = "abort_clusters"
      /\ \A v \in Worker : v # w => wpc'[v] = wpc[v]
  BY SInvTypes DEF AbortQueue, Clear, clear_unsafe, Idle, SInv, WorkersOK
<1>3. WorkersOK'
  BY <1>2 DEF SInv, WorkersOK
<1>4. Ordered' /\ LostIsGone'
  BY <1>2 DEF SInv, Ordered, Pushing, LostIsGone, Gone
<1>5. BetweenOK' /\ StartingOK'
  BY <1>2, BusyWorkerSafe
<1>6. RunningOK' /\ ReadingOK'
  BY <1>2 DEF SInv, RunningOK, ReadingOK
<1>7. PushOK'
  BY <1>2, EmptiedPushOK
<1> QED
  BY <1>1, <1>3, <1>4, <1>5, <1>6, <1>7 DEF SInv

-----------------------------------------------------------------------------
(* The properties. *)

\* Every step preserves the invariant.
LEMMA SInvNext == SInv /\ [Next]_vars => SInv'
<1> SUFFICES ASSUME SInv, [Next]_vars PROVE SInv'
  OBVIOUS
<1>1. CASE Main
  BY <1>1, MainMovesSafe, MainPreparesSafe, PushTaskSafe, PublishTaskSafe DEF Main
<1>2. ASSUME NEW w \in Worker, Work(w) PROVE SInv'
  BY <1>2, IdleWorkerSafe, TaskPoppedSafe, MatchShapeSafe, TaskStartsOrFailsSafe,
     StartIntegrationSafe, IntegrateSafe, AfterFailureSafe, AbortQueueSafe
  DEF Work
<1>3. CASE UNCHANGED vars
  <2>1. IInv'
    BY <1>3, IInvNext DEF SInv
  <2> QED
    BY <1>3, <2>1
    DEF vars, queueVars, syncVars, historyVars, SInv, WorkersOK, Ordered, Pushing,
        LostIsGone, Gone, BetweenOK, BetweenSteps, StartingOK, StepStarting,
        RunningOK, StepRunning, ReadingOK, PushOK, Finished, Consumed, Idle, is_empty
<1> QED
  BY <1>1, <1>2, <1>3 DEF Next

\* The invariant holds in every reachable state.
LEMMA SInvCorrect == Spec => []SInv
  BY SInvInit, SInvNext, PTL DEF Spec

\* A worker integrates only when every cluster was matched, once, and nothing
\* failed (model.cpp:77-84, 593-610, 660-666).
THEOREM BarrierCorrect == Spec => []Barrier
<1>1. SInv => Barrier
  <2> SUFFICES ASSUME SInv, NEW w \in Worker, wpc[w] = "integrate"
               PROVE  success /\ \A c \in Cluster : matched[c] = 1
    BY DEF Barrier
  <2>1. success /\ ~ Idle(w)
    BY DEF SInv, WorkersOK, Idle
  <2> QED
    BY <2>1, BusyWorker DEF SInv, RunningOK, Consumed
<1> QED
  BY <1>1, SInvCorrect, PTL

\* A step that the main thread takes for successful was computed
\* (model.h:304-310, Application.cpp:564-588).
THEOREM SuccessIsHonestCorrect == Spec => []SuccessIsHonest
<1>1. SInv => SuccessIsHonest
  BY ModeAssumption DEF SInv, SuccessIsHonest, ReadingOK, BetweenOK, BetweenSteps, Finished
<1> QED
  BY <1>1, SInvCorrect, PTL

\* A step starts, and a hit is applied, only on an integrated state
\* (Application.cpp:530-552, model.cpp:567-591).
THEOREM StartsFromIntegratedCorrect == Spec => []StartsFromIntegrated
<1>1. SInv => StartsFromIntegrated
  BY DEF SInv, StartsFromIntegrated, BetweenOK, BetweenSteps, Finished
<1> QED
  BY <1>1, SInvCorrect, PTL

\* No task is handed out twice in a step (task_queue.cpp:37-56,
\* model.cpp:593-610).
THEOREM HandedOutOnceCorrect == Spec => []HandedOutOnce
<1>1. SInv => HandedOutOnce
  BY DEF SInv, Ordered, HandedOutOnce
<1> QED
  BY <1>1, SInvCorrect, PTL

\* Whoever holds the final task does not wait for a cluster that is still
\* queued (model.cpp:598-610, 660-662).
THEOREM FinalTaskComesLastCorrect == Spec => []FinalTaskComesLast
<1>1. SInv => FinalTaskComesLast
  <2> SUFFICES ASSUME SInv, ~ lost, NEW w \in Worker, held[w] = final_task
               PROVE  \A i \in DOMAIN Window : Window[i] \notin Cluster
    BY DEF FinalTaskComesLast
  <2>1. first .. last = {}
    <3> SUFFICES ASSUME NEW i \in first .. last PROVE FALSE
      OBVIOUS
    <3>1. held[w] < tasks[i]
      BY SInvTypes DEF SInv, Ordered
    <3> QED
      BY <3>1, SInvTypes
  <2>2. 1 .. last - first + 1 = {}
    <3>1. ~ first <= last
      BY <2>1, SInvTypes
    <3> QED
      BY <3>1, SInvTypes
  <2> QED
    BY <2>2 DEF Window
<1> QED
  BY <1>1, SInvCorrect, PTL

\* No worker writes what the main thread changes or reads
\* (Application.cpp:539-552, 574-588).
THEOREM ResultsStableCorrect == Spec => []ResultsStable
<1>1. SInv => ResultsStable
  <2> SUFFICES ASSUME SInv, ~ lost, NEW w \in Worker
               PROVE  /\ mpc \in {"hit", "read"} => wpc[w] # "match"
                      /\ mpc = "hit" \/ (mpc = "read" /\ ~ UpdateOnGpu) => wpc[w] # "integrate"
    BY DEF ResultsStable
  <2>1. mpc = "hit" \/ (mpc = "read" /\ ~ UpdateOnGpu) => Idle(w)
    BY DEF SInv, BetweenOK, BetweenSteps, Finished
  <2>2. mpc = "read" => wpc[w] # "match"
    BY DEF SInv, ReadingOK
  <2> QED
    BY <2>1, <2>2 DEF Idle
<1> QED
  BY <1>1, SInvCorrect, PTL

-----------------------------------------------------------------------------
(* The threads implement the abstract step. *)

\* What the main thread does is, for the abstract step, its start or nothing.
LEMMA MainImplements == SInv /\ Main => [Barriered!Next]_Barriered!vars
<1> SUFFICES ASSUME SInv, Main PROVE [Barriered!Next]_Barriered!vars
  OBVIOUS
<1> USE DEF MainGoes, syncVars, historyVars
<1>1. CASE UnsetStep
  <2>1. success /\ step_completed
    BY <1>1 DEF UnsetStep, SInv, BetweenOK, BetweenSteps
  <2>2. {c \in Cluster : matched'[c] = 0} = Cluster
    BY <1>1 DEF UnsetStep
  <2>3. Barriered!Start
    BY <1>1, <2>1, <2>2 DEF UnsetStep, Barriered!Start
  <2> QED
    BY <2>3 DEF Barriered!Next
<1>2. CASE StoreParameters
  <2>1. success
    BY <1>2 DEF StoreParameters, SInv, StartingOK, StepStarting
  <2> QED
    BY <1>2, <2>1 DEF StoreParameters, Barriered!vars, SInv, IInv, ThreadsTypeOK
<1>3. CASE UNCHANGED <<step_completed, matched, success>>
  BY <1>3 DEF Barriered!vars
<1>4. Main => UnsetStep \/ StoreParameters \/ UNCHANGED <<step_completed, matched, success>>
  BY DEF Main, FrameStart, Hit, AwaitPreviousStep, UnsetClusters, ClearQueue, PushTask,
         PublishTask, React, AwaitStep, ReadResults
<1> QED
  BY <1>1, <1>2, <1>3, <1>4

\* What a worker does is one of the other steps, or nothing.
LEMMA WorkImplements ==
  ASSUME SInv, NEW w \in Worker, Work(w)
  PROVE  [Barriered!Next]_Barriered!vars
<1> USE DEF WorkerGoes, TaskReturns, syncVars, historyVars
<1>1. CASE MatchShape(w)
  <2>1. wpc[w] = "match" /\ held[w] \in Cluster
    BY <1>1 DEF MatchShape, SInv, IInv, ThreadsTypeOK
  <2>2. ~ step_completed \/ ~ success
    BY <2>1, BusyWorker DEF Idle
  <2>3. \A c \in Cluster : matched'[c] = 0 <=> matched[c] = 0 /\ c # held[w]
    BY <1>1, <2>1, SInvTypes DEF MatchShape
  <2>4. {c \in Cluster : matched'[c] = 0} = {c \in Cluster : matched[c] = 0} \ {held[w]}
    BY <2>3
  <2>5. CASE matched[held[w]] = 0
    <3>1. PICK c \in {c \in Cluster : matched[c] = 0} : c = held[w]
      BY <2>1, <2>5
    <3>2. Barriered!Match(c)
      BY <1>1, <2>2, <2>4, <3>1 DEF MatchShape, Barriered!Match
    <3> QED
      BY <3>1, <3>2 DEF Barriered!Next
  <2>6. CASE matched[held[w]] # 0
    <3>1. {c \in Cluster : matched'[c] = 0} = {c \in Cluster : matched[c] = 0}
      BY <2>4, <2>6
    <3> QED
      BY <1>1, <3>1 DEF MatchShape, Barriered!vars
  <2> QED
    BY <2>5, <2>6
<1>2. CASE Integrate(w)
  <2>1. wpc[w] = "integrate" /\ success
    BY <1>2 DEF Integrate, SInv, WorkersOK
  <2>2. ~ step_completed /\ Consumed
    BY <2>1, BusyWorker DEF SInv, RunningOK, Idle
  <2>3. {c \in Cluster : matched[c] = 0} = {}
    BY <2>2 DEF Consumed
  <2>4. Barriered!Integrate
    BY <1>2, <2>1, <2>2, <2>3 DEF Integrate, Barriered!Integrate
  <2> QED
    BY <2>4 DEF Barriered!Next
<1>3. CASE AbortFlag(w)
  <2>1. Barriered!Fail
    BY <1>3 DEF AbortFlag, Barriered!Fail
  <2> QED
    BY <2>1 DEF Barriered!Next
<1>4. CASE AbortStep(w)
  <2>1. ~ success
    BY <1>4 DEF AbortStep, SInv, WorkersOK
  <2>2. Barriered!Release
    BY <1>4, <2>1 DEF AbortStep, Barriered!Release
  <2> QED
    BY <2>2 DEF Barriered!Next
<1>5. CASE UNCHANGED <<step_completed, matched, success>>
  BY <1>5 DEF Barriered!vars
<1>6. \/ MatchShape(w) \/ Integrate(w) \/ AbortFlag(w) \/ AbortStep(w)
      \/ UNCHANGED <<step_completed, matched, success>>
  BY DEF Work, WaitForTasks, PopTask, SkipCluster, StartMatch, SkipIntegration,
         StartIntegration, TaskFails, AbortQueue, AbortClusters
<1> QED
  BY <1>1, <1>2, <1>3, <1>4, <1>5, <1>6

\* Whatever the interleaving of the threads, what they do together is what
\* StepBarrier allows: one step at a time, all of its clusters before its
\* integration, and no step after a failure (model.h:271-313).
THEOREM ImplementsBarrierCorrect == Spec => ImplementsBarrier
<1>1. Init => Barriered!Init
  <2> SUFFICES ASSUME Init PROVE Barriered!Init
    OBVIOUS
  <2>1. {c \in Cluster : matched[c] = 0} = {}
    BY DEF Init
  <2> QED
    BY <2>1 DEF Init, Barriered!Init
<1>2. SInv /\ [Next]_vars => [Barriered!Next]_Barriered!vars
  <2> SUFFICES ASSUME SInv, [Next]_vars PROVE [Barriered!Next]_Barriered!vars
    OBVIOUS
  <2>1. CASE UNCHANGED vars
    BY <2>1 DEF vars, syncVars, historyVars, Barriered!vars
  <2> QED
    BY <2>1, MainImplements, WorkImplements DEF Next
<1> QED
  BY <1>1, <1>2, SInvCorrect, PTL DEF Spec, ImplementsBarrier, Barriered!Spec

==============================================================================
