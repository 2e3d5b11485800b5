------------------------------- MODULE ModelStep -------------------------------
(***************************************************************************)
(* One simulation step of Core/model.cpp, computed by worker threads: the  *)
(* main thread of Renderer/Application.cpp prepares the cluster tasks and  *)
(* the final task and waits for them; the workers of                       *)
(* Renderer/worker_thread.cpp pop them from the task queue and run them; a *)
(* worker whose task fails aborts the computation and ends.                *)
(*                                                                         *)
(* The numbers stay out of the model: what a cluster task computes is the  *)
(* fact that its cluster was matched once more in this step, and what the  *)
(* final task computes is the fact that the step was integrated.           *)
(***************************************************************************)
EXTENDS TaskQueue

CONSTANTS
  ClustersNum,   \* clusters.size()
  Worker,        \* the worker threads
  UpdateOnGpu,   \* global_settings.update_vertices_on_gpu: the main thread
                 \* waits for the clusters only, and for the step a frame later
  MayFail        \* can a task report an error, which throws in its worker?

Cluster == 0 .. ClustersNum - 1
final_task == ClustersNum

ASSUME ClustersAssumption == ClustersNum \in Nat \ {0}
ASSUME TasksAssumption == Task = 0 .. ClustersNum /\ Size > ClustersNum
ASSUME ModeAssumption == UpdateOnGpu \in BOOLEAN /\ MayFail \in BOOLEAN

VARIABLES
  mpc,                       \* where the main thread is
  next_push,                 \* the next task it will push
  wpc,                       \* where each worker is
  held,                      \* the task each worker has popped, or NULL
  cluster_tasks_completed,   \* the clusters whose event is set
  step_completed,            \* is the event of the step set?
  success,                   \* Model::success
  matched,                   \* history: how often each cluster was matched in this step
  integrated,                \* history: was this step integrated to its end?
  lost                       \* history: did an overtaken push lose its task?

syncVars == <<cluster_tasks_completed, step_completed, success>>
historyVars == <<matched, integrated, lost>>
vars == <<queueVars, mpc, next_push, wpc, held, syncVars, historyVars>>

MainPc == {"frame", "hit", "begin", "unset_clusters", "unset_step", "store",
           "clear", "push", "publish", "react", "wait", "read", "stopped"}
WorkerPc == {"wait", "pop", "execute", "match", "integrate", "abort",
             "abort_queue", "abort_clusters", "abort_step", "ended"}

TypeOK ==
  /\ QueueTypeOK
  /\ mpc \in MainPc
  /\ next_push \in Task \cup {ClustersNum + 1}
  /\ wpc \in [Worker -> WorkerPc]
  /\ held \in [Worker -> Task \cup {NULL}]
  /\ cluster_tasks_completed \subseteq Cluster
  /\ step_completed \in BOOLEAN
  /\ success \in BOOLEAN
  /\ matched \in [Cluster -> Nat]
  /\ integrated \in BOOLEAN
  /\ lost \in BOOLEAN

\* After the constructor: all events are set, and no step is under way.
Init ==
  /\ QueueInit
  /\ mpc = "frame"
  /\ next_push = 0
  /\ wpc = [w \in Worker |-> "wait"]
  /\ held = [w \in Worker |-> NULL]
  /\ cluster_tasks_completed = Cluster
  /\ step_completed = TRUE
  /\ success = TRUE
  /\ matched = [c \in Cluster |-> 1]
  /\ integrated = TRUE
  /\ lost = FALSE

-----------------------------------------------------------------------------
(* The main thread: Application::simulate for one model.  A wait and the   *)
(* reading of `success' that follows it are one action: nobody but the     *)
(* main thread unsets an event.                                            *)

MainGoes(from, to) == mpc = from /\ mpc' = to

\* With UpdateOnGpu, the previous step is still being computed.
\* Variant that does not look at the previous step's result.
FrameStartBlindly ==
  /\ UpdateOnGpu => step_completed
  /\ MainGoes("frame", "hit")
  /\ UNCHANGED <<queueVars, next_push, wpc, held, syncVars, historyVars>>

FrameStart ==
  /\ UpdateOnGpu => step_completed
  /\ MainGoes("frame", IF UpdateOnGpu /\ ~ success THEN "stopped" ELSE "hit")
  /\ UNCHANGED <<queueVars, next_push, wpc, held, syncVars, historyVars>>

\* hit() changes velocities of vertices; while mpc = "hit", it is running.
Hit ==
  /\ MainGoes("hit", "begin")
  /\ UNCHANGED <<queueVars, next_push, wpc, held, syncVars, historyVars>>

\* compute_next_step_async() waits for the previous step ...
AwaitPreviousStep ==
  /\ step_completed
  /\ MainGoes("begin", "unset_clusters")
  /\ UNCHANGED <<queueVars, next_push, wpc, held, syncVars, historyVars>>

\* ... unsets the events ...
\* Variant that leaves the clusters' events set.
UnsetClustersForgotten ==
  /\ MainGoes("unset_clusters", "unset_step")
  /\ UNCHANGED <<queueVars, next_push, wpc, held, syncVars, historyVars>>

UnsetClusters ==
  /\ MainGoes("unset_clusters", "unset_step")
  /\ cluster_tasks_completed' = {}
  /\ UNCHANGED <<queueVars, next_push, wpc, held, step_completed, success, historyVars>>

\* Variant that leaves the event of the step set.
UnsetStepForgotten ==
  /\ MainGoes("unset_step", "store")
  /\ matched' = [c \in Cluster |-> 0]
  /\ integrated' = FALSE
  /\ UNCHANGED <<queueVars, next_push, wpc, held, syncVars, lost>>

UnsetStep ==
  /\ MainGoes("unset_step", "store")
  /\ step_completed' = FALSE
  /\ matched' = [c \in Cluster |-> 0]
  /\ integrated' = FALSE
  /\ UNCHANGED <<queueVars, next_push, wpc, held, cluster_tasks_completed, success, lost>>

\* ... stores the parameters of the step ...
StoreParameters ==
  /\ MainGoes("store", "clear")
  /\ success' = TRUE
  /\ UNCHANGED <<queueVars, next_push, wpc, held, cluster_tasks_completed,
                 step_completed, historyVars>>

\* ... and pushes the cluster tasks and, last, the final task.
ClearQueue ==
  /\ MainGoes("clear", "push")
  /\ Clear
  /\ next_push' = 0
  /\ UNCHANGED <<wpc, held, syncVars, historyVars>>

\* Variant that pushes the final task first.
PushTaskReversed ==
  /\ MainGoes("push", "publish")
  /\ PushStore(final_task - next_push, next_push = final_task)
  /\ UNCHANGED <<next_push, wpc, held, syncVars, historyVars>>

PushTask ==
  /\ MainGoes("push", "publish")
  /\ PushStore(next_push, next_push = final_task)
  /\ UNCHANGED <<next_push, wpc, held, syncVars, historyVars>>

\* Variant whose loop runs once too often.
PublishTaskOnceMore ==
  /\ MainGoes("publish", IF next_push > final_task THEN "react" ELSE "push")
  /\ PushPublish
  /\ next_push' = next_push + 1
  /\ UNCHANGED <<wpc, held, syncVars, historyVars>>

PublishTask ==
  /\ MainGoes("publish", IF next_push = final_task THEN "react" ELSE "push")
  /\ PushPublish
  /\ next_push' = next_push + 1
  /\ lost' = (lost \/ pushing.overtaken)
  /\ UNCHANGED <<wpc, held, syncVars, matched, integrated>>

\* react_to_events() reads the vertices; while mpc = "react", it is running.
React ==
  /\ MainGoes("react", "wait")
  /\ UNCHANGED <<queueVars, next_push, wpc, held, syncVars, historyVars>>

\* wait_for_clusters() or wait_for_step(); a failure is thrown to run().
\* Variant that ignores the result, as Application.cpp:624 does.
AwaitStepBlindly ==
  /\ IF UpdateOnGpu THEN cluster_tasks_completed = Cluster ELSE step_completed
  /\ MainGoes("wait", "read")
  /\ UNCHANGED <<queueVars, next_push, wpc, held, syncVars, historyVars>>

AwaitStep ==
  /\ IF UpdateOnGpu THEN cluster_tasks_completed = Cluster ELSE step_completed
  /\ MainGoes("wait", IF success THEN "read" ELSE "stopped")
  /\ UNCHANGED <<queueVars, next_push, wpc, held, syncVars, historyVars>>

\* The results are rendered; while mpc = "read", they are being read.
ReadResults ==
  /\ MainGoes("read", "frame")
  /\ UNCHANGED <<queueVars, next_push, wpc, held, syncVars, historyVars>>

Main ==
  \/ FrameStart \/ Hit \/ AwaitPreviousStep \/ UnsetClusters \/ UnsetStep
  \/ StoreParameters \/ ClearQueue \/ PushTask \/ PublishTask \/ React
  \/ AwaitStep \/ ReadResults

-----------------------------------------------------------------------------
(* The worker threads: WorkerThread::work with Model::complete_next_task   *)
(* and the tasks' execute().                                               *)

WorkerGoes(w, from, to) == wpc[w] = from /\ wpc' = [wpc EXCEPT ![w] = to]

\* wait_for_tasks(): a wait that times out starts again and changes nothing.
WaitForTasks(w) ==
  /\ has_tasks_event
  /\ WorkerGoes(w, "wait", "pop")
  /\ UNCHANGED <<queueVars, mpc, next_push, held, syncVars, historyVars>>

\* complete_next_task() pops, after any delay; without a task it returns.
PopTask(w) ==
  /\ \E task \in Task \cup {NULL} :
       /\ Pop(task)
       /\ held' = [held EXCEPT ![w] = task]
       /\ WorkerGoes(w, "pop", IF task = NULL THEN "wait" ELSE "execute")
  /\ UNCHANGED <<mpc, next_push, syncVars, historyVars>>

\* The task is over: the worker drops it and waits for the next.
TaskReturns(w, from) ==
  /\ WorkerGoes(w, from, "wait")
  /\ held' = [held EXCEPT ![w] = NULL]
  /\ UNCHANGED <<queueVars, mpc, next_push>>

\* ClusterTask::execute() does nothing, and sets no event, after an abort.
SkipCluster(w) ==
  /\ held[w] \in Cluster /\ ~ success
  /\ TaskReturns(w, "execute")
  /\ UNCHANGED <<syncVars, historyVars>>

StartMatch(w) ==
  /\ held[w] \in Cluster /\ success
  /\ WorkerGoes(w, "execute", "match")
  /\ UNCHANGED <<queueVars, mpc, next_push, held, syncVars, historyVars>>

\* match_shape() has run, and the event of the cluster is set.
MatchShape(w) ==
  /\ TaskReturns(w, "match")
  /\ matched' = [matched EXCEPT ![held[w]] = @ + 1]
  /\ cluster_tasks_completed' = cluster_tasks_completed \cup {held[w]}
  /\ UNCHANGED <<step_completed, success, integrated, lost>>

\* integrate_particle_system() waits for all clusters; it returns, and sets
\* no event, when the computation was aborted.
SkipIntegration(w) ==
  /\ held[w] = final_task /\ cluster_tasks_completed = Cluster /\ ~ success
  /\ TaskReturns(w, "execute")
  /\ UNCHANGED <<syncVars, historyVars>>

\* Variant that does not wait for the clusters.
StartIntegrationEarly(w) ==
  /\ held[w] = final_task /\ success
  /\ WorkerGoes(w, "execute", "integrate")
  /\ UNCHANGED <<queueVars, mpc, next_push, held, syncVars, historyVars>>

StartIntegration(w) ==
  /\ held[w] = final_task /\ cluster_tasks_completed = Cluster /\ success
  /\ WorkerGoes(w, "execute", "integrate")
  /\ UNCHANGED <<queueVars, mpc, next_push, held, syncVars, historyVars>>

\* The integration ends; an abort in the meantime would have made it skip the
\* rest, and perhaps the event as well.
Integrate(w) ==
  /\ TaskReturns(w, "integrate")
  /\ step_completed' \in IF success THEN {TRUE} ELSE {TRUE, step_completed}
  /\ integrated' = success
  /\ UNCHANGED <<cluster_tasks_completed, success, matched, lost>>

\* An error in the task throws; work() catches it ...
TaskFails(w) ==
  /\ MayFail
  /\ \/ WorkerGoes(w, "match", "abort")
     \/ WorkerGoes(w, "integrate", "abort")
  /\ UNCHANGED <<queueVars, mpc, next_push, held, syncVars, historyVars>>

\* ... and calls abort(), four steps that others can come between, before
\* the thread ends.
\* Variant that releases the main thread before it marks the failure.
AbortReleasesFirst(w) ==
  /\ WorkerGoes(w, "abort", "abort_queue")
  /\ step_completed' = TRUE
  /\ UNCHANGED <<queueVars, mpc, next_push, held, cluster_tasks_completed,
                 success, historyVars>>

AbortFlag(w) ==
  /\ WorkerGoes(w, "abort", "abort_queue")
  /\ success' = FALSE
  /\ UNCHANGED <<queueVars, mpc, next_push, held, cluster_tasks_completed,
                 step_completed, historyVars>>

AbortQueue(w) ==
  /\ WorkerGoes(w, "abort_queue", "abort_clusters")
  /\ Clear
  /\ UNCHANGED <<mpc, next_push, held, syncVars, historyVars>>

\* Variant that leaves the clusters' events alone.
AbortClustersForgotten(w) ==
  /\ WorkerGoes(w, "abort_clusters", "abort_step")
  /\ UNCHANGED <<queueVars, mpc, next_push, held, syncVars, historyVars>>

AbortClusters(w) ==
  /\ WorkerGoes(w, "abort_clusters", "abort_step")
  /\ cluster_tasks_completed' = Cluster
  /\ UNCHANGED <<queueVars, mpc, next_push, held, step_completed, success, historyVars>>

\* Variant that leaves the event of the step alone.
AbortStepForgotten(w) ==
  /\ WorkerGoes(w, "abort_step", "ended")
  /\ held' = [held EXCEPT ![w] = NULL]
  /\ UNCHANGED <<queueVars, mpc, next_push, syncVars, historyVars>>

AbortStep(w) ==
  /\ WorkerGoes(w, "abort_step", "ended")
  /\ step_completed' = TRUE
  /\ held' = [held EXCEPT ![w] = NULL]
  /\ UNCHANGED <<queueVars, mpc, next_push, cluster_tasks_completed, success, historyVars>>

Work(w) ==
  \/ WaitForTasks(w) \/ PopTask(w) \/ SkipCluster(w) \/ StartMatch(w)
  \/ MatchShape(w) \/ SkipIntegration(w) \/ StartIntegration(w) \/ Integrate(w)
  \/ TaskFails(w) \/ AbortFlag(w) \/ AbortQueue(w) \/ AbortClusters(w) \/ AbortStep(w)

Next == Main \/ \E w \in Worker : Work(w)

Spec == Init /\ [][Next]_vars

\* The operating system runs every thread, and the frames go on.
FairSpec == Spec /\ WF_vars(Main) /\ \A w \in Worker : WF_vars(Work(w))

-----------------------------------------------------------------------------
(* Properties. *)

\* The final task integrates the particle system only when every cluster has
\* been matched in this step, exactly once, and nothing has failed
\* (model.cpp:660-666 against 77-84 and 593-610).
Barrier ==
  \A w \in Worker : wpc[w] = "integrate" =>
    success /\ \A c \in Cluster : matched[c] = 1

\* While the main thread applies a hit or reads the results, no worker is
\* writing them: no cluster is being matched, and no integration runs, except
\* the one that rendering on the GPU overlaps (Application.cpp:539-552, 574-588).
ResultsStable ==
  ~ lost => \A w \in Worker :
    /\ mpc \in {"hit", "read"} => wpc[w] # "match"
    /\ mpc = "hit" \/ (mpc = "read" /\ ~ UpdateOnGpu) => wpc[w] # "integrate"

\* A step that wait_for_step() or wait_for_clusters() calls successful was
\* computed: the clusters were all matched, and the integration ran to its
\* end unless only the clusters were waited for (model.h:304-310).
SuccessIsHonest ==
  mpc = "read" =>
    /\ \A c \in Cluster : matched[c] > 0
    /\ UpdateOnGpu \/ integrated

\* The next step starts from an integrated state: neither hit() nor the
\* events' reset ever meets a step that failed or is unfinished.
StartsFromIntegrated ==
  mpc \in {"hit", "begin", "unset_clusters", "unset_step"} => success /\ integrated

\* Every task is handed out at most once in a step, unless a push lost one:
\* no two workers hold the same task, and no cluster is matched twice.
HandedOutOnce ==
  ~ lost =>
    /\ \A v, w \in Worker : v # w /\ held[v] = held[w] => held[w] = NULL
    /\ \A c \in Cluster : matched[c] <= 1

\* Whoever holds the final task can count on its clusters: none of them is
\* still in the queue behind it (with one worker, that would block for good).
FinalTaskComesLast ==
  ~ lost => \A w \in Worker : held[w] = final_task =>
    \A i \in DOMAIN Window : Window[i] \notin Cluster

\* compute_next_step_async() never finds the queue full (model.cpp:458, 605).
PushNeverRefused == mpc = "push" => ~ is_full

Barriered == INSTANCE StepBarrier WITH
  running <- ~ step_completed,
  todo    <- {c \in Cluster : matched[c] = 0},
  failed  <- ~ success

\* The threads implement the promise of a step, whatever the interleaving.
ImplementsBarrier == Barriered!Spec

\* Every wait for a step returns.
EveryWaitReturns == mpc = "wait" ~> mpc # "wait"

\* Every wait for a step returns, unless a push lost a task.
WaitReturnsUnlessLost == mpc = "wait" ~> mpc # "wait" \/ lost

\* A failure reaches the main thread, which stops, and no worker stays
\* blocked in a final task (model.cpp:649-656, model.h:312).
FailureStopsAll ==
  ~ success ~> /\ mpc = "stopped"
               /\ \A w \in Worker : wpc[w] \in {"wait", "pop", "ended"}

==============================================================================
