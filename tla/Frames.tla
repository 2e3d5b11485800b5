-------------------------------- MODULE Frames --------------------------------
(***************************************************************************)
(* The demo application around the models (Renderer/Application.cpp and    *)
(* worker_thread.cpp): it sets up the models, handles messages between     *)
(* frames, simulates, updates and draws in each frame, and shuts down,     *)
(* while every worker thread sweeps the models for tasks.                  *)
(*                                                                         *)
(* A queue is the sequence of the tasks in it.  A push stores its task and *)
(* then publishes it, as two steps; when a worker empties the queue in     *)
(* between, the push is overtaken: what it publishes is slot 0, and its    *)
(* own task is lost (TaskQueue has the array itself, which has room for    *)
(* every batch).  An abort is two steps; ModelStep has all four of its     *)
(* statements.  The tasks of an update are alike, and do not fail          *)
(* (ModelUpdate has their kinds, and says what if).                        *)
(***************************************************************************)
EXTENDS Integers, Sequences

CONSTANTS
  ModelsNum,             \* the physical models, in the order they are added
  ClustersNum,           \* clusters of each model
  UpdateTasksNum,        \* tasks of an update
  Worker,                \* the elements of Application::threads
  Inputs,                \* the messages a user can send
  MessageBoxes,          \* do reactions open message boxes, as those of CylinderDemo do?
  MayFail,               \* can a task of a step report an error?
  UninitializedStopped   \* the values `stopped' may have before start()

ASSUME NumbersAssumption ==
  ModelsNum \in Nat \ {0} /\ ClustersNum \in Nat \ {0} /\ UpdateTasksNum \in Nat \ {0}
ASSUME ChoicesAssumption ==
  MessageBoxes \in BOOLEAN /\ MayFail \in BOOLEAN /\ UninitializedStopped \subseteq BOOLEAN

Model == 1 .. ModelsNum
Cluster == 0 .. ClustersNum - 1

\* The tasks of a model, in the order in which they are pushed.
final_task == ClustersNum
last_update_task == ClustersNum + UpdateTasksNum
none == -1
StepTask == 0 .. final_task
UpdateTask == final_task + 1 .. last_update_task
Task == 0 .. last_update_task

Mode == {"graphical", "current", "initial"}   \* RenderSettings::ShowMode

VARIABLES
  mpc,        \* where the main thread is
  mi,         \* the model that its loop has reached
  settings,   \* global_settings.update_vertices_on_gpu and render_settigns.show_mode
  flags,      \* emulation_enabled, emultate_one_step, impact_happened, vertices_update_needed
  model,      \* of each physical model: its queue, its events and its result
  next_push,  \* the task that the main thread pushes, or none between two batches
  zero,       \* slot 0 of the array of the queue that it pushes to
  deleted,    \* the models that were deleted
  thread,     \* of each worker thread: `stopped' and executors_count
  wpc,        \* where each worker is
  at,         \* the executor that its sweep has reached
  held,       \* the task it has popped
  todo,       \* history: the clusters of each model not yet matched in this step
  fresh,      \* history: the modes in which the buffers are up to date
  lost        \* history: the tasks of each model lost by an overtaken push

mainVars == <<settings, flags, fresh>>
pushVars == <<next_push, zero, lost>>
workerVars == <<thread, wpc, at, held>>
vars == <<mpc, mi, mainVars, model, pushVars, deleted, workerVars, todo>>

MainPc == {"setup", "messages", "prepare", "hit", "compute", "push", "publish", "finish",
           "update", "update_wait", "render", "stop", "stop_wait", "delete", "exited"}
WorkerPc == {"created", "loop", "wait", "pop", "execute", "run", "abort", "release", "ended"}

TypeOK ==
  /\ mpc \in MainPc /\ mi \in Model
  /\ settings \in [gpu : BOOLEAN, show_mode : Mode]
  /\ flags \in [emulation_enabled : BOOLEAN, emultate_one_step : BOOLEAN,
                impact_happened : BOOLEAN, vertices_update_needed : BOOLEAN]
  /\ model \in [Model -> [queue : Seq(Task), clusters : SUBSET Cluster,
                          step : BOOLEAN, updated : SUBSET UpdateTask, success : BOOLEAN]]
  /\ next_push \in Task \cup {none} /\ zero \in Task \cup {none}
  /\ deleted \subseteq Model
  /\ thread \in [Worker -> [stopped : BOOLEAN, executors : 0 .. ModelsNum]]
  /\ wpc \in [Worker -> WorkerPc] /\ at \in [Worker -> Model]
  /\ held \in [Worker -> Task \cup {none}]
  /\ todo \in [Model -> SUBSET Cluster] /\ fresh \subseteq Mode
  /\ lost \in [Model -> SUBSET Task]

\* The constructor of Application, with UPDATE_ON_GPU as main.cpp sets it.
Init ==
  /\ mpc = "setup" /\ mi = 1
  /\ settings = [gpu |-> FALSE, show_mode |-> "graphical"]
  /\ flags = [emulation_enabled |-> TRUE, emultate_one_step |-> TRUE,
              impact_happened |-> FALSE, vertices_update_needed |-> FALSE]
  /\ model = [m \in Model |-> [queue |-> <<>>, clusters |-> Cluster, step |-> TRUE,
                               updated |-> UpdateTask, success |-> TRUE]]
  /\ next_push = none /\ zero = none
  /\ deleted = {}
  /\ thread \in [Worker -> [stopped : UninitializedStopped, executors : {0}]]
  /\ wpc = [w \in Worker |-> "created"]
  /\ at = [w \in Worker |-> 1]
  /\ held = [w \in Worker |-> none]
  /\ todo = [m \in Model |-> {}]
  /\ fresh = {}
  /\ lost = [m \in Model |-> {}]

-----------------------------------------------------------------------------
(* The main thread. *)

MainGoes(from, to) == mpc = from /\ mpc' = to /\ UNCHANGED mi

\* The end of a turn of a loop over the models.
NextModel(loop, after) ==
  IF mi < ModelsNum THEN mpc' = loop /\ mi' = mi + 1 ELSE mpc' = after /\ mi' = 1

\* One turn of such a loop.
EachModel(loop, turn, after) ==
  /\ mpc = loop
  /\ IF turn # loop THEN mpc' = turn /\ UNCHANGED mi ELSE NextModel(loop, after)

\* add_model(): a thread that says it is not started is started with this
\* executor, any other gets one more.
AddModel ==
  /\ EachModel("setup", "setup", "messages")
  /\ thread' = [w \in Worker |-> [stopped |-> FALSE, executors |-> thread[w].executors + 1]]
  /\ wpc' = [w \in Worker |-> IF thread[w].stopped THEN "loop" ELSE wpc[w]]
  /\ UNCHANGED <<mainVars, model, pushVars, deleted, at, held, todo>>

\* The messages are handled between frames, and inside one while a message box is
\* open: a hit reaction opens it during the hit, the others before the first wait.
BoxIsOpen == MessageBoxes /\ (mpc = "hit" \/ (mpc = "finish" /\ mi = 1))

\* Variant that does not ask for an update.
ShowModeOnly(mode) ==
  /\ "show" \in Inputs /\ mode # settings.show_mode
  /\ settings' = [settings EXCEPT !.show_mode = mode]
  /\ UNCHANGED flags

ShowMode(mode) ==
  /\ "show" \in Inputs /\ mode # settings.show_mode
  /\ settings' = [settings EXCEPT !.show_mode = mode]
  /\ flags' = [flags EXCEPT !.vertices_update_needed = TRUE]

\* set_settings() stores the mode before set_show_mode() compares it.
ApplySettings(mode) ==
  /\ "apply" \in Inputs
  /\ settings' = [settings EXCEPT !.show_mode = mode]
  /\ UNCHANGED flags

\* Variant of the button's handler that switches the update on the GPU.
SetDefaultsToggling ==
  /\ "defaults" \in Inputs
  /\ settings' = [gpu |-> ~ settings.gpu, show_mode |-> "graphical"]
  /\ UNCHANGED flags

\* The button "Defaults"; the check box for the GPU itself is disabled.
SetDefaults ==
  /\ "defaults" \in Inputs
  /\ settings' = [gpu |-> TRUE, show_mode |-> "graphical"]
  /\ UNCHANGED flags

TogglePause ==
  /\ "pause" \in Inputs
  /\ flags' = [flags EXCEPT !.emulation_enabled = ~ @]
  /\ UNCHANGED settings

SingleStep ==
  /\ "pause" \in Inputs
  /\ flags' = [flags EXCEPT !.emulation_enabled = FALSE, !.emultate_one_step = TRUE]
  /\ UNCHANGED settings

Impact ==
  /\ "impact" \in Inputs
  /\ flags' = [flags EXCEPT !.impact_happened = TRUE]
  /\ UNCHANGED settings

HandleMessage ==
  /\ mpc = "messages" \/ BoxIsOpen
  /\ UNCHANGED <<mpc, mi>>
  /\ \/ \E mode \in Mode : ShowMode(mode) \/ ApplySettings(mode)
     \/ SetDefaults \/ TogglePause \/ SingleStep \/ Impact
  /\ UNCHANGED <<fresh, model, pushVars, deleted, workerVars, todo>>

\* Variant that breaks off a frame.
QuitInsideFrame ==
  /\ "quit" \in Inputs
  /\ MainGoes("messages", "stop") \/ MainGoes("finish", "stop")
  /\ UNCHANGED <<mainVars, model, pushVars, deleted, workerVars, todo>>

Quit ==
  /\ "quit" \in Inputs
  /\ MainGoes("messages", "stop")
  /\ UNCHANGED <<mainVars, model, pushVars, deleted, workerVars, todo>>

\* No message is waiting: a frame starts.
BeginFrame ==
  /\ MainGoes("messages", IF flags.emulation_enabled \/ flags.emultate_one_step THEN "prepare"
                          ELSE IF flags.vertices_update_needed THEN "update" ELSE "render")
  /\ UNCHANGED <<mainVars, model, pushVars, deleted, workerVars, todo>>

\* simulate(), first loop: on the GPU path the previous step must be over.
\* Variant that does not wait for it.
PrepareWithoutWaiting ==
  /\ EachModel("prepare", IF flags.impact_happened THEN "hit" ELSE "compute", "finish")
  /\ UNCHANGED <<mainVars, model, pushVars, deleted, workerVars, todo>>

Prepare ==
  /\ settings.gpu => model[mi].step
  /\ EachModel("prepare", IF settings.gpu /\ ~ model[mi].success THEN "stop"
                          ELSE IF flags.impact_happened THEN "hit" ELSE "compute", "finish")
  /\ UNCHANGED <<mainVars, model, pushVars, deleted, workerVars, todo>>

\* hit() changes velocities; while mpc = "hit", it is running.
Hit ==
  /\ MainGoes("hit", "compute")
  /\ UNCHANGED <<mainVars, model, pushVars, deleted, workerVars, todo>>

\* compute_next_step_async() waits for the previous step and makes the next one
\* ready.  After the wait no task of the model is queued or held, so that nobody
\* can tell in which order the events, `success' and the queue are reset ...
ComputeNextStep ==
  /\ model[mi].step
  /\ MainGoes("compute", "push")
  /\ model' = [model EXCEPT ![mi] =
       [queue |-> <<>>, clusters |-> {}, step |-> FALSE, updated |-> @.updated, success |-> TRUE]]
  /\ next_push' = 0
  /\ todo' = [todo EXCEPT ![mi] = Cluster]
  /\ UNCHANGED <<mainVars, zero, lost, deleted, workerVars>>

\* ... and pushes its tasks.  A push stores its task after the last one of the
\* queue, which is in slot 0 if there is none ...
StoreTask ==
  /\ MainGoes("push", "publish")
  /\ zero' = IF model[mi].queue = <<>> THEN next_push ELSE zero
  /\ UNCHANGED <<mainVars, model, next_push, lost, deleted, workerVars, todo>>

\* ... and takes in the slot that comes after the last one by then: if the queue
\* was emptied in the meantime, that is slot 0 again.
published == IF model[mi].queue = <<>> THEN zero ELSE next_push

PublishTask ==
  /\ mpc = "publish"
  /\ model' = [model EXCEPT ![mi].queue = Append(@, published)]
  /\ lost' = [lost EXCEPT ![mi] = @ \cup ({next_push} \ {published})]
  /\ IF next_push \notin {final_task, last_update_task}
     THEN mpc' = "push" /\ next_push' = next_push + 1 /\ UNCHANGED <<mi, zero>>
     ELSE /\ IF next_push = final_task THEN NextModel("prepare", "finish")
             ELSE NextModel("update", "update_wait")
          /\ next_push' = none /\ zero' = none
  /\ UNCHANGED <<mainVars, deleted, workerVars, todo>>

\* simulate(), last loop: the clusters, or the step, are waited for.
FinishStep ==
  /\ IF settings.gpu THEN model[mi].clusters = Cluster ELSE model[mi].step
  /\ EachModel("finish", IF model[mi].success THEN "finish" ELSE "stop", "update")
  /\ flags' = IF mpc' = "update"
              THEN [flags EXCEPT !.impact_happened = FALSE, !.emultate_one_step = FALSE,
                                 !.vertices_update_needed = TRUE]
              ELSE flags
  /\ fresh' = {}
  /\ UNCHANGED <<settings, model, pushVars, deleted, workerVars, todo>>

UpdatesBuffer == ~ (settings.gpu /\ settings.show_mode = "graphical")

\* update_vertices(), first loop; the result of wait_for_step() is ignored.
\* Other modes copy positions, and those of the GPU do without.
StartUpdate ==
  /\ UpdatesBuffer => model[mi].step
  /\ IF settings.show_mode = "graphical" /\ ~ settings.gpu
     THEN /\ MainGoes("update", "push")
          /\ model' = [model EXCEPT ![mi].updated = {}, ![mi].success = TRUE]
          /\ next_push' = final_task + 1
     ELSE EachModel("update", "update", "update_wait") /\ UNCHANGED <<model, next_push>>
  /\ UNCHANGED <<mainVars, zero, lost, deleted, workerVars, todo>>

\* Variant that does not wait for the update.
FinishUpdateEarly ==
  /\ EachModel("update_wait", "update_wait", "render")
  /\ flags' = [flags EXCEPT !.vertices_update_needed = mpc' # "render"]
  /\ fresh' = IF mpc' = "render"
              THEN {mode \in fresh : mode = "graphical"} \cup {settings.show_mode} ELSE fresh
  /\ UNCHANGED <<settings, model, pushVars, deleted, workerVars, todo>>

\* Second loop: the update is waited for, unless the positions were copied;
\* the three other modes share the buffer of the low model.
FinishUpdate ==
  /\ settings.show_mode = "graphical" /\ ~ settings.gpu => model[mi].updated = UpdateTask
  /\ EachModel("update_wait",
               IF settings.show_mode = "graphical" /\ ~ settings.gpu /\ ~ model[mi].success
               THEN "stop" ELSE "update_wait", "render")
  /\ flags' = [flags EXCEPT !.vertices_update_needed = mpc' # "render"]
  /\ fresh' = IF mpc' = "render"
              THEN {mode \in fresh : mode = "graphical" \/ ~ UpdatesBuffer} \cup {settings.show_mode}
              ELSE fresh
  /\ UNCHANGED <<settings, model, pushVars, deleted, workerVars, todo>>

Render ==
  /\ MainGoes("render", "messages")
  /\ UNCHANGED <<mainVars, model, pushVars, deleted, workerVars, todo>>

\* stop_threads(), at the end of run() or from the destructor: the threads
\* are told to stop, and the step of each model is waited for.
StopThreads ==
  /\ mpc = "stop" /\ mpc' = "stop_wait" /\ mi' = 1
  /\ thread' = [w \in Worker |-> [thread[w] EXCEPT !.stopped = TRUE]]
  /\ UNCHANGED <<mainVars, model, pushVars, deleted, wpc, at, held, todo>>

AwaitLastStep ==
  /\ model[mi].step
  /\ EachModel("stop_wait", "stop_wait", "delete")
  /\ UNCHANGED <<mainVars, model, pushVars, deleted, workerVars, todo>>

DeleteModel ==
  /\ EachModel("delete", "delete", "exited")
  /\ deleted' = deleted \cup {mi}
  /\ UNCHANGED <<mainVars, model, pushVars, workerVars, todo>>

Main ==
  \/ AddModel \/ BeginFrame \/ Prepare \/ Hit \/ ComputeNextStep \/ StoreTask \/ PublishTask
  \/ FinishStep \/ StartUpdate \/ FinishUpdate \/ Render
  \/ StopThreads \/ AwaitLastStep \/ DeleteModel

-----------------------------------------------------------------------------
(* The worker threads: WorkerThread::work. *)

WorkerGoes(w, from, to) == wpc[w] = from /\ wpc' = [wpc EXCEPT ![w] = to]

\* The head of the while-loop.
BeginSweep(w) ==
  /\ WorkerGoes(w, "loop", IF thread[w].stopped THEN "ended" ELSE "wait")
  /\ at' = [at EXCEPT ![w] = 1]
  /\ UNCHANGED <<mpc, mi, mainVars, model, pushVars, deleted, thread, held, todo>>

\* On to the next executor, or to the head of the while-loop.
\* Variant that goes one executor too far.
NextExecutorTooFar(w, from) ==
  /\ held' = [held EXCEPT ![w] = none]
  /\ IF at[w] <= thread[w].executors
     THEN WorkerGoes(w, from, "wait") /\ at' = [at EXCEPT ![w] = @ + 1]
     ELSE WorkerGoes(w, from, "loop") /\ UNCHANGED at
  /\ UNCHANGED <<mpc, mi, mainVars, pushVars, deleted, thread>>

NextExecutor(w, from) ==
  /\ held' = [held EXCEPT ![w] = none]
  /\ IF at[w] < thread[w].executors
     THEN WorkerGoes(w, from, "wait") /\ at' = [at EXCEPT ![w] = @ + 1]
     ELSE WorkerGoes(w, from, "loop") /\ UNCHANGED at
  /\ UNCHANGED <<mpc, mi, mainVars, pushVars, deleted, thread>>

\* The event of a queue is unset by whatever empties the queue, and set by the
\* last push of a batch.
Pushing(m) == mi = m /\ mpc \in {"push", "publish"}
has_tasks(m) == model[m].queue # <<>> /\ ~ Pushing(m)

\* wait_for_tasks() returns at once when its event is set ...
WakeUp(w) ==
  /\ has_tasks(at[w])
  /\ WorkerGoes(w, "wait", "pop")
  /\ UNCHANGED <<mpc, mi, mainVars, model, pushVars, deleted, thread, at, held, todo>>

\* ... and when the time is out.
\* Variant that breaks off the sweep.
TimeOutBreaks(w) ==
  /\ ~ has_tasks(at[w])
  /\ WorkerGoes(w, "wait", "loop")
  /\ UNCHANGED <<mpc, mi, mainVars, model, pushVars, deleted, thread, at, held, todo>>

TimeOut(w) ==
  /\ ~ has_tasks(at[w])
  /\ NextExecutor(w, "wait")
  /\ UNCHANGED <<model, todo>>

\* complete_next_task() pops, after any delay.
PopTask(w) ==
  /\ model[at[w]].queue # <<>>
  /\ WorkerGoes(w, "pop", "execute")
  /\ held' = [held EXCEPT ![w] = Head(model[at[w]].queue)]
  /\ model' = [model EXCEPT ![at[w]].queue = Tail(@)]
  /\ UNCHANGED <<mpc, mi, mainVars, pushVars, deleted, thread, at, todo>>

PopNothing(w) ==
  /\ model[at[w]].queue = <<>>
  /\ NextExecutor(w, "pop")
  /\ UNCHANGED <<model, todo>>

\* The final task waits for the clusters; a task of an aborted step is skipped.
SkipTask(w) ==
  /\ held[w] \in StepTask /\ ~ model[at[w]].success
  /\ held[w] = final_task => model[at[w]].clusters = Cluster
  /\ NextExecutor(w, "execute")
  /\ UNCHANGED <<model, todo>>

\* Variant whose final task does not wait for the clusters.
RunTaskEarly(w) ==
  /\ held[w] \in StepTask => model[at[w]].success
  /\ WorkerGoes(w, "execute", "run")
  /\ UNCHANGED <<mpc, mi, mainVars, model, pushVars, deleted, thread, at, held, todo>>

RunTask(w) ==
  /\ held[w] \in StepTask => model[at[w]].success
  /\ held[w] = final_task => model[at[w]].clusters = Cluster
  /\ WorkerGoes(w, "execute", "run")
  /\ UNCHANGED <<mpc, mi, mainVars, model, pushVars, deleted, thread, at, held, todo>>

MatchShape(w) ==
  /\ held[w] \in Cluster
  /\ NextExecutor(w, "run")
  /\ model' = [model EXCEPT ![at[w]].clusters = @ \cup {held[w]}]
  /\ todo' = [todo EXCEPT ![at[w]] = @ \ {held[w]}]

\* The integration was perhaps cut short by an abort, before or after the event.
Integrate(w) ==
  /\ held[w] = final_task
  /\ NextExecutor(w, "run")
  /\ model' \in {[model EXCEPT ![at[w]].step = s] :
                   s \in IF model[at[w]].success THEN {TRUE} ELSE {TRUE, model[at[w]].step}}
  /\ UNCHANGED todo

UpdateVertices(w) ==
  /\ held[w] \in UpdateTask
  /\ NextExecutor(w, "run")
  /\ model' = [model EXCEPT ![at[w]].updated = @ \cup {held[w]}]
  /\ UNCHANGED todo

TaskFails(w) ==
  /\ MayFail /\ held[w] \in StepTask
  /\ WorkerGoes(w, "run", "abort")
  /\ UNCHANGED <<mpc, mi, mainVars, model, pushVars, deleted, thread, at, held, todo>>

\* executor->abort() marks the failure, then releases whoever waits; the
\* thread ends, for the other models as well.
AbortFlag(w) ==
  /\ WorkerGoes(w, "abort", "release")
  /\ model' = [model EXCEPT ![at[w]].success = FALSE]
  /\ UNCHANGED <<mpc, mi, mainVars, pushVars, deleted, thread, at, held, todo>>

\* Variant that does not set the event of the step.
AbortReleaseForgotten(w) ==
  /\ WorkerGoes(w, "release", "ended")
  /\ model' = [model EXCEPT ![at[w]].queue = <<>>, ![at[w]].clusters = Cluster]
  /\ held' = [held EXCEPT ![w] = none]
  /\ UNCHANGED <<mpc, mi, mainVars, pushVars, deleted, thread, at, todo>>

AbortRelease(w) ==
  /\ WorkerGoes(w, "release", "ended")
  /\ model' = [model EXCEPT ![at[w]].queue = <<>>, ![at[w]].clusters = Cluster,
                            ![at[w]].step = TRUE]
  /\ held' = [held EXCEPT ![w] = none]
  /\ UNCHANGED <<mpc, mi, mainVars, pushVars, deleted, thread, at, todo>>

Work(w) ==
  \/ BeginSweep(w) \/ WakeUp(w) \/ TimeOut(w) \/ PopTask(w) \/ PopNothing(w)
  \/ SkipTask(w) \/ RunTask(w) \/ MatchShape(w) \/ Integrate(w)
  \/ UpdateVertices(w) \/ TaskFails(w) \/ AbortFlag(w) \/ AbortRelease(w)

Next == Main \/ HandleMessage \/ Quit \/ \E w \in Worker : Work(w)

Spec == Init /\ [][Next]_vars

\* The operating system runs every thread, and now and then no message waits.
FairSpec == Spec /\ WF_vars(Main) /\ \A w \in Worker : WF_vars(Work(w))

-----------------------------------------------------------------------------
(* Properties. *)

\* A worker inside a call of a model.
Inside(w, m) == at[w] = m /\ wpc[w] \in {"wait", "pop", "execute", "run", "abort", "release"}

\* While an impact hits a model, none of its tasks is running, whatever the
\* settings were changed to since its step began (model.h:263-265).
HitsQuietModel ==
  mpc = "hit" => \A w \in Worker : Inside(w, mi) => wpc[w] \notin {"execute", "run"}

\* A failure stays visible until the main thread has thrown: nothing sets
\* `success' again before (model.cpp:597, 883; Application.cpp:624 ignores it).
FailureIsNotMasked ==
  [][\A m \in Model : ~ model[m].success => ~ model'[m].success]_vars

\* A buffer that is drawn was updated in the mode shown, after the last step.
DrawnIsCurrent == mpc = "render" /\ UpdatesBuffer => settings.show_mode \in fresh

\* While a buffer is drawn, no worker writes it.
DrawnIsStill ==
  mpc = "render" => \A w \in Worker : wpc[w] = "run" => held[w] \notin UpdateTask

Barriered(m) == INSTANCE StepBarrier WITH
  running <- ~ model[m].step, todo <- todo[m], failed <- ~ model[m].success

\* Each model keeps the promise of a step, however the threads share them.
ImplementsBarriers ==
  /\ \A m \in Model : Barriered(m)!Init
  /\ [][\A m \in Model : [Barriered(m)!Next]_(Barriered(m)!vars)]_vars

\* On the CPU path frame after frame is drawn, until the user quits, unless a
\* push was overtaken and its task lost: then a step or an update waits in vain.
FramesGoOn ==
  []<>(mpc = "render" \/ mpc = "exited" \/ settings.gpu \/ \E m \in Model : lost[m] # {})

\* Quitting ends the program (Application.cpp:46, "Esc: exit.").
QuitEnds == mpc = "stop" ~> mpc = "exited"

\* A failure on the CPU path ends the program.
FailureEndsProgram ==
  \A m \in Model : ~ model[m].success /\ ~ settings.gpu ~> mpc = "exited"

\* No worker is inside a model that is deleted.
NoUseAfterDelete == \A w \in Worker, m \in deleted : ~ Inside(w, m)

\* Once the models are added, all threads work (Application.cpp:168-171).
AllThreadsWork == mpc # "setup" => \A w \in Worker : wpc[w] # "created"
=============================================================================
