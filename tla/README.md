# Verification of Crash And Squeeze

TLA+ models of the concurrent core of *Crash And Squeeze*, a C++ library that
simulates deformable bodies by shape matching, and of the demo program
(`Renderer/`) that drives it from several threads. Paths below are relative to
the repository; line numbers are those of the modelled commit.

- [The system](#the-system)
- [Modules](#modules)
- [Runs](#runs)
- [Findings](#findings)
- [Fairness](#fairness)
- [Proofs](#proofs)
- [What is not modelled](#what-is-not-modelled)
- [Plan](#plan)

## The system

A frame of the demo goes as follows. The **main thread**
(`Application::simulate`) asks each `Model` for the next step
(`compute_next_step_async`): the model waits for its previous step, resets its
events, and pushes one task per cluster and one final task into its **task
queue**. The **worker threads** (`WorkerThread::work`) wait for the queue's
event, pop a task and execute it. A cluster task matches the shape of its
cluster and sets the cluster's event; the final task waits for all of these,
integrates the particle system and sets the step's event. The main thread
reacts to events of the simulation, waits for the step (or, when vertices are
updated on the GPU, only for the clusters), and then updates and renders the
vertices, the update being once more a batch of tasks. An error in a task
throws inside the worker, which calls `Model::abort()` and ends.

| Component | State | Operations | Interacts with | What makes it correct |
|---|---|---|---|---|
| Task queue (`Parallel/task_queue`) | array of task pointers, `first`, `last`, lock, event | push, pop, clear, reset, wait | one pusher, many poppers | FIFO; no unwritten slot is read; no lost wakeup |
| Abstract task (`Parallel/abstract_task.h`) | `_is_complete` | complete, reset | queue | complete only after execution |
| Step protocol (`Core/model.cpp` 77-146, 587-748) | events of the clusters and of the step, `success` | compute_next_step(_async), complete_next_task, waits, abort | queue, workers, main thread | a barrier between clusters, integration and reader; failures reach everybody |
| Update protocol (`Core/model.cpp` 838-1086) | events of the update tasks and of the normals, `success` | update_vertices_async, wait_for_update, generate_normals | queue, workers | every vertex updated once, after its normals; failures reach the waiter |
| Model construction (`Core/model.cpp` 152-481) | clusters, regions, indices | constructor | clusters, vertices | every vertex is in a cluster, indices fit their width |
| Cluster (`Core/cluster.cpp`) | matrices, member vertices | add vertices, match_shape | physical vertices | each cluster writes its own slots of shared vertices |
| Body, rigid body, frame (`Core/body.cpp`, `rigid_body.cpp`) | momenta, velocities | compute, compensate | physical vertices | conservation (floating point) |
| Physical / graphical vertex | velocity additions, equilibrium position; cluster indices and weights | add, average, integrate; include, normalise | clusters | eight slots suffice; no addition lost |
| Vertex info (`Core/vertex_info.cpp`) | arrays of offsets | add_point, add_vector | model | arrays in step with each other |
| Regions, forces, reactions | numbers, enabled flags | contains, value, invoke_if_needed | model | detection at thresholds |
| Array (`Collections/array.h`) | items, allocated, frozen, forbidden | push_back, create_items, freeze, ... | everywhere | growth keeps items; no write past the end |
| Loggers (`Logging/`, `Renderer/logger.cpp`) | actions; file and ring of messages | log, add_message, dump | all threads | messages in order, inside the ring |
| Single-thread primitives (`Parallel/single_thread_prim`) | flags | lock, set, unset, wait | queue, model | report what would block for good |
| Windows primitives (`Renderer/parallel.cpp`) | handles | set, unset, wait | queue, model | manual-reset events |
| Worker thread (`Renderer/worker_thread.cpp`) | executors, `stopped` | start, add_executor, work, stop | models | every task is run; a failure is passed on |
| Application (`Renderer/Application.cpp`) | models, settings, flags of the frame | simulate, update_vertices, run, stop_threads | all | results are read only when stable; shutdown ends |
| Buffers (`Renderer/Buffer.cpp`) and models of the renderer (`Model.cpp`) | the buffer, its staging copy, which of them is locked | lock, unlock; repaint, update_normals, notify | application, reactions | at most one lock; a write reaches the picture, and loses nothing that others wrote |
| Surfaces and generators (`IndexedSurface`, `tessellate`, `cubic`, ...) | index arrays | construction | model | each triangle once, orientation kept |
| Mesh loader (`Renderer/ObjMeshLoader.cpp`) | vertices, indices, vertex cache | load, scale, get_dimensions | scenes | each corner of the file's faces keeps its position and normal; equal corners share a vertex |
| Settings and scenes (`settings.h`, `main.cpp`) | settings, options of the build | prepare, defaults | application | what is shown belongs to what is set |
| Performance reports | timings | add, report | application | (output) |
| Direct3D, windows, camera, shaders | device objects | render | application | (input and output) |
| `Math/` | vectors, matrices | algebra | everywhere | (floating point) |

What is hard here is concurrency and failure: a queue whose push is half
outside its lock, events that are reset while old tasks may be running, an
abort that is four unsynchronised steps, an integration that overlaps the
rendering, and a shutdown that waits for threads it has told to stop. The full
list, each at its line, is in `PROJECT.json` under `hazards`.

## Modules

| Module | What it is | EXTENDS / INSTANCE |
|---|---|---|
| `FifoQueue` | abstract: the FIFO queue that `task_queue.h` promises | |
| `TaskQueue` | state and operations of one task queue | |
| `TaskQueueThreads` | a queue, its pushing thread and its workers; the pusher calls anything in any order | extends `TaskQueue`, instance of `FifoQueue` |
| `TaskQueueLemmas`, `TaskQueueThreads_proofs` | proofs about the queue | extend these |
| `StepBarrier` | abstract: what a step of the simulation promises | |
| `ModelStep` | the step protocol: main thread, queue, workers, failures, both rendering modes | extends `TaskQueue`, instance of `StepBarrier` |
| `ModelStep_proofs` | proofs about `ModelStep` | extends it and `TaskQueueLemmas` |
| `UpdateParts` | how an update is cut into parts; pure | |
| `UpdateBarrier` | abstract: what an update of the vertices promises | |
| `ModelUpdate` | the update protocol: positions, vectors, normals, failures | extends `TaskQueue`, `UpdateParts`, instance of `UpdateBarrier` |
| `ModelUpdate_proofs` | proofs about `UpdateParts` and `ModelUpdate` | extends them and `TaskQueueLemmas` |
| `Frames` | the demo's frames: several models, the sweep of the workers over them, settings, shutdown | instance of `StepBarrier` per model |
| `Frames_proofs` | proofs about `Frames` | extends it |
| `SerialStep` | a model used from one thread, which calls anything in any order | |
| `SerialStep_proofs` | proofs about it | extends it |
| `Meshes` | the mesh generators, the mesh loader and `IndexedSurface` | |
| `Clusters` | the grid of boxes and the clusters of a vertex; pure, in exact arithmetic | |
| `Scene` | a scene from its meshes to its first steps, and the data shared by clusters | extends `Meshes`, `Clusters` |
| `Scene_proofs` | proofs about `Clusters`, `Meshes` and `Scene` | extends them |
| `SceneMC` | the scenes TLC looks at | extends `Scene` |
| `Buffers` | the buffer of the renderer, its staging copy and its locks; pure | |
| `Drawing` | who locks, writes and draws which vertex buffer, and when | extends `Buffers` |
| `Drawing_proofs` | proofs about `Drawing` | extends it |

The modules cut the system where its barriers do. `ModelStep` and
`ModelUpdate` look at one step and one update of one model in every
interleaving and show that they keep the promises of `StepBarrier` and
`UpdateBarrier`. `Frames` composes several models, each with a step queue and
an update, under the threads they share; its queues are sequences, in which a
push is a store and a publication as in `TaskQueue`, and can lose its task in
the same way. `Scene` and `Drawing` rely on the barriers and look at the data on both
sides of them.

### TaskQueue

The variables have the names of the C++ members: `tasks`, `first`, `last`,
`has_tasks_event`. What the code does while it owns `pop_lock` is one action.
`push()` is two: `PushStore` is the check and the store, which run without the
lock, and `PushPublish` is the increment and the event, under it. Between the
two `pushing` holds the argument. The history field `pushing.overtaken` says
that a clear moved the indices back in between; the code has no such
knowledge, which is the point of the first finding. The check `is_full()` and
the store read `last` separately, but a clear between them gives the same
states as a clear before both, so they stay one action.

The array starts with `Garbage` in each slot, as `new AbstractTask*[size]`
leaves it. The operation of `pop` takes the returned task as its argument, so
that the callers say what they do with it. The only operation left out is the
destructor, which frees the array; `Frames` has it in the deletion of a model.

Operators whose comment calls them a *variant* are plausible mistakes, one per
property, used as mutants: the run of the property must fail when the original
is replaced by its variant. They are not part of any specification.

### TaskQueueThreads

| Action | Code |
|---|---|
| `BeginPush`, `PushToFull`, `EndPush` | `TaskQueue::push` (task_queue.cpp:18-36) |
| `ClearQueue`, `ResetQueue`, `ResetTooEarly` | `clear` (84-89), `reset` (58-82) |
| `WaitForTasks`, `PopTask`, `CompleteTask` | the loop of `WorkerThread::work`, `Model::complete_next_task`, `AbstractTask::complete` |

`SerialSpec` keeps the workers out of a push, as when one thread does
everything (`Model::compute_next_step`, the unit tests).

`Fifo == INSTANCE FifoQueue WITH queue <- Window, pending <- pushing.task,
taken <- held` maps the slots from `first` to `last` to the abstract sequence,
and says which worker took which task: a pop that dropped or swapped tasks
would not pass for a clear.

### ModelStep

The program counter of the main thread, `mpc`, runs through
`Application::simulate` and the statements of `compute_next_step_async`:

| Action | Code |
|---|---|
| `FrameStart` | Application.cpp:539-545, the GPU path waits for the previous step |
| `Hit` | Application.cpp:547-550, `Model::hit` |
| `AwaitPreviousStep`, `UnsetClusters`, `UnsetStep`, `StoreParameters`, `ClearQueue` | model.cpp:590, 593, 594, 597-602, 605 |
| `PushTask`, `PublishTask` | model.cpp:606-610, each push being two actions |
| `React` | `Model::react_to_events` |
| `AwaitStep` | Application.cpp:574-588 with `wait_for_clusters` / `wait_for_step` |
| `ReadResults` | rendering |

and `wpc` of each worker through `WorkerThread::work`:

| Action | Code |
|---|---|
| `WaitForTasks`, `PopTask` | worker_thread.cpp:51-59, model.cpp:623-635; any delay may pass between the two |
| `SkipCluster`, `StartMatch`, `MatchShape` | `ClusterTask::execute` (77-84) |
| `SkipIntegration`, `StartIntegration`, `Integrate` | `integrate_particle_system` (658-736) |
| `TaskFails` | an error reported by a task, which throws and is caught at worker_thread.cpp:69 |
| `AbortFlag`, `AbortQueue`, `AbortClusters`, `AbortStep` | the four statements of `Model::abort` (649-656); the worker then ends |

`matched`, `integrated` and `lost` are history variables: how often each
cluster was matched in this step, whether the integration ran to its end, and
whether a push lost a task. The floating-point work of the tasks is abstracted
to these facts. An integration that an abort hits half-way may or may not set
the step's event, because its `is_aborted()` checks are spread over the
function. A wait and the reading of `success` behind it are one action; nobody
but the main thread unsets an event, so the wait stays enabled and commutes
with what comes between.

`StepBarrier` is the promise in three variables: is a step running, which
clusters are still to be matched, has the computation failed. The refinement
mapping is the step's event, the clusters with `matched = 0`, and `success`.
Working on it showed that the promise has to allow a cluster to be matched
*after* a failure has released everybody (`Match` when `failed`): a cluster
task past its `is_aborted()` check is not interrupted.

### UpdateParts, UpdateBarrier and ModelUpdate

`UpdateParts` has the arithmetic of `update_vertices_async`: the check of the
arguments (which the caller makes for the range and every task again for its
part), the size of a part and of the last one, and the vertices that task `i`
goes through. `ModelUpdate` puts the protocol around it:

| Action | Code |
|---|---|
| `RefuseArgs`, `BeginUpdate` | `process_update_vertices_args` (model.cpp:838-867) and the start of `update_vertices_async` (869-880) |
| `StoreSuccess`, `UnsetVectors`, `UnsetNormals` | 883, 888, 900 |
| `PushTask`, `PublishTask` | 901-931: the normals, all vectors, all positions, each push being two actions |
| `AwaitUpdate`, `ReadVertices` | `wait_for_update` (935-940) and the unlocking and drawing behind it |
| `GenerateNormals`, `UpdateVectors`, `UpdatePositions` | `generate_normals`, and the two kinds of tasks (942-1086); `StartTask` is the wait for the normals |
| `TaskFails`, `AbortFlag`, `AbortQueue` | as in `ModelStep`; the events that `abort()` then sets are those of the step, of which nothing is visible here |

The main thread asks for any range, with and without vectors. `done` counts
how often each task ran in this update. The promise, `UpdateBarrier`, has to
say that vectors follow normals; it is what the events must achieve.

### Frames

`mpc` of the main thread goes through `Application::run`: `setup` (one
`add_model` per model), `messages`, `prepare` / `hit` / `compute` / `finish`
(the loops of `simulate`), `update` / `update_wait` (those of
`update_vertices`), `render`, and `stop` / `stop_wait` / `delete`. From
`compute` and from `update` it goes through `push` / `publish` once for each
task of the batch, and then on with the loop (`NextModel`).

| Action | Code |
|---|---|
| `ComputeNextStep` | model.cpp:590-605: the wait for the previous step, the reset of the events and of `success`, the clear |
| `StartUpdate` | Application.cpp:618-645, model.cpp:870-900: the same for an update |
| `StoreTask`, `PublishTask` | task_queue.cpp:27 and 28-35, for model.cpp:606-610 and 901-931 |
| `Prepare`, `Hit`, `FinishStep`, `FinishUpdate` | Application.cpp:539-545, 547-550, 567-600, 648-675 |
| `BeginSweep`, `WakeUp`, `TimeOut`, `PopTask`, `PopNothing` | worker_thread.cpp:40-59, model.cpp:623-635 |
| `SkipTask`, `RunTask`, `MatchShape`, `Integrate`, `UpdateVertices` | the tasks, model.cpp:77-146 and 658-736 |
| `TaskFails`, `AbortFlag`, `AbortRelease` | worker_thread.cpp:69-74, model.cpp:649-656 |

A push stores its task behind the last one of the queue (`StoreTask`; `zero` is
what is in slot 0 of the array) and then takes in the slot that is behind the
last one by then (`published`). If workers have emptied the queue in between,
that is slot 0: the push was overtaken, an old task is handed out again and the
new one is `lost`. What comes before the first push is one action, because
after the wait, in whichever mode, no task of the model is queued or held and
no worker can see in which order the events, `success` and the queue are reset;
`Frames_proofs` proves that there (`StepsAwaited`, `UpdatesAwaited`, `KindsOK`).

Messages of the user may come between frames: the key of a mode (`ShowMode`),
the dialog (`ApplySettings`, `SetDefaults`), pause, single step, impact, quit.
They also come while a message box of a reaction is open (`BoxIsOpen`;
main.cpp:278, 299), whose window has no owner and so leaves the others enabled:
hit reactions open it in the middle of a hit, region reactions between the start of the
steps and the first wait for one. A request to quit is kept until the frame is
over. A worker
sweeps over its executors, waits at each for its event or for the time-out
(`WakeUp`, `TimeOut`), pops, executes, and on a failure aborts that model and
ends. `thread[w].stopped` starts with any of the values in
`UninitializedStopped`, as the constructor of `WorkerThread` leaves it.
`fresh` is a history: the modes in which the buffers show the last step.

### SerialStep

One action per call of the interface of `Core::Model`, in any order, by one
thread that catches what they throw: `ComputeNextStepAsync` (also blocking, as
`compute_next_step`), `UpdateVerticesAsync`, `Abort`, `CompleteNextTask` with
each kind of task, the waits. A wait for an event that is not set is an error
of the single-thread primitives. As no call overtakes another, the queue is a
sequence, which `SerialQueueIsFifo` justifies, and the number of slots that are
used up. `broken` and `masked` are histories: a task of the step has failed or
was dropped by an abort; an update has set `success` again after an abort.

### Meshes, Clusters and Scene

`Meshes` has one action per turn of a generator's inner loop (`CylinderLevel`,
`CylinderCenter`, `CylinderJump`, `SphereVertex`, `TessellateVertex`,
`PlaneVertex`, `CubicVertex`) and per command of a mesh file (`LoadPosition`,
`LoadNormal`, `LoadFace`, `IgnoreLine`). Vertices are integer points; a circle
is a polygon given as a constant. A file is a sequence of commands; the fields
of a corner are numbers, or empty. `Triangles` is what `IndexedSurface` makes
of the indices. `Clusters` computes the boxes, who is inside, the distances to
them and the signs of the weights in exact rational arithmetic: along each
axis, everything is multiplied by the number of boxes and the denominator of
the padding.

`Scene` goes through the phases *high mesh*, *low mesh*, *physical*,
*graphical*, *ready*, *step* (or *refused*, when the limit of clusters per
vertex, or something in a mesh file, is an error): the clusters of each vertex
in turn (`AssignPhysical`, `AssignGraphical`), then steps, in which workers
match clusters. Of `match_shape()` it keeps what concerns shared vertices: the
unlocked read and write of the equilibrium position (`ReadEquilibrium`,
`WriteEquilibrium`), the additions at the cluster's own place (`ApplyGoals`),
the second move of the equilibrium after plasticity (`UpdatePlasticity`), and
the averaging (`Integrate`). Values are where they come from: an addition is
its cluster and step, an equilibrium position the number of moves of each
cluster in it.

### Buffers and Drawing

`Buffers` is `BufferImpl`: `Locked`, `LockError`, `Unlocked`. The Direct3D
buffer and its staging copy are values of their own; locking for overwriting
leaves the buffer undefined, and unlocking copies the staging buffer only after
a lock for reading and writing. What is stored is a record of the fields that
different parts of the demo write: positions and normals (`shape`: the mode and
step they show), colours, and cluster indices.

`Drawing` follows the main thread: `AddModel` and `Paint`
(`Demo::add_physical_model`), the normals model (`CreateNormals`,
`NormalsUpdated`, told by `NotifySubscriber`), the regions of the reactions
(`CreateReactions`) and what they repaint while a step is computed (`React`),
the three loops of `update_vertices` (`StartUpdate`, `FinishUpdate` or
`FailUpdate`, `NotifySubscriber`), the frames and the messages, which also come
while a reaction shows a message box. `options` are
the constants at the top of `main.cpp`, in every combination. What the worker
threads do in an update is left to `ModelUpdate`. `written` is a history: what
was last written to each field.

## Runs

`tlc -workers 2 -config X.cfg M` in this directory repeats a run; the files are
in `PROJECT.json`.

| Run | Asks | Bounds |
|---|---|---|
| `queue_threads` | does the queue, with a pusher and workers in every interleaving, stay inside its array, return only what was stored, in order unless a push is overtaken, and lose no wakeup? | 2 tasks, 3 slots, 2 workers |
| `step_cpu` | is a step with failures a barrier; does every failure reach everybody? | 3 clusters, 2 workers |
| `step_gpu` | the same when the integration overlaps the rendering: is what the main thread reads and hits quiet, and what a step starts from complete? | 2 clusters, 3 workers |
| `step_lost` | violation: a step is waited for in vain, without failures | 2 clusters, 2 workers |
| `update` | is each vertex of an update written once, and the buffer quiet when it is read; do normals come first; does every wait return? | 3 parts, 4 vertices, 2 workers, every range |
| `update_fails` | violation: a failure leaves `wait_for_update()` waiting | 2 parts, 2 vertices, 2 workers |
| `frames_cpu` | with several models, is what is drawn current and quiet; do frames go on unless a task is lost; does quitting end the program? | 2 models of 1 cluster, 2 tasks of an update, 2 workers; keys of modes, pause, impact, quit, message boxes |
| `frames_gpu` | with failures and the switch to the GPU, does each model keep its promise, do hits meet quiet models, is a failure remembered? | 2 models of 2 clusters, 2 tasks of an update, 2 workers; dialog, pause, impact, quit, message boxes |
| `scene` | are meshes complete and closed, has every vertex usable clusters, and is one fresh addition of each averaged? | 22 scenes, 2 workers |
| `scene_race` | violation: two clusters lose each other's change of an equilibrium position | 3 scenes, 2 workers |
| `serial` | in one thread, whatever it calls, is a wait that returns true honest, and can a step that has not failed be completed? | 3 clusters, 2 parts |
| `drawing` | is what is drawn what was last written, and does no lock meet another? | 3 steps, every option and message |

Why the bounds are enough:

- *Queue.* Two tasks and three slots let a push be overtaken at an empty and at
  a half-filled queue, let the queue fill up, and let a stale slot differ from
  a fresh one; two workers can race for the last task while a push is under
  way.
- *Steps.* With three clusters and two workers, one worker can sit in the final
  task (or in an abort) while the other still has clusters to do, and both can
  fail; with three workers and two clusters, every task can be held at the same
  time. The queue has `clusters + 10` slots, as `init_tasks` allocates. Steps
  repeat without a bound: nothing in the state counts them.
- *Updates.* Four vertices in three parts do not divide evenly; ranges shorter
  than the number of parts give empty parts; two workers can both wait for the
  normals. Updates repeat without a bound.
- *Frames.* Two models are the fewest that two workers can be distributed over
  in different ways. One cluster and the final task, or two tasks of an update,
  are the shortest batches in which a push can be overtaken: a worker that comes
  late to the queue pops the first task while the second is pushed. Both runs
  reach such losses; the program then waits for good, which is the exception in
  `FramesGoOn`. Two clusters, in the GPU run, let a later overtaken push meet an
  earlier loss. The CPU run has no failures, because its liveness is about what
  happens without them; the GPU run has failures and only safety.
- *Scenes.* The scenes of `SceneMC` are chosen by case: vertices inside one
  box, in several, on borders, outside of all; in exactly eight and in more;
  paddings that are negative, zero, a fifth, a half and more; flat models; more
  clusters than `ClusterIndex` (4 bits in the run) can name; every generator;
  mesh files with normals on all, some and no corners, with positions behind
  faces, and five that are refused. Only three kinds of scenes are emulated, one
  of them for two steps, so that an addition that was not renewed would be seen.
- *Serial.* Three clusters and two parts let a step and an update be mixed in
  the queue and fill it. *Drawing.* Three steps let a buffer be two steps old.

`ModelStep`, `ModelUpdate`, `Frames` and `Drawing` really stop (a failure ends
the program, a failed worker ends, a lost task blocks for good, the user
quits), so their runs do not check for deadlock; the liveness properties, and
`EveryWaitReturns`, say what matters instead. `SceneMC` uses symmetry of the
workers, which appear nowhere but as a domain.

The properties that depend on a task not being lost say so (`~ lost`, and
`lost[m] # {}` as the exception of `FramesGoOn`): what a lost task does is the
subject of the findings. The history that `SurfaceHasNoHoles`
counts is of edges by position, so that vertices of different normals at one
place do not open a seam; of the cylinder it says that exactly three edges are
open, and of the plane that its rim is.

## Findings

1. **A step can be waited for in vain** (`step_lost`; model.cpp:606-610 with
   task_queue.cpp:27-29 and 45-50). `push()` stores at `last+1` outside the
   lock. If a worker pops the only task of the queue in between, `pop()` resets
   `last` to -1 and the increment publishes slot 0: an old task is handed out
   again and the new one is lost. The event is set only with the last push of a
   step, but a worker woken by the *previous* batch can still be between its
   wait and its pop. No failure is needed. In `Frames` the same happens between
   the models, and the frames stop. `FifoUnlessOvertaken` shows, and a
   theorem proves, that this is the only way in which the queue fails to be a
   FIFO.
2. **A failed update is waited for in vain** (`update_fails`; model.cpp:649-656
   against model.h:312). `abort()` sets neither the events of the update nor
   that of the normals.
3. **An equilibrium position can lose a change** (`scene_race`;
   physical_vertex.cpp:26, called from cluster.cpp:201). Two clusters that
   share a vertex add to it without a lock, although the additions next to it
   have one place per cluster "to avoid race condition" (physical_vertex.h:52).

### Other disagreements

Each of these is a definition of the module, and a configuration of this
directory under which TLC finds it violated (`tlc -config X.cfg M`).

| Definition | Configuration, module | What the code does |
|---|---|---|
| `QueueIsFifo` | `TaskQueueFifo.cfg`, `TaskQueueThreads` | The cause of finding 1, alone: one worker is enough. task_queue.h:9-11 promises a FIFO for one pusher and many poppers. |
| `ResetReturnsPopped` | `TaskQueueReset.cfg`, `TaskQueueThreads` | `pop()` of the last task clears the indices that `reset()` relies on, so `reset()` hands nothing back (task_queue.cpp:50 against task_queue.h:44-46 and ToolsTester/task_queue_unittest.cpp:72-85). Only tests call `reset()`. |
| `FailureEndsProgram` | `FramesTwoFail.cfg`, `Frames` | A worker that fails in one model serves no other. When all have failed, the step of another model is waited for in vain, by the main thread or by the destructor (worker_thread.cpp:73, Application.cpp:701; main.cpp:957 says that resources are released automatically). |
| `QuitEnds` | `FramesQuit.cfg`, `Frames` | After the switch to the GPU, `stop_threads()` tells the workers to stop and then waits for a step that they may no longer compute (Application.cpp:692-704). |
| `NoUseAfterDelete` | `FramesDelete.cfg`, `Frames` | The models are deleted while a worker may still be inside one: `WorkerThread::wait()` is never called (Application.cpp:706-719). |
| `AllThreadsWork` | `FramesUnstarted.cfg`, `Frames` | `is_started()` reads `stopped`, which the constructor leaves uninitialised: a thread can be taken for started and never run (worker_thread.cpp:8, Application.cpp:160). |
| `DrawnIsCurrent` | `FramesApply.cfg`, `Frames` | `set_settings()` stores the new mode before it calls `set_show_mode()`, which then sees no change and asks for no update: a paused simulation is drawn from a buffer that was never filled for the mode (Application.cpp:428-430). |
| `PictureIsCurrent` | `DrawingDefaults.cfg`, `Drawing` | The button *Defaults* sets `update_vertices_on_gpu`, which settings.h:17 calls read-only. A program built for the CPU has no deforming shader (main.cpp:53-57), so the picture is not updated any more. |
| `MeshIsComplete` | `SceneNoTexture.cfg`, `SceneMC` | `strtok_s` passes over empty fields, so in a face `1//2` the normal is taken for the (optional, unsupported) texture, and the vertex keeps a default normal (ObjMeshLoader.cpp:108-127). The mesh that the repository ships has all three fields. |

Smaller observations, each visible in a model but without a property of its own:

- The jump between the caps of a cylinder repeats the bottom vertex only, so one
  of the triangles of the strip is not degenerate (cylinder.cpp:172-176); it is
  the exception in `SurfaceHasNoHoles`.
- An update that begins after an abort sets `success` again and hides the
  failure of the step from `wait_for_step()` (model.cpp:883); `masked` in
  `SerialStep` marks it. In the demo it cannot happen: `FailureIsNotMasked`.
- An update that begins before another has ended resets the events under it
  (the TODO at model.cpp:874); `UpdateVectorsTooEarly` of `SerialStep` is what
  comes of it in one thread.
- `wait_for_update()` returns false only when a failure comes after the last
  event was set; after the usual failure it does not return (finding 2).
- A model without an extent along an axis has all boxes of that axis at one
  place, and every vertex in all of them; cut often enough along such an
  axis, it exceeds the limit of clusters. The premise of
  `VerticesHaveClusters` that the model is not flat where it is cut came out of
  its proof.
- With a padding of exactly one half, a vertex in the middle of a box touches
  three boxes per axis, and the model is refused; a flat model, or no padding,
  makes weights of 0/0.
- With 256 clusters, `null_cluster_index` wraps around to a cluster; the place
  of a ninth addition to a physical vertex is not checked, but the limit of the
  graphical vertices refuses such models when both kinds share their positions.
- A single step or an impact that is asked for while a message box of a reaction
  is open is forgotten: the frame that it interrupts clears both flags when it is
  over (Application.cpp:491-492).
- On the GPU path the normals that are shown are not those of the deformed
  surface; `NormalsMatchSurface` is about the CPU.
- A corner without a normal inherits the one of the corner before it in the same
  face, and the fourth corner of a face is ignored (ObjMeshLoader.cpp:91-93).
- `sphere()` with one edge per meridian passes its assertion but writes more
  indices than `sphere_indices_count` promises; no demo asks for it.

## Fairness

`FairSpec` of `TaskQueueThreads` assumes that a push that has begun ends, and
that workers keep looping: `WorkerThread::work` polls with a time-out and never
blocks for good. It does not assume that the pusher pushes again.

`FairSpec` of `ModelStep`, `ModelUpdate` and `Frames` assumes weak fairness of
the main thread and of each worker, that is, that the operating system runs
every thread that is not blocked. A disjunct of a thread is enabled exactly
when the thread is not waiting, so weak fairness of its whole next-state action
is enough; in `Frames`, a worker at an idle model is never blocked, since the
time-out takes it to the next one, and the user's messages are forced neither
to come nor to stay away: `FramesGoOn` says that frames are drawn whatever they
are, until the user quits, unless a push has lost a task. A message box that is
open is closed in the end. `TaskFails` is never forced: it is one of the
outcomes of a step that the thread must take. `Scene`, `SerialStep` and
`Drawing` have safety only, and no fairness.

## Proofs

All proofs hold for every number of tasks, slots, clusters, workers, parts,
vertices, models and steps, from the named assumptions on the constants only:
the queue has at least one slot (`SizeAssumption`), a garbage pointer and
`NULL` are not tasks (`PointerAssumption`), the tasks of a step or of an update
are numbered in the order of their pushes and the queue has more slots than
`init_tasks()` makes tasks (`TasksAssumption` of `ModelStep` and of
`ModelUpdate`; model.cpp:458), there is a cluster (`ClustersAssumption`,
`SerialAssumption`), a part and a vertex (`UpdateTasksAssumption`,
`VerticesAssumption`), in `Frames` a model, a cluster and a task of an update
(`NumbersAssumption`), and what may be chosen is
a Boolean (`ModeAssumption`, `ChoicesAssumption`). For the scenes: the width
of an index, and how many values it gives, are positive numbers
(`BitsAssumption`), the points of a circle have coordinates
(`CircleAssumption`), and what a scene asks for is what the code accepts
(`ScenesAssumption`): positive dimensions of every mesh, a layer between the
poles of a sphere, at least one cluster along each axis, and mesh files whose
faces have three corners or more, each with a position. One theorem of
`Frames_proofs` and two of `Scene_proofs` have a further hypothesis, which they
state and which is said below. Every invariant named here was checked by TLC on
small instances, up to a million states; of `SceneInv`, whose types range over
all positions, the parts that TLC can evaluate.

- `TaskQueueLemmas`: the inductive invariant of the queue is `QueueInv`:
  its types, `IndicesOK`, `ReachableSlotsWritten`, `StoredTaskWillBePublished`.
  The types alone are not inductive: that `++last` stays in the array needs
  `IndicesOK` (a push under way has its slot), and that a pop returns a task
  needs `ReachableSlotsWritten`, whose clause about an overtaken push relies on
  slot 0 having been written. One lemma per operation shows that it preserves
  the invariant, and one says what it does to `Window`.
- `TaskQueueThreads_proofs`: `TypeCorrect`, `NeverPopsGarbageCorrect`, and
  `FifoUnlessOvertakenCorrect`, the step-simulation of `FifoQueue` with its one
  exception. `SerialQueueIsFifo` strengthens the invariant by "nothing is
  overtaken", which holds when one thread does everything, and concludes the
  full refinement. `OnlyResetWakesForNothingCorrect` is an action property from
  the same invariant.
- `ModelStep_proofs`: `IInv` adds `PushProgress` to the queue's invariant:
  during the pushes of a step, the queue holds no more than `next_push` tasks,
  because it was cleared first and the workers only take tasks out.
  `TypeCorrect` needs it to know that no push leaves the array, and
  `PushNeverRefusedCorrect` concludes that the queue is never full.

  The rest of the module proves every other safety invariant of `ModelStep`
  that the runs check, and `ImplementsBarrierCorrect`, from one inductive
  invariant `SInv`. None of the properties is inductive: that a worker may
  integrate depends on where every other task of the step is. The parts of
  `SInv` are
  - `Ordered`: as long as nothing was lost, the tasks in the window increase,
    and all that were taken or are done come before them. A task is thus in one
    place only, and when the final task is held, the window is empty;
  - `LostIsGone`: after an overtaken push, some task was pushed but is neither
    in the window nor in slot 0 (where a later overtaken push could revive it)
    nor held nor done. So the events of all clusters and the final task can
    never come together again in this step, and no wrong step completes;
  - `PushOK`: what an overtaken push publishes instead is an earlier task of the
    same step, which is why the lost one is not merely delayed;
  - `BetweenOK`, `StartingOK`, `RunningOK`, `ReadingOK`: what holds between two
    steps, while one is prepared, while it runs, and when its results are read.
    When nothing has failed, the events of the clusters say exactly which
    clusters are matched, and a complete step leaves every worker idle.

  There is one lemma per action or group of alike actions. `BusyWorker` says
  that a worker that holds a task confines the main thread to the step itself.
  The action that takes the most is `StartIntegration`: all clusters' events
  are set, hence no task is gone, hence nothing was lost, hence the window is
  empty and every other worker is idle.
- `ModelUpdate_proofs` starts with the arithmetic of `UpdateParts`. Whatever range is accepted lies in the
  model (`ArgsInModel`); when there is a vertex per part, no part is refused
  (`PartAccepted`), no two parts share a vertex (`PartsDisjoint`) and together
  they are the range (`PartsCover`). They rest on lemmas about the quotient.
  With fewer vertices than parts the earlier parts are empty; TLC checks that
  case in `update`.

  The rest of the module proves every safety invariant of `ModelUpdate` that the runs
  check, and `ImplementsUpdateCorrect`, from the inductive invariant `UInv`,
  with one lemma per action or group of alike actions. As in a step, `Ordered`
  puts every task in one place only while nothing is lost; `Conserved` adds
  that it is in one place at least until a worker ends. An update does not
  clear its queue first, so `QuietOK` must say that between two updates the
  queue is empty and every worker idle, and `PushOK` that the slots below
  `last` hold tasks of this update only. `LossDooms` is what makes the result
  honest: a push that was lost, or a task that failed, leaves a task that nobody
  will ever complete (`Gone`), unless an overtaken push brings it back, which
  then is lost itself. Hence `AllDone`: when all events of an update are set,
  nothing was lost and nothing has failed. `EachVertexOnceCorrect` follows with
  these lemmas on how the parts cut the range, and so does
  the reverse side, finding 2: an update that has failed is never finished.
  `VectorsAfterNormals` is what the refinement needs for the order of stages.
- `SerialStep_proofs`: `TrueMeansDoneCorrect`. The invariant is `FlagsAreEarned`:
  as long as nothing has failed unnoticed, the events of the clusters are among
  the clusters that were matched in this step, and the event of the step means
  that all were and that it was integrated. One lemma covers the calls that
  leave the flags alone, and one each the others.
  `OnlyFailuresBlockCorrect` is from the invariant `SInv` of the same module:
  unless a task of the step has failed, what the step still needs stands at the
  head of the queue in the right order (`Ahead`), the events of the clusters
  are those of the tasks that are gone from it, and the array has room for the
  rest. `NoUpdateTaskNow` and `IntegratedInTime` are what the order is for: no
  task at the head waits for one behind it.
- `Frames_proofs`: the type invariant, the safety invariants and the two action
  properties of `Frames`, from the inductive invariant `FInv`, with tasks that
  are lost and workers that fail. `StepsAwaited` and `UpdatesAwaited` say what
  the main thread has waited for at each place of the frame, in either mode:
  this is where the change from the CPU to the GPU between two frames, or while
  a message box is open, could go wrong. The rest says for each model where the
  tasks are, whichever worker sweeps by.
  - `PlacesOK`: a task that was lost in this step or in an update is nowhere,
    neither queued nor held nor done nor still to be pushed; so what waits for it
    waits for good, and nothing wrong is taken for complete. As long as none is
    lost, every task is in one place only.
  - `PushOK` is what this needs of a push under way: slot 0 holds a task of the
    same batch, so that what an overtaken push publishes is a task that came
    before, and (in `PlacesOK`) not itself a lost one.
  - `KindsOK`: while a step is done its tasks are in no place any more, likewise
    those of an update, and one of the two always is: an update is under way
    only between two steps.
  - `StepOK`: the events of a step that has not failed tell what was matched.

  From them, `HitsQuietModelCorrect`, `DrawnIsStillCorrect`,
  `FailureIsNotMaskedCorrect`, and `ImplementsBarriersCorrect`, the refinement of
  one `StepBarrier` per model. `DrawnIsCurrentCorrect` adds `StaleIsUpdated`,
  that something asks for an update wherever a buffer may be stale; it is
  proved where the user's messages do not include that the settings dialogue
  applies a mode, and `FramesApply.cfg` shows that it fails if they do.
- `Drawing_proofs`: `LocksAreBalancedCorrect` and `PictureIsConsistentCorrect`,
  for any number of steps and any order of messages. The invariant `DInv` says
  that both halves of a buffer with a copy in memory hold what was written to
  it (`Synced`), which is why an unlock that copies the whole buffer loses
  nothing; which buffer is locked at which place (`LocksOK`); and that the
  normals follow the surface in the mode in which they are shown
  (`NormalsFollow`).

- `Scene_proofs`: `SceneInvariant` and what follows from it, for every mesh,
  grid, padding, number of steps and of workers. `SceneInv` has three parts.
  - `PhaseInv`, while meshes are made. `MeshInv` says where the loops of a
    generator stand (`CylinderAt`, `SphereAt`, `CubeAt`, `PlaneAt`, `CubicAt`):
    how many vertices and indices there are at each turn. The code allocates the
    buffers by closed formulas and fills them by running counters;
    `BuffersFitCorrect` is that the two agree. That the buffers are not overrun
    is not inductive, and neither is it that they are full at the end: both
    follow from the exact count at every turn. One lemma per loop, with the
    products behind an operator (`Times`), because the counts are polynomials in
    the dimensions and the prover's arithmetic is linear. `LoaderInv` says what
    the loader's cache must satisfy for faces to share vertices: it has every
    vertex once, at the position under which it is stored, and no two vertices of
    a position with one normal; and what the faces read so far have got.
  - `ModelInv`, while vertices are assigned: every vertex so far is in the lists
    of exactly its clusters, with the addition index that is its cluster's place
    among them. The geometry underneath is lemmas about `Clusters`: a box
    contains a vertex in at most two places along each axis when the padding is
    less than half a cell (`Neighbours`, hence eight clusters at most), and with
    some padding a vertex inside the model lies strictly inside some box
    (`DeepSomewhere`).
  - `StepInv`, while clusters are matched: for each vertex and each of its
    clusters, either the cluster's goals are still to come (`IsPending`) or the
    vertex has the addition of this step in its place (`IsAdded`). That the
    indices of one vertex differ from cluster to cluster, which is `ModelInv`, is
    what keeps one cluster from overwriting the other's.

  `MeshIsCompleteCorrect` has the hypothesis `TexturesNamed`, that a corner of a
  mesh file with a normal has a texture: otherwise the loader takes the one for
  the other (`SceneNoTexture.cfg`, below the findings). `AdditionsAreAveragedCorrect`
  has `PlacesSuffice`, that no vertex has more clusters than places: that the
  code does not check it for physical vertices is among the smaller
  observations, and `VerticesHaveClustersCorrect` says when it holds.
  `VerticesHaveClusters` and `WeightsAreUsable` name in their own premises the
  paddings and extents which they are about.

Induction over numbers is used in the form of sets: the least element of a set
of numbers (from `WFMin` and `NatLessThanWellFounded`) gives that a set with 0
and all successors is `Nat`, which is enough for maxima and for the order of a
finite set. What a fold or a recursive function computes is out of reach, so
`Clusters` and `Meshes` say with sets and sequences what the code's loops do.

Only model-checked:

- liveness (`AnnouncedWorkIsDone`, `WaitReturnsUnlessLost`, `FailureStopsAll`,
  `FramesGoOn`), which is out of the prover's reach with fairness and ENABLED;
- `SurfaceHasNoHoles`: it counts the edges that the triangles of a finished mesh
  have in common, by position. A proof would have to pair each edge with that of
  a neighbour, and so to know every index and position that a generator writes,
  where `MeshInv` knows how many; of the points of a circle it would need that
  no two are the same. Of a mesh file it holds only if the file's mesh is closed.

## What is not modelled

- Floating-point computation (`Math/`, shape matching, bodies, forces, the
  round regions, simulation parameters) is out of TLC's reach. Where its result
  decides what happens (is a vertex in a box, is a threshold exceeded, is a
  deformation too large), the decision is exact (`Clusters`) or free (`Scene`,
  `Drawing`).
- Direct3D, windows, the camera, shaders, files and performance reports are
  input and output. A failed call of Direct3D throws like any other error.
- `Collections/array.h` and `Core/vertex_info.cpp`: sequential bookkeeping,
  filled once while a model is constructed. The core logger dispatches to
  actions; `TaskFails` is what an error action that throws does, and one that
  returns is left out. The demo's logger keeps the last messages in a ring for
  display: a slot is reserved under a lock but written after it
  (Renderer/logger.cpp:57), which nothing in the simulation depends on.
- The message boxes of reactions are modelled (`Frames`, `Drawing`), as far as they handle
  messages of the user in the middle of a frame. The box of a warning
  (main.cpp:148) is not: it is left out with the warnings themselves.
- Time-outs of `wait_for_tasks` only restart the wait in `ModelStep`; in
  `Frames` they are an action. Dead-lock detection (`detect_dead_locks`) is off
  in the program (Application.cpp:63). A wait for more than 64 events in one
  call of the Windows API fails (parallel.cpp:86); `ModelStep` assumes fewer.
- `set_simulation_params()` and the toggling of forces change numbers that an
  integration may be reading on the GPU path; the code has no lock there and
  promises nothing that a run could check.
- Third-party code is not modelled: `WTL/`, `GoogleTestFramework/` and
  `Renderer/fast_atof.h` are by far the largest part of the repository's lines.
  The tests are read for what they say the code should do.

## Plan

Done: the queue, steps, updates, frames, the single-thread use, scenes with
their meshes and clusters, buffers and drawing; proofs of every safety property
and refinement that the runs check, except `SurfaceHasNoHoles`. Left:

1. `SurfaceHasNoHoles` for one generator after the other, the plane first, with
   invariants that say which indices the loops have written.
2. The array and the message ring as modules of their own.
