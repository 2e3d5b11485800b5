------------------------------ MODULE ModelUpdate ------------------------------
(***************************************************************************)
(* The parallel update of the graphical vertices (Core/model.cpp): the     *)
(* main thread cuts the vertices into parts and pushes, for each of them,  *)
(* a task for the vectors and one for the positions, behind the task that  *)
(* generates the normals; worker threads pop and run them; the main thread *)
(* waits and reads what they have written.                                 *)
(*                                                                         *)
(* A step is complete before an update starts (Application.cpp:624), so    *)
(* the events of the step stay set, and what abort() does to them changes  *)
(* nothing.                                                                *)
(***************************************************************************)
EXTENDS TaskQueue, UpdateParts, FiniteSets

CONSTANTS
  Worker,             \* the worker threads
  GeneratesNormals,   \* has_any_normal, and a surface was set
  MayFail             \* can a task report an error, which throws in its worker?

\* The tasks, numbered in the order in which they are pushed.
gen_normals_task == 0
update_vectors_task(p) == 1 + p
update_task(p) == 1 + UpdateTasksNum + p
last_task == 2 * UpdateTasksNum

IsVectorsTask(t) == t \in 1 .. UpdateTasksNum
IsPositionsTask(t) == t \in UpdateTasksNum + 1 .. last_task
PartOf(t) == IF IsVectorsTask(t) THEN t - 1 ELSE t - 1 - UpdateTasksNum

ASSUME TasksAssumption == Task = 0 .. last_task /\ Size > last_task + 1
ASSUME ModeAssumption == GeneratesNormals \in BOOLEAN /\ MayFail \in BOOLEAN

VARIABLES
  mpc,                         \* where the main thread is
  args,                        \* the range and the kind of the update
  next_push,                   \* the next task to push
  wpc,                         \* where each worker is
  held,                        \* the task each worker has popped, or NULL
  update_pos_tasks_completed,  \* the parts whose positions' event is set
  update_vec_tasks_completed,  \* the parts whose vectors' event is set
  normals_generated,           \* is that event set?
  success,                     \* Model::success
  done,                        \* history: how often each task ran in this update
  lost                         \* history: did an overtaken push lose its task?

eventVars == <<update_pos_tasks_completed, update_vec_tasks_completed, normals_generated>>
historyVars == <<done, lost>>
workVars == <<wpc, held>>
vars == <<queueVars, mpc, args, next_push, workVars, eventVars, success, historyVars>>

MainPc == {"idle", "success", "unset_vec", "unset_normals", "push", "publish",
           "wait", "read", "stopped"}
WorkerPc == {"wait", "pop", "execute", "run", "abort", "abort_queue", "ended"}
Args == [start : Vertex, num : 0 .. VerticesNum, update_vectors : BOOLEAN]

TypeOK ==
  /\ QueueTypeOK
  /\ mpc \in MainPc
  /\ args \in Args
  /\ next_push \in Task \cup {last_task + 1}
  /\ wpc \in [Worker -> WorkerPc]
  /\ held \in [Worker -> Task \cup {NULL}]
  /\ update_pos_tasks_completed \subseteq Part
  /\ update_vec_tasks_completed \subseteq Part
  /\ normals_generated \in BOOLEAN
  /\ success \in BOOLEAN
  /\ done \in [Task -> Nat]
  /\ lost \in BOOLEAN

\* The first task of an update, and all of them.
first_task ==
  IF ~ args.update_vectors THEN update_task(0)
  ELSE IF GeneratesNormals THEN gen_normals_task ELSE update_vectors_task(0)
Scheduled == first_task .. last_task

\* After the constructor: all events are set, and no update was asked for.
Init ==
  /\ QueueInit
  /\ mpc = "idle"
  /\ args = [start |-> 0, num |-> 0, update_vectors |-> FALSE]
  /\ next_push = 0
  /\ wpc = [w \in Worker |-> "wait"]
  /\ held = [w \in Worker |-> NULL]
  /\ update_pos_tasks_completed = Part
  /\ update_vec_tasks_completed = Part
  /\ normals_generated = TRUE
  /\ success = TRUE
  /\ done = [t \in Task |-> 1]
  /\ lost = FALSE

-----------------------------------------------------------------------------
(* The main thread: update_vertices_async() and wait_for_update().         *)

MainGoes(from, to) == mpc = from /\ mpc' = to

\* A range that is not accepted is an error, which throws and ends run().
RefuseArgs(start, num, compatible) ==
  /\ ~ ArgsAccepted(start, num, compatible)
  /\ MainGoes("idle", "stopped")
  /\ UNCHANGED <<queueVars, args, next_push, workVars, eventVars, success, historyVars>>

BeginUpdate(start, num, compatible, update_vectors) ==
  /\ ArgsAccepted(start, num, compatible)
  /\ MainGoes("idle", "success")
  /\ args' = [start |-> ArgsStart(start, num), num |-> ArgsNum(start, num),
              update_vectors |-> update_vectors]
  /\ update_pos_tasks_completed' = {}
  /\ done' = [t \in Task |-> 0]
  /\ UNCHANGED <<queueVars, next_push, workVars, update_vec_tasks_completed,
                 normals_generated, success, lost>>

StoreSuccess ==
  /\ MainGoes("success", IF args.update_vectors THEN "unset_vec" ELSE "push")
  /\ success' = TRUE
  /\ next_push' = first_task
  /\ UNCHANGED <<queueVars, args, workVars, eventVars, historyVars>>

UnsetVectors ==
  /\ MainGoes("unset_vec", IF GeneratesNormals THEN "unset_normals" ELSE "push")
  /\ update_vec_tasks_completed' = {}
  /\ UNCHANGED <<queueVars, args, next_push, workVars, update_pos_tasks_completed,
                 normals_generated, success, historyVars>>

\* Variant that leaves the event of the normals set.
UnsetNormalsForgotten ==
  /\ MainGoes("unset_normals", "push")
  /\ UNCHANGED <<queueVars, args, next_push, workVars, eventVars, success, historyVars>>

UnsetNormals ==
  /\ MainGoes("unset_normals", "push")
  /\ normals_generated' = FALSE
  /\ UNCHANGED <<queueVars, args, next_push, workVars, update_pos_tasks_completed,
                 update_vec_tasks_completed, success, historyVars>>

\* Variant that pushes the tasks of an update in the opposite order.
PushTaskReversed ==
  /\ MainGoes("push", "publish")
  /\ PushStore(first_task + last_task - next_push, next_push = last_task)
  /\ UNCHANGED <<args, next_push, workVars, eventVars, success, historyVars>>

\* Variant that does not announce the last task.
PushTaskSilently ==
  /\ MainGoes("push", "publish")
  /\ PushStore(next_push, FALSE)
  /\ UNCHANGED <<args, next_push, workVars, eventVars, success, historyVars>>

PushTask ==
  /\ MainGoes("push", "publish")
  /\ PushStore(next_push, next_push = last_task)
  /\ UNCHANGED <<args, next_push, workVars, eventVars, success, historyVars>>

\* Variant whose loop runs once too often.
PublishTaskOnceMore ==
  /\ MainGoes("publish", IF next_push > last_task THEN "wait" ELSE "push")
  /\ PushPublish
  /\ next_push' = next_push + 1
  /\ lost' = (lost \/ pushing.overtaken)
  /\ UNCHANGED <<args, workVars, eventVars, success, done>>

PublishTask ==
  /\ MainGoes("publish", IF next_push = last_task THEN "wait" ELSE "push")
  /\ PushPublish
  /\ next_push' = next_push + 1
  /\ lost' = (lost \/ pushing.overtaken)
  /\ UNCHANGED <<args, workVars, eventVars, success, done>>

\* Variant that waits for the positions only.
AwaitPositionsOnly ==
  /\ update_pos_tasks_completed = Part
  /\ MainGoes("wait", IF success THEN "read" ELSE "stopped")
  /\ UNCHANGED <<queueVars, args, next_push, workVars, eventVars, success, historyVars>>

\* wait_for_update(); a failure is thrown to run().
AwaitUpdate ==
  /\ update_pos_tasks_completed = Part
  /\ update_vec_tasks_completed = Part
  /\ MainGoes("wait", IF success THEN "read" ELSE "stopped")
  /\ UNCHANGED <<queueVars, args, next_push, workVars, eventVars, success, historyVars>>

\* The buffer is unlocked and drawn; while mpc = "read", it is being read.
ReadVertices ==
  /\ MainGoes("read", "idle")
  /\ UNCHANGED <<queueVars, args, next_push, workVars, eventVars, success, historyVars>>

Main ==
  \/ \E start \in Vertex \cup {VerticesNum}, num \in ALL_VERTICES .. VerticesNum + 1,
        compatible, update_vectors \in BOOLEAN :
       \/ RefuseArgs(start, num, compatible)
       \/ BeginUpdate(start, num, compatible, update_vectors)
  \/ StoreSuccess \/ UnsetVectors \/ UnsetNormals \/ PushTask \/ PublishTask
  \/ AwaitUpdate \/ ReadVertices

-----------------------------------------------------------------------------
(* The worker threads: WorkerThread::work and the tasks' execute().        *)

WorkerGoes(w, from, to) == wpc[w] = from /\ wpc' = [wpc EXCEPT ![w] = to]

WaitForTasks(w) ==
  /\ has_tasks_event
  /\ WorkerGoes(w, "wait", "pop")
  /\ UNCHANGED <<queueVars, mpc, args, next_push, held, eventVars, success, historyVars>>

PopTask(w) ==
  /\ \E task \in Task \cup {NULL} :
       /\ Pop(task)
       /\ held' = [held EXCEPT ![w] = task]
       /\ WorkerGoes(w, "pop", IF task = NULL THEN "wait" ELSE "execute")
  /\ UNCHANGED <<mpc, args, next_push, eventVars, success, historyVars>>

\* The vectors' task waits until the normals are generated.
StartTask(w) ==
  /\ IsVectorsTask(held[w]) => normals_generated
  /\ WorkerGoes(w, "execute", "run")
  /\ UNCHANGED <<queueVars, mpc, args, next_push, held, eventVars, success, historyVars>>

\* The task has run, and its event is set; an abort in the meantime makes it
\* skip the rest of its part, but not the event.
TaskReturns(w) ==
  /\ WorkerGoes(w, "run", "wait")
  /\ held' = [held EXCEPT ![w] = NULL]
  /\ done' = [done EXCEPT ![held[w]] = @ + 1]
  /\ UNCHANGED <<queueVars, mpc, args, next_push, success, lost>>

GenerateNormals(w) ==
  /\ held[w] = gen_normals_task
  /\ TaskReturns(w)
  /\ normals_generated' = TRUE
  /\ UNCHANGED <<update_pos_tasks_completed, update_vec_tasks_completed>>

UpdateVectors(w) ==
  /\ IsVectorsTask(held[w])
  /\ TaskReturns(w)
  /\ update_vec_tasks_completed' = update_vec_tasks_completed \cup {PartOf(held[w])}
  /\ UNCHANGED <<update_pos_tasks_completed, normals_generated>>

UpdatePositions(w) ==
  /\ IsPositionsTask(held[w])
  /\ TaskReturns(w)
  /\ update_pos_tasks_completed' = update_pos_tasks_completed \cup {PartOf(held[w])}
  /\ UNCHANGED <<update_vec_tasks_completed, normals_generated>>

\* An error in the task throws; work() catches it and calls abort(), of which
\* the flag and the queue matter here, and the thread ends.
TaskFails(w) ==
  /\ MayFail
  /\ WorkerGoes(w, "run", "abort")
  /\ UNCHANGED <<queueVars, mpc, args, next_push, held, eventVars, success, historyVars>>

AbortFlag(w) ==
  /\ WorkerGoes(w, "abort", "abort_queue")
  /\ success' = FALSE
  /\ UNCHANGED <<queueVars, mpc, args, next_push, held, eventVars, historyVars>>

AbortQueue(w) ==
  /\ WorkerGoes(w, "abort_queue", "ended")
  /\ Clear
  /\ held' = [held EXCEPT ![w] = NULL]
  /\ UNCHANGED <<mpc, args, next_push, eventVars, success, historyVars>>

Work(w) ==
  \/ WaitForTasks(w) \/ PopTask(w) \/ StartTask(w) \/ GenerateNormals(w)
  \/ UpdateVectors(w) \/ UpdatePositions(w) \/ TaskFails(w) \/ AbortFlag(w)
  \/ AbortQueue(w)

Next == Main \/ \E w \in Worker : Work(w)

Spec == Init /\ [][Next]_vars

\* The operating system runs every thread.
FairSpec == Spec /\ WF_vars(Main) /\ \A w \in Worker : WF_vars(Work(w))

-----------------------------------------------------------------------------
(* Properties. *)

\* How often the positions, or the vectors, of a vertex were updated.
Updates(v, task(_)) ==
  {u \in Part \X {1, 2} :
     v \in PartVertices(args.start, args.num, u[1]) /\ done[task(u[1])] >= u[2]}

\* An update that wait_for_update() calls successful has written each vertex
\* of the range exactly once, and no other, positions and, when asked for,
\* vectors (model.h:337-349, model.cpp:879-931).
EachVertexOnce ==
  mpc = "read" => \A v \in Vertex :
    LET once == IF v \in VerticesFrom(args.start, args.num) THEN 1 ELSE 0
    IN  /\ Cardinality(Updates(v, update_task)) = once
        /\ args.update_vectors => Cardinality(Updates(v, update_vectors_task)) = once

\* Nobody writes the buffer while it is read or not locked.
BufferLeftAlone ==
  ~ lost /\ mpc \in {"read", "idle", "success"} =>
    \A w \in Worker : wpc[w] \notin {"execute", "run"}

\* A vectors' task that waits for its normals does not wait for a task that is
\* still in the queue behind it: some worker has it (model.cpp:900-914).
NormalsAreOnTheirWay ==
  ~ lost => \A w \in Worker :
    wpc[w] = "execute" /\ IsVectorsTask(held[w]) /\ ~ normals_generated =>
      \E v \in Worker : held[v] = gen_normals_task \/ wpc[v] = "ended"

\* update_vertices_async() never finds the queue full, although it does not
\* clear it first (model.cpp:458, 901-930).
PushNeverRefused == mpc = "push" => ~ is_full

Updated == INSTANCE UpdateBarrier WITH
  running   <- mpc \notin {"idle", "read", "stopped"},
  normals   <- args.update_vectors /\ GeneratesNormals /\ done[gen_normals_task] = 0,
  vectors   <- {p \in Part : args.update_vectors /\ done[update_vectors_task(p)] = 0},
  positions <- {p \in Part : done[update_task(p)] = 0},
  failed    <- ~ success

\* The threads implement the promise of an update, whatever the interleaving.
ImplementsUpdate == Updated!Spec

\* Every wait for an update returns, unless a push lost a task or one failed.
WaitReturnsUnlessLost == mpc = "wait" ~> mpc # "wait" \/ lost \/ ~ success

\* A failure releases whoever waits (model.h:312).
FailureReleasesWaiters == mpc = "wait" /\ ~ success ~> mpc # "wait"
=============================================================================
