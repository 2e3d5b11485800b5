------------------------------ MODULE SerialStep ------------------------------
(***************************************************************************)
(* A model used from one thread, with the primitives of                    *)
(* Parallel/single_thread_prim.cpp: an attempt to wait for an event that   *)
(* is not set would never end, so it reports an error, which throws.  The  *)
(* client calls the methods of Core::Model in any order, catches what they *)
(* throw and goes on.                                                      *)
(*                                                                         *)
(* Each call is one action, save compute_next_step(), which completes its  *)
(* tasks one by one.  Nothing overtakes a push here, so the queue is a     *)
(* sequence (SerialQueueIsFifo in TaskQueueThreads_proofs) and the number  *)
(* of its slots that are behind it.                                        *)
(***************************************************************************)
EXTENDS Integers, Sequences

CONSTANTS
  ClustersNum,      \* the clusters of the model
  UpdateTasksNum    \* update_tasks_num

ASSUME SerialAssumption == ClustersNum \in Nat \ {0} /\ UpdateTasksNum \in Nat \ {0}

VARIABLES
  queue, first, has_tasks_event,                          \* task_queue
  cluster_tasks_completed, step_completed, success,       \* the step
  normals_generated, update_pos_tasks_completed,          \* the update
  update_vec_tasks_completed, has_surface,
  blocking,        \* is compute_next_step() completing its tasks?
  result,          \* the last call and what came of it
  matched, integrated, broken, masked                     \* history of the step

queueVars == <<queue, first, has_tasks_event>>
stepVars == <<cluster_tasks_completed, step_completed>>
updateVars == <<normals_generated, update_pos_tasks_completed, update_vec_tasks_completed>>
history == <<matched, integrated, broken, masked>>
vars == <<queueVars, stepVars, success, updateVars, has_surface, blocking, result, history>>

Cluster == 1 .. ClustersNum
Part == 1 .. UpdateTasksNum
Size == ClustersNum + 1 + 2 * UpdateTasksNum + 1       \* init_tasks()

TasksOf(kind, num) == [i \in 1 .. num |-> <<kind, i>>]
final_task == <<"final", 0>>
gen_normals_task == <<"normals", 0>>
StepTasks == Append(TasksOf("cluster", ClustersNum), final_task)
IsStepTask(task) == task[1] \in {"cluster", "final"}
UpdateTasks(update_vectors) ==
  (IF update_vectors /\ has_surface THEN <<gen_normals_task>> ELSE <<>>)
  \o (IF update_vectors THEN TasksOf("vectors", UpdateTasksNum) ELSE <<>>)
  \o TasksOf("positions", UpdateTasksNum)

\* What a call comes to: "true", "false", "error", or "" if it returns nothing.
Returns(call, value) == result' = [call |-> call, value |-> value]

Init ==
  /\ queue = <<>> /\ first = 0 /\ has_tasks_event = FALSE
  /\ cluster_tasks_completed = Cluster /\ step_completed = TRUE /\ success = TRUE
  /\ normals_generated = TRUE
  /\ update_pos_tasks_completed = Part /\ update_vec_tasks_completed = Part
  /\ has_surface = FALSE /\ blocking = FALSE
  /\ result = [call |-> "Model", value |-> ""]
  /\ matched = Cluster /\ integrated = TRUE /\ broken = FALSE /\ masked = FALSE

SetGraphicalSurface ==
  /\ ~ blocking /\ ~ has_surface
  /\ has_surface' = TRUE /\ Returns("set_graphical_surface", "")
  /\ UNCHANGED <<queueVars, stepVars, success, updateVars, blocking, history>>

-----------------------------------------------------------------------------
(* Steps *)

ComputeNextStepAsync(is_blocking) ==
  /\ ~ blocking /\ step_completed
  /\ cluster_tasks_completed' = {} /\ step_completed' = FALSE
  /\ success' = TRUE
  /\ queue' = StepTasks /\ first' = 0 /\ has_tasks_event' = TRUE
  /\ blocking' = is_blocking /\ Returns("compute_next_step", "")
  /\ matched' = {} /\ integrated' = FALSE /\ broken' = FALSE /\ masked' = FALSE
  /\ UNCHANGED <<updateVars, has_surface>>

ComputeTooEarly ==
  /\ ~ blocking /\ ~ step_completed
  /\ Returns("compute_next_step", "error")
  /\ UNCHANGED <<queueVars, stepVars, success, updateVars, has_surface, blocking, history>>

\* abort(), and what would not tell the waits of it.
AbortQuietly ==
  /\ ~ blocking
  /\ queue' = <<>> /\ first' = 0 /\ has_tasks_event' = FALSE
  /\ cluster_tasks_completed' = Cluster /\ step_completed' = TRUE
  /\ Returns("abort", "")
  /\ UNCHANGED <<success, updateVars, has_surface, blocking, history>>

Abort ==
  /\ ~ blocking
  /\ success' = FALSE
  /\ queue' = <<>> /\ first' = 0 /\ has_tasks_event' = FALSE
  /\ cluster_tasks_completed' = Cluster /\ step_completed' = TRUE
  /\ Returns("abort", "")
  /\ UNCHANGED <<updateVars, has_surface, blocking, history>>

-----------------------------------------------------------------------------
(* update_vertices_async(), for arguments that are accepted.  The first    *)
(* push that finds the queue full ends it.                                 *)

UpdateClearsQueue(update_vectors) ==
  /\ ~ blocking
  /\ queue' = UpdateTasks(update_vectors) /\ first' = 0 /\ has_tasks_event' = TRUE
  /\ success' = TRUE /\ masked' = (masked \/ ~ success)
  /\ update_pos_tasks_completed' = {}
  /\ update_vec_tasks_completed' = IF update_vectors THEN {} ELSE update_vec_tasks_completed
  /\ normals_generated' = (normals_generated /\ ~ (update_vectors /\ has_surface))
  /\ Returns("update_vertices_async", "")
  /\ UNCHANGED <<stepVars, has_surface, blocking, matched, integrated, broken>>

UpdateVerticesAsync(update_vectors) ==
  LET pushed == queue \o UpdateTasks(update_vectors)
      full == first + Len(pushed) > Size
  IN  /\ ~ blocking
      /\ queue' = IF full THEN SubSeq(pushed, 1, Size - first) ELSE pushed
      /\ has_tasks_event' = (has_tasks_event \/ ~ full)
      /\ success' = TRUE /\ masked' = (masked \/ ~ success)
      /\ update_pos_tasks_completed' = {}
      /\ update_vec_tasks_completed' = IF update_vectors THEN {} ELSE update_vec_tasks_completed
      /\ normals_generated' = (normals_generated /\ ~ (update_vectors /\ has_surface))
      /\ Returns("update_vertices_async", IF full THEN "error" ELSE "")
      /\ UNCHANGED <<first, stepVars, has_surface, blocking, matched, integrated, broken>>

-----------------------------------------------------------------------------
(* complete_next_task(), called by the client or by compute_next_step(),   *)
(* which returns with the last task and throws what a task throws.         *)

Popped(task) ==
  /\ queue # <<>> /\ task = Head(queue)
  /\ queue' = Tail(queue)
  /\ first' = IF Len(queue) = 1 THEN 0 ELSE first + 1
  /\ has_tasks_event' = (has_tasks_event /\ Len(queue) # 1)

Completed ==
  /\ Returns("complete_next_task", "true")
  /\ UNCHANGED <<success, has_surface, blocking, masked>>

Throws ==
  /\ Returns("complete_next_task", "error") /\ blocking' = FALSE
  /\ UNCHANGED <<success, stepVars, updateVars, has_surface, matched, integrated, masked>>

PopNothing ==
  /\ queue = <<>>
  /\ Returns("complete_next_task", "false") /\ blocking' = FALSE
  /\ UNCHANGED <<queueVars, stepVars, success, updateVars, has_surface, history>>

MatchShape(c) ==
  /\ Popped(<<"cluster", c>>) /\ Completed
  /\ cluster_tasks_completed' = cluster_tasks_completed \cup (IF success THEN {c} ELSE {})
  /\ matched' = matched \cup (IF success THEN {c} ELSE {})
  /\ UNCHANGED <<step_completed, updateVars, integrated, broken>>

Integrate ==
  /\ Popped(final_task) /\ cluster_tasks_completed = Cluster /\ Completed
  /\ step_completed' = (step_completed \/ success)
  /\ integrated' = (integrated \/ success)
  /\ UNCHANGED <<cluster_tasks_completed, updateVars, matched, broken>>

IntegrateTooEarly ==
  /\ Popped(final_task) /\ cluster_tasks_completed # Cluster /\ Throws
  /\ UNCHANGED broken

GenerateNormals ==
  /\ Popped(gen_normals_task) /\ Completed
  /\ normals_generated' = TRUE
  /\ UNCHANGED <<stepVars, update_pos_tasks_completed, update_vec_tasks_completed,
                 matched, integrated, broken>>

UpdateVectors(i) ==
  /\ Popped(<<"vectors", i>>) /\ normals_generated /\ Completed
  /\ update_vec_tasks_completed' = update_vec_tasks_completed \cup {i}
  /\ UNCHANGED <<stepVars, normals_generated, update_pos_tasks_completed,
                 matched, integrated, broken>>

UpdateVectorsTooEarly(i) ==
  /\ Popped(<<"vectors", i>>) /\ ~ normals_generated /\ Throws
  /\ UNCHANGED broken

UpdatePositions(i) ==
  /\ Popped(<<"positions", i>>) /\ Completed
  /\ update_pos_tasks_completed' = update_pos_tasks_completed \cup {i}
  /\ UNCHANGED <<stepVars, normals_generated, update_vec_tasks_completed,
                 matched, integrated, broken>>

\* An error of the computation itself: bad forces, a degenerate cluster, ...
TaskFails ==
  /\ queue # <<>>
  /\ Popped(Head(queue)) /\ Throws
  /\ broken' = (broken \/ IsStepTask(Head(queue)))

CompleteNextTask ==
  \/ PopNothing \/ Integrate \/ IntegrateTooEarly \/ GenerateNormals \/ TaskFails
  \/ \E c \in Cluster : MatchShape(c)
  \/ \E i \in Part : UpdateVectors(i) \/ UpdateVectorsTooEarly(i) \/ UpdatePositions(i)

-----------------------------------------------------------------------------
(* The waits, of which those for results return `success'.                 *)

Wait(call, event, returned) ==
  /\ ~ blocking
  /\ Returns(call, IF ~ event THEN "error" ELSE IF returned THEN "true" ELSE "false")
  /\ UNCHANGED <<queueVars, stepVars, success, updateVars, has_surface, blocking, history>>

Waits ==
  \/ Wait("wait_for_tasks", has_tasks_event, TRUE)
  \/ Wait("wait_for_clusters", cluster_tasks_completed = Cluster, success)
  \/ Wait("wait_for_step", step_completed, success)
  \/ Wait("wait_for_update", update_pos_tasks_completed = Part /\ update_vec_tasks_completed = Part,
          success)

Next ==
  \/ SetGraphicalSurface \/ ComputeTooEarly \/ Abort \/ CompleteNextTask \/ Waits
  \/ \E b \in BOOLEAN : ComputeNextStepAsync(b) \/ UpdateVerticesAsync(b)

Spec == Init /\ [][Next]_vars

-----------------------------------------------------------------------------
(* Properties *)

\* A wait that returns true means that the work was done: every cluster was matched in
\* this step, and for the whole step, integrated after that.  An update that is begun
\* after an abort sets the flag to true again, and takes that meaning from the wait.
TrueMeansDone ==
  result.value = "true" /\ ~ masked =>
    /\ result.call \in {"wait_for_clusters", "wait_for_step"} => matched = Cluster
    /\ result.call = "wait_for_step" => integrated

\* Unless a task of the step has failed, the step can always be completed by completing
\* the tasks in the queue, at whose head stands what it still needs, in the right order,
\* whatever updates were begun, dropped or refused in between.  So no wait of a task throws,
\* and a blocking compute_next_step() that returns has computed the step.
OnlyFailuresBlock ==
  ~ broken =>
    /\ ~ step_completed =>
         \E completed \in 0 .. ClustersNum :
           LET left == ClustersNum + 1 - completed
           IN  /\ matched = 1 .. completed
               /\ left <= Len(queue)
               /\ \A i \in 1 .. Len(queue) :
                    IF i <= left THEN queue[i] = StepTasks[completed + i]
                                 ELSE ~ IsStepTask(queue[i])
    /\ blocking /\ queue = <<>> => step_completed /\ integrated
=============================================================================
