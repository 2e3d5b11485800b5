-------------------------- MODULE SerialStep_proofs --------------------------
(***************************************************************************)
(* What a wait that returned true says, and what can keep a step from      *)
(* being completed, for any number of clusters and of update tasks and any *)
(* order of calls.                                                         *)
(***************************************************************************)
EXTENDS SerialStep, TLAPS

\* What the flags of a model say of its step: as long as nothing was aborted, or an
\* update has hidden it, the events of the clusters and of the step are earned.
FlagsAreEarned ==
  success /\ ~ masked =>
    /\ cluster_tasks_completed \subseteq matched
    /\ step_completed => matched = Cluster /\ integrated

SerialTypes ==
  /\ matched \in SUBSET Cluster /\ cluster_tasks_completed \in SUBSET Cluster
  /\ success \in BOOLEAN /\ masked \in BOOLEAN
  /\ integrated \in BOOLEAN /\ step_completed \in BOOLEAN

Inv == SerialTypes /\ FlagsAreEarned /\ TrueMeansDone

-----------------------------------------------------------------------------
\* What neither touches the flags nor returns true cannot disturb the invariant.
LEMMA FlagsUntouched ==
  ASSUME Inv, result'.value # "true",
         UNCHANGED <<cluster_tasks_completed, step_completed, success,
                     matched, integrated, masked>>
  PROVE  Inv'
BY DEF Inv, SerialTypes, FlagsAreEarned, TrueMeansDone, Cluster

\* No call but a wait, and a task that was completed, returns true.
LEMMA WaitKeeps ==
  ASSUME Inv, Waits
  PROVE  Inv'
<1>1. UNCHANGED <<queueVars, stepVars, success, updateVars, has_surface, blocking, history>>
  BY DEF Waits, Wait
<1>2. SerialTypes' /\ FlagsAreEarned'
  BY <1>1 DEF Inv, SerialTypes, FlagsAreEarned, stepVars, history, Cluster
<1>4. TrueMeansDone'
  <2>1. CASE Wait("wait_for_tasks", has_tasks_event, TRUE)
    BY <2>1 DEF Wait, Returns, TrueMeansDone
  <2>2. CASE Wait("wait_for_clusters", cluster_tasks_completed = Cluster, success)
    <3>1. result' = [call |-> "wait_for_clusters",
                     value |-> IF ~ (cluster_tasks_completed = Cluster) THEN "error"
                               ELSE IF success THEN "true" ELSE "false"]
      BY <2>2 DEF Wait, Returns
    <3>2. result'.value = "true" => cluster_tasks_completed = Cluster /\ success
      BY <3>1
    <3>3. result'.value = "true" /\ ~ masked => matched = Cluster
      BY <3>2 DEF Inv, SerialTypes, FlagsAreEarned
    <3> QED BY <1>1, <3>1, <3>3 DEF TrueMeansDone, history, Cluster
  <2>3. CASE Wait("wait_for_step", step_completed, success)
    <3>1. result' = [call |-> "wait_for_step",
                     value |-> IF ~ step_completed THEN "error"
                               ELSE IF success THEN "true" ELSE "false"]
      BY <2>3 DEF Wait, Returns
    <3>2. result'.value = "true" => step_completed /\ success
      BY <3>1
    <3>3. result'.value = "true" /\ ~ masked => matched = Cluster /\ integrated
      BY <3>2 DEF Inv, FlagsAreEarned
    <3> QED BY <1>1, <3>1, <3>3 DEF TrueMeansDone, history, Cluster
  <2>4. CASE Wait("wait_for_update",
                  update_pos_tasks_completed = Part /\ update_vec_tasks_completed = Part, success)
    BY <2>4 DEF Wait, Returns, TrueMeansDone
  <2> QED BY <2>1, <2>2, <2>3, <2>4 DEF Waits
<1> QED BY <1>2, <1>4 DEF Inv

\* A step, an update or an abort that begins makes the flags say so.
LEMMA CallKeeps ==
  ASSUME Inv,
         \/ SetGraphicalSurface \/ ComputeTooEarly \/ Abort
         \/ \E b \in BOOLEAN : ComputeNextStepAsync(b) \/ UpdateVerticesAsync(b)
  PROVE  Inv'
<1>1. CASE SetGraphicalSurface
  BY <1>1, FlagsUntouched DEF SetGraphicalSurface, Returns, stepVars, history
<1>2. CASE ComputeTooEarly
  BY <1>2, FlagsUntouched DEF ComputeTooEarly, Returns, stepVars, history
<1>3. CASE Abort
  BY <1>3 DEF Abort, Inv, SerialTypes, FlagsAreEarned, TrueMeansDone, Returns, history, Cluster
<1>4. ASSUME NEW b \in BOOLEAN, ComputeNextStepAsync(b) PROVE Inv'
  BY <1>4 DEF ComputeNextStepAsync, Inv, SerialTypes, FlagsAreEarned, TrueMeansDone, Returns, Cluster
<1>5. ASSUME NEW b \in BOOLEAN, UpdateVerticesAsync(b) PROVE Inv'
  <2>1. /\ UNCHANGED <<cluster_tasks_completed, step_completed, matched, integrated>>
        /\ success' = TRUE /\ masked' = (masked \/ ~ success)
        /\ result'.value # "true"
    BY <1>5 DEF UpdateVerticesAsync, Returns, stepVars
  <2> QED BY <2>1 DEF Inv, SerialTypes, FlagsAreEarned, TrueMeansDone, Cluster
<1> QED BY <1>1, <1>2, <1>3, <1>4, <1>5

\* Whatever task runs, the events it sets are those of work it did.
LEMMA TaskKeeps ==
  ASSUME Inv, CompleteNextTask
  PROVE  Inv'
<1>1. CASE PopNothing
  BY <1>1, FlagsUntouched DEF PopNothing, Returns, stepVars, history
<1>2. CASE Integrate
  BY <1>2 DEF Integrate, Completed, Inv, SerialTypes, FlagsAreEarned, TrueMeansDone, Returns, Cluster
<1>3. CASE IntegrateTooEarly \/ TaskFails
  BY <1>3, FlagsUntouched DEF IntegrateTooEarly, TaskFails, Throws, Returns, stepVars
<1>4. CASE GenerateNormals
  BY <1>4 DEF GenerateNormals, Completed, Inv, SerialTypes, FlagsAreEarned,
     TrueMeansDone, Returns, stepVars, Cluster
<1>5. ASSUME NEW c \in Cluster, MatchShape(c) PROVE Inv'
  BY <1>5 DEF MatchShape, Completed, Inv, SerialTypes, FlagsAreEarned,
     TrueMeansDone, Returns, Cluster
<1>6. ASSUME NEW i \in Part, UpdateVectors(i) \/ UpdatePositions(i) PROVE Inv'
  <2>1. /\ UNCHANGED <<cluster_tasks_completed, step_completed, success, matched, integrated, masked>>
        /\ result' = [call |-> "complete_next_task", value |-> "true"]
    BY <1>6 DEF UpdateVectors, UpdatePositions, Completed, Returns, stepVars
  <2> QED BY <2>1 DEF Inv, SerialTypes, FlagsAreEarned, TrueMeansDone, Cluster
<1>7. ASSUME NEW i \in Part, UpdateVectorsTooEarly(i) PROVE Inv'
  BY <1>7, FlagsUntouched DEF UpdateVectorsTooEarly, Throws, Returns, stepVars
<1> QED BY <1>1, <1>2, <1>3, <1>4, <1>5, <1>6, <1>7 DEF CompleteNextTask

-----------------------------------------------------------------------------
\* A wait that returns true means that the work was done (TrueMeansDone), for any number
\* of clusters, whatever the client calls and whichever tasks fail.
THEOREM TrueMeansDoneCorrect == Spec => []TrueMeansDone
<1>1. Init => Inv
  BY DEF Init, Inv, SerialTypes, FlagsAreEarned, TrueMeansDone, Cluster
<1>2. Inv /\ [Next]_vars => Inv'
  <2> SUFFICES ASSUME Inv, [Next]_vars PROVE Inv'
    OBVIOUS
  <2>1. CASE Next
    BY <2>1, WaitKeeps, CallKeeps, TaskKeeps DEF Next
  <2>2. CASE UNCHANGED vars
    BY <2>2 DEF vars, stepVars, history, Inv, SerialTypes, FlagsAreEarned, TrueMeansDone, Cluster
  <2> QED BY <2>1, <2>2
<1>3. Inv => TrueMeansDone
  BY DEF Inv
<1> QED BY <1>1, <1>2, <1>3, PTL DEF Spec

-----------------------------------------------------------------------------
(* That only failures block: what stands in the queue. *)

StepKind == {"cluster", "final"}
UpdateKind == {"normals", "vectors", "positions"}
TaskT == (StepKind \cup UpdateKind) \X Nat

\* The rest of a step of which the first `completed' tasks are done stands at the head
\* of the queue q, and nothing else of a step stands in it.
Ahead(q, completed) ==
  LET left == ClustersNum + 1 - completed
  IN  /\ left <= Len(q)
      /\ \A i \in 1 .. Len(q) : IF i <= left THEN q[i] = StepTasks[completed + i]
                                             ELSE ~ IsStepTask(q[i])

\* The queue holds tasks, and has room for what stands in it; a step under way that has
\* lost nothing yet is told of nothing else.
QueueTypes == queue \in Seq(TaskT) /\ first \in Nat /\ first + Len(queue) <= Size

Sound ==
  ~ broken /\ ~ step_completed =>
    /\ success /\ cluster_tasks_completed = matched
    /\ \E completed \in 0 .. ClustersNum : matched = 1 .. completed /\ Ahead(queue, completed)

Integrated == ~ broken /\ blocking /\ step_completed => integrated

SInv == SerialTypes /\ QueueTypes /\ Sound /\ Integrated

-----------------------------------------------------------------------------
\* A step's tasks: one for each cluster, and the one that integrates.
LEMMA StepTasksShape ==
  /\ StepTasks \in Seq(TaskT) /\ Len(StepTasks) = ClustersNum + 1
  /\ \A k \in Cluster : StepTasks[k] = <<"cluster", k>>
  /\ StepTasks[ClustersNum + 1] = final_task
<1> USE SerialAssumption
<1> DEFINE clusters == TasksOf("cluster", ClustersNum)
<1>1. clusters \in Seq(TaskT) /\ Len(clusters) = ClustersNum
      /\ \A k \in Cluster : clusters[k] = <<"cluster", k>>
  <2>1. \A k \in 1 .. ClustersNum : <<"cluster", k>> \in TaskT
    BY DEF TaskT, StepKind
  <2>2. clusters = [k \in 1 .. ClustersNum |-> <<"cluster", k>>]
    BY DEF TasksOf
  <2> QED BY <2>1, <2>2 DEF Cluster
<1>2. final_task \in TaskT
  BY DEF final_task, TaskT, StepKind
<1>3. StepTasks = Append(clusters, final_task)
  BY DEF StepTasks
<1> HIDE DEF clusters
<1> QED BY <1>1, <1>2, <1>3 DEF Cluster

LEMMA StepTasksAreOfAStep ==
  ASSUME NEW k \in 1 .. ClustersNum + 1
  PROVE  IsStepTask(StepTasks[k])
BY StepTasksShape, SerialAssumption DEF Cluster, IsStepTask, final_task

\* An update's tasks are none of a step, and they are tasks.
LEMMA UpdateTasksShape ==
  ASSUME NEW b \in BOOLEAN
  PROVE  /\ UpdateTasks(b) \in Seq(TaskT)
         /\ \A i \in 1 .. Len(UpdateTasks(b)) : ~ IsStepTask(UpdateTasks(b)[i])
<1> USE SerialAssumption
<1> DEFINE U == UpdateKind \X Nat
           one == IF b /\ has_surface THEN <<gen_normals_task>> ELSE <<>>
           two == IF b THEN TasksOf("vectors", UpdateTasksNum) ELSE <<>>
           three == TasksOf("positions", UpdateTasksNum)
<1>1. \A kind \in UpdateKind : TasksOf(kind, UpdateTasksNum) \in Seq(U)
  <2> SUFFICES ASSUME NEW kind \in UpdateKind PROVE TasksOf(kind, UpdateTasksNum) \in Seq(U)
    OBVIOUS
  <2>1. \A k \in 1 .. UpdateTasksNum : <<kind, k>> \in U
    OBVIOUS
  <2>2. TasksOf(kind, UpdateTasksNum) = [k \in 1 .. UpdateTasksNum |-> <<kind, k>>]
    BY DEF TasksOf
  <2> QED BY <2>1, <2>2
<1>2. gen_normals_task \in U
  BY DEF gen_normals_task, UpdateKind
<1>3. one \in Seq(U)
  BY <1>2
<1>4. two \in Seq(U)
  BY <1>1 DEF UpdateKind
<1>5. three \in Seq(U)
  BY <1>1 DEF UpdateKind
<1>6. UpdateTasks(b) = one \o two \o three
  BY DEF UpdateTasks
<1>7. \A u \in U : u \in TaskT /\ ~ IsStepTask(u)
  BY DEF TaskT, UpdateKind, IsStepTask
<1> HIDE DEF one, two, three, U
<1>8. UpdateTasks(b) \in Seq(U)
  BY <1>3, <1>4, <1>5, <1>6
<1>9. \A i \in 1 .. Len(UpdateTasks(b)) : UpdateTasks(b)[i] \in U
  BY <1>8
<1> QED BY <1>7, <1>8, <1>9

\* What a push adds at the tail leaves what is ahead where it was.
LEMMA PushedBehind ==
  ASSUME QueueTypes, NEW b \in BOOLEAN, UpdateVerticesAsync(b)
  PROVE  /\ QueueTypes'
         /\ Len(queue) <= Len(queue')
         /\ \A i \in 1 .. Len(queue') : IF i <= Len(queue) THEN queue'[i] = queue[i]
                                        ELSE ~ IsStepTask(queue'[i])
<1> USE SerialAssumption
<1> DEFINE more == UpdateTasks(b)
           pushed == queue \o more
           full == first + Len(pushed) > Size
<1>1. more \in Seq(TaskT) /\ \A i \in 1 .. Len(more) : ~ IsStepTask(more[i])
  BY UpdateTasksShape
<1>2. queue' = (IF full THEN SubSeq(pushed, 1, Size - first) ELSE pushed) /\ first' = first
  BY DEF UpdateVerticesAsync
<1> HIDE DEF more
<1>3. pushed \in Seq(TaskT) /\ Len(pushed) = Len(queue) + Len(more)
  BY <1>1 DEF QueueTypes
<1>4. \A i \in 1 .. Len(pushed) : pushed[i] = IF i <= Len(queue) THEN queue[i]
                                              ELSE more[i - Len(queue)]
  BY <1>1 DEF QueueTypes
<1>5. \A i \in 1 .. Len(pushed) : IF i <= Len(queue) THEN pushed[i] = queue[i]
                                  ELSE ~ IsStepTask(pushed[i])
  BY <1>1, <1>3, <1>4 DEF QueueTypes
<1>6. Size \in Nat /\ Size - first \in Nat /\ Len(queue) <= Size - first
  BY DEF QueueTypes, Size
<1> HIDE DEF pushed
<1>7. CASE full
  <2>1. Size - first <= Len(pushed)
    BY <1>3, <1>6, <1>7 DEF QueueTypes
  <2>2. /\ queue' \in Seq(TaskT) /\ Len(queue') = Size - first
        /\ \A i \in 1 .. Len(queue') : queue'[i] = pushed[i]
    BY <1>2, <1>3, <1>6, <1>7, <2>1
  <2>3. QueueTypes'
    BY <1>2, <1>6, <2>2 DEF QueueTypes, Size
  <2> QED BY <1>5, <1>6, <2>1, <2>2, <2>3, <1>3
<1>8. CASE ~ full
  <2>1. queue' = pushed
    BY <1>2, <1>8
  <2>2. QueueTypes'
    BY <1>2, <1>3, <1>6, <1>8, <2>1 DEF QueueTypes, Size
  <2> QED BY <1>3, <1>5, <2>1, <2>2 DEF QueueTypes
<1> QED BY <1>7, <1>8

\* A pop moves every other task one forward, and keeps the room.
LEMMA PoppedOne ==
  ASSUME QueueTypes, NEW task, Popped(task)
  PROVE  /\ QueueTypes'
         /\ Len(queue) >= 1 /\ task = queue[1] /\ Len(queue') = Len(queue) - 1
         /\ \A i \in 1 .. Len(queue') : queue'[i] = queue[i + 1]
<1>1. queue # <<>> /\ task = Head(queue) /\ queue' = Tail(queue)
      /\ first' = IF Len(queue) = 1 THEN 0 ELSE first + 1
  BY DEF Popped
<1>2. Len(queue) >= 1 /\ task = queue[1]
  BY <1>1 DEF QueueTypes
<1>3. queue' \in Seq(TaskT) /\ Len(queue') = Len(queue) - 1
      /\ \A i \in 1 .. Len(queue') : queue'[i] = queue[i + 1]
  BY <1>1, <1>2 DEF QueueTypes
<1>4. Size \in Nat
  BY SerialAssumption DEF Size
<1>5. QueueTypes'
  BY <1>1, <1>2, <1>3, <1>4 DEF QueueTypes, Size
<1> QED BY <1>2, <1>3, <1>5

\* While a step is under way, the head of the queue is what it needs next.
LEMMA HeadIsNeeded ==
  ASSUME QueueTypes, NEW completed \in 0 .. ClustersNum, Ahead(queue, completed)
  PROVE  Len(queue) >= 1 /\ queue[1] = StepTasks[completed + 1]
BY SerialAssumption DEF QueueTypes, Ahead

\* When the task at the head is completed, the next one is.
LEMMA AheadOfNext ==
  ASSUME QueueTypes, NEW task, Popped(task),
         NEW completed \in 0 .. ClustersNum - 1, Ahead(queue, completed)
  PROVE  Ahead(queue', completed + 1)
<1> USE SerialAssumption
<1>1. Len(queue) >= 1 /\ Len(queue') = Len(queue) - 1 /\ Len(queue) \in Nat
      /\ \A i \in 1 .. Len(queue') : queue'[i] = queue[i + 1]
  BY PoppedOne DEF QueueTypes
<1> DEFINE left == ClustersNum + 1 - completed
<1>2. left <= Len(queue) /\ left - 1 = ClustersNum + 1 - (completed + 1)
  BY DEF Ahead
<1>3. \A i \in 1 .. Len(queue') : IF i <= left - 1 THEN queue'[i] = StepTasks[(completed + 1) + i]
                                  ELSE ~ IsStepTask(queue'[i])
  <2> SUFFICES ASSUME NEW i \in 1 .. Len(queue')
               PROVE  IF i <= left - 1 THEN queue'[i] = StepTasks[(completed + 1) + i]
                                       ELSE ~ IsStepTask(queue'[i])
    OBVIOUS
  <2>1. i + 1 \in 1 .. Len(queue) /\ queue'[i] = queue[i + 1]
    BY <1>1
  <2>2. IF i + 1 <= left THEN queue[i + 1] = StepTasks[completed + (i + 1)]
                         ELSE ~ IsStepTask(queue[i + 1])
    BY <2>1 DEF Ahead
  <2>3. completed + (i + 1) = (completed + 1) + i
    OBVIOUS
  <2>4. i + 1 <= left <=> i <= left - 1
    OBVIOUS
  <2> QED BY <2>1, <2>2, <2>3, <2>4
<1> QED BY <1>1, <1>2, <1>3 DEF Ahead

-----------------------------------------------------------------------------
\* The calls that begin, end or watch a step, or begin an update.
LEMMA CallsBlockNothing ==
  ASSUME SInv, SerialTypes',
         \/ SetGraphicalSurface \/ ComputeTooEarly \/ Abort \/ Waits \/ PopNothing
         \/ \E b \in BOOLEAN : ComputeNextStepAsync(b) \/ UpdateVerticesAsync(b)
  PROVE  SInv'
<1> USE SerialAssumption
<1>1. CASE SetGraphicalSurface \/ ComputeTooEarly \/ Waits \/ PopNothing
  <2>1. UNCHANGED <<queueVars, stepVars, success, history>> /\ blocking' \in {blocking, FALSE}
    BY <1>1 DEF SetGraphicalSurface, ComputeTooEarly, Waits, Wait, PopNothing
  <2>2. QueueTypes'
    BY <2>1 DEF SInv, QueueTypes, queueVars, Size
  <2>3. Sound'
    BY <2>1 DEF SInv, Sound, queueVars, stepVars, history
  <2>4. Integrated'
    BY <2>1 DEF SInv, Integrated, stepVars, history
  <2> QED BY <2>2, <2>3, <2>4 DEF SInv
<1>2. CASE Abort
  <2>1. queue' = <<>> /\ first' = 0
    BY <1>2 DEF Abort
  <2>2. <<>> \in Seq(TaskT) /\ Len(<<>>) = 0
    OBVIOUS
  <2>3. Size \in Nat
    BY DEF Size
  <2>4. QueueTypes'
    BY <2>1, <2>2, <2>3 DEF QueueTypes, Size
  <2> QED BY <1>2, <2>4 DEF SInv, Abort, Sound, Integrated
<1>3. ASSUME NEW b \in BOOLEAN, ComputeNextStepAsync(b) PROVE SInv'
  <2>1. /\ queue' = StepTasks /\ first' = 0 /\ ~ step_completed' /\ success' = TRUE
        /\ matched' = {} /\ cluster_tasks_completed' = {}
    BY <1>3 DEF ComputeNextStepAsync
  <2>2. QueueTypes'
    <3>1. 0 + Len(StepTasks) <= Size
      BY StepTasksShape DEF Size
    <3> QED BY <2>1, <3>1, StepTasksShape DEF QueueTypes, Size
  <2>3. Ahead(queue', 0)
    BY <2>1, StepTasksShape DEF Ahead
  <2>4. matched' = 1 .. 0
    BY <2>1
  <2>5. Sound'
    BY <2>1, <2>3, <2>4 DEF Sound
  <2> QED BY <2>1, <2>2, <2>5 DEF SInv, Integrated
<1>4. ASSUME NEW b \in BOOLEAN, UpdateVerticesAsync(b) PROVE SInv'
  <2>1. UNCHANGED <<stepVars, blocking, matched, integrated, broken>> /\ success' = TRUE
    BY <1>4 DEF UpdateVerticesAsync
  <2>2. /\ QueueTypes' /\ Len(queue) <= Len(queue')
        /\ \A i \in 1 .. Len(queue') : IF i <= Len(queue) THEN queue'[i] = queue[i]
                                       ELSE ~ IsStepTask(queue'[i])
    BY <1>4, PushedBehind DEF SInv
  <2>3. ASSUME NEW completed \in 0 .. ClustersNum, Ahead(queue, completed)
        PROVE  Ahead(queue', completed)
    <3> DEFINE left == ClustersNum + 1 - completed
    <3>1. left <= Len(queue) /\ \A i \in 1 .. Len(queue) :
            IF i <= left THEN queue[i] = StepTasks[completed + i] ELSE ~ IsStepTask(queue[i])
      BY <2>3 DEF Ahead
    <3>2. Len(queue) \in Nat /\ Len(queue') \in Nat /\ left \in Int
      BY <2>2 DEF SInv, QueueTypes
    <3>3. left <= Len(queue')
      BY <2>2, <3>1, <3>2
    <3>4. ASSUME NEW i \in 1 .. Len(queue')
          PROVE  IF i <= left THEN queue'[i] = StepTasks[completed + i]
                 ELSE ~ IsStepTask(queue'[i])
      <4>1. CASE i <= Len(queue)
        BY <2>2, <3>1, <3>2, <4>1
      <4>2. CASE ~ (i <= Len(queue))
        BY <2>2, <3>1, <3>2, <4>2
      <4> QED BY <4>1, <4>2
    <3> QED BY <3>3, <3>4 DEF Ahead
  <2>4. Sound'
    BY <2>1, <2>3 DEF SInv, Sound, stepVars
  <2>5. Integrated'
    BY <2>1 DEF SInv, Integrated, stepVars
  <2> QED BY <2>2, <2>4, <2>5 DEF SInv
<1> QED BY <1>1, <1>2, <1>3, <1>4

\* Of a step under way, with nothing lost, every task that comes first is one of the
\* step's: the next cluster's, or the last one, which finds every cluster matched.
LEMMA NeededNow ==
  ASSUME SInv, ~ broken, ~ step_completed, NEW task, Popped(task)
  PROVE  /\ success /\ cluster_tasks_completed = matched
         /\ \E completed \in 0 .. ClustersNum :
              /\ matched = 1 .. completed /\ Ahead(queue, completed)
              /\ task = StepTasks[completed + 1]
<1>1. PICK completed \in 0 .. ClustersNum : matched = 1 .. completed /\ Ahead(queue, completed)
  BY DEF SInv, Sound
<1>2. task = queue[1]
  BY PoppedOne DEF SInv
<1>3. queue[1] = StepTasks[completed + 1]
  BY <1>1, HeadIsNeeded DEF SInv
<1> QED BY <1>1, <1>2, <1>3 DEF SInv, Sound

\* A task of an update never comes first then, nor the integration before the clusters.
LEMMA NoUpdateTaskNow ==
  ASSUME SInv, ~ broken, NEW task, Popped(task), ~ IsStepTask(task)
  PROVE  step_completed
<1> SUFFICES ASSUME ~ step_completed PROVE FALSE
  OBVIOUS
<1>1. PICK completed \in 0 .. ClustersNum : task = StepTasks[completed + 1]
  BY NeededNow
<1>2. completed + 1 \in 1 .. ClustersNum + 1
  BY SerialAssumption
<1> QED BY <1>1, <1>2, StepTasksAreOfAStep

LEMMA IntegratedInTime ==
  ASSUME SInv, ~ broken, ~ step_completed, Popped(final_task)
  PROVE  cluster_tasks_completed = Cluster
<1>1. PICK completed \in 0 .. ClustersNum :
        /\ matched = 1 .. completed /\ final_task = StepTasks[completed + 1]
  BY NeededNow
<1>2. completed = ClustersNum
  <2>1. ASSUME completed # ClustersNum PROVE FALSE
    <3>1. completed + 1 \in Cluster
      BY <2>1, SerialAssumption DEF Cluster
    <3>2. StepTasks[completed + 1] = <<"cluster", completed + 1>>
      BY <3>1, StepTasksShape
    <3> QED BY <1>1, <3>2 DEF final_task
  <2> QED BY <2>1
<1> QED BY <1>1, <1>2, NeededNow DEF Cluster

\* Whatever task comes first, the step goes on as it should.
LEMMA TasksBlockNothing ==
  ASSUME SInv, SerialTypes', CompleteNextTask
  PROVE  SInv'
<1> USE SerialAssumption
<1>1. CASE PopNothing
  BY <1>1, CallsBlockNothing
<1>2. CASE Integrate
  <2>1. /\ Popped(final_task) /\ cluster_tasks_completed = Cluster
        /\ step_completed' = (step_completed \/ success)
        /\ integrated' = (integrated \/ success)
        /\ UNCHANGED <<broken, blocking>>
    BY <1>2 DEF Integrate, Completed
  <2>2. QueueTypes'
    BY <2>1, PoppedOne DEF SInv
  <2>3. ~ broken /\ ~ step_completed => success
    BY DEF SInv, Sound
  <2>4. Sound'
    BY <2>1, <2>3 DEF Sound
  <2>5. Integrated'
    BY <2>1, <2>3 DEF SInv, Integrated
  <2> QED BY <2>2, <2>4, <2>5 DEF SInv
<1>3. CASE IntegrateTooEarly
  <2>1. /\ Popped(final_task) /\ cluster_tasks_completed # Cluster /\ ~ blocking'
        /\ UNCHANGED <<broken, step_completed>>
    BY <1>3 DEF IntegrateTooEarly, Throws, stepVars
  <2>2. QueueTypes'
    BY <2>1, PoppedOne DEF SInv
  <2>3. broken \/ step_completed
    BY <2>1, IntegratedInTime
  <2> QED BY <2>1, <2>2, <2>3 DEF SInv, Sound, Integrated
<1>4. CASE GenerateNormals
  <2>1. Popped(gen_normals_task) /\ UNCHANGED <<stepVars, broken, blocking, integrated>>
    BY <1>4 DEF GenerateNormals, Completed
  <2>2. QueueTypes'
    BY <2>1, PoppedOne DEF SInv
  <2>3. ~ IsStepTask(gen_normals_task)
    BY DEF IsStepTask, gen_normals_task
  <2>4. broken \/ step_completed
    BY <2>1, <2>3, NoUpdateTaskNow
  <2> QED BY <2>1, <2>2, <2>4 DEF SInv, Sound, Integrated, stepVars
<1>5. CASE TaskFails
  <2>1. /\ Popped(Head(queue)) /\ ~ blocking' /\ UNCHANGED stepVars
        /\ broken' = (broken \/ IsStepTask(Head(queue)))
    BY <1>5 DEF TaskFails, Throws
  <2>2. QueueTypes'
    BY <2>1, PoppedOne DEF SInv
  <2>3. broken' \/ step_completed
    BY <2>1, NoUpdateTaskNow
  <2> QED BY <2>1, <2>2, <2>3 DEF SInv, Sound, Integrated, stepVars
<1>6. ASSUME NEW c \in Cluster, MatchShape(c) PROVE SInv'
  <2>1. /\ Popped(<<"cluster", c>>)
        /\ cluster_tasks_completed' = cluster_tasks_completed \cup (IF success THEN {c} ELSE {})
        /\ matched' = matched \cup (IF success THEN {c} ELSE {})
        /\ UNCHANGED <<step_completed, integrated, broken, success, blocking>>
    BY <1>6 DEF MatchShape, Completed
  <2>2. QueueTypes'
    BY <2>1, PoppedOne DEF SInv
  <2>3. ASSUME ~ broken, ~ step_completed
        PROVE  /\ success' /\ cluster_tasks_completed' = matched'
               /\ \E completed \in 0 .. ClustersNum : matched' = 1 .. completed /\ Ahead(queue', completed)
    <3>1. success /\ cluster_tasks_completed = matched
      BY <2>1, <2>3, NeededNow
    <3>2. PICK completed \in 0 .. ClustersNum :
            /\ matched = 1 .. completed /\ Ahead(queue, completed)
            /\ <<"cluster", c>> = StepTasks[completed + 1]
      BY <2>1, <2>3, NeededNow
    <3>3. completed # ClustersNum
      BY <3>2, StepTasksShape DEF final_task
    <3>4. completed + 1 \in Cluster
      BY <3>3 DEF Cluster
    <3>5. c = completed + 1
      BY <3>2, <3>4, StepTasksShape
    <3>6. matched' = 1 .. (completed + 1)
      BY <2>1, <3>1, <3>2, <3>5
    <3>7. Ahead(queue', completed + 1)
      BY <2>1, <3>2, <3>3, AheadOfNext DEF SInv
    <3>8. completed + 1 \in 0 .. ClustersNum
      BY <3>4 DEF Cluster
    <3> QED BY <2>1, <3>1, <3>6, <3>7, <3>8
  <2>4. Sound'
    BY <2>1, <2>3 DEF Sound
  <2>5. Integrated'
    BY <2>1 DEF SInv, Integrated
  <2> QED BY <2>2, <2>4, <2>5 DEF SInv
<1>7. ASSUME NEW i \in Part, UpdateVectors(i) \/ UpdateVectorsTooEarly(i) \/ UpdatePositions(i)
      PROVE  SInv'
  <2>1. PICK task \in {<<"vectors", i>>, <<"positions", i>>} : Popped(task)
    BY <1>7 DEF UpdateVectors, UpdateVectorsTooEarly, UpdatePositions
  <2>2. UNCHANGED <<stepVars, broken, integrated>> /\ blocking' \in {blocking, FALSE}
    BY <1>7 DEF UpdateVectors, UpdateVectorsTooEarly, UpdatePositions, Completed, Throws
  <2>3. QueueTypes'
    BY <2>1, PoppedOne DEF SInv
  <2>4. ~ IsStepTask(task)
    BY <2>1 DEF IsStepTask
  <2>5. broken \/ step_completed
    BY <2>1, <2>4, NoUpdateTaskNow
  <2>6. Sound'
    BY <2>2, <2>5 DEF Sound, stepVars
  <2>7. Integrated'
    BY <2>2 DEF SInv, Integrated, stepVars
  <2> QED BY <2>3, <2>6, <2>7 DEF SInv
<1> QED BY <1>1, <1>2, <1>3, <1>4, <1>5, <1>6, <1>7 DEF CompleteNextTask

-----------------------------------------------------------------------------
\* Unless a task of the step fails, completing the tasks in the queue completes the step,
\* whatever is called in between (OnlyFailuresBlock), for any number of clusters and tasks.
THEOREM OnlyFailuresBlockCorrect == Spec => []OnlyFailuresBlock
<1> USE SerialAssumption
<1>1. Init => Inv /\ SInv
  <2> SUFFICES ASSUME Init PROVE Inv /\ SInv
    OBVIOUS
  <2>1. Inv
    BY DEF Init, Inv, SerialTypes, FlagsAreEarned, TrueMeansDone, Cluster
  <2>2. <<>> \in Seq(TaskT) /\ Len(<<>>) = 0
    OBVIOUS
  <2>3. Size \in Nat
    BY DEF Size
  <2>4. queue = <<>> /\ first = 0 /\ step_completed /\ ~ blocking
    BY DEF Init
  <2>5. QueueTypes
    BY <2>2, <2>3, <2>4 DEF QueueTypes
  <2> QED BY <2>1, <2>4, <2>5 DEF Inv, SInv, Sound, Integrated
<1>2. Inv /\ SInv /\ [Next]_vars => (Inv /\ SInv)'
  <2> SUFFICES ASSUME Inv, SInv, [Next]_vars PROVE Inv' /\ SInv'
    OBVIOUS
  <2>1. CASE Next
    <3>1. Inv'
      BY <2>1, WaitKeeps, CallKeeps, TaskKeeps DEF Next
    <3>2. SerialTypes'
      BY <3>1 DEF Inv
    <3> QED BY <2>1, <3>1, <3>2, CallsBlockNothing, TasksBlockNothing DEF Next
  <2>2. CASE UNCHANGED vars
    BY <2>2 DEF vars, queueVars, stepVars, history, Inv, SerialTypes, FlagsAreEarned,
       TrueMeansDone, Cluster, SInv, QueueTypes, Sound, Integrated, Size
  <2> QED BY <2>1, <2>2
<1>3. SInv => OnlyFailuresBlock
  <2> SUFFICES ASSUME SInv, ~ broken PROVE
        /\ ~ step_completed =>
             \E completed \in 0 .. ClustersNum : matched = 1 .. completed /\ Ahead(queue, completed)
        /\ blocking /\ queue = <<>> => step_completed /\ integrated
    BY DEF OnlyFailuresBlock, Ahead
  <2>1. ~ step_completed =>
          \E completed \in 0 .. ClustersNum : matched = 1 .. completed /\ Ahead(queue, completed)
    BY DEF SInv, Sound
  <2>2. ~ step_completed => Len(queue) >= 1
    BY <2>1, HeadIsNeeded DEF SInv
  <2>3. queue = <<>> => step_completed
    BY <2>2 DEF QueueTypes
  <2> QED BY <2>1, <2>3 DEF SInv, Integrated
<1> QED BY <1>1, <1>2, <1>3, PTL DEF Spec
=============================================================================
