--------------------------- MODULE ModelUpdate_proofs ---------------------------
(***************************************************************************)
(* Proofs about the parallel update of the vertices, for any number of     *)
(* vertices, parts and workers, with and without normals and failures.     *)
(***************************************************************************)
EXTENDS ModelUpdate, TaskQueueLemmas, FiniteSetTheorems

-----------------------------------------------------------------------------
(* The parts of an update cover its range exactly: every vertex of the     *)
(* range is in one part, no two parts share a vertex, none leaves the      *)
(* range, and the range itself stays inside the model.                     *)

\* A range of vertices inside the model, and its parts.
InModel(start, num) == start \in Vertex /\ num \in Nat /\ start + num <= VerticesNum

\* Division by the number of tasks, with its remainder.
LEMMA DivisionFacts ==
  ASSUME NEW num \in Nat
  PROVE  /\ part_size(num) \in Nat
         /\ UpdateTasksNum * part_size(num) <= num
         /\ num < UpdateTasksNum * part_size(num) + UpdateTasksNum
<1>1. num = UpdateTasksNum * (num \div UpdateTasksNum) + (num % UpdateTasksNum)
  BY UpdateTasksAssumption
<1>2. num % UpdateTasksNum \in 0 .. UpdateTasksNum - 1
  BY UpdateTasksAssumption
<1>3. num \div UpdateTasksNum \in Nat
  BY UpdateTasksAssumption
<1> QED BY <1>1, <1>2, <1>3, UpdateTasksAssumption DEF part_size

\* Multiplication by a part's size is monotonic.
LEMMA Monotonic ==
  ASSUME NEW i \in Nat, NEW j \in Nat, NEW q \in Nat, i <= j
  PROVE  i * q \in Nat /\ i * q <= j * q
<1>1. PICK d \in Nat : j = i + d
  BY SMT
<1>2. j * q = i * q + d * q
  BY <1>1
<1>3. d * q \in Nat /\ i * q \in Nat
  OBVIOUS
<1> QED BY <1>2, <1>3

\* What a part goes through: its own range, which the check of the task lets
\* pass unchanged and which lies in the range of the update.
LEMMA PartRange ==
  ASSUME NEW start, NEW num, InModel(start, num), NEW i \in Part
  PROVE  /\ i * part_size(num) \in Nat
         /\ PartVertices(start, num, i) =
              IF i = UpdateTasksNum - 1
                THEN start + i * part_size(num) .. start + num - 1
                ELSE start + i * part_size(num) .. start + i * part_size(num) + part_size(num) - 1
         /\ (i + 1) * part_size(num) <= num
         /\ my_vertices_num(num, i) \in Nat
         /\ my_start_vertex(start, num, i) + my_vertices_num(num, i) <= start + num
<1> DEFINE q == part_size(num)
<1> USE UpdateTasksAssumption, VerticesAssumption
<1>1. start \in Nat /\ num \in Nat /\ start + num <= VerticesNum /\ i \in Nat /\ i + 1 <= UpdateTasksNum
  BY DEF InModel, Part, Vertex
<1>2. q \in Nat /\ UpdateTasksNum * q <= num
  BY <1>1, DivisionFacts
<1>3. i * q \in Nat /\ (i + 1) * q <= UpdateTasksNum * q /\ (i + 1) * q = i * q + q
  <2>1. (i + 1) * q <= UpdateTasksNum * q
    BY <1>1, <1>2, Monotonic
  <2>2. i * q \in Nat
    BY <1>1, <1>2, Monotonic
  <2>3. (i + 1) * q = i * q + q
    BY <1>1, <1>2
  <2> QED BY <2>1, <2>2, <2>3
<1>4. (i + 1) * q <= num /\ (i + 1) * q \in Nat
  BY <1>1, <1>2, <1>3
<1>5. CASE i = UpdateTasksNum - 1
  <2>1. last_part_size(num) = num - q * i
    BY <1>5 DEF last_part_size
  <2>2. q * i = i * q
    BY <1>1, <1>2
  <2>3. my_vertices_num(num, i) = num - i * q /\ my_vertices_num(num, i) \in Nat
    BY <1>1, <1>2, <1>3, <1>4, <1>5, <2>1, <2>2 DEF my_vertices_num
  <2>4. my_start_vertex(start, num, i) = start + i * q
    BY DEF my_start_vertex
  <2> HIDE DEF q
  <2>5. PartVertices(start, num, i) = start + i * q .. start + num - 1
    BY <1>1, <1>2, <1>3, <2>3, <2>4
       DEF PartVertices, ArgsStart, ArgsNum, ALL_VERTICES, VerticesFrom
  <2> QED BY <1>1, <1>3, <1>4, <1>5, <2>3, <2>4, <2>5 DEF q
<1>6. CASE i # UpdateTasksNum - 1
  <2>1. my_vertices_num(num, i) = q
    BY <1>1, <1>6 DEF my_vertices_num
  <2>2. my_start_vertex(start, num, i) = start + i * q
    BY DEF my_start_vertex
  <2> HIDE DEF q
  <2>3. PartVertices(start, num, i) = start + i * q .. start + i * q + q - 1
    BY <1>1, <1>2, <1>3, <1>4, <2>1, <2>2
       DEF PartVertices, ArgsStart, ArgsNum, ALL_VERTICES, VerticesFrom
  <2> QED BY <1>1, <1>2, <1>3, <1>4, <1>6, <2>1, <2>2, <2>3 DEF q
<1> QED BY <1>5, <1>6

\* The check of the arguments hands on only ranges inside the model
\* (model.cpp:838-867); negative numbers of vertices are not asked for.
THEOREM ArgsInModel ==
  ASSUME NEW start \in Int, NEW num \in Nat \cup {ALL_VERTICES},
         ArgsAccepted(start, num, TRUE)
  PROVE  InModel(ArgsStart(start, num), ArgsNum(start, num))
BY VerticesAssumption
   DEF ArgsAccepted, ArgsStart, ArgsNum, InModel, ALL_VERTICES, Vertex

\* The check that a task repeats for its part (model.cpp:945, 989) accepts it
\* and changes nothing: no part is mistaken for ALL_VERTICES, or reported.
THEOREM PartAccepted ==
  ASSUME NEW start, NEW num, InModel(start, num), NEW i \in Part
  PROVE  LET s == my_start_vertex(start, num, i)
             n == my_vertices_num(num, i)
         IN  ArgsAccepted(s, n, TRUE) /\ ArgsStart(s, n) = s /\ ArgsNum(s, n) = n
<1> DEFINE q == part_size(num)
           iq == i * q
           s == my_start_vertex(start, num, i)
           n == my_vertices_num(num, i)
<1>1. start \in Nat /\ num \in Nat /\ start < VerticesNum /\ start + num <= VerticesNum
  BY VerticesAssumption DEF InModel, Vertex
<1>2. q \in Nat /\ i \in Nat
  BY <1>1, DivisionFacts, UpdateTasksAssumption DEF Part
<1>3. iq \in Nat /\ n \in Nat /\ s + n <= start + num /\ (i + 1) * q <= num
  BY PartRange
<1>4. (i + 1) * q = iq + q
  BY <1>2
<1>5. q = 0 => iq = 0
  BY <1>2
<1>6. s = start + iq
  BY DEF my_start_vertex
<1> HIDE DEF q, iq, s, n
<1>7. s \in Vertex /\ n # -1 /\ n <= VerticesNum - s
  BY <1>1, <1>2, <1>3, <1>4, <1>5, <1>6, VerticesAssumption DEF Vertex
<1>8. ArgsAccepted(s, n, TRUE) /\ ArgsStart(s, n) = s /\ ArgsNum(s, n) = n
  BY <1>1, <1>3, <1>7, VerticesAssumption
     DEF ArgsAccepted, ArgsStart, ArgsNum, ALL_VERTICES, Vertex
<1> QED BY <1>8 DEF s, n

\* No two parts have a vertex in common: two tasks never write the same
\* memory (model.cpp:908-930).
THEOREM PartsDisjoint ==
  ASSUME NEW start, NEW num, InModel(start, num), NEW i \in Part, NEW j \in Part, i # j
  PROVE  PartVertices(start, num, i) \cap PartVertices(start, num, j) = {}
<1> DEFINE q == part_size(num)
<1> USE UpdateTasksAssumption
<1>1. start \in Nat /\ num \in Nat /\ q \in Nat
  BY DivisionFacts DEF InModel, Vertex
<1>2. ASSUME NEW a \in Part, NEW b \in Part, a < b
      PROVE  \A v \in PartVertices(start, num, a) : v \notin PartVertices(start, num, b)
  <2>1. a \in Nat /\ b \in Nat /\ a + 1 <= b /\ a # UpdateTasksNum - 1
    BY <1>2 DEF Part
  <2>2. PartVertices(start, num, a) = start + a * q .. start + a * q + q - 1 /\ a * q \in Nat
    BY <2>1, PartRange
  <2>3. (a + 1) * q <= b * q /\ b * q \in Nat
    BY <1>1, <2>1, Monotonic
  <2>4. (a + 1) * q = a * q + q
    BY <1>1, <2>1
  <2>5. \A v \in PartVertices(start, num, b) : v \in Int /\ v >= start + b * q
    <3>1. PartVertices(start, num, b) \in
            {start + b * q .. start + num - 1, start + b * q .. start + b * q + q - 1}
      BY PartRange
    <3> HIDE DEF q
    <3> QED BY <1>1, <2>3, <3>1
  <2> HIDE DEF q
  <2> QED BY <1>1, <2>2, <2>3, <2>4, <2>5
<1>3. i < j \/ j < i
  BY DEF Part
<1> QED BY <1>2, <1>3

\* Together the parts are the range, whatever the number of vertices is to the
\* number of tasks (model.cpp:879-880): nothing is left out, and nothing that
\* was not asked for is touched.
THEOREM PartsCover ==
  ASSUME NEW start, NEW num, InModel(start, num)
  PROVE  UNION {PartVertices(start, num, i) : i \in Part} = VerticesFrom(start, num)
<1> DEFINE q == part_size(num)
           N == UpdateTasksNum
<1> USE UpdateTasksAssumption
<1>1. start \in Nat /\ num \in Nat /\ q \in Nat /\ N \in Nat \ {0}
  BY DivisionFacts DEF InModel, Vertex
<1>2. ASSUME NEW i \in Part, NEW v \in PartVertices(start, num, i)
      PROVE  v \in VerticesFrom(start, num)
  <2>1. i * q \in Nat /\ (i + 1) * q <= num /\ i \in Nat
    BY PartRange DEF Part
  <2>2. (i + 1) * q = i * q + q
    BY <1>1, <2>1
  <2>3. PartVertices(start, num, i) \in
          {start + i * q .. start + num - 1, start + i * q .. start + i * q + q - 1}
    BY PartRange
  <2> HIDE DEF q
  <2> QED BY <1>1, <1>2, <2>1, <2>2, <2>3 DEF VerticesFrom
<1>3. ASSUME NEW v \in VerticesFrom(start, num)
      PROVE  \E i \in Part : v \in PartVertices(start, num, i)
  <2> DEFINE k == v - start
  <2>1. k \in Nat /\ k < num /\ v = start + k
    BY <1>1, <1>3 DEF VerticesFrom
  <2>2. CASE k >= (N - 1) * q
    <3>1. N - 1 \in Part
      BY DEF Part
    <3>2. PartVertices(start, num, N - 1) = start + (N - 1) * q .. start + num - 1
          /\ (N - 1) * q \in Nat
      BY <3>1, PartRange
    <3> HIDE DEF q, N, k
    <3>3. v \in PartVertices(start, num, N - 1)
      BY <1>1, <2>1, <2>2, <3>2
    <3> QED BY <3>1, <3>3
  <2>3. CASE k < (N - 1) * q
    <3> DEFINE i == k \div q
               r == k % q
    <3>1. q # 0
      BY <1>1, <2>1, <2>3
    <3>2. k = q * i + r /\ i \in Nat /\ r \in 0 .. q - 1
      <4> HIDE DEF q, k
      <4> QED BY <1>1, <2>1, <3>1
    <3> HIDE DEF i, r, q, k, N
    <3>3. i < N - 1
      <4>1. SUFFICES ASSUME i >= N - 1 PROVE FALSE
        BY <1>1, <3>2
      <4>2. (N - 1) * q <= i * q
        BY <1>1, <3>2, <4>1, Monotonic
      <4>3. i * q = q * i
        BY <1>1, <3>2
      <4>4. q * i \in Nat /\ (N - 1) * q \in Int
        BY <1>1, <3>2
      <4> QED BY <1>1, <2>1, <2>3, <3>2, <4>2, <4>3, <4>4
    <3>4. i \in Part /\ i # UpdateTasksNum - 1
      BY <1>1, <3>2, <3>3 DEF Part, N
    <3>5. PartVertices(start, num, i) = start + i * q .. start + i * q + q - 1
      BY <3>4, PartRange DEF q
    <3>6. i * q = q * i /\ i * q \in Nat
      BY <1>1, <3>2
    <3>7. v \in PartVertices(start, num, i)
      BY <1>1, <2>1, <3>2, <3>5, <3>6
    <3> QED BY <3>4, <3>7
  <2>4. (N - 1) * q \in Int
    BY <1>1
  <2> QED BY <2>1, <2>2, <2>3, <2>4
<1> QED BY <1>2, <1>3

-----------------------------------------------------------------------------
(* The update.                                                             *)

Before == {"success", "unset_vec", "unset_normals"}
Pushing == mpc \in {"push", "publish"}
Updating == mpc \in {"push", "publish", "wait"}

Idle(w) == wpc[w] \in {"wait", "pop"}
Running(w) == wpc[w] \in {"execute", "run"}

\* The variables of the threads are well typed.
ThreadsTypeOK ==
  /\ mpc \in MainPc
  /\ args \in Args
  /\ next_push \in Task \cup {last_task + 1}
  /\ wpc \in [Worker -> WorkerPc]
  /\ held \in [Worker -> Task \cup {NULL}]
  /\ update_pos_tasks_completed \subseteq Part
  /\ update_vec_tasks_completed \subseteq Part
  /\ normals_generated \in BOOLEAN
  /\ success \in BOOLEAN
  /\ done \in [Task -> Nat]
  /\ lost \in BOOLEAN

\* The range of the update lies inside the model.
ArgsOK == InModel(args.start, args.num)

\* A worker that is neither idle nor ended has a task of this update.
WorkersOK ==
  \A w \in Worker :
    /\ held[w] = NULL <=> wpc[w] \in {"wait", "pop", "ended"}
    /\ held[w] # NULL => held[w] \in Scheduled

\* Outside an update there is no work, none was lost, and nothing has failed.
QuietOK ==
  ~ Updating =>
    /\ success /\ ~ lost /\ is_empty
    /\ \A w \in Worker : Idle(w)

\* What an update starts from, and what it has reached when it is read.
StagesOK ==
  /\ mpc \in Before => \A t \in Task : done[t] = 0
  /\ mpc \in {"unset_vec", "unset_normals"} => args.update_vectors /\ next_push = first_task
  /\ mpc = "unset_normals" => GeneratesNormals
  /\ mpc = "read" => \A t \in Scheduled : done[t] > 0

\* What the main thread pushes: the queue holds only tasks of this update that it
\* has pushed before.
PushOK ==
  /\ Pushing => next_push \in Scheduled /\ last + 1 <= next_push
  /\ mpc = "publish" <=> pushing # NoPush
  /\ mpc = "publish" => pushing.task = next_push
  /\ pushing.overtaken => last = -1 /\ tasks[0] \in Task /\ tasks[0] < next_push
  /\ pushing.overtaken => tasks[0] \in Scheduled
  /\ Updating => \A i \in 0 .. last : tasks[i] \in Scheduled /\ tasks[i] < next_push

\* As long as no push was lost, every task of the update is in one place only, and
\* the tasks leave the queue in the order in which they were pushed.
Ordered ==
  ~ lost =>
    /\ \A i, j \in first .. last : i < j => tasks[i] < tasks[j]
    /\ \A i \in first .. last, w \in Worker : held[w] # NULL => held[w] < tasks[i]
    /\ \A i \in first .. last, t \in Task : done[t] > 0 => t < tasks[i]
    /\ \A v, w \in Worker : v # w /\ held[v] = held[w] => held[w] = NULL
    /\ \A w \in Worker, t \in Task : done[t] > 0 => held[w] # t
    /\ \A t \in Task : done[t] <= 1
    /\ Updating =>
         /\ \A w \in Worker : held[w] # NULL => held[w] < next_push
         /\ \A t \in Task : done[t] > 0 => t < next_push

\* ... and until a worker ends, in one place at least.
Conserved ==
  Updating /\ ~ lost /\ (\A w \in Worker : wpc[w] # "ended") =>
    \A t \in Scheduled : t < next_push =>
      \/ \E i \in first .. last : tasks[i] = t
      \/ \E w \in Worker : held[w] = t
      \/ done[t] > 0

\* Task t was pushed in this update, and nobody will ever complete it.
Gone(t) ==
  /\ t \in Scheduled /\ t < next_push /\ done[t] = 0
  /\ \A i \in first .. last : tasks[i] # t
  /\ \A w \in Worker : Running(w) => held[w] # t

\* A lost push leaves a task that is gone for good, a failed one a task that is gone,
\* unless an overtaken push brings it back and is lost itself: such an update cannot
\* complete.
LossDooms ==
  /\ lost => \E t \in Task : Gone(t) /\ tasks[0] # t
  /\ ~ success \/ (\E w \in Worker : ~ Idle(w) /\ ~ Running(w)) =>
       pushing.overtaken \/ \E t \in Task : Gone(t)

\* The events tell what was done.
EventsOK ==
  /\ update_pos_tasks_completed = {p \in Part : done[update_task(p)] > 0}
  /\ args.update_vectors /\ mpc \notin {"success", "unset_vec"} =>
       update_vec_tasks_completed = {p \in Part : done[update_vectors_task(p)] > 0}
  /\ args.update_vectors /\ GeneratesNormals /\ mpc \notin Before =>
       (normals_generated <=> done[gen_normals_task] > 0)
  /\ ~ GeneratesNormals => normals_generated

\* The vectors come after the normals.
VectorsAfterNormals ==
  args.update_vectors /\ GeneratesNormals =>
    /\ \A p \in Part : done[update_vectors_task(p)] > 0 => done[gen_normals_task] > 0
    /\ \A w \in Worker : wpc[w] = "run" /\ IsVectorsTask(held[w]) => done[gen_normals_task] > 0

\* The inductive invariant.
UInv ==
  /\ QueueInv /\ ThreadsTypeOK /\ ArgsOK
  /\ WorkersOK
  /\ QuietOK
  /\ StagesOK
  /\ PushOK
  /\ Ordered
  /\ Conserved
  /\ LossDooms
  /\ EventsOK
  /\ VectorsAfterNormals

\* The types that the proofs below rely on.
LEMMA UTypes ==
  ASSUME UInv
  PROVE  /\ first \in Int /\ last \in Int /\ first >= 0 /\ last >= -1
         /\ first .. last \subseteq 0 .. last
         /\ \A i \in 0 .. last : tasks[i] \in Task
         /\ tasks \in [Slot -> Task \cup {Garbage}]
         /\ NULL \notin Task
         /\ next_push \in Int
         /\ wpc \in [Worker -> WorkerPc]
         /\ held \in [Worker -> Task \cup {NULL}]
         /\ done \in [Task -> Nat]
         /\ mpc \in MainPc
         /\ args \in Args
         /\ is_empty <=> first > last
         /\ is_empty => last = -1
         /\ pushing.overtaken => mpc = "publish"
         /\ lost \in BOOLEAN /\ success \in BOOLEAN
<1> USE SizeAssumption, UpdateTasksAssumption, TasksAssumption, PointerAssumption
<1>1. /\ first \in Int /\ last \in Int /\ first >= 0 /\ last >= -1
      /\ tasks \in [Slot -> Task \cup {Garbage}]
      /\ \A i \in 0 .. last : tasks[i] \in Task
      /\ first .. last \subseteq 0 .. last
  BY DEF UInv, QueueInv, QueueTypeOK, ReachableSlotsWritten, Slot
<1>2. next_push \in Int
  BY DEF UInv, ThreadsTypeOK, last_task
<1>3. (is_empty <=> first > last) /\ (is_empty => last = -1)
  BY DEF UInv, QueueInv, IndicesOK, is_empty
<1>4. pushing.overtaken => mpc = "publish"
  BY DEF UInv, PushOK, NoPush
<1> QED
  BY <1>1, <1>2, <1>3, <1>4 DEF UInv, ThreadsTypeOK

\* The three kinds of tasks, and which of them an update has.
LEMMA Kinds ==
  ASSUME args \in Args
  PROVE  /\ Task = 0 .. last_task /\ first_task \in Task /\ last_task \in Task
         /\ Task \subseteq Nat /\ last_task \in Nat
         /\ Scheduled = first_task .. last_task /\ Scheduled \subseteq Task
         /\ gen_normals_task \in Task
         /\ gen_normals_task \in Scheduled <=> args.update_vectors /\ GeneratesNormals
         /\ \A p \in Part :
              /\ update_task(p) \in Scheduled
              /\ update_vectors_task(p) \in Task
              /\ args.update_vectors <=> update_vectors_task(p) \in Scheduled
              /\ gen_normals_task < update_vectors_task(p)
         /\ \A t \in Scheduled :
              \/ t = gen_normals_task
              \/ \E p \in Part : t = update_vectors_task(p)
              \/ \E p \in Part : t = update_task(p)
<1> USE UpdateTasksAssumption, TasksAssumption, ModeAssumption
    DEF last_task, first_task, Scheduled, gen_normals_task, update_vectors_task, update_task, Part
<1>1. args.update_vectors \in BOOLEAN /\ UpdateTasksNum \in Nat /\ UpdateTasksNum > 0
  BY DEF Args
<1>2. first_task \in Task
  BY <1>1
<1>3. ASSUME NEW t \in Scheduled
      PROVE  \/ t = gen_normals_task
             \/ \E p \in Part : t = update_vectors_task(p)
             \/ \E p \in Part : t = update_task(p)
  <2>1. t \in 0 .. 2 * UpdateTasksNum
    BY <1>1, <1>2
  <2>2. t = 0 \/ t - 1 \in Part \/ t - 1 - UpdateTasksNum \in Part
    BY <1>1, <2>1
  <2>3. t = 1 + (t - 1) /\ t = 1 + UpdateTasksNum + (t - 1 - UpdateTasksNum)
    BY <1>1, <2>1
  <2> QED
    BY <2>2, <2>3
<1>4. ASSUME NEW p \in Part
      PROVE  /\ update_task(p) \in Scheduled
             /\ update_vectors_task(p) \in Task
             /\ args.update_vectors <=> update_vectors_task(p) \in Scheduled
             /\ gen_normals_task < update_vectors_task(p)
  BY <1>1
<1>5. gen_normals_task \in Scheduled <=> args.update_vectors /\ GeneratesNormals
  BY <1>1
<1> QED
  BY <1>1, <1>2, <1>3, <1>4, <1>5

\* What a task is called, told from its number.
LEMMA KindOf ==
  ASSUME NEW t \in Task
  PROVE  /\ IsVectorsTask(t) =>
              PartOf(t) \in Part /\ t = update_vectors_task(PartOf(t)) /\ ~ IsPositionsTask(t)
         /\ IsPositionsTask(t) =>
              PartOf(t) \in Part /\ t = update_task(PartOf(t)) /\ ~ IsVectorsTask(t)
         /\ \A p \in Part : IsVectorsTask(update_vectors_task(p)) /\ IsPositionsTask(update_task(p))
         /\ \A p, q \in Part :
              /\ update_task(p) = update_task(q) => p = q
              /\ update_vectors_task(p) = update_vectors_task(q) => p = q
              /\ update_task(p) # update_vectors_task(q)
              /\ update_task(p) # gen_normals_task /\ update_vectors_task(p) # gen_normals_task
BY UpdateTasksAssumption, TasksAssumption
   DEF last_task, gen_normals_task, update_vectors_task, update_task, Part,
       IsVectorsTask, IsPositionsTask, PartOf

\* Init establishes the invariant.
LEMMA UInvInit == Init => UInv
<1> SUFFICES ASSUME Init PROVE UInv
  OBVIOUS
<1> USE UpdateTasksAssumption, VerticesAssumption, ModeAssumption, PointerAssumption DEF Init
<1>1. QueueInv
  BY QueueInitInv
<1>2. first = 0 /\ last = -1 /\ pushing = NoPush /\ ~ pushing.overtaken /\ is_empty
  BY DEF QueueInit, NoPush, is_empty
<1>3. args \in Args /\ ArgsOK
  BY DEF Args, Vertex, ArgsOK, InModel
<1>4. ThreadsTypeOK
  <2>1. next_push \in Task
    BY TasksAssumption DEF last_task
  <2> QED
    BY <1>3, <2>1 DEF ThreadsTypeOK, MainPc, WorkerPc
<1>5. WorkersOK /\ QuietOK /\ StagesOK /\ PushOK
  BY <1>2 DEF WorkersOK, QuietOK, StagesOK, PushOK, Updating, Pushing, Before, Idle
<1>6. Ordered /\ Conserved /\ LossDooms
  <2>1. first .. last = {}
    BY <1>2
  <2>2. \A t \in Task : t # NULL /\ done[t] = 1
    OBVIOUS
  <2> QED
    BY <1>2, <2>1, <2>2 DEF Ordered, Conserved, LossDooms, Updating, Idle
<1>7. EventsOK /\ VectorsAfterNormals
  <2>1. \A p \in Part : done[update_task(p)] > 0
    BY <1>3, Kinds
  <2> QED
    BY <2>1 DEF EventsOK, VectorsAfterNormals
<1> QED
  BY <1>1, <1>3, <1>4, <1>5, <1>6, <1>7 DEF UInv

-----------------------------------------------------------------------------
(* The main thread. *)

\* Between two updates, and while one is prepared, all that can be disturbed are the
\* stages and the events.
LEMMA QuietStep ==
  ASSUME UInv, ~ Updating, mpc' \notin {"push", "publish", "wait"},
         UNCHANGED <<queueVars, wpc, held, success, lost>>,
         done' = done \/ \A t \in Task : done'[t] = 0,
         ThreadsTypeOK', ArgsOK', StagesOK', EventsOK', VectorsAfterNormals'
  PROVE  UInv'
<1>1. /\ success /\ ~ lost /\ is_empty /\ first .. last = {}
      /\ \A w \in Worker : Idle(w) /\ held[w] = NULL
  <2>1. success /\ ~ lost /\ is_empty /\ \A w \in Worker : Idle(w)
    BY DEF UInv, QuietOK
  <2> QED
    BY <2>1, UTypes DEF UInv, WorkersOK, Idle
<1>2. /\ first' .. last' = {} /\ is_empty' /\ ~ lost' /\ success'
      /\ \A w \in Worker : held'[w] = NULL /\ Idle(w)'
  BY <1>1 DEF queueVars, is_empty, Idle
<1>3. QueueInv'
  BY UnchangedInv DEF UInv
<1>4. WorkersOK' /\ QuietOK'
  BY <1>2 DEF UInv, WorkersOK, QuietOK
<1>5. PushOK'
  <2>1. pushing' = NoPush /\ ~ pushing'.overtaken
    BY DEF UInv, PushOK, Updating, queueVars, NoPush
  <2> QED
    BY <2>1 DEF PushOK, Pushing, Updating
<1>6. Ordered'
  <2>1. \A t \in Task : t # NULL
    BY UTypes
  <2>2. \A t \in Task : done'[t] <= 1
    BY <1>1, UTypes DEF UInv, Ordered
  <2> QED
    BY <1>2, <2>1, <2>2 DEF Ordered, Updating
<1>7. Conserved' /\ LossDooms'
  BY <1>2 DEF Conserved, LossDooms, Updating
<1> QED
  BY <1>2, <1>3, <1>4, <1>5, <1>6, <1>7 DEF UInv

\* Nothing that was read, or refused, is disturbed by moving on.
LEMMA MainMovesSafe ==
  ASSUME UInv,
         \/ ReadVertices
         \/ \E start \in Vertex \cup {VerticesNum}, num \in ALL_VERTICES .. VerticesNum + 1,
               compatible \in BOOLEAN : RefuseArgs(start, num, compatible)
  PROVE  UInv'
<1>1. /\ mpc \in {"idle", "read"} /\ mpc' \in {"idle", "stopped"}
      /\ UNCHANGED <<queueVars, args, next_push, workVars, eventVars, success, historyVars>>
  BY DEF ReadVertices, RefuseArgs, MainGoes
<1>2. ThreadsTypeOK' /\ ArgsOK'
  BY <1>1 DEF UInv, ThreadsTypeOK, ArgsOK, workVars, eventVars, historyVars, MainPc
<1>3. StagesOK' /\ EventsOK' /\ VectorsAfterNormals'
  BY <1>1 DEF UInv, StagesOK, EventsOK, VectorsAfterNormals, Before, Scheduled, first_task,
              workVars, eventVars, historyVars
<1> QED
  BY <1>1, <1>2, <1>3, QuietStep DEF Updating, workVars, historyVars

\* An update begins on a range that lies in the model.
LEMMA BeginUpdateSafe ==
  ASSUME UInv, NEW start \in Vertex \cup {VerticesNum},
         NEW num \in ALL_VERTICES .. VerticesNum + 1,
         NEW compatible \in BOOLEAN, NEW update_vectors \in BOOLEAN,
         BeginUpdate(start, num, compatible, update_vectors)
  PROVE  UInv'
<1>1. /\ mpc = "idle" /\ mpc' = "success"
      /\ args' = [start |-> ArgsStart(start, num), num |-> ArgsNum(start, num),
                  update_vectors |-> update_vectors]
      /\ update_pos_tasks_completed' = {}
      /\ done' = [t \in Task |-> 0]
      /\ UNCHANGED <<queueVars, next_push, wpc, held, update_vec_tasks_completed,
                     normals_generated, success, lost>>
  BY DEF BeginUpdate, MainGoes, workVars
<1>2. start \in Int /\ num \in Nat \cup {ALL_VERTICES} /\ ArgsAccepted(start, num, TRUE)
  BY VerticesAssumption DEF BeginUpdate, Vertex, ALL_VERTICES, ArgsAccepted
<1>3. InModel(ArgsStart(start, num), ArgsNum(start, num))
  BY <1>2, ArgsInModel
<1>4. ArgsOK' /\ args' \in Args
  BY <1>1, <1>3, VerticesAssumption DEF ArgsOK, InModel, Args, Vertex
<1>5. ThreadsTypeOK'
  BY <1>1, <1>4 DEF UInv, ThreadsTypeOK, MainPc
<1>6. \A t \in Task : done'[t] = 0
  BY <1>1
<1>7. \A p \in Part : update_task(p) \in Task /\ update_vectors_task(p) \in Task
  BY <1>4, Kinds, UTypes
<1>8. StagesOK' /\ EventsOK' /\ VectorsAfterNormals'
  <2>1. mpc' \in Before /\ mpc # "read"
    BY <1>1 DEF Before
  <2>2. \A w \in Worker : wpc'[w] # "run"
    BY <1>1 DEF UInv, QuietOK, Updating, Idle
  <2> QED
    BY <1>1, <1>6, <1>7, <2>1, <2>2 DEF UInv, StagesOK, EventsOK, VectorsAfterNormals
<1> QED
  BY <1>1, <1>4, <1>5, <1>6, <1>8, QuietStep DEF Updating

\* The pushes start when nothing of this update was done.
LEMMA EnterPush ==
  ASSUME UInv, mpc \in Before, mpc' = "push", next_push' = first_task,
         UNCHANGED <<queueVars, wpc, held, success, lost, args, done>>,
         ThreadsTypeOK', EventsOK'
  PROVE  UInv'
<1>1. /\ success /\ ~ lost /\ is_empty /\ first .. last = {} /\ last = -1
      /\ \A w \in Worker : Idle(w) /\ held[w] = NULL
      /\ \A t \in Task : done[t] = 0
  <2>1. success /\ ~ lost /\ is_empty /\ \A w \in Worker : Idle(w)
    BY DEF UInv, QuietOK, Before, Updating
  <2> QED
    BY <2>1, UTypes DEF UInv, WorkersOK, StagesOK, Idle
<1>2. /\ first' .. last' = {} /\ last' = -1 /\ ~ lost' /\ success'
      /\ \A w \in Worker : held'[w] = NULL /\ Idle(w)'
      /\ \A t \in Task : done'[t] = 0
      /\ Scheduled' = Scheduled /\ first_task' = first_task
  BY <1>1 DEF queueVars, Idle, Scheduled, first_task
<1>3. QueueInv' /\ ArgsOK'
  BY UnchangedInv DEF UInv, ArgsOK
<1>4. WorkersOK' /\ QuietOK' /\ StagesOK'
  BY <1>2 DEF UInv, WorkersOK, QuietOK, StagesOK, Updating, Before
<1>5. PushOK'
  <2>1. pushing' = NoPush /\ ~ pushing'.overtaken
    BY DEF UInv, PushOK, Before, queueVars, NoPush
  <2>2. first_task \in Scheduled /\ first_task >= 0 /\ last' + 1 <= first_task
    BY <1>2, UTypes, Kinds
  <2>3. 0 .. last' = {}
    BY <1>2
  <2> QED
    BY <1>2, <2>1, <2>2, <2>3 DEF PushOK, Pushing, Updating
<1>6. Ordered'
  <2>1. \A t \in Task : t # NULL
    BY UTypes
  <2> QED
    BY <1>2, <2>1 DEF Ordered
<1>7. Conserved' /\ LossDooms'
  <2>1. \A t \in Scheduled : ~ (t < first_task)
    BY UTypes, Kinds
  <2> QED
    BY <1>2, <2>1 DEF Conserved, LossDooms
<1>8. VectorsAfterNormals'
  <2>1. \A p \in Part : ~ (done'[update_vectors_task(p)] > 0)
    BY <1>2, UTypes, Kinds
  <2> QED
    BY <1>2, <2>1 DEF VectorsAfterNormals, Idle
<1> QED
  BY <1>3, <1>4, <1>5, <1>6, <1>7, <1>8 DEF UInv

\* The flag and the events are reset before the first task can be seen.
LEMMA PrepareSafe ==
  ASSUME UInv, StoreSuccess \/ UnsetVectors \/ UnsetNormals
  PROVE  UInv'
<1> USE DEF MainGoes, workVars, eventVars, historyVars
<1>1. /\ mpc \in Before /\ ~ Updating /\ success
      /\ success' = success
      /\ UNCHANGED <<queueVars, wpc, held, lost, args, done>>
  BY DEF StoreSuccess, UnsetVectors, UnsetNormals, Before, Updating, UInv, QuietOK,
         ThreadsTypeOK
<1>2. /\ \A t \in Task : done[t] = 0
      /\ \A w \in Worker : wpc[w] # "run"
      /\ \A p \in Part : done[update_vectors_task(p)] = 0 /\ done[update_task(p)] = 0
      /\ done[gen_normals_task] = 0
  <2>1. \A t \in Task : done[t] = 0
    BY <1>1 DEF UInv, StagesOK
  <2> QED
    BY <1>1, <2>1, UTypes, Kinds DEF UInv, QuietOK, Idle
<1>3. mpc' \in {"unset_vec", "unset_normals", "push"} /\ next_push' = first_task
  BY DEF StoreSuccess, UnsetVectors, UnsetNormals, UInv, StagesOK
<1>4. ThreadsTypeOK'
  BY <1>1, <1>3, UTypes, Kinds
     DEF UInv, ThreadsTypeOK, MainPc, StoreSuccess, UnsetVectors, UnsetNormals
<1>5. EventsOK' /\ VectorsAfterNormals'
  <2>1. CASE StoreSuccess
    BY <1>1, <1>2, <2>1, UTypes DEF StoreSuccess, UInv, EventsOK, VectorsAfterNormals, Before, Args
  <2>2. CASE UnsetVectors
    BY <1>1, <1>2, <2>2 DEF UnsetVectors, UInv, EventsOK, VectorsAfterNormals, Before
  <2>3. CASE UnsetNormals
    <3>1. GeneratesNormals
      BY <2>3 DEF UnsetNormals, UInv, StagesOK
    <3> QED
      BY <1>1, <1>2, <2>3, <3>1 DEF UnsetNormals, UInv, EventsOK, VectorsAfterNormals, Before
  <2> QED
    BY <2>1, <2>2, <2>3
<1>6. CASE mpc' = "push"
  BY <1>1, <1>3, <1>4, <1>5, <1>6, EnterPush
<1>7. CASE mpc' # "push"
  <2>1. mpc' = "unset_normals" => GeneratesNormals
    BY <1>7 DEF StoreSuccess, UnsetVectors, UnsetNormals
  <2>2. args.update_vectors
    BY <1>7 DEF StoreSuccess, UnsetVectors, UnsetNormals, UInv, StagesOK
  <2>3. StagesOK'
    BY <1>1, <1>2, <1>3, <1>7, <2>1, <2>2 DEF StagesOK, first_task
  <2>4. ArgsOK'
    BY <1>1 DEF UInv, ArgsOK
  <2> QED
    BY <1>1, <1>3, <1>4, <1>5, <1>7, <2>3, <2>4, QuietStep
<1> QED
  BY <1>6, <1>7

\* The store of a push is seen by nobody.
LEMMA PushTaskSafe == ASSUME UInv, PushTask PROVE UInv'
<1> USE DEF MainGoes, workVars, eventVars, historyVars
<1>1. /\ mpc = "push" /\ mpc' = "publish"
      /\ PushStore(next_push, next_push = last_task)
      /\ UNCHANGED <<args, next_push, wpc, held, update_pos_tasks_completed,
                     update_vec_tasks_completed, normals_generated, success, done, lost>>
  BY DEF PushTask
<1>2. /\ first' = first /\ last' = last /\ ~ pushing'.overtaken /\ pushing' # NoPush
      /\ pushing'.task = next_push
      /\ tasks' = [tasks EXCEPT ![last + 1] = next_push]
      /\ next_push \in Scheduled /\ next_push \in Task
      /\ Scheduled' = Scheduled
  <2>1. next_push \in Scheduled /\ next_push \in Task /\ next_push # NULL
    BY <1>1, UTypes, Kinds DEF UInv, PushOK, Pushing
  <2> QED
    BY <1>1, <2>1 DEF PushStore, NoPush, Scheduled, first_task
<1>3. \A i \in 0 .. last : tasks'[i] = tasks[i]
  BY <1>2, UTypes
<1>4. \A i \in first .. last : tasks'[i] = tasks[i]
  BY <1>3, UTypes
<1>5. tasks'[0] = tasks[0] \/ tasks'[0] = next_push
  BY <1>2, UTypes
<1>6. QueueInv'
  BY <1>1, <1>2, PushStoreInv DEF UInv
<1>7. ThreadsTypeOK' /\ ArgsOK' /\ WorkersOK' /\ QuietOK' /\ StagesOK'
  BY <1>1, <1>2 DEF UInv, ThreadsTypeOK, ArgsOK, WorkersOK, QuietOK, StagesOK, Updating,
                    Before, MainPc
<1>8. PushOK'
  BY <1>1, <1>2, <1>3, UTypes DEF UInv, PushOK, Pushing, Updating
<1>9. Ordered' /\ Conserved'
  BY <1>1, <1>2, <1>4 DEF UInv, Ordered, Conserved, Updating
<1>10. \A t \in Task : Gone(t) => Gone(t)'
  BY <1>1, <1>2, <1>4 DEF Gone, Running
<1>11. \A t \in Task : Gone(t) => t # next_push
  BY UTypes, Kinds DEF Gone
<1>12. LossDooms'
  <2>1. ~ pushing.overtaken
    BY <1>1, UTypes
  <2> QED
    BY <1>1, <1>5, <1>10, <1>11, <2>1 DEF UInv, LossDooms, Idle, Running
<1>13. EventsOK' /\ VectorsAfterNormals'
  BY <1>1 DEF UInv, EventsOK, VectorsAfterNormals, Before
<1> QED
  BY <1>6, <1>7, <1>8, <1>9, <1>12, <1>13 DEF UInv

\* The increment that ends a push shows its task to the workers; when the push was
\* overtaken, its task is gone.
LEMMA PublishTaskSafe == ASSUME UInv, PublishTask PROVE UInv'
<1> USE DEF MainGoes, workVars, eventVars
<1>1. /\ mpc = "publish" /\ mpc' = IF next_push = last_task THEN "wait" ELSE "push"
      /\ PushPublish
      /\ last' = last + 1 /\ pushing' = NoPush /\ ~ pushing'.overtaken
      /\ next_push' = next_push + 1 /\ lost' = (lost \/ pushing.overtaken)
      /\ UNCHANGED <<first, tasks, args, wpc, held, update_pos_tasks_completed,
                     update_vec_tasks_completed, normals_generated, success, done>>
      /\ Scheduled' = Scheduled
  BY DEF PublishTask, PushPublish, NoPush, Scheduled, first_task
<1>2. /\ next_push \in Scheduled /\ next_push \in Task
      /\ last + 1 <= next_push /\ first <= last + 1
      /\ ~ pushing.overtaken => tasks[last + 1] = next_push
      /\ pushing.overtaken => last = -1 /\ first = 0 /\ tasks[0] \in Scheduled
                              /\ tasks[0] \in Task /\ tasks[0] < next_push
      /\ pushing.overtaken \in BOOLEAN
  <2>1. pushing # NoPush /\ pushing.task = next_push /\ pushing \in Push
    BY <1>1 DEF UInv, PushOK, QueueInv, QueueTypeOK
  <2>2. next_push \in Scheduled /\ next_push \in Task
    BY <1>1, UTypes, Kinds DEF UInv, PushOK, Pushing
  <2> QED
    BY <1>1, <2>1, <2>2, UTypes
    DEF UInv, PushOK, Pushing, Push, QueueInv, IndicesOK, StoredTaskWillBePublished
<1>3. /\ first .. last' = (first .. last) \cup {last + 1}
      /\ \A i \in 0 .. last' : i \in 0 .. last \/ i = last + 1
      /\ tasks[last + 1] \in Scheduled
  BY <1>1, <1>2, UTypes
<1>4. Task \subseteq Int /\ Scheduled = first_task .. last_task /\ Scheduled \subseteq Task
      /\ first_task \in Int /\ last_task \in Int
  BY UTypes, Kinds
<1>5. QueueInv'
  BY <1>1, PushPublishInv DEF UInv
<1>6. ThreadsTypeOK'
  <2>1. next_push + 1 \in Task \cup {last_task + 1}
    BY <1>2, <1>4, UTypes, Kinds
  <2> QED
    BY <1>1, <1>2, <2>1 DEF UInv, ThreadsTypeOK, MainPc
<1>7. ArgsOK' /\ WorkersOK' /\ QuietOK' /\ StagesOK'
  BY <1>1 DEF UInv, ArgsOK, WorkersOK, QuietOK, StagesOK, Updating, Before
<1>8. PushOK'
  <2>1. mpc' = "push" => next_push + 1 \in Scheduled
    BY <1>1, <1>2, <1>4
  <2>2. \A i \in 0 .. last' : tasks[i] < next_push + 1
    <3>1. \A i \in 0 .. last : tasks[i] < next_push
      BY <1>1 DEF UInv, PushOK, Updating
    <3>2. tasks[last + 1] < next_push + 1
      BY <1>2, <1>4, UTypes
    <3>3. \A a \in Task : a < next_push => a < next_push + 1
      BY <1>4, UTypes
    <3>4. \A i \in 0 .. last : tasks[i] \in Task
      BY UTypes
    <3> QED
      BY <1>3, <3>1, <3>2, <3>3, <3>4
  <2>3. \A i \in 0 .. last' : tasks[i] \in Scheduled
    BY <1>1, <1>3 DEF UInv, PushOK, Updating
  <2> QED
    BY <1>1, <1>2, <2>1, <2>2, <2>3, UTypes DEF PushOK, Pushing, Updating
<1>9. ASSUME ~ lost
      PROVE  /\ \A i \in first .. last : tasks[i] < next_push
             /\ \A w \in Worker : held[w] # NULL => held[w] < next_push /\ held[w] \in Task
             /\ \A t \in Task : done[t] > 0 => t < next_push
             /\ \A w \in Worker : held[w] # next_push
             /\ done[next_push] = 0
  <2>1. /\ \A w \in Worker : held[w] # NULL => held[w] < next_push
        /\ \A t \in Task : done[t] > 0 => t < next_push
    BY <1>1, <1>9 DEF UInv, Ordered, Updating
  <2>2. done[next_push] = 0
    BY <1>2, <1>4, <2>1, UTypes
  <2>3. \A w \in Worker : held[w] # next_push
    BY <1>2, <1>4, <2>1, UTypes
  <2>4. \A i \in first .. last : tasks[i] < next_push
    BY <1>1, UTypes DEF UInv, PushOK, Updating
  <2> QED
    BY <2>1, <2>2, <2>3, <2>4, UTypes
<1>10. Ordered'
  <2> SUFFICES ASSUME ~ lost, ~ pushing.overtaken PROVE Ordered'
    BY <1>1 DEF Ordered
  <2>1. /\ \A i, j \in first .. last : i < j => tasks[i] < tasks[j]
        /\ \A i \in first .. last, w \in Worker : held[w] # NULL => held[w] < tasks[i]
        /\ \A i \in first .. last, t \in Task : done[t] > 0 => t < tasks[i]
        /\ \A v, w \in Worker : v # w /\ held[v] = held[w] => held[w] = NULL
        /\ \A w \in Worker, t \in Task : done[t] > 0 => held[w] # t
        /\ \A t \in Task : done[t] <= 1
    BY DEF UInv, Ordered
  <2>2. tasks[last + 1] = next_push
    BY <1>2
  <2>3. \A i, j \in first .. last' : i < j => tasks[i] < tasks[j]
    <3> SUFFICES ASSUME NEW i \in first .. last', NEW j \in first .. last', i < j
                 PROVE  tasks[i] < tasks[j]
      OBVIOUS
    <3>1. i \in first .. last
      BY <1>1, <1>3, UTypes
    <3> QED
      BY <1>3, <1>9, <2>1, <2>2, <3>1
  <2>4. \A i \in first .. last', w \in Worker : held[w] # NULL => held[w] < tasks[i]
    BY <1>3, <1>9, <2>1, <2>2
  <2>5. \A i \in first .. last', t \in Task : done[t] > 0 => t < tasks[i]
    BY <1>3, <1>9, <2>1, <2>2
  <2>6. /\ \A w \in Worker : held[w] # NULL => held[w] < next_push + 1
        /\ \A t \in Task : done[t] > 0 => t < next_push + 1
    <3>1. \A t \in Task : t < next_push => t < next_push + 1
      BY <1>4, UTypes
    <3> QED
      BY <1>9, <3>1
  <2> QED
    BY <1>1, <2>1, <2>3, <2>4, <2>5, <2>6 DEF Ordered
<1>11. Conserved'
  <2> SUFFICES ASSUME ~ lost, ~ pushing.overtaken, \A w \in Worker : wpc[w] # "ended",
                      NEW t \in Scheduled, t < next_push + 1
               PROVE  \/ \E i \in first .. last' : tasks[i] = t
                      \/ \E w \in Worker : held[w] = t
                      \/ done[t] > 0
    BY <1>1 DEF Conserved
  <2>1. CASE t = next_push
    BY <1>2, <1>3, <2>1
  <2>2. CASE t < next_push
    BY <1>1, <1>3, <2>2 DEF UInv, Conserved, Updating
  <2> QED
    BY <1>4, <2>1, <2>2, UTypes
<1>12. \A t \in Task : Gone(t) /\ (~ pushing.overtaken \/ tasks[0] # t) => Gone(t)'
  <2> SUFFICES ASSUME NEW t \in Task, Gone(t), ~ pushing.overtaken \/ tasks[0] # t
               PROVE  Gone(t)'
    OBVIOUS
  <2>1. tasks[last + 1] # t
    BY <1>2, <1>4, UTypes DEF Gone
  <2>2. t < next_push + 1
    BY <1>4, UTypes DEF Gone
  <2> QED
    BY <1>1, <1>3, <2>1, <2>2 DEF Gone, Running
<1>13. ASSUME ~ lost, pushing.overtaken, NEW t \in Task, t = next_push
       PROVE  Gone(t)' /\ tasks[0] # t
  <2>1. tasks[0] # t /\ t < next_push + 1
    BY <1>2, <1>4, <1>13, UTypes
  <2>2. \A i \in first .. last' : tasks[i] # t
    BY <1>1, <1>2, <1>13, <2>1, UTypes
  <2>3. done[t] = 0 /\ \A w \in Worker : held[w] # t
    BY <1>9, <1>13
  <2> QED
    BY <1>1, <1>2, <1>13, <2>1, <2>2, <2>3 DEF Gone
<1>14. LossDooms'
  <2>1. ASSUME lost'
        PROVE  \E t \in Task : Gone(t)' /\ tasks'[0] # t
    <3>1. CASE lost
      <4>1. PICK t \in Task : Gone(t) /\ tasks[0] # t
        BY <3>1 DEF UInv, LossDooms
      <4>2. Gone(t)'
        BY <1>12, <4>1
      <4> QED
        BY <1>1, <4>1, <4>2
    <3>2. CASE ~ lost
      BY <1>1, <1>2, <1>13, <2>1, <3>2
    <3> QED
      BY <3>1, <3>2
  <2>2. ASSUME ~ success \/ (\E w \in Worker : ~ Idle(w) /\ ~ Running(w))
        PROVE  \E t \in Task : Gone(t)'
    <3>1. CASE pushing.overtaken
      BY <1>1, <2>1, <3>1
    <3>2. CASE ~ pushing.overtaken
      BY <1>12, <2>2, <3>2 DEF UInv, LossDooms
    <3> QED
      BY <3>1, <3>2
  <2> QED
    BY <1>1, <2>1, <2>2 DEF LossDooms, Idle, Running
<1>15. EventsOK' /\ VectorsAfterNormals'
  BY <1>1 DEF UInv, EventsOK, VectorsAfterNormals, Before
<1> QED
  BY <1>5, <1>6, <1>7, <1>8, <1>10, <1>11, <1>14, <1>15 DEF UInv

\* When all events are set, every task of the update has been completed: there is
\* nothing left to do, nothing was lost, and nothing has failed.
LEMMA AllDone ==
  ASSUME UInv, mpc = "wait",
         update_pos_tasks_completed = Part, update_vec_tasks_completed = Part
  PROVE  /\ \A t \in Scheduled : done[t] > 0
         /\ ~ lost /\ success /\ is_empty
         /\ \A w \in Worker : Idle(w)
<1>1. Updating /\ mpc \notin Before /\ ~ pushing.overtaken
  BY UTypes DEF Updating, Before
<1>2. Scheduled \subseteq Task /\ Task \subseteq Int
  BY UTypes, Kinds
<1>3. ASSUME NEW t \in Scheduled PROVE done[t] > 0
  <2>1. CASE t = gen_normals_task
    <3>1. args.update_vectors /\ GeneratesNormals
      BY <1>3, <2>1, UTypes, Kinds
    <3>2. 0 \in Part
      BY UpdateTasksAssumption DEF Part
    <3>3. done[update_vectors_task(0)] > 0
      BY <1>1, <3>1, <3>2 DEF UInv, EventsOK, Before
    <3> QED
      BY <2>1, <3>1, <3>2, <3>3 DEF UInv, VectorsAfterNormals
  <2>2. ASSUME NEW p \in Part, t = update_vectors_task(p) PROVE done[t] > 0
    <3>1. args.update_vectors
      BY <1>3, <2>2, UTypes, Kinds
    <3> QED
      BY <1>1, <2>2, <3>1 DEF UInv, EventsOK, Before
  <2>3. ASSUME NEW p \in Part, t = update_task(p) PROVE done[t] > 0
    BY <2>3 DEF UInv, EventsOK
  <2> QED
    BY <1>3, <2>1, <2>2, <2>3, UTypes, Kinds
<1>4. ~ \E t \in Task : Gone(t)
  BY <1>3 DEF Gone
<1>5. ~ lost /\ success /\ \A w \in Worker : Idle(w) \/ Running(w)
  BY <1>1, <1>4 DEF UInv, LossDooms
<1>6. /\ \A i \in first .. last, t \in Task : done[t] > 0 => t < tasks[i]
      /\ \A w \in Worker, t \in Task : done[t] > 0 => held[w] # t
  BY <1>5 DEF UInv, Ordered
<1>7. \A w \in Worker : ~ Running(w)
  BY <1>2, <1>3, <1>6 DEF UInv, WorkersOK, Running
<1>8. is_empty
  <2> SUFFICES ASSUME first <= last PROVE FALSE
    BY UTypes
  <2>1. first \in first .. last /\ first \in 0 .. last
    BY UTypes
  <2>2. tasks[first] \in Scheduled
    BY <1>1, <2>1 DEF UInv, PushOK
  <2>3. tasks[first] < tasks[first]
    BY <1>2, <1>3, <1>6, <2>1, <2>2
  <2>4. \A t \in Task : ~ (t < t)
    BY <1>2
  <2> QED
    BY <1>2, <2>2, <2>3, <2>4
<1> QED
  BY <1>3, <1>5, <1>7, <1>8

\* So the update ends, and its vertices are read.
LEMMA AwaitUpdateSafe == ASSUME UInv, AwaitUpdate PROVE UInv'
<1> USE DEF MainGoes, workVars, eventVars, historyVars
<1>1. /\ \A t \in Scheduled : done[t] > 0
      /\ ~ lost /\ success /\ is_empty
      /\ \A w \in Worker : Idle(w)
      /\ mpc = "wait"
  BY AllDone DEF AwaitUpdate
<1>2. /\ mpc' = "read"
      /\ UNCHANGED <<queueVars, args, next_push, wpc, held, update_pos_tasks_completed,
                     update_vec_tasks_completed, normals_generated, success, done, lost>>
      /\ Scheduled' = Scheduled
  BY <1>1 DEF AwaitUpdate, Scheduled, first_task
<1>3. UNCHANGED <<tasks, first, last, pushing>> /\ ~ lost' /\ success'
      /\ is_empty' /\ \A w \in Worker : Idle(w)'
  BY <1>1, <1>2 DEF queueVars, is_empty, Idle
<1>4. QueueInv'
  BY <1>2, UnchangedInv DEF UInv
<1>5. ThreadsTypeOK' /\ ArgsOK' /\ WorkersOK' /\ QuietOK'
  BY <1>2, <1>3 DEF UInv, ThreadsTypeOK, ArgsOK, WorkersOK, QuietOK, MainPc
<1>6. StagesOK' /\ PushOK' /\ Ordered' /\ Conserved' /\ LossDooms'
  <2>1. pushing' = NoPush /\ ~ pushing'.overtaken
    BY <1>1, <1>3 DEF UInv, PushOK, NoPush
  <2> QED
    BY <1>1, <1>2, <1>3, <2>1
    DEF UInv, StagesOK, PushOK, Ordered, Conserved, LossDooms, Updating, Pushing, Before
<1>7. EventsOK' /\ VectorsAfterNormals'
  BY <1>1, <1>2 DEF UInv, EventsOK, VectorsAfterNormals, Before
<1> QED
  BY <1>4, <1>5, <1>6, <1>7 DEF UInv

-----------------------------------------------------------------------------
(* The worker threads. *)

\* A worker that is not idle shows that an update is under way.
LEMMA BusyWorker ==
  ASSUME UInv, NEW w \in Worker, ~ Idle(w)
  PROVE  Updating /\ mpc \notin Before /\ mpc # "read"
         /\ (wpc[w] # "ended" => held[w] \in Scheduled /\ held[w] \in Task /\ held[w] # NULL)
<1>1. Updating
  BY DEF UInv, QuietOK
<1>2. Scheduled \subseteq Task /\ NULL \notin Task
  BY UTypes, Kinds
<1> QED
  BY <1>1, <1>2, UTypes DEF UInv, WorkersOK, Updating, Before, Idle

\* A worker that waits for tasks, or pops none, changes nothing but its place.
LEMMA IdleWorkerSafe ==
  ASSUME UInv, NEW w \in Worker,
         WaitForTasks(w) \/ (PopTask(w) /\ UNCHANGED <<queueVars, held>>)
  PROVE  UInv'
<1> USE DEF WorkerGoes, eventVars, historyVars
<1>1. /\ UNCHANGED <<queueVars, mpc, args, next_push, held, eventVars, success, historyVars>>
      /\ Scheduled' = Scheduled /\ first_task' = first_task
  BY DEF WaitForTasks, PopTask, Scheduled, first_task
<1>2. wpc' \in [Worker -> WorkerPc]
      /\ \A v \in Worker : wpc'[v] = wpc[v] \/ {wpc[v], wpc'[v]} \subseteq {"wait", "pop"}
  <2>1. CASE WaitForTasks(w)
    BY <2>1, UTypes DEF WaitForTasks, WorkerPc
  <2>2. CASE PopTask(w) /\ UNCHANGED held
    <3>1. PICK task \in Task \cup {NULL} :
            held' = [held EXCEPT ![w] = task]
            /\ WorkerGoes(w, "pop", IF task = NULL THEN "wait" ELSE "execute")
      BY <2>2 DEF PopTask
    <3>2. task = NULL
      <4>1. held[w] = NULL
        BY <3>1 DEF UInv, WorkersOK
      <4>2. held'[w] = task
        BY <3>1, UTypes
      <4> QED
        BY <2>2, <4>1, <4>2
    <3> QED
      BY <3>1, <3>2, UTypes DEF WorkerPc
  <2> QED
    BY <2>1, <2>2
<1>3. \A v \in Worker :
        /\ Idle(v)' <=> Idle(v)
        /\ Running(v)' <=> Running(v)
        /\ wpc'[v] = "run" <=> wpc[v] = "run"
        /\ wpc'[v] = "ended" <=> wpc[v] = "ended"
        /\ wpc'[v] \in {"wait", "pop", "ended"} <=> wpc[v] \in {"wait", "pop", "ended"}
  BY <1>2 DEF Idle, Running
<1>4. QueueInv' /\ UNCHANGED <<first, last, tasks, pushing>> /\ is_empty' = is_empty
  BY <1>1, UnchangedInv DEF UInv, queueVars, is_empty
<1>5. ThreadsTypeOK' /\ ArgsOK' /\ WorkersOK' /\ QuietOK' /\ StagesOK' /\ PushOK'
  BY <1>1, <1>2, <1>3, <1>4
  DEF UInv, ThreadsTypeOK, ArgsOK, WorkersOK, QuietOK, StagesOK, PushOK, Updating, Pushing
<1>6. \A t \in Task : Gone(t)' <=> Gone(t)
  BY <1>1, <1>3, <1>4 DEF Gone
<1>7. Ordered' /\ Conserved' /\ LossDooms'
  BY <1>1, <1>3, <1>4, <1>6 DEF UInv, Ordered, Conserved, LossDooms, Updating
<1>8. EventsOK' /\ VectorsAfterNormals'
  BY <1>1, <1>3 DEF UInv, EventsOK, VectorsAfterNormals
<1> QED
  BY <1>4, <1>5, <1>7, <1>8 DEF UInv

\* A clear, and the pop of the last task, empty the queue under a push.
LEMMA EmptiedPushOK ==
  ASSUME UInv, clear_unsafe, UNCHANGED <<tasks, mpc, next_push, args>>
  PROVE  PushOK'
<1>1. first' = 0 /\ last' = -1 /\ 0 .. last' = {} /\ Scheduled' = Scheduled
  BY DEF clear_unsafe, Scheduled, first_task
<1>2. pushing.overtaken => tasks[0] \in Task /\ tasks[0] < next_push /\ tasks[0] \in Scheduled
  BY DEF UInv, PushOK
<1>3. mpc = "publish" => pushing'.task = next_push
  <2>1. pushing'.task = pushing.task
    BY DEF clear_unsafe, UInv, QueueInv, QueueTypeOK, Push, NoPush
  <2> QED
    BY <2>1 DEF UInv, PushOK
<1>4. mpc = "publish" <=> pushing' # NoPush
  BY DEF clear_unsafe, UInv, PushOK, QueueInv, QueueTypeOK, Push, NoPush
<1>5. ASSUME pushing # NoPush, last # -1
      PROVE  tasks[0] \in Task /\ tasks[0] < next_push /\ tasks[0] \in Scheduled
  <2>1. Pushing /\ Updating
    BY <1>5 DEF UInv, PushOK, Pushing, Updating
  <2>2. 0 \in 0 .. last
    BY <1>5, UTypes
  <2> QED
    BY <2>1, <2>2, UTypes DEF UInv, PushOK
<1>6. pushing'.overtaken => tasks[0] \in Task /\ tasks[0] < next_push /\ tasks[0] \in Scheduled
  BY <1>2, <1>5 DEF clear_unsafe
<1>7. Pushing => next_push \in Scheduled /\ last' + 1 <= next_push
  <2>1. \A t \in Scheduled : 0 <= t
    BY UTypes, Kinds
  <2> QED
    BY <1>1, <2>1 DEF UInv, PushOK
<1> QED
  BY <1>1, <1>3, <1>4, <1>6, <1>7 DEF PushOK, Pushing, Updating

\* The worker pops a task, which nobody else has.
LEMMA TaskPoppedSafe ==
  ASSUME UInv, NEW w \in Worker, PopTask(w), ~ UNCHANGED <<queueVars, held>>
  PROVE  UInv'
<1> USE DEF WorkerGoes, eventVars, historyVars
<1>1. PICK task \in Task \cup {NULL} :
        /\ Pop(task)
        /\ held' = [held EXCEPT ![w] = task]
        /\ WorkerGoes(w, "pop", IF task = NULL THEN "wait" ELSE "execute")
  BY DEF PopTask
<1>2. /\ UNCHANGED <<mpc, args, next_push, eventVars, success, historyVars>>
      /\ Scheduled' = Scheduled /\ first_task' = first_task
  BY DEF PopTask, Scheduled, first_task
<1>3. ~ is_empty /\ task = tasks[first] /\ (PopLast \/ PopEarlier)
  <2>1. CASE is_empty /\ task = NULL /\ UNCHANGED queueVars
    <3>1. held[w] = NULL
      BY <1>1 DEF UInv, WorkersOK
    <3>2. held' = held
      BY <1>1, <2>1, <3>1, UTypes
    <3> QED
      BY <2>1, <3>2
  <2> QED
    BY <1>1, <2>1 DEF Pop
<1>4. first \in first .. last /\ first \in 0 .. last /\ task \in Task /\ task # NULL
  BY <1>3, UTypes
<1>5. Updating
  BY <1>3 DEF UInv, QuietOK
<1>6. /\ wpc[w] = "pop" /\ wpc' = [wpc EXCEPT ![w] = "execute"]
      /\ held' = [held EXCEPT ![w] = task] /\ held[w] = NULL
  BY <1>1, <1>4 DEF UInv, WorkersOK
<1>7. /\ wpc'[w] = "execute" /\ held'[w] = task
      /\ \A v \in Worker : v # w => wpc'[v] = wpc[v] /\ held'[v] = held[v]
  BY <1>6, UTypes
<1>8. tasks' = tasks /\ \A i \in first' .. last' : i \in first .. last /\ first < i
  <2>1. CASE PopLast
    BY <2>1 DEF PopLast, clear_unsafe
  <2>2. CASE PopEarlier
    <3>1. first' = first + 1 /\ last' = last /\ tasks' = tasks
      BY <2>2 DEF PopEarlier
    <3> QED
      BY <3>1, UTypes
  <2> QED
    BY <1>3, <2>1, <2>2
<1>9. QueueInv'
  BY <1>1, PopInv DEF UInv
<1>10. ThreadsTypeOK' /\ ArgsOK' /\ QuietOK' /\ StagesOK'
  BY <1>2, <1>5, <1>6
  DEF UInv, ThreadsTypeOK, ArgsOK, QuietOK, StagesOK, Updating, Before, WorkerPc
<1>11. WorkersOK'
  <2>1. task \in Scheduled
    BY <1>3, <1>4, <1>5 DEF UInv, PushOK
  <2> QED
    BY <1>2, <1>4, <1>7, <2>1 DEF UInv, WorkersOK
<1>12. PushOK'
  <2>1. CASE PopLast
    BY <1>2, <2>1, EmptiedPushOK DEF PopLast
  <2>2. CASE PopEarlier
    BY <1>2, <2>2 DEF UInv, PushOK, Pushing, Updating, PopEarlier
  <2> QED
    BY <1>3, <2>1, <2>2
<1>13. Ordered'
  <2> SUFFICES ASSUME ~ lost PROVE Ordered'
    BY <1>2 DEF Ordered
  <2>1. /\ \A i, j \in first .. last : i < j => tasks[i] < tasks[j]
        /\ \A i \in first .. last, v \in Worker : held[v] # NULL => held[v] < tasks[i]
        /\ \A i \in first .. last, t \in Task : done[t] > 0 => t < tasks[i]
        /\ \A u, v \in Worker : u # v /\ held[u] = held[v] => held[v] = NULL
        /\ \A v \in Worker, t \in Task : done[t] > 0 => held[v] # t
        /\ \A t \in Task : done[t] <= 1
        /\ \A v \in Worker : held[v] # NULL => held[v] < next_push
        /\ \A t \in Task : done[t] > 0 => t < next_push
    BY <1>5 DEF UInv, Ordered
  <2>2. /\ \A i \in first' .. last' : task < tasks[i]
        /\ \A v \in Worker : held[v] # NULL => held[v] < task
        /\ \A t \in Task : done[t] > 0 => t < task
    BY <1>3, <1>4, <1>8, <2>1
  <2>3. \A t \in Task : ~ (t < t)
    BY UTypes, Kinds
  <2>4. \A v \in Worker : held[v] # task
    BY <1>4, <2>2, <2>3
  <2>5. \A v \in Worker, t \in Task : done[t] > 0 => held'[v] # t
    BY <1>4, <1>7, <2>1, <2>2, <2>3
  <2>6. \A u, v \in Worker : u # v /\ held'[u] = held'[v] => held'[v] = NULL
    BY <1>7, <2>1, <2>4
  <2>7. \A i \in first' .. last', v \in Worker : held'[v] # NULL => held'[v] < tasks[i]
    BY <1>7, <1>8, <2>1, <2>2
  <2>8. \A v \in Worker : held'[v] # NULL => held'[v] < next_push
    <3>1. task < next_push
      BY <1>3, <1>4, <1>5 DEF UInv, PushOK
    <3> QED
      BY <1>7, <2>1, <3>1
  <2> QED
    BY <1>2, <1>8, <2>1, <2>5, <2>6, <2>7, <2>8 DEF Ordered, Updating
<1>14. Conserved'
  <2> SUFFICES ASSUME ~ lost, \A v \in Worker : wpc[v] # "ended",
                      NEW t \in Scheduled, t < next_push
               PROVE  \/ \E i \in first' .. last' : tasks[i] = t
                      \/ \E v \in Worker : held'[v] = t
                      \/ done[t] > 0
    BY <1>2, <1>6, <1>7, <1>8 DEF Conserved
  <2>1. \/ \E i \in first .. last : tasks[i] = t
        \/ \E v \in Worker : held[v] = t
        \/ done[t] > 0
    BY <1>5 DEF UInv, Conserved
  <2>2. ASSUME NEW i \in first .. last, tasks[i] = t
        PROVE  i \in first' .. last' \/ held'[w] = t
    <3>1. CASE i = first
      BY <1>3, <1>7, <2>2, <3>1
    <3>2. CASE i # first
      <4>1. PopEarlier
        BY <1>3, <2>2, <3>2, UTypes DEF PopLast
      <4> QED
        BY <2>2, <3>2, <4>1, UTypes DEF PopEarlier
    <3> QED
      BY <3>1, <3>2
  <2>3. ASSUME NEW v \in Worker, held[v] = t PROVE held'[v] = t
    <3>1. t # NULL
      BY UTypes, Kinds
    <3> QED
      BY <1>6, <1>7, <2>3, <3>1
  <2> QED
    BY <2>1, <2>2, <2>3
<1>15. LossDooms'
  <2>1. ASSUME NEW t \in Task, Gone(t) PROVE Gone(t)'
    <3>1. task # t
      BY <1>3, <1>4, <2>1 DEF Gone
    <3> QED
      BY <1>2, <1>7, <1>8, <2>1, <3>1 DEF Gone, Running
  <2>2. (\E v \in Worker : ~ Idle(v)' /\ ~ Running(v)') => \E v \in Worker : ~ Idle(v) /\ ~ Running(v)
    BY <1>7 DEF Idle, Running
  <2>3. ~ pushing.overtaken
    BY <1>3, UTypes DEF UInv, PushOK
  <2> QED
    BY <1>2, <1>8, <2>1, <2>2, <2>3 DEF UInv, LossDooms
<1>16. EventsOK' /\ VectorsAfterNormals'
  BY <1>2, <1>7 DEF UInv, EventsOK, VectorsAfterNormals
<1> QED
  BY <1>9, <1>10, <1>11, <1>12, <1>13, <1>14, <1>15, <1>16 DEF UInv

\* A task starts, the vectors' only after their normals, or fails.
LEMMA TaskMovesSafe ==
  ASSUME UInv, NEW w \in Worker, StartTask(w) \/ TaskFails(w) \/ AbortFlag(w)
  PROVE  UInv'
<1> USE DEF WorkerGoes, eventVars, historyVars
<1>1. /\ wpc[w] \in {"execute", "run", "abort"} /\ ~ Idle(w)
      /\ wpc'[w] \in {"run", "abort", "abort_queue"}
      /\ wpc'[w] = "run" => wpc[w] = "execute" /\ (IsVectorsTask(held[w]) => normals_generated)
      /\ wpc' \in [Worker -> WorkerPc]
      /\ \A v \in Worker : v # w => wpc'[v] = wpc[v]
      /\ UNCHANGED <<queueVars, mpc, args, next_push, held, eventVars, historyVars>>
      /\ success' \in BOOLEAN /\ (success' = success \/ wpc[w] = "abort")
      /\ Scheduled' = Scheduled
  BY UTypes DEF StartTask, TaskFails, AbortFlag, Idle, WorkerPc, Scheduled, first_task
<1>2. Updating /\ mpc \notin Before /\ mpc # "read"
      /\ held[w] \in Scheduled /\ held[w] \in Task /\ held[w] # NULL
  BY <1>1, BusyWorker
<1>3. QueueInv' /\ UNCHANGED <<first, last, tasks, pushing>>
  BY <1>1, UnchangedInv DEF UInv, queueVars
<1>4. ThreadsTypeOK' /\ ArgsOK' /\ WorkersOK' /\ QuietOK' /\ StagesOK' /\ PushOK' /\ Ordered'
  BY <1>1, <1>2, <1>3
  DEF UInv, ThreadsTypeOK, ArgsOK, WorkersOK, QuietOK, StagesOK, PushOK, Ordered, Updating,
      Pushing, Before
<1>5. Conserved'
  <2>1. (\A v \in Worker : wpc'[v] # "ended") => \A v \in Worker : wpc[v] # "ended"
    BY <1>1
  <2> QED
    BY <1>1, <1>3, <2>1 DEF UInv, Conserved, Updating
<1>6. \A t \in Task : Gone(t) => Gone(t)'
  BY <1>1, <1>3 DEF Gone, Running
<1>7. LossDooms'
  <2>1. lost' => \E t \in Task : Gone(t)' /\ tasks'[0] # t
    BY <1>1, <1>3, <1>6 DEF UInv, LossDooms
  <2>2. ASSUME ~ success' \/ (\E v \in Worker : ~ Idle(v)' /\ ~ Running(v)')
        PROVE  pushing'.overtaken \/ \E t \in Task : Gone(t)'
    <3>1. CASE ~ success \/ \E v \in Worker : ~ Idle(v) /\ ~ Running(v)
      BY <1>3, <1>6, <3>1 DEF UInv, LossDooms
    <3>2. CASE ~ (~ success \/ \E v \in Worker : ~ Idle(v) /\ ~ Running(v))
      <4>1. ~ Running(w)'
        BY <1>1, <2>2, <3>2 DEF Idle, Running
      <4>2. CASE lost
        BY <1>1, <2>1, <4>2
      <4>3. CASE ~ lost
        <5>1. /\ \A i \in first .. last : held[w] < tasks[i]
              /\ \A v \in Worker : v # w => held[v] # held[w]
              /\ done[held[w]] = 0
              /\ held[w] < next_push
          BY <1>2, <4>3, UTypes DEF UInv, Ordered
        <5>2. \A i \in first .. last : tasks[i] # held[w]
          BY <1>2, <5>1, UTypes, Kinds
        <5>3. Gone(held[w])'
          BY <1>1, <1>2, <1>3, <4>1, <5>1, <5>2 DEF Gone
        <5> QED
          BY <1>1, <1>2, <5>3
      <4> QED
        BY <4>2, <4>3
    <3> QED
      BY <3>1, <3>2
  <2> QED
    BY <2>1, <2>2 DEF LossDooms
<1>8. EventsOK' /\ VectorsAfterNormals'
  <2>1. ASSUME wpc'[w] = "run", IsVectorsTask(held[w]), args.update_vectors, GeneratesNormals
        PROVE  done[gen_normals_task] > 0
    BY <1>1, <1>2, <2>1 DEF UInv, EventsOK
  <2> QED
    BY <1>1, <1>2, <2>1 DEF UInv, EventsOK, VectorsAfterNormals, Before
<1> QED
  BY <1>3, <1>4, <1>5, <1>7, <1>8 DEF UInv

\* A worker that has failed clears the queue, also under a push, and ends.
LEMMA AbortQueueSafe ==
  ASSUME UInv, NEW w \in Worker, AbortQueue(w)
  PROVE  UInv'
<1> USE DEF WorkerGoes, eventVars, historyVars
<1>1. /\ wpc[w] = "abort_queue" /\ ~ Idle(w) /\ ~ Running(w)
      /\ wpc'[w] = "ended" /\ held'[w] = NULL
      /\ wpc' \in [Worker -> WorkerPc] /\ held' \in [Worker -> Task \cup {NULL}]
      /\ \A v \in Worker : v # w => wpc'[v] = wpc[v] /\ held'[v] = held[v]
      /\ UNCHANGED <<tasks, mpc, args, next_push, eventVars, success, historyVars>>
      /\ first' .. last' = {} /\ Clear /\ clear_unsafe
      /\ Scheduled' = Scheduled
  BY UTypes DEF AbortQueue, Clear, clear_unsafe, Idle, Running, WorkerPc, Scheduled, first_task
<1>2. Updating /\ mpc \notin Before /\ mpc # "read"
  BY <1>1, BusyWorker
<1>3. QueueInv' /\ PushOK'
  BY <1>1, ClearInv, EmptiedPushOK DEF UInv
<1>4. ThreadsTypeOK' /\ ArgsOK' /\ WorkersOK' /\ QuietOK' /\ StagesOK'
  BY <1>1, <1>2
  DEF UInv, ThreadsTypeOK, ArgsOK, WorkersOK, QuietOK, StagesOK, Updating, Before
<1>5. Ordered' /\ Conserved'
  <2>1. \A t \in Task : t # NULL
    BY UTypes
  <2> QED
    BY <1>1, <2>1 DEF UInv, Ordered, Conserved, Updating
<1>6. \A t \in Task : Gone(t) => Gone(t)'
  BY <1>1 DEF Gone, Running
<1>7. LossDooms'
  <2>1. pushing.overtaken => pushing'.overtaken
    BY <1>1 DEF UInv, PushOK, clear_unsafe
  <2>2. pushing.overtaken \/ \E t \in Task : Gone(t)
    BY <1>1 DEF UInv, LossDooms
  <2> QED
    BY <1>1, <1>6, <2>1, <2>2 DEF UInv, LossDooms
<1>8. EventsOK' /\ VectorsAfterNormals'
  BY <1>1, <1>2 DEF UInv, EventsOK, VectorsAfterNormals, Before
<1> QED
  BY <1>3, <1>4, <1>5, <1>7, <1>8 DEF UInv

\* What every task that returns does.
LEMMA ReturnEffect ==
  ASSUME UInv, NEW w \in Worker, TaskReturns(w)
  PROVE  /\ wpc[w] = "run" /\ Running(w) /\ wpc'[w] = "wait" /\ held'[w] = NULL
         /\ held[w] \in Scheduled /\ held[w] \in Task /\ held[w] # NULL
         /\ wpc' \in [Worker -> WorkerPc] /\ held' \in [Worker -> Task \cup {NULL}]
         /\ done' \in [Task -> Nat]
         /\ \A v \in Worker : v # w => wpc'[v] = wpc[v] /\ held'[v] = held[v]
         /\ done'[held[w]] = done[held[w]] + 1
         /\ \A t \in Task : t # held[w] => done'[t] = done[t]
         /\ \A t \in Task : done'[t] > 0 <=> done[t] > 0 \/ t = held[w]
         /\ UNCHANGED <<queueVars, mpc, args, next_push, success, lost, Scheduled>>
         /\ Updating /\ mpc \notin Before /\ mpc # "read"
<1> USE DEF WorkerGoes, TaskReturns
<1>1. wpc[w] = "run" /\ ~ Idle(w) /\ Running(w)
  BY DEF Idle, Running
<1>2. Updating /\ mpc \notin Before /\ mpc # "read"
      /\ held[w] \in Scheduled /\ held[w] \in Task /\ held[w] # NULL
  BY <1>1, BusyWorker
<1>3. /\ wpc'[w] = "wait" /\ held'[w] = NULL
      /\ wpc' \in [Worker -> WorkerPc] /\ held' \in [Worker -> Task \cup {NULL}]
      /\ \A v \in Worker : v # w => wpc'[v] = wpc[v] /\ held'[v] = held[v]
  BY UTypes DEF WorkerPc
<1>4. /\ done' \in [Task -> Nat]
      /\ done'[held[w]] = done[held[w]] + 1
      /\ \A t \in Task : t # held[w] => done'[t] = done[t]
      /\ \A t \in Task : done'[t] > 0 <=> done[t] > 0 \/ t = held[w]
  BY <1>2, UTypes
<1>5. UNCHANGED <<queueVars, mpc, args, next_push, success, lost, Scheduled>>
  BY DEF Scheduled, first_task
<1> QED
  BY <1>1, <1>2, <1>3, <1>4, <1>5

\* It leaves its place in the work of the update to the history of what was done.
LEMMA TaskReturnsSafe ==
  ASSUME UInv, NEW w \in Worker, TaskReturns(w),
         update_pos_tasks_completed' \subseteq Part, update_vec_tasks_completed' \subseteq Part,
         normals_generated' \in BOOLEAN, EventsOK', VectorsAfterNormals'
  PROVE  UInv'
<1>1. /\ wpc[w] = "run" /\ Running(w) /\ wpc'[w] = "wait" /\ held'[w] = NULL
      /\ held[w] \in Scheduled /\ held[w] \in Task /\ held[w] # NULL
      /\ wpc' \in [Worker -> WorkerPc] /\ held' \in [Worker -> Task \cup {NULL}]
      /\ done' \in [Task -> Nat]
      /\ \A v \in Worker : v # w => wpc'[v] = wpc[v] /\ held'[v] = held[v]
      /\ done'[held[w]] = done[held[w]] + 1
      /\ \A t \in Task : t # held[w] => done'[t] = done[t]
      /\ \A t \in Task : done'[t] > 0 <=> done[t] > 0 \/ t = held[w]
      /\ UNCHANGED <<queueVars, mpc, args, next_push, success, lost, Scheduled>>
      /\ Updating /\ mpc \notin Before /\ mpc # "read"
  BY ReturnEffect
<1>2. QueueInv' /\ UNCHANGED <<first, last, tasks, pushing>>
  BY <1>1, UnchangedInv DEF UInv, queueVars
<1>3. ThreadsTypeOK' /\ ArgsOK' /\ WorkersOK' /\ QuietOK' /\ StagesOK' /\ PushOK'
  BY <1>1, <1>2
  DEF UInv, ThreadsTypeOK, ArgsOK, WorkersOK, QuietOK, StagesOK, PushOK, Updating, Pushing,
      Before
<1>4. Ordered'
  <2> SUFFICES ASSUME ~ lost PROVE Ordered'
    BY <1>1 DEF Ordered
  <2>1. /\ \A i, j \in first .. last : i < j => tasks[i] < tasks[j]
        /\ \A i \in first .. last, v \in Worker : held[v] # NULL => held[v] < tasks[i]
        /\ \A i \in first .. last, t \in Task : done[t] > 0 => t < tasks[i]
        /\ \A u, v \in Worker : u # v /\ held[u] = held[v] => held[v] = NULL
        /\ \A v \in Worker, t \in Task : done[t] > 0 => held[v] # t
        /\ \A t \in Task : done[t] <= 1
        /\ \A v \in Worker : held[v] # NULL => held[v] < next_push
        /\ \A t \in Task : done[t] > 0 => t < next_push
    BY <1>1 DEF UInv, Ordered
  <2>2. \A t \in Task : done'[t] <= 1
    BY <1>1, <2>1, UTypes
  <2>3. \A v \in Worker, t \in Task : done'[t] > 0 => held'[v] # t
    BY <1>1, <2>1, UTypes
  <2>4. /\ \A i \in first .. last, v \in Worker : held'[v] # NULL => held'[v] < tasks[i]
        /\ \A i \in first .. last, t \in Task : done'[t] > 0 => t < tasks[i]
        /\ \A u, v \in Worker : u # v /\ held'[u] = held'[v] => held'[v] = NULL
        /\ \A v \in Worker : held'[v] # NULL => held'[v] < next_push
        /\ \A t \in Task : done'[t] > 0 => t < next_push
    BY <1>1, <2>1
  <2> QED
    BY <1>1, <1>2, <2>1, <2>2, <2>3, <2>4 DEF Ordered, Updating
<1>5. Conserved'
  <2> SUFFICES ASSUME ~ lost, \A v \in Worker : wpc'[v] # "ended",
                      NEW t \in Scheduled, t < next_push
               PROVE  \/ \E i \in first .. last : tasks[i] = t
                      \/ \E v \in Worker : held'[v] = t
                      \/ done'[t] > 0
    BY <1>1, <1>2 DEF Conserved
  <2>1. \/ \E i \in first .. last : tasks[i] = t
        \/ \E v \in Worker : held[v] = t
        \/ done[t] > 0
    BY <1>1 DEF UInv, Conserved
  <2>2. t \in Task
    BY UTypes, Kinds
  <2> QED
    BY <1>1, <2>1, <2>2
<1>6. LossDooms'
  <2>1. ASSUME NEW t \in Task, Gone(t) PROVE Gone(t)'
    BY <1>1, <1>2, <2>1 DEF Gone, Running
  <2>2. (\E v \in Worker : ~ Idle(v)' /\ ~ Running(v)') => \E v \in Worker : ~ Idle(v) /\ ~ Running(v)
    BY <1>1 DEF Idle, Running
  <2> QED
    BY <1>1, <1>2, <2>1, <2>2 DEF UInv, LossDooms
<1>7. ArgsOK'
  BY <1>1 DEF UInv, ArgsOK
<1>8. ThreadsTypeOK'
  BY <1>1 DEF UInv, ThreadsTypeOK
<1> QED
  BY <1>2, <1>3, <1>4, <1>5, <1>6, <1>7, <1>8 DEF UInv

LEMMA GenerateNormalsSafe ==
  ASSUME UInv, NEW w \in Worker, GenerateNormals(w)
  PROVE  UInv'
<1>1. held[w] = gen_normals_task /\ TaskReturns(w) /\ normals_generated' = TRUE
      /\ UNCHANGED <<update_pos_tasks_completed, update_vec_tasks_completed>>
  BY DEF GenerateNormals
<1>2. /\ \A t \in Task : done'[t] > 0 <=> done[t] > 0 \/ t = gen_normals_task
      /\ UNCHANGED <<mpc, args>> /\ mpc \notin Before
      /\ gen_normals_task \in Task
  BY <1>1, ReturnEffect
<1>3. \A p \in Part :
        /\ update_task(p) \in Task /\ update_vectors_task(p) \in Task
        /\ update_task(p) # gen_normals_task /\ update_vectors_task(p) # gen_normals_task
  BY <1>2, UTypes, Kinds, KindOf
<1>4. EventsOK' /\ VectorsAfterNormals'
  BY <1>1, <1>2, <1>3 DEF UInv, EventsOK, VectorsAfterNormals, Before
<1> QED
  BY <1>1, <1>4, TaskReturnsSafe DEF UInv, ThreadsTypeOK

LEMMA UpdateVectorsSafe ==
  ASSUME UInv, NEW w \in Worker, UpdateVectors(w)
  PROVE  UInv'
<1>1. /\ IsVectorsTask(held[w]) /\ TaskReturns(w)
      /\ update_vec_tasks_completed' = update_vec_tasks_completed \cup {PartOf(held[w])}
      /\ UNCHANGED <<update_pos_tasks_completed, normals_generated>>
  BY DEF UpdateVectors
<1>2. /\ \A t \in Task : done'[t] > 0 <=> done[t] > 0 \/ t = held[w]
      /\ UNCHANGED <<mpc, args>> /\ mpc \notin Before
      /\ held[w] \in Task /\ wpc[w] = "run" /\ wpc'[w] = "wait" /\ held'[w] = NULL
      /\ \A v \in Worker : v # w => wpc'[v] = wpc[v] /\ held'[v] = held[v]
  BY <1>1, ReturnEffect
<1>3. PartOf(held[w]) \in Part /\ held[w] = update_vectors_task(PartOf(held[w]))
  BY <1>1, <1>2, KindOf
<1>4. /\ gen_normals_task \in Task /\ held[w] # gen_normals_task
      /\ \A p \in Part :
           /\ update_task(p) \in Task /\ update_vectors_task(p) \in Task
           /\ update_task(p) # held[w]
           /\ update_vectors_task(p) = held[w] <=> p = PartOf(held[w])
  BY <1>2, <1>3, UTypes, Kinds, KindOf
<1>5. EventsOK'
  BY <1>1, <1>2, <1>3, <1>4 DEF UInv, EventsOK, Before
<1>6. VectorsAfterNormals'
  BY <1>1, <1>2, <1>3, <1>4 DEF UInv, VectorsAfterNormals
<1> QED
  BY <1>1, <1>3, <1>5, <1>6, TaskReturnsSafe DEF UInv, ThreadsTypeOK

LEMMA UpdatePositionsSafe ==
  ASSUME UInv, NEW w \in Worker, UpdatePositions(w)
  PROVE  UInv'
<1>1. /\ IsPositionsTask(held[w]) /\ TaskReturns(w)
      /\ update_pos_tasks_completed' = update_pos_tasks_completed \cup {PartOf(held[w])}
      /\ UNCHANGED <<update_vec_tasks_completed, normals_generated>>
  BY DEF UpdatePositions
<1>2. /\ \A t \in Task : done'[t] > 0 <=> done[t] > 0 \/ t = held[w]
      /\ UNCHANGED <<mpc, args>> /\ mpc \notin Before
      /\ held[w] \in Task /\ wpc[w] = "run" /\ wpc'[w] = "wait" /\ held'[w] = NULL
      /\ \A v \in Worker : v # w => wpc'[v] = wpc[v] /\ held'[v] = held[v]
  BY <1>1, ReturnEffect
<1>3. PartOf(held[w]) \in Part /\ held[w] = update_task(PartOf(held[w]))
  BY <1>1, <1>2, KindOf
<1>4. /\ gen_normals_task \in Task /\ held[w] # gen_normals_task
      /\ \A p \in Part :
           /\ update_task(p) \in Task /\ update_vectors_task(p) \in Task
           /\ update_vectors_task(p) # held[w]
           /\ update_task(p) = held[w] <=> p = PartOf(held[w])
  BY <1>2, <1>3, UTypes, Kinds, KindOf
<1>5. EventsOK'
  BY <1>1, <1>2, <1>3, <1>4 DEF UInv, EventsOK, Before
<1>6. VectorsAfterNormals'
  BY <1>1, <1>2, <1>3, <1>4 DEF UInv, VectorsAfterNormals
<1> QED
  BY <1>1, <1>3, <1>5, <1>6, TaskReturnsSafe DEF UInv, ThreadsTypeOK

-----------------------------------------------------------------------------
(* The invariant holds, and what follows from it. *)

\* Every step preserves the invariant.
LEMMA UInvNext == UInv /\ [Next]_vars => UInv'
<1> SUFFICES ASSUME UInv, [Next]_vars PROVE UInv'
  OBVIOUS
<1>1. CASE Main
  BY <1>1, MainMovesSafe, BeginUpdateSafe, PrepareSafe, PushTaskSafe, PublishTaskSafe,
     AwaitUpdateSafe
  DEF Main
<1>2. ASSUME NEW w \in Worker, Work(w) PROVE UInv'
  BY <1>2, IdleWorkerSafe, TaskPoppedSafe, TaskMovesSafe, GenerateNormalsSafe,
     UpdateVectorsSafe, UpdatePositionsSafe, AbortQueueSafe
  DEF Work
<1>3. CASE UNCHANGED vars
  BY <1>3, UnchangedInv
  DEF vars, queueVars, workVars, eventVars, historyVars, UInv, ThreadsTypeOK, ArgsOK,
      WorkersOK, QuietOK, StagesOK, PushOK, Ordered, Conserved, LossDooms, Gone, EventsOK,
      VectorsAfterNormals, Updating, Pushing, Idle, Running, Scheduled, first_task, is_empty
<1> QED
  BY <1>1, <1>2, <1>3 DEF Next

\* The invariant holds in every reachable state.
LEMMA UInvCorrect == Spec => []UInv
  BY UInvInit, UInvNext, PTL DEF Spec

\* The variables keep their types (task_queue.h:34-46, model.h:245-262).
THEOREM TypeCorrect == Spec => []TypeOK
<1>1. UInv => TypeOK
  BY DEF UInv, TypeOK, ThreadsTypeOK, QueueInv
<1> QED
  BY <1>1, UInvCorrect, PTL

\* Nobody writes the vertices while they are read, or between two updates
\* (model.h:343-349, Application.cpp:624-659).
THEOREM BufferLeftAloneCorrect == Spec => []BufferLeftAlone
<1>1. UInv => BufferLeftAlone
  BY DEF UInv, BufferLeftAlone, QuietOK, Updating, Idle
<1> QED
  BY <1>1, UInvCorrect, PTL

\* There is room in the queue for every task of an update (model.cpp:458, 901-930).
THEOREM PushNeverRefusedCorrect == Spec => []PushNeverRefused
<1>1. UInv => PushNeverRefused
  <2> SUFFICES ASSUME UInv, mpc = "push" PROVE last < Size - 1
    BY UTypes DEF PushNeverRefused, is_full
  <2>1. last + 1 <= next_push /\ next_push \in Scheduled
    BY DEF UInv, PushOK, Pushing
  <2>2. next_push <= last_task /\ last_task \in Nat
    BY <2>1, UTypes, Kinds
  <2> QED
    BY <2>1, <2>2, UTypes, TasksAssumption, SizeAssumption
<1> QED
  BY <1>1, UInvCorrect, PTL

\* A task of the vectors never waits for normals that nobody is generating: whoever
\* popped their task has it still, or has failed (model.cpp:900-914, 1010-1013).
THEOREM NormalsAreOnTheirWayCorrect == Spec => []NormalsAreOnTheirWay
<1>1. UInv => NormalsAreOnTheirWay
  <2> SUFFICES ASSUME UInv, ~ lost, NEW w \in Worker, wpc[w] = "execute",
                      IsVectorsTask(held[w]), ~ normals_generated,
                      \A v \in Worker : wpc[v] # "ended"
               PROVE  \E v \in Worker : held[v] = gen_normals_task
    BY DEF NormalsAreOnTheirWay
  <2>1. Updating /\ mpc \notin Before
        /\ held[w] \in Scheduled /\ held[w] \in Task /\ held[w] # NULL
    BY BusyWorker DEF Idle
  <2>2. PartOf(held[w]) \in Part /\ held[w] = update_vectors_task(PartOf(held[w]))
    BY <2>1, KindOf
  <2>3. gen_normals_task < held[w] /\ args.update_vectors
    BY <2>1, <2>2, UTypes, Kinds
  <2>4. GeneratesNormals
    BY ModeAssumption DEF UInv, EventsOK
  <2>5. gen_normals_task \in Scheduled /\ gen_normals_task \in Task
    BY <2>3, <2>4, UTypes, Kinds
  <2>6. ~ (done[gen_normals_task] > 0)
    BY <2>1, <2>3, <2>4 DEF UInv, EventsOK
  <2>7. held[w] < next_push /\ \A i \in first .. last : held[w] < tasks[i]
    BY <2>1 DEF UInv, Ordered
  <2>8. gen_normals_task < next_push
    BY <2>1, <2>3, <2>5, <2>7, UTypes, Kinds
  <2>9. \A i \in first .. last : tasks[i] # gen_normals_task
    BY <2>1, <2>3, <2>5, <2>7, UTypes, Kinds
  <2> QED
    BY <2>1, <2>5, <2>6, <2>8, <2>9 DEF UInv, Conserved
<1> QED
  BY <1>1, UInvCorrect, PTL

\* The parts of a range, each gone through once, reach each of its vertices once.
LEMMA OncePerVertex ==
  ASSUME NEW start, NEW num, InModel(start, num), NEW v \in Vertex
  PROVE  Cardinality({u \in Part \X {1, 2} : v \in PartVertices(start, num, u[1]) /\ u[2] = 1})
           = IF v \in VerticesFrom(start, num) THEN 1 ELSE 0
<1> DEFINE S == {u \in Part \X {1, 2} : v \in PartVertices(start, num, u[1]) /\ u[2] = 1}
<1>1. v \in VerticesFrom(start, num) <=> \E p \in Part : v \in PartVertices(start, num, p)
  BY PartsCover
<1>2. CASE v \in VerticesFrom(start, num)
  <2>1. PICK p \in Part : v \in PartVertices(start, num, p)
    BY <1>1, <1>2
  <2>2. \A q \in Part : v \in PartVertices(start, num, q) => q = p
    BY <2>1, PartsDisjoint
  <2>3. S = {<<p, 1>>}
    BY <2>1, <2>2
  <2> QED
    BY <1>2, <2>3, FS_Singleton
<1>3. CASE v \notin VerticesFrom(start, num)
  <2>1. S = {}
    BY <1>1, <1>3
  <2> QED
    BY <1>3, <2>1, FS_EmptySet
<1> QED
  BY <1>2, <1>3

\* An update that ends well has written each vertex of its range once, and no other
\* (model.h:337-349, model.cpp:879-931).
THEOREM EachVertexOnceCorrect == Spec => []EachVertexOnce
<1>1. UInv => EachVertexOnce
  <2> SUFFICES ASSUME UInv, mpc = "read", NEW v \in Vertex
               PROVE  LET once == IF v \in VerticesFrom(args.start, args.num) THEN 1 ELSE 0
                      IN  /\ Cardinality(Updates(v, update_task)) = once
                          /\ args.update_vectors =>
                               Cardinality(Updates(v, update_vectors_task)) = once
    BY DEF EachVertexOnce
  <2>1. \A t \in Scheduled : t \in Task /\ done[t] = 1
    <3>1. ~ lost
      BY DEF UInv, QuietOK, Updating
    <3>2. \A t \in Scheduled : t \in Task /\ done[t] > 0 /\ done[t] <= 1
      BY <3>1, UTypes, Kinds DEF UInv, StagesOK, Ordered
    <3> QED
      BY <3>2, UTypes
  <2>2. /\ \A p \in Part : done[update_task(p)] = 1
        /\ args.update_vectors => \A p \in Part : done[update_vectors_task(p)] = 1
    BY <2>1, UTypes, Kinds
  <2> DEFINE S == {u \in Part \X {1, 2} :
                     v \in PartVertices(args.start, args.num, u[1]) /\ u[2] = 1}
  <2>3. Cardinality(S) = IF v \in VerticesFrom(args.start, args.num) THEN 1 ELSE 0
    BY OncePerVertex DEF UInv, ArgsOK
  <2>4. Updates(v, update_task) = S
    BY <2>2 DEF Updates
  <2>5. args.update_vectors => Updates(v, update_vectors_task) = S
    BY <2>2 DEF Updates
  <2> QED
    BY <2>3, <2>4, <2>5
<1> QED
  BY <1>1, UInvCorrect, PTL

-----------------------------------------------------------------------------
(* The threads implement the promise of an update. *)

\* What the main thread does starts an update, finishes it, or is nothing to it.
LEMMA MainImplements == UInv /\ Main => [Updated!Next]_Updated!vars
<1> SUFFICES ASSUME UInv, Main PROVE [Updated!Next]_Updated!vars
  OBVIOUS
<1> USE DEF MainGoes, eventVars, historyVars
<1>1. ASSUME NEW start \in Vertex \cup {VerticesNum},
             NEW num \in ALL_VERTICES .. VerticesNum + 1,
             NEW compatible \in BOOLEAN, NEW update_vectors \in BOOLEAN,
             BeginUpdate(start, num, compatible, update_vectors)
      PROVE  Updated!Start
  <2>1. /\ mpc = "idle" /\ mpc' = "success" /\ success /\ success' = success
        /\ args'.update_vectors = update_vectors
        /\ \A t \in Task : done'[t] = 0
    BY <1>1 DEF BeginUpdate, UInv, QuietOK, Updating
  <2>2. /\ gen_normals_task \in Task
        /\ \A p \in Part : update_task(p) \in Task /\ update_vectors_task(p) \in Task
    BY UTypes, Kinds
  <2>3. /\ {p \in Part : args'.update_vectors /\ done'[update_vectors_task(p)] = 0}
             = IF update_vectors THEN Part ELSE {}
        /\ {p \in Part : done'[update_task(p)] = 0} = Part
    BY <2>1, <2>2
  <2> QED
    BY <2>1, <2>2, <2>3, ModeAssumption DEF Updated!Start
<1>2. CASE AwaitUpdate
  <2>1. mpc = "wait" /\ mpc' = "read" /\ success
        /\ \A t \in Scheduled : done[t] > 0
    BY <1>2, AllDone DEF AwaitUpdate
  <2>2. /\ ~ (args.update_vectors /\ GeneratesNormals /\ done[gen_normals_task] = 0)
        /\ {p \in Part : args.update_vectors /\ done[update_vectors_task(p)] = 0} = {}
        /\ {p \in Part : done[update_task(p)] = 0} = {}
    BY <2>1, UTypes, Kinds
  <2>3. Updated!Finish
    BY <1>2, <2>1, <2>2 DEF AwaitUpdate, Updated!Finish
  <2> QED
    BY <2>3 DEF Updated!Next
<1>3. CASE UNCHANGED <<mpc \notin {"idle", "read", "stopped"}, args, done, success>>
  BY <1>3 DEF Updated!vars
<1>4. CASE StoreSuccess
  <2>1. success
    BY <1>4 DEF StoreSuccess, UInv, QuietOK, Updating
  <2> QED
    BY <1>3, <1>4, <2>1 DEF StoreSuccess
<1>5. CASE UnsetVectors \/ UnsetNormals \/ PushTask \/ PublishTask \/ ReadVertices
  BY <1>3, <1>5 DEF UnsetVectors, UnsetNormals, PushTask, PublishTask, ReadVertices
<1>6. ASSUME NEW start, NEW num, NEW compatible, RefuseArgs(start, num, compatible)
      PROVE  [Updated!Next]_Updated!vars
  BY <1>3, <1>6 DEF RefuseArgs
<1> QED
  BY <1>1, <1>2, <1>4, <1>5, <1>6 DEF Main, Updated!Next

\* What a worker does is a part of the update, a failure, or nothing to it.
LEMMA WorkImplements ==
  ASSUME UInv, NEW w \in Worker, Work(w)
  PROVE  [Updated!Next]_Updated!vars
<1> USE DEF eventVars, historyVars
<1>1. CASE TaskReturns(w)
  <2>1. /\ held[w] \in Task /\ held[w] \in Scheduled /\ wpc[w] = "run"
        /\ \A t \in Task : t # held[w] => done'[t] = done[t]
        /\ \A t \in Task : done'[t] > 0 <=> done[t] > 0 \/ t = held[w]
        /\ done' \in [Task -> Nat]
        /\ UNCHANGED <<mpc, args, success>>
    BY <1>1, ReturnEffect
  <2>2. \A t \in Task : done'[t] = 0 <=> done[t] = 0 /\ t # held[w]
    BY <2>1, UTypes
  <2>3. /\ gen_normals_task \in Task
        /\ \A p \in Part : update_task(p) \in Task /\ update_vectors_task(p) \in Task
    BY UTypes, Kinds
  <2>4. CASE GenerateNormals(w)
    <3>1. /\ held[w] = gen_normals_task /\ args.update_vectors /\ GeneratesNormals
          /\ \A p \in Part : update_task(p) # held[w] /\ update_vectors_task(p) # held[w]
      BY <2>1, <2>3, <2>4, UTypes, Kinds, KindOf DEF GenerateNormals
    <3>2. /\ {p \in Part : args'.update_vectors /\ done'[update_vectors_task(p)] = 0}
               = {p \in Part : args.update_vectors /\ done[update_vectors_task(p)] = 0}
          /\ {p \in Part : done'[update_task(p)] = 0} = {p \in Part : done[update_task(p)] = 0}
          /\ done'[gen_normals_task] # 0
      BY <2>1, <2>2, <2>3, <3>1
    <3> QED
      BY <2>1, <3>1, <3>2 DEF Updated!Next, Updated!GenerateNormals, Updated!vars
  <2>5. CASE UpdateVectors(w)
    <3>1. PICK q \in Part : held[w] = update_vectors_task(q)
      BY <2>1, <2>5, KindOf DEF UpdateVectors
    <3>2. /\ held[w] # gen_normals_task
          /\ \A p \in Part : update_task(p) # held[w]
          /\ \A p \in Part : update_vectors_task(p) = held[w] <=> p = q
          /\ IsVectorsTask(held[w])
      BY <2>1, <3>1, KindOf
    <3>3. ~ (args.update_vectors /\ GeneratesNormals /\ done[gen_normals_task] = 0)
      BY <2>1, <2>3, <3>2, UTypes DEF UInv, VectorsAfterNormals
    <3>4. /\ {p \in Part : args'.update_vectors /\ done'[update_vectors_task(p)] = 0}
               = {p \in Part : args.update_vectors /\ done[update_vectors_task(p)] = 0} \ {q}
          /\ {p \in Part : done'[update_task(p)] = 0} = {p \in Part : done[update_task(p)] = 0}
          /\ done'[gen_normals_task] = done[gen_normals_task]
      BY <2>1, <2>2, <2>3, <3>2
    <3>5. CASE q \in {p \in Part : args.update_vectors /\ done[update_vectors_task(p)] = 0}
      <4>1. Updated!UpdateVectors(q)
        BY <2>1, <3>3, <3>4 DEF Updated!UpdateVectors
      <4> QED
        BY <3>5, <4>1 DEF Updated!Next
    <3>6. CASE q \notin {p \in Part : args.update_vectors /\ done[update_vectors_task(p)] = 0}
      <4>1. {p \in Part : args'.update_vectors /\ done'[update_vectors_task(p)] = 0}
              = {p \in Part : args.update_vectors /\ done[update_vectors_task(p)] = 0}
        BY <3>4, <3>6
      <4> QED
        BY <2>1, <3>4, <4>1 DEF Updated!vars
    <3> QED
      BY <3>5, <3>6
  <2>6. CASE UpdatePositions(w)
    <3>1. PICK q \in Part : held[w] = update_task(q)
      BY <2>1, <2>6, KindOf DEF UpdatePositions
    <3>2. /\ held[w] # gen_normals_task
          /\ \A p \in Part : update_vectors_task(p) # held[w]
          /\ \A p \in Part : update_task(p) = held[w] <=> p = q
      BY <2>1, <3>1, KindOf
    <3>3. /\ {p \in Part : args'.update_vectors /\ done'[update_vectors_task(p)] = 0}
               = {p \in Part : args.update_vectors /\ done[update_vectors_task(p)] = 0}
          /\ {p \in Part : done'[update_task(p)] = 0}
               = {p \in Part : done[update_task(p)] = 0} \ {q}
          /\ done'[gen_normals_task] = done[gen_normals_task]
      BY <2>1, <2>2, <2>3, <3>2
    <3>4. CASE q \in {p \in Part : done[update_task(p)] = 0}
      <4>1. Updated!UpdatePositions(q)
        BY <2>1, <3>3 DEF Updated!UpdatePositions
      <4> QED
        BY <3>4, <4>1 DEF Updated!Next
    <3>5. CASE q \notin {p \in Part : done[update_task(p)] = 0}
      <4>1. {p \in Part : done'[update_task(p)] = 0} = {p \in Part : done[update_task(p)] = 0}
        BY <3>3, <3>5
      <4> QED
        BY <2>1, <3>3, <4>1 DEF Updated!vars
    <3> QED
      BY <3>4, <3>5
  <2>7. GenerateNormals(w) \/ UpdateVectors(w) \/ UpdatePositions(w)
    <3>1. wpc[w] = "run" /\ wpc'[w] = "wait"
      BY <1>1, ReturnEffect
    <3> QED
      BY <3>1, UTypes
      DEF Work, WaitForTasks, PopTask, StartTask, TaskFails, AbortFlag, AbortQueue, WorkerGoes
  <2> QED
    BY <2>4, <2>5, <2>6, <2>7
<1>2. CASE AbortFlag(w)
  <2>1. Updated!Fail
    BY <1>2 DEF AbortFlag, Updated!Fail
  <2> QED
    BY <2>1 DEF Updated!Next
<1>3. CASE UNCHANGED <<mpc, args, done, success>>
  BY <1>3 DEF Updated!vars
<1>4. TaskReturns(w) \/ AbortFlag(w) \/ UNCHANGED <<mpc, args, done, success>>
  BY DEF Work, WaitForTasks, PopTask, StartTask, GenerateNormals, UpdateVectors,
         UpdatePositions, TaskFails, AbortQueue
<1> QED
  BY <1>1, <1>2, <1>3, <1>4

\* Whatever the interleaving of the threads, what they do together is what
\* UpdateBarrier allows: one update at a time, its vectors after its normals, and no
\* update over before all of its parts are, unless it failed (model.h:305-349).
THEOREM ImplementsUpdateCorrect == Spec => ImplementsUpdate
<1>1. Init => Updated!Init
  <2> SUFFICES ASSUME Init PROVE Updated!Init
    OBVIOUS
  <2>1. args \in Args /\ \A t \in Task : done[t] = 1
    BY UInvInit DEF UInv, ThreadsTypeOK, Init
  <2>2. {p \in Part : done[update_task(p)] = 0} = {}
    BY <2>1, Kinds
  <2> QED
    BY <2>2 DEF Init, Updated!Init
<1>2. UInv /\ [Next]_vars => [Updated!Next]_Updated!vars
  <2> SUFFICES ASSUME UInv, [Next]_vars PROVE [Updated!Next]_Updated!vars
    OBVIOUS
  <2>1. CASE UNCHANGED vars
    BY <2>1 DEF vars, eventVars, historyVars, Updated!vars
  <2> QED
    BY <2>1, MainImplements, WorkImplements DEF Next
<1> QED
  BY <1>1, <1>2, UInvCorrect, PTL DEF Spec, ImplementsUpdate, Updated!Spec
=============================================================================
