---------------------------- MODULE Frames_proofs -----------------------------
(***************************************************************************)
(* Proofs about the frames of the demo, for any number of models, clusters *)
(* and worker threads: what the main thread may rely on between its waits, *)
(* whatever the user changes between frames and whatever the queues lose.  *)
(***************************************************************************)
EXTENDS Frames, TLAPS

Busy == {"execute", "run", "abort", "release"}

\* A worker holds a task from its pop to the end of it, and aborts only steps.
WorkersOK ==
  \A w \in Worker :
    /\ held[w] # none <=> wpc[w] \in Busy
    /\ wpc[w] \in {"abort", "release"} => held[w] \in StepTask
    /\ wpc[w] = "release" => ~ model[at[w]].success

\* While the main thread adds the models, every thread has an executor of each, and one
\* that says it is stopped was never started.
ExecutorsOK ==
  \A w \in Worker :
    /\ thread[w].executors = IF mpc = "setup" THEN mi - 1 ELSE ModelsNum
    /\ mpc = "setup" /\ thread[w].stopped => wpc[w] = "created"

\* The batch that the main thread pushes.
InBatch == mpc \in {"push", "publish"}
PushesStep == InBatch /\ next_push \in StepTask
PushesUpdate == InBatch /\ next_push \in UpdateTask
Batch == IF next_push \in StepTask THEN StepTask ELSE UpdateTask

\* Before the first push the queue is empty; from then on slot 0 has one of the
\* tasks of the batch that were pushed.
PushOK ==
  InBatch =>
    /\ next_push \in Task
    /\ IF mpc = "push" /\ next_push \in {0, final_task + 1} THEN model[mi].queue = <<>>
       ELSE zero \in Batch /\ zero <= next_push

\* Where the tasks of model m are.
Elements(q) == {q[i] : i \in 1 .. Len(q)}
NoRepeat(q) == \A i, j \in 1 .. Len(q) : q[i] = q[j] => i = j
Queued(m) == Elements(model[m].queue)
Held(m) == {t \in Task : \E w \in Worker : at[w] = m /\ held[w] = t}
Finished(m) == model[m].clusters \cup model[m].updated \cup {t \in {final_task} : model[m].step}
Unpushed(m) == IF Pushing(m) THEN {t \in Batch : t >= next_push} ELSE {}

OneHolder(m) ==
  \A v, w \in Worker : at[v] = m /\ at[w] = m /\ held[v] # none /\ held[v] = held[w] => v = w

\* A task that was lost is nowhere.  As long as none is, every task is in one place.
Places(Q, H, F, U, L) ==
  /\ U \cap (Q \cup H \cup F) = {}
  /\ L \cap (Q \cup H \cup F \cup U) = {}
  /\ L = {} => Q \cap (H \cup F) = {} /\ H \cap F = {}

PlacesOK(m) ==
  model[m].success =>
    /\ Places(Queued(m), Held(m), Finished(m), Unpushed(m), lost[m])
    /\ lost[m] = {} => NoRepeat(model[m].queue) /\ OneHolder(m)
    /\ Pushing(m) => zero \notin lost[m]

Done(m) == model[m].step /\ model[m].success
Updated(m) == model[m].updated = UpdateTask

\* The tasks of a step that is done, and those of an update that is, are in no place any
\* more; an update is under way only between two steps.
KindsOK(m) ==
  /\ Done(m) => /\ model[m].clusters = Cluster
                /\ StepTask \cap (Queued(m) \cup Held(m) \cup Unpushed(m)) = {}
  /\ Updated(m) => UpdateTask \cap (Queued(m) \cup Held(m) \cup Unpushed(m)) = {}
  /\ Updated(m) \/ Done(m)

\* The events of a step that has not failed tell what was matched.
StepOK(m) ==
  model[m].success =>
    /\ todo[m] = Cluster \ model[m].clusters
    /\ \A w \in Worker : at[w] = m /\ held[w] = final_task /\ wpc[w] # "execute" =>
         model[m].clusters = Cluster

\* What the main thread has waited for when it is where it is.
StepsAwaited ==
  /\ ~ settings.gpu =>
       /\ mpc \in {"setup", "messages", "update", "update_wait", "render"} \/ PushesUpdate =>
            \A m \in Model : Done(m)
       /\ mpc \in {"prepare", "hit", "compute"} => \A m \in Model : m >= mi => Done(m)
       /\ PushesStep => \A m \in Model : m > mi => Done(m)
       /\ mpc = "finish" => \A m \in Model : m < mi => Done(m)
  /\ mpc \in {"hit", "compute"} => Done(mi)

UpdatesAwaited ==
  /\ mpc \in {"setup", "messages", "prepare", "hit", "compute", "finish", "render"} \/ PushesStep =>
       \A m \in Model : Updated(m)
  /\ mpc = "update" => \A m \in Model : m >= mi => Updated(m)
  /\ PushesUpdate => \A m \in Model : m > mi => Updated(m)
  /\ mpc = "update_wait" => \A m \in Model : m < mi => Updated(m)
  /\ mpc \in {"update", "update_wait"} /\ (settings.gpu \/ settings.show_mode # "graphical") =>
       \A m \in Model : Updated(m)
  /\ PushesUpdate => ~ settings.gpu /\ settings.show_mode = "graphical"

ModelOK(m) == PlacesOK(m) /\ KindsOK(m) /\ StepOK(m)

FInv ==
  /\ TypeOK /\ WorkersOK /\ ExecutorsOK /\ StepsAwaited /\ UpdatesAwaited /\ PushOK
  /\ \A m \in Model : ModelOK(m)

\* Where a buffer may be stale, something asks for an update of it.
StaleIsUpdated ==
  /\ mpc = "setup" => flags.emultate_one_step
  /\ mpc = "messages" => \/ flags.vertices_update_needed \/ flags.emultate_one_step
                         \/ UpdatesBuffer => settings.show_mode \in fresh
  /\ DrawnIsCurrent

-----------------------------------------------------------------------------
(* Tasks and queues. *)

LEMMA TaskNumbers ==
  /\ ClustersNum \in Nat \ {0} /\ UpdateTasksNum \in Nat \ {0}
  /\ final_task = ClustersNum /\ last_update_task = ClustersNum + UpdateTasksNum
  /\ none = -1 /\ Cluster = 0 .. ClustersNum - 1 /\ StepTask = 0 .. ClustersNum
  /\ UpdateTask = ClustersNum + 1 .. ClustersNum + UpdateTasksNum
  /\ Task = 0 .. ClustersNum + UpdateTasksNum
BY NumbersAssumption DEF final_task, last_update_task, none, StepTask, UpdateTask, Task, Cluster

LEMMA TaskKinds ==
  /\ Task = StepTask \cup UpdateTask /\ StepTask \cap UpdateTask = {}
  /\ StepTask = Cluster \cup {final_task} /\ final_task \notin Cluster
  /\ none \notin Task /\ Task \subseteq Int
  /\ 0 \in StepTask /\ final_task + 1 \in UpdateTask
BY TaskNumbers

LEMMA EmptyElements == Elements(<<>>) = {} /\ NoRepeat(<<>>) /\ <<>> \in Seq(Task)
BY DEF Elements, NoRepeat

LEMMA ElementsTyped ==
  ASSUME NEW q \in Seq(Task)
  PROVE  Elements(q) \subseteq Task /\ (Elements(q) = {} => q = <<>>)
<1>1. Len(q) \in Nat /\ \A i \in 1 .. Len(q) : q[i] \in Task
  OBVIOUS
<1>2. Elements(q) \subseteq Task
  BY <1>1 DEF Elements
<1>3. ASSUME q # <<>> PROVE q[1] \in Elements(q)
  <2>1. 1 \in 1 .. Len(q)
    BY <1>1, <1>3
  <2> QED BY <2>1 DEF Elements
<1> QED BY <1>2, <1>3

LEMMA TailElements ==
  ASSUME NEW q \in Seq(Task), q # <<>>
  PROVE  /\ Tail(q) \in Seq(Task) /\ Head(q) \in Task /\ Head(q) \in Elements(q)
         /\ Elements(Tail(q)) \subseteq Elements(q)
         /\ NoRepeat(q) => NoRepeat(Tail(q)) /\ Head(q) \notin Elements(Tail(q))
<1>1. /\ Len(q) \in Nat \ {0} /\ Len(Tail(q)) = Len(q) - 1 /\ Tail(q) \in Seq(Task)
      /\ Head(q) = q[1] /\ \A i \in 1 .. Len(q) - 1 : Tail(q)[i] = q[i + 1]
      /\ \A i \in 1 .. Len(q) : q[i] \in Task
  OBVIOUS
<1>2. 1 \in 1 .. Len(q) /\ \A i \in 1 .. Len(q) - 1 : i + 1 \in 1 .. Len(q) /\ i + 1 # 1
  BY <1>1
<1>3. Head(q) \in Task /\ Head(q) \in Elements(q)
  BY <1>1, <1>2 DEF Elements
<1>4. Elements(Tail(q)) \subseteq Elements(q)
  BY <1>1, <1>2 DEF Elements
<1>5. ASSUME NoRepeat(q) PROVE NoRepeat(Tail(q)) /\ Head(q) \notin Elements(Tail(q))
  <2>1. ASSUME NEW i \in 1 .. Len(q) - 1, NEW j \in 1 .. Len(q) - 1, Tail(q)[i] = Tail(q)[j]
        PROVE  i = j
    <3>1. q[i + 1] = q[j + 1] /\ i + 1 \in 1 .. Len(q) /\ j + 1 \in 1 .. Len(q)
      BY <1>1, <1>2, <2>1
    <3>2. i + 1 = j + 1
      BY <1>5, <3>1 DEF NoRepeat
    <3> QED BY <3>2
  <2>2. NoRepeat(Tail(q))
    BY <1>1, <2>1 DEF NoRepeat
  <2>3. ASSUME NEW i \in 1 .. Len(q) - 1, Tail(q)[i] = Head(q) PROVE FALSE
    <3>1. q[i + 1] = q[1]
      BY <1>1, <2>3
    <3> QED BY <1>2, <1>5, <3>1 DEF NoRepeat
  <2>4. Head(q) \notin Elements(Tail(q))
    BY <1>1, <2>3 DEF Elements
  <2> QED BY <2>2, <2>4
<1> QED BY <1>1, <1>3, <1>4, <1>5

LEMMA AppendElements ==
  ASSUME NEW q \in Seq(Task), NEW t \in Task
  PROVE  /\ Append(q, t) \in Seq(Task) /\ Append(q, t) # <<>>
         /\ Elements(Append(q, t)) = Elements(q) \cup {t}
         /\ NoRepeat(q) /\ t \notin Elements(q) => NoRepeat(Append(q, t))
<1>1. PICK p : p = Append(q, t)
  OBVIOUS
<1>2. /\ p \in Seq(Task) /\ p # <<>> /\ Len(q) \in Nat /\ Len(p) = Len(q) + 1
      /\ p[Len(q) + 1] = t /\ \A i \in 1 .. Len(q) : p[i] = q[i]
  BY <1>1
<1>3. Elements(p) = Elements(q) \cup {t}
  <2>1. \A i \in 1 .. Len(q) + 1 : i \in 1 .. Len(q) \/ i = Len(q) + 1
    BY <1>2
  <2>2. Len(q) + 1 \in 1 .. Len(p) /\ \A i \in 1 .. Len(q) : i \in 1 .. Len(p)
    BY <1>2
  <2> QED BY <1>2, <2>1, <2>2 DEF Elements
<1>4. ASSUME NoRepeat(q), t \notin Elements(q) PROVE NoRepeat(p)
  <2> SUFFICES ASSUME NEW i \in 1 .. Len(p), NEW j \in 1 .. Len(p), p[i] = p[j] PROVE i = j
    BY DEF NoRepeat
  <2>1. \A d \in 1 .. Len(q) : q[d] # t
    BY <1>4 DEF Elements
  <2>2. (i \in 1 .. Len(q) \/ i = Len(q) + 1) /\ (j \in 1 .. Len(q) \/ j = Len(q) + 1)
    BY <1>2
  <2> QED BY <1>2, <1>4, <2>1, <2>2 DEF NoRepeat
<1> QED BY <1>1, <1>2, <1>3, <1>4


-----------------------------------------------------------------------------
(* Where the tasks are. *)

LEMMA PlacesFewer ==
  ASSUME NEW Q, NEW H, NEW F, NEW U, NEW L, Places(Q, H, F, U, L),
         NEW Q2 \in SUBSET Q, NEW H2 \in SUBSET H, NEW F2 \in SUBSET F, NEW U2 \in SUBSET U
  PROVE  Places(Q2, H2, F2, U2, L)
BY DEF Places

\* A worker pops task t ...
LEMMA PlacesPop ==
  ASSUME NEW Q, NEW H, NEW F, NEW U, NEW L, Places(Q, H, F, U, L), NEW t \in Q,
         NEW Q2 \in SUBSET Q, NEW H2 \in SUBSET (H \cup {t}), L = {} => t \notin Q2
  PROVE  Places(Q2, H2, F, U, L)
BY DEF Places

\* ... and completes it.
LEMMA PlacesFinish ==
  ASSUME NEW Q, NEW H, NEW F, NEW U, NEW L, Places(Q, H, F, U, L), NEW t \in H,
         NEW H2 \in SUBSET H, NEW F2 \in SUBSET (F \cup {t}), L = {} => t \notin H2
  PROVE  Places(Q, H2, F2, U, L)
BY DEF Places

\* The main thread pushes task t, and the push publishes p.
LEMMA PlacesPush ==
  ASSUME NEW Q, NEW H, NEW F, NEW U, NEW L, Places(Q, H, F, U, L), NEW t \in U, NEW p,
         NEW U2 \in SUBSET (U \ {t}), p \notin U2, p \notin L
  PROVE  Places(Q \cup {p}, H, F, U2, L \cup ({t} \ {p}))
BY DEF Places

\* When all is finished, nothing was lost and nothing is left.
LEMMA PlacesFinished ==
  ASSUME NEW Q \in SUBSET Task, NEW H \in SUBSET Task, NEW U \in SUBSET Task,
         NEW L \in SUBSET Task, Places(Q, H, Task, U, L)
  PROVE  Q = {} /\ H = {} /\ U = {} /\ L = {}
BY DEF Places

LEMMA PlacesTyped ==
  ASSUME TypeOK, NEW m \in Model
  PROVE  /\ Queued(m) \subseteq Task /\ Held(m) \subseteq Task /\ Unpushed(m) \subseteq Task
         /\ lost[m] \subseteq Task
         /\ model[m].clusters = Cluster /\ model[m].step /\ Updated(m) => Finished(m) = Task
         /\ Queued(m) = {} => model[m].queue = <<>>
<1>1. model[m].queue \in Seq(Task) /\ lost[m] \subseteq Task
  BY DEF TypeOK
<1>2. Unpushed(m) \subseteq Task
  BY TaskKinds DEF Unpushed, Batch
<1>3. model[m].clusters = Cluster /\ model[m].step /\ Updated(m) => Finished(m) = Task
  BY TaskKinds DEF Finished, Updated
<1> QED BY <1>1, <1>2, <1>3, ElementsTyped DEF Queued, Held

\* A worker's hold puts its task where the others are.
LEMMA HolderHolds ==
  ASSUME TypeOK, NEW w \in Worker, NEW k \in Model, k = at[w], held[w] # none
  PROVE  held[w] \in Task /\ held[w] \in Held(k)
BY DEF TypeOK, Held

\* A model whose step and update are done has no task anywhere.
LEMMA Quiet ==
  ASSUME TypeOK, NEW m \in Model, ModelOK(m), Done(m), Updated(m)
  PROVE  Queued(m) = {} /\ Held(m) = {} /\ Unpushed(m) = {} /\ lost[m] = {} /\ model[m].queue = <<>>
<1>1. model[m].clusters = Cluster /\ model[m].step /\ model[m].success
  BY DEF ModelOK, KindsOK, Done
<1>2. Places(Queued(m), Held(m), Finished(m), Unpushed(m), lost[m]) /\ Finished(m) = Task
  BY <1>1, PlacesTyped DEF ModelOK, PlacesOK
<1> QED BY <1>2, PlacesTyped, PlacesFinished

\* While a batch of a model is pushed, the step or the update of it is not over.
LEMMA PushedIsAwaited ==
  ASSUME TypeOK, PushOK, InBatch, NEW k \in Model, k = mi, KindsOK(k)
  PROVE  /\ next_push \in Batch /\ next_push \in Unpushed(k)
         /\ next_push \in StepTask => ~ Done(k)
         /\ next_push \in UpdateTask => ~ Updated(k)
<1>1. next_push \in Task /\ Pushing(k)
  BY DEF PushOK, InBatch, Pushing
<1>2. next_push \in Batch /\ next_push \in Int /\ next_push >= next_push
  BY <1>1, TaskKinds DEF Batch
<1>3. next_push \in Unpushed(k)
  BY <1>1, <1>2 DEF Unpushed
<1> QED BY <1>2, <1>3 DEF KindsOK

\* Whoever held a task and goes on without one leaves the others theirs.
LEMMA HoldersFewer ==
  ASSUME NEW m \in Model,
         \A v \in Worker : at'[v] = m /\ held'[v] # none => at[v] = m /\ held'[v] = held[v]
  PROVE  Held(m)' \subseteq Held(m) /\ (OneHolder(m) => OneHolder(m)')
<1>1. none \notin Task
  BY TaskKinds
<1> QED BY <1>1 DEF Held, OneHolder

-----------------------------------------------------------------------------
(* What the steps do to the variables. *)

ModelRecord == [queue : Seq(Task), clusters : SUBSET Cluster,
                step : BOOLEAN, updated : SUBSET UpdateTask, success : BOOLEAN]

\* Model k is changed, the others are not.
ModelBecomes(k, q, c, s, u, ok) ==
  /\ model' \in [Model -> ModelRecord]
  /\ \A m \in Model : m # k => model'[m] = model[m]
  /\ model'[k].queue = q /\ model'[k].clusters = c
  /\ model'[k].step = s /\ model'[k].updated = u /\ model'[k].success = ok

\* A worker changes nothing of the main thread's, nor of another worker's.
OnlyWorker(w) ==
  /\ UNCHANGED <<mpc, mi, mainVars, pushVars, deleted, thread>>
  /\ wpc' \in [Worker -> WorkerPc] /\ at' \in [Worker -> Model]
  /\ held' \in [Worker -> Task \cup {none}]
  /\ \A v \in Worker : v # w => wpc'[v] = wpc[v] /\ at'[v] = at[v] /\ held'[v] = held[v]

\* The end of a worker's turn with an executor.
LEMMA NextExecutorLocal ==
  ASSUME TypeOK, NEW w \in Worker, NEW from \in WorkerPc, NextExecutor(w, from)
  PROVE  /\ OnlyWorker(w)
         /\ wpc[w] = from /\ wpc'[w] \in {"wait", "loop"} /\ held'[w] = none
<1>1. /\ wpc \in [Worker -> WorkerPc] /\ at \in [Worker -> Model]
      /\ held \in [Worker -> Task \cup {none}]
      /\ thread[w].executors \in 0 .. ModelsNum
  BY DEF TypeOK
<1>2. held' = [held EXCEPT ![w] = none]
      /\ UNCHANGED <<mpc, mi, mainVars, pushVars, deleted, thread>>
  BY DEF NextExecutor
<1>3. CASE at[w] < thread[w].executors
  <2>1. wpc[w] = from /\ wpc' = [wpc EXCEPT ![w] = "wait"] /\ at' = [at EXCEPT ![w] = @ + 1]
    BY <1>3 DEF NextExecutor, WorkerGoes
  <2>2. at[w] + 1 \in Model
    BY <1>1, <1>3, NumbersAssumption DEF Model
  <2> QED BY <1>1, <1>2, <2>1, <2>2 DEF OnlyWorker, WorkerPc
<1>4. CASE ~ (at[w] < thread[w].executors)
  <2>1. wpc[w] = from /\ wpc' = [wpc EXCEPT ![w] = "loop"] /\ at' = at
    BY <1>4 DEF NextExecutor, WorkerGoes
  <2> QED BY <1>1, <1>2, <2>1 DEF OnlyWorker, WorkerPc
<1> QED BY <1>3, <1>4

LEMMA WorkerGoesLocal ==
  ASSUME TypeOK, NEW w \in Worker, NEW from, NEW to \in WorkerPc, WorkerGoes(w, from, to),
         UNCHANGED <<mpc, mi, mainVars, pushVars, deleted, thread, at>>,
         NEW h \in Task \cup {none}, held' = [held EXCEPT ![w] = h]
  PROVE  OnlyWorker(w) /\ wpc[w] = from /\ wpc'[w] = to /\ at'[w] = at[w] /\ held'[w] = h
BY DEF TypeOK, WorkerGoes, OnlyWorker

LEMMA HeldUnchanged ==
  ASSUME TypeOK, NEW w \in Worker, held' = held
  PROVE  held[w] \in Task \cup {none} /\ held' = [held EXCEPT ![w] = held[w]]
BY DEF TypeOK

\* The fields of a model that a step replaces.
LEMMA ModelUntouched ==
  ASSUME TypeOK, NEW k \in Model, model' = model
  PROVE  ModelBecomes(k, model[k].queue, model[k].clusters, model[k].step, model[k].updated,
                      model[k].success)
BY ZenonT(30) DEF TypeOK, ModelBecomes, ModelRecord

LEMMA ModelQueue ==
  ASSUME TypeOK, NEW k \in Model, NEW q \in Seq(Task), model' = [model EXCEPT ![k].queue = q]
  PROVE  ModelBecomes(k, q, model[k].clusters, model[k].step, model[k].updated, model[k].success)
BY ZenonT(30) DEF TypeOK, ModelBecomes, ModelRecord

LEMMA ModelClusters ==
  ASSUME TypeOK, NEW k \in Model, NEW c \in SUBSET Cluster, model' = [model EXCEPT ![k].clusters = c]
  PROVE  ModelBecomes(k, model[k].queue, c, model[k].step, model[k].updated, model[k].success)
BY ZenonT(30) DEF TypeOK, ModelBecomes, ModelRecord

LEMMA ModelStepped ==
  ASSUME TypeOK, NEW k \in Model, NEW s \in BOOLEAN, model' = [model EXCEPT ![k].step = s]
  PROVE  ModelBecomes(k, model[k].queue, model[k].clusters, s, model[k].updated, model[k].success)
BY ZenonT(30) DEF TypeOK, ModelBecomes, ModelRecord

LEMMA ModelUpdated ==
  ASSUME TypeOK, NEW k \in Model, NEW u \in SUBSET UpdateTask,
         model' = [model EXCEPT ![k].updated = u]
  PROVE  ModelBecomes(k, model[k].queue, model[k].clusters, model[k].step, u, model[k].success)
BY ZenonT(30) DEF TypeOK, ModelBecomes, ModelRecord

LEMMA ModelFailed ==
  ASSUME TypeOK, NEW k \in Model, model' = [model EXCEPT ![k].success = FALSE]
  PROVE  ModelBecomes(k, model[k].queue, model[k].clusters, model[k].step, model[k].updated, FALSE)
BY ZenonT(30) DEF TypeOK, ModelBecomes, ModelRecord

LEMMA ModelReset ==
  ASSUME TypeOK, NEW k \in Model, NEW q \in Seq(Task), NEW c \in SUBSET Cluster, NEW s \in BOOLEAN,
         model' = [model EXCEPT ![k].queue = q, ![k].clusters = c, ![k].step = s]
  PROVE  ModelBecomes(k, q, c, s, model[k].updated, model[k].success)
<1>1. model \in [Model -> ModelRecord] /\ model[k] \in ModelRecord
  BY DEF TypeOK, ModelRecord
<1>2. model' = [model EXCEPT ![k] = [model[k] EXCEPT !.queue = q, !.clusters = c, !.step = s]]
  OBVIOUS
<1>3. PICK new : new = [model[k] EXCEPT !.queue = q, !.clusters = c, !.step = s]
  OBVIOUS
<1>4. new \in ModelRecord
  BY <1>1, <1>3 DEF ModelRecord
<1>5. model' \in [Model -> ModelRecord] /\ model'[k] = new
  BY <1>1, <1>2, <1>3, <1>4
<1>6. \A m \in Model : m # k => model'[m] = model[m]
  BY <1>1, <1>2
<1> QED BY <1>1, <1>3, <1>5, <1>6 DEF ModelBecomes, ModelRecord

LEMMA ModelReleased ==
  ASSUME TypeOK, NEW k \in Model,
         model' = [model EXCEPT ![k].queue = <<>>, ![k].clusters = Cluster, ![k].step = TRUE]
  PROVE  ModelBecomes(k, <<>>, Cluster, TRUE, model[k].updated, model[k].success)
<1>1. <<>> \in Seq(Task) /\ Cluster \in SUBSET Cluster /\ TRUE \in BOOLEAN
  OBVIOUS
<1> QED BY <1>1, ModelReset

LEMMA ModelUpdating ==
  ASSUME TypeOK, NEW k \in Model,
         model' = [model EXCEPT ![k].updated = {}, ![k].success = TRUE]
  PROVE  ModelBecomes(k, model[k].queue, model[k].clusters, model[k].step, {}, TRUE)
<1>1. model \in [Model -> ModelRecord] /\ model[k] \in ModelRecord
  BY DEF TypeOK, ModelRecord
<1>2. model' = [model EXCEPT ![k] = [model[k] EXCEPT !.updated = {}, !.success = TRUE]]
  OBVIOUS
<1>3. PICK new : new = [model[k] EXCEPT !.updated = {}, !.success = TRUE]
  OBVIOUS
<1>4. new \in ModelRecord
  BY <1>1, <1>3 DEF ModelRecord
<1>5. model' \in [Model -> ModelRecord] /\ model'[k] = new
  BY <1>1, <1>2, <1>3, <1>4
<1>6. \A m \in Model : m # k => model'[m] = model[m]
  BY <1>1, <1>2
<1> QED BY <1>1, <1>3, <1>5, <1>6 DEF ModelBecomes, ModelRecord

LEMMA ModelStarted ==
  ASSUME TypeOK, NEW k \in Model,
         model' = [model EXCEPT ![k] = [queue |-> <<>>, clusters |-> {}, step |-> FALSE,
                                        updated |-> @.updated, success |-> TRUE]]
  PROVE  ModelBecomes(k, <<>>, {}, FALSE, model[k].updated, TRUE)
<1>1. PICK q : q = <<>>
  OBVIOUS
<1>4. q \in Seq(Task)
  BY <1>1
<1>2. model' = [model EXCEPT ![k] = [queue |-> q, clusters |-> {}, step |-> FALSE,
                                     updated |-> @.updated, success |-> TRUE]]
  BY <1>1
<1>3. ModelBecomes(k, q, {}, FALSE, model[k].updated, TRUE)
  BY <1>2, <1>4 DEF TypeOK, ModelBecomes, ModelRecord
<1> QED BY <1>1, <1>3

-----------------------------------------------------------------------------
(* What any turn of a worker leaves alone. *)

\* The invariant of a model holds as well with fewer tasks held or to be pushed.
LEMMA ModelStays ==
  ASSUME NEW m \in Model, ModelOK(m), model'[m] = model[m], todo'[m] = todo[m], lost'[m] = lost[m],
         Unpushed(m)' \subseteq Unpushed(m),
         Pushing(m)' => Pushing(m) /\ zero' = zero,
         \A v \in Worker : at'[v] = m /\ held'[v] # none =>
           /\ at[v] = m /\ held'[v] = held[v]
           /\ wpc'[v] # "execute" => \/ wpc[v] # "execute" \/ held[v] # final_task
                                     \/ model[m].clusters = Cluster
  PROVE  ModelOK(m)'
<1>1. PlacesOK(m) /\ KindsOK(m) /\ StepOK(m)
  BY DEF ModelOK
<1>2. Held(m)' \subseteq Held(m) /\ (OneHolder(m) => OneHolder(m)')
  BY HoldersFewer
<1>3. /\ Queued(m)' = Queued(m) /\ Finished(m)' = Finished(m)
      /\ Done(m)' = Done(m) /\ Updated(m)' = Updated(m)
  BY DEF Queued, Finished, Done, Updated
<1>4. PlacesOK(m)'
  <2> SUFFICES ASSUME model[m].success
               PROVE  /\ Places(Queued(m)', Held(m)', Finished(m)', Unpushed(m)', lost'[m])
                      /\ lost'[m] = {} => NoRepeat(model'[m].queue) /\ OneHolder(m)'
                      /\ Pushing(m)' => zero' \notin lost'[m]
    BY DEF PlacesOK
  <2>1. /\ Places(Queued(m), Held(m), Finished(m), Unpushed(m), lost[m])
        /\ lost[m] = {} => NoRepeat(model[m].queue) /\ OneHolder(m)
        /\ Pushing(m) => zero \notin lost[m]
    BY <1>1 DEF PlacesOK
  <2>2. Places(Queued(m), Held(m)', Finished(m), Unpushed(m)', lost[m])
    BY <1>2, <2>1, PlacesFewer
  <2> QED BY <1>2, <1>3, <2>1, <2>2
<1>5. KindsOK(m)'
  BY <1>1, <1>2, <1>3 DEF KindsOK
<1>6. StepOK(m)'
  <2>1. \A v \in Worker : at'[v] = m /\ held'[v] = final_task /\ wpc'[v] # "execute" =>
          \/ at[v] = m /\ held[v] = final_task /\ wpc[v] # "execute"
          \/ model[m].clusters = Cluster
    BY TaskNumbers
  <2> QED BY <1>1, <2>1 DEF StepOK
<1> QED BY <1>4, <1>5, <1>6 DEF ModelOK

\* Worker w, holding then what it should, changed its model k for the better or failed it.
WorkerMoves(w, k, q, c, s, u, ok) ==
  /\ OnlyWorker(w) /\ k = at[w] /\ ModelBecomes(k, q, c, s, u, ok)
  /\ wpc[w] # "created"
  /\ todo' \in [Model -> SUBSET Cluster] /\ \A m \in Model : m # k => todo'[m] = todo[m]
  /\ model[k].queue = <<>> => q = <<>>
  /\ Done(k) => s /\ ok
  /\ Updated(k) => u = UpdateTask
  /\ ok => model[k].success
  /\ held'[w] # none => at'[w] = k
  /\ held'[w] # none <=> wpc'[w] \in Busy
  /\ wpc'[w] \in {"abort", "release"} => held'[w] \in StepTask
  /\ wpc'[w] = "release" => ~ ok

\* When tasks H of model k are still held, the rest of its tasks are where they should be.
WorkerLeaves(k, q, c, s, u, ok, H) ==
  /\ ok => /\ Places(Elements(q), H, c \cup u \cup {t \in {final_task} : s}, Unpushed(k), lost[k])
           /\ todo'[k] = Cluster \ c
           /\ \A v \in Worker : at'[v] = k /\ held'[v] = final_task /\ wpc'[v] # "execute" =>
                c = Cluster
  /\ ok /\ lost[k] = {} => NoRepeat(q) /\ OneHolder(k)'
  /\ s /\ ok => c = Cluster /\ StepTask \cap (Elements(q) \cup H \cup Unpushed(k)) = {}
  /\ u = UpdateTask => UpdateTask \cap (Elements(q) \cup H \cup Unpushed(k)) = {}
  /\ u = UpdateTask \/ (s /\ ok)

LEMMA WorkerRest ==
  ASSUME FInv, NEW w \in Worker, NEW k \in Model, NEW q, NEW c, NEW s, NEW u, NEW ok,
         WorkerMoves(w, k, q, c, s, u, ok)
  PROVE  TypeOK' /\ WorkersOK' /\ ExecutorsOK' /\ StepsAwaited' /\ UpdatesAwaited' /\ PushOK'
<1>1. TypeOK'
  BY DEF FInv, TypeOK, WorkerMoves, OnlyWorker, mainVars, pushVars, ModelBecomes, ModelRecord
<1>2. \A m \in Model : model'[m].success => model[m].success
  BY DEF WorkerMoves, ModelBecomes
<1>3. WorkersOK'
  <2> SUFFICES ASSUME NEW v \in Worker
               PROVE  /\ held'[v] # none <=> wpc'[v] \in Busy
                      /\ wpc'[v] \in {"abort", "release"} => held'[v] \in StepTask
                      /\ wpc'[v] = "release" => ~ model'[at'[v]].success
    BY DEF WorkersOK, none, StepTask, Busy
  <2>1. CASE v = w
    BY <2>1 DEF WorkerMoves, ModelBecomes, Busy
  <2>2. CASE v # w
    <3>1. wpc'[v] = wpc[v] /\ at'[v] = at[v] /\ held'[v] = held[v] /\ at[v] \in Model
      BY <2>2 DEF WorkerMoves, OnlyWorker, FInv, TypeOK
    <3> QED BY <3>1, <1>2 DEF FInv, WorkersOK
  <2> QED BY <2>1, <2>2
<1>4. ExecutorsOK'
  <2>1. mpc' = mpc /\ mi' = mi /\ thread' = thread
    BY DEF WorkerMoves, OnlyWorker
  <2>2. wpc[w] # "created"
    BY DEF WorkerMoves
  <2>3. \A v \in Worker : wpc[v] = "created" => wpc'[v] = "created"
    BY <2>2 DEF WorkerMoves, OnlyWorker
  <2> QED BY <2>1, <2>3 DEF FInv, ExecutorsOK
<1>5. \A m \in Model : Done(m) => Done(m)'
  BY DEF WorkerMoves, ModelBecomes, Done
<1>6. /\ mpc' = mpc /\ mi' = mi /\ settings' = settings /\ mi \in Model
      /\ next_push' = next_push /\ zero' = zero
  BY DEF WorkerMoves, OnlyWorker, mainVars, pushVars, FInv, TypeOK
<1>7. InBatch' = InBatch /\ PushesStep' = PushesStep /\ PushesUpdate' = PushesUpdate /\ Batch' = Batch
  BY <1>6 DEF InBatch, PushesStep, PushesUpdate, Batch
<1>8. StepsAwaited'
  <2>1. Done(mi) => Done(mi)'
    <3>1. model'[mi'] = model'[mi]
      BY <1>6
    <3> QED BY <1>5, <1>6 DEF Done
  <2> QED BY <1>5, <1>6, <1>7, <2>1 DEF FInv, StepsAwaited
<1>9. \A m \in Model : Updated(m) => Updated(m)'
  BY DEF WorkerMoves, ModelBecomes, Updated
<1>10. UpdatesAwaited'
  BY <1>6, <1>7, <1>9 DEF FInv, UpdatesAwaited
<1>11. PushOK'
  <2>1. \A m \in Model : model[m].queue = <<>> => model'[m].queue = <<>>
    BY DEF WorkerMoves, ModelBecomes
  <2>2. model[mi].queue = <<>> => model'[mi'].queue = <<>>
    BY <1>6, <2>1
  <2> QED BY <1>6, <1>7, <2>2 DEF FInv, PushOK
<1> QED BY <1>1, <1>3, <1>4, <1>8, <1>10, <1>11

LEMMA OtherModels ==
  ASSUME FInv, NEW w \in Worker, NEW k \in Model, NEW q, NEW c, NEW s, NEW u, NEW ok,
         WorkerMoves(w, k, q, c, s, u, ok), NEW m \in Model, m # k
  PROVE  ModelOK(m)'
<1>1. model'[m] = model[m] /\ todo'[m] = todo[m] /\ ModelOK(m)
  BY DEF WorkerMoves, ModelBecomes, FInv
<1>2. \A v \in Worker : at'[v] = m /\ held'[v] # none =>
        v # w /\ at[v] = m /\ held'[v] = held[v] /\ wpc'[v] = wpc[v]
  BY DEF WorkerMoves, OnlyWorker
<1>3. lost' = lost /\ Unpushed(m)' = Unpushed(m) /\ Pushing(m)' = Pushing(m) /\ zero' = zero
  BY DEF WorkerMoves, OnlyWorker, pushVars, Unpushed, Pushing, Batch
<1> QED BY <1>1, <1>2, <1>3, ModelStays

LEMMA WorkerKeeps ==
  ASSUME FInv, NEW w \in Worker, NEW k \in Model, NEW q, NEW c, NEW s, NEW u, NEW ok,
         WorkerMoves(w, k, q, c, s, u, ok),
         ModelOK(k)' \/ \E H : Held(k)' \subseteq H /\ WorkerLeaves(k, q, c, s, u, ok, H)
  PROVE  FInv'
<1>1. ASSUME NEW H, Held(k)' \subseteq H, WorkerLeaves(k, q, c, s, u, ok, H) PROVE ModelOK(k)'
  <2>1. /\ model'[k].queue = q /\ model'[k].clusters = c /\ model'[k].step = s
        /\ model'[k].updated = u /\ model'[k].success = ok
    BY DEF WorkerMoves, ModelBecomes
  <2>2. /\ Queued(k)' = Elements(q) /\ Finished(k)' = c \cup u \cup {t \in {final_task} : s}
        /\ Unpushed(k)' = Unpushed(k) /\ lost'[k] = lost[k]
        /\ Pushing(k)' = Pushing(k) /\ zero' = zero
    BY <2>1 DEF Queued, Finished, Unpushed, Pushing, Batch, WorkerMoves, OnlyWorker, pushVars
  <2>3. PlacesOK(k)'
    <3> SUFFICES ASSUME ok
                 PROVE  /\ Places(Queued(k)', Held(k)', Finished(k)', Unpushed(k)', lost'[k])
                        /\ lost'[k] = {} => NoRepeat(model'[k].queue) /\ OneHolder(k)'
                        /\ Pushing(k)' => zero' \notin lost'[k]
      BY <2>1 DEF PlacesOK
    <3>1. Places(Elements(q), H, c \cup u \cup {t \in {final_task} : s}, Unpushed(k), lost[k])
      BY <1>1 DEF WorkerLeaves
    <3>2. Places(Elements(q), Held(k)', c \cup u \cup {t \in {final_task} : s}, Unpushed(k), lost[k])
      BY <1>1, <3>1, PlacesFewer
    <3>3. Pushing(k) => zero \notin lost[k]
      BY DEF FInv, ModelOK, PlacesOK, WorkerMoves
    <3>4. lost[k] = {} => NoRepeat(q) /\ OneHolder(k)'
      BY <1>1 DEF WorkerLeaves
    <3> QED BY <2>1, <2>2, <3>2, <3>3, <3>4
  <2>4. KindsOK(k)'
    <3>1. /\ s /\ ok => c = Cluster /\ StepTask \cap (Elements(q) \cup H \cup Unpushed(k)) = {}
          /\ u = UpdateTask => UpdateTask \cap (Elements(q) \cup H \cup Unpushed(k)) = {}
          /\ u = UpdateTask \/ (s /\ ok)
      BY <1>1 DEF WorkerLeaves
    <3> QED BY <1>1, <2>1, <2>2, <3>1 DEF KindsOK, Done, Updated
  <2>5. StepOK(k)'
    BY <1>1, <2>1 DEF StepOK, WorkerLeaves
  <2> QED BY <2>3, <2>4, <2>5 DEF ModelOK
<1>2. \A m \in Model : ModelOK(m)'
  BY <1>1, OtherModels
<1> QED BY <1>2, WorkerRest DEF FInv

-----------------------------------------------------------------------------
(* The worker threads. *)

\* A turn of a worker that changes no model.
LEMMA WorkerAlone ==
  ASSUME FInv, NEW w \in Worker, OnlyWorker(w), UNCHANGED <<model, todo>>,
         held'[w] # none <=> wpc'[w] \in Busy,
         wpc'[w] \in {"abort", "release"} => held'[w] \in StepTask,
         wpc[w] # "created", wpc'[w] # "release",
         held'[w] # none =>
           /\ at'[w] = at[w] /\ held'[w] = held[w]
           /\ wpc'[w] # "execute" => \/ wpc[w] # "execute" \/ held[w] # final_task
                                     \/ model[at[w]].clusters = Cluster
  PROVE  FInv'
<1>1. TypeOK
  BY DEF FInv
<1>0. PICK k \in Model : k = at[w]
  BY <1>1 DEF TypeOK
<1>2. ModelBecomes(k, model[k].queue, model[k].clusters, model[k].step, model[k].updated,
                   model[k].success)
  BY <1>1, ModelUntouched
<1>3. todo \in [Model -> SUBSET Cluster]
  BY <1>1 DEF TypeOK
<1>4. WorkerMoves(w, k, model[k].queue, model[k].clusters, model[k].step, model[k].updated,
                  model[k].success)
  BY <1>0, <1>2, <1>3 DEF WorkerMoves, Done, Updated
<1>5. \A v \in Worker : at'[v] = k /\ held'[v] # none =>
        /\ at[v] = k /\ held'[v] = held[v]
        /\ wpc'[v] # "execute" => \/ wpc[v] # "execute" \/ held[v] # final_task
                                  \/ model[k].clusters = Cluster
  BY <1>0 DEF OnlyWorker
<1>6. ModelOK(k)'
  <2>1. model'[k] = model[k] /\ todo'[k] = todo[k] /\ ModelOK(k)
    BY DEF FInv
  <2>2. lost' = lost /\ Unpushed(k)' = Unpushed(k) /\ Pushing(k)' = Pushing(k) /\ zero' = zero
    BY DEF OnlyWorker, pushVars, Unpushed, Pushing, Batch
  <2> QED BY <1>5, <2>1, <2>2, ModelStays
<1> QED BY <1>4, <1>6, WorkerKeeps

LEMMA SweepKeeps ==
  ASSUME FInv, NEW w \in Worker,
         BeginSweep(w) \/ WakeUp(w) \/ TimeOut(w) \/ PopNothing(w) \/ SkipTask(w)
         \/ RunTask(w) \/ TaskFails(w)
  PROVE  FInv'
<1>1. TypeOK /\ WorkersOK
  BY DEF FInv
<1>2. held[w] # none <=> wpc[w] \in Busy
  BY <1>1 DEF WorkersOK
<1>3. CASE BeginSweep(w)
  <2>1. /\ wpc[w] = "loop" /\ wpc' = [wpc EXCEPT ![w] = IF thread[w].stopped THEN "ended" ELSE "wait"]
        /\ at' = [at EXCEPT ![w] = 1]
        /\ UNCHANGED <<mpc, mi, mainVars, model, pushVars, deleted, thread, held, todo>>
    BY <1>3 DEF BeginSweep, WorkerGoes
  <2>2. 1 \in Model
    BY NumbersAssumption DEF Model
  <2>3. held[w] = none
    BY <1>2, <2>1 DEF Busy
  <2>4. OnlyWorker(w) /\ held'[w] = none /\ wpc'[w] \in {"ended", "wait"}
    BY <1>1, <2>1, <2>2, <2>3 DEF OnlyWorker, TypeOK, WorkerPc
  <2> QED BY <2>1, <2>4, WorkerAlone DEF Busy
<1>4. CASE WakeUp(w)
  <2>1. WorkerGoes(w, "wait", "pop") /\ held' = [held EXCEPT ![w] = held[w]]
        /\ held[w] \in Task \cup {none}
    BY <1>1, <1>4, HeldUnchanged DEF WakeUp
  <2>2. "pop" \in WorkerPc
    BY DEF WorkerPc
  <2>3. UNCHANGED <<mpc, mi, mainVars, pushVars, deleted, thread, at, model, todo>>
    BY <1>4 DEF WakeUp
  <2>4. OnlyWorker(w) /\ wpc[w] = "wait" /\ wpc'[w] = "pop" /\ at'[w] = at[w] /\ held'[w] = held[w]
    BY <1>1, <2>1, <2>2, <2>3, WorkerGoesLocal
  <2>5. held'[w] = none
    BY <1>2, <2>4 DEF Busy
  <2> QED BY <2>3, <2>4, <2>5, WorkerAlone DEF Busy
<1>5. CASE TimeOut(w) \/ PopNothing(w) \/ SkipTask(w)
  <2>1. PICK from \in WorkerPc : NextExecutor(w, from)
    BY <1>5 DEF TimeOut, PopNothing, SkipTask, WorkerPc
  <2>2. OnlyWorker(w) /\ wpc'[w] \in {"wait", "loop"} /\ held'[w] = none
    BY <1>1, <2>1, NextExecutorLocal
  <2>3. UNCHANGED <<model, todo>>
    BY <1>5 DEF TimeOut, PopNothing, SkipTask
  <2>4. wpc[w] # "created"
    BY <1>5 DEF TimeOut, PopNothing, SkipTask, NextExecutor, WorkerGoes
  <2> QED BY <2>2, <2>3, <2>4, WorkerAlone DEF Busy
<1>6. CASE RunTask(w)
  <2>1. WorkerGoes(w, "execute", "run") /\ held' = [held EXCEPT ![w] = held[w]]
        /\ held[w] \in Task \cup {none}
    BY <1>1, <1>6, HeldUnchanged DEF RunTask
  <2>2. "run" \in WorkerPc
    BY DEF WorkerPc
  <2>3. UNCHANGED <<mpc, mi, mainVars, pushVars, deleted, thread, at, model, todo>>
        /\ (held[w] = final_task => model[at[w]].clusters = Cluster)
    BY <1>6 DEF RunTask
  <2>4. OnlyWorker(w) /\ wpc[w] = "execute" /\ wpc'[w] = "run" /\ at'[w] = at[w] /\ held'[w] = held[w]
    BY <1>1, <2>1, <2>2, <2>3, WorkerGoesLocal
  <2>5. held'[w] # none
    BY <1>2, <2>4 DEF Busy
  <2> QED BY <2>3, <2>4, <2>5, WorkerAlone DEF Busy
<1>7. CASE TaskFails(w)
  <2>1. WorkerGoes(w, "run", "abort") /\ held' = [held EXCEPT ![w] = held[w]]
        /\ held[w] \in Task \cup {none}
    BY <1>1, <1>7, HeldUnchanged DEF TaskFails
  <2>2. "abort" \in WorkerPc
    BY DEF WorkerPc
  <2>3. UNCHANGED <<mpc, mi, mainVars, pushVars, deleted, thread, at, model, todo>>
        /\ held[w] \in StepTask
    BY <1>7 DEF TaskFails
  <2>4. OnlyWorker(w) /\ wpc[w] = "run" /\ wpc'[w] = "abort" /\ at'[w] = at[w] /\ held'[w] = held[w]
    BY <1>1, <2>1, <2>2, <2>3, WorkerGoesLocal
  <2>5. held'[w] # none
    BY <1>2, <2>4 DEF Busy
  <2> QED BY <2>3, <2>4, <2>5, WorkerAlone DEF Busy
<1> QED BY <1>3, <1>4, <1>5, <1>6, <1>7

-----------------------------------------------------------------------------
(* The turns of a worker that change its model. *)

\* What the invariant says of the model k that worker w is in.
LEMMA OwnModel ==
  ASSUME FInv, NEW w \in Worker, NEW k \in Model, k = at[w]
  PROVE  /\ TypeOK /\ WorkersOK /\ PlacesOK(k) /\ KindsOK(k) /\ StepOK(k)
         /\ model[k].queue \in Seq(Task) /\ model[k].clusters \in SUBSET Cluster
         /\ model[k].step \in BOOLEAN /\ model[k].updated \in SUBSET UpdateTask
         /\ model[k].success \in BOOLEAN
         /\ todo \in [Model -> SUBSET Cluster]
         /\ held[w] # none => wpc[w] \in Busy
         /\ wpc[w] \in Busy => held[w] # none
BY DEF FInv, TypeOK, WorkersOK, ModelOK

\* A worker that holds a task of a kind shows that its step, or its update, is not over.
LEMMA HeldIsAwaited ==
  ASSUME FInv, NEW w \in Worker, NEW k \in Model, k = at[w], held[w] # none
  PROVE  /\ held[w] \in Task /\ held[w] \in Held(k)
         /\ held[w] \in StepTask => ~ Done(k) /\ Updated(k)
         /\ held[w] \in UpdateTask => ~ Updated(k) /\ Done(k)
<1>1. TypeOK /\ KindsOK(k)
  BY OwnModel
<1>2. held[w] \in Task /\ held[w] \in Held(k)
  BY <1>1, HolderHolds
<1> QED BY <1>1, <1>2 DEF KindsOK

\* A worker that has completed a task holds nothing; the others hold what they held.
LEMMA Released ==
  ASSUME FInv, NEW w \in Worker, NEW k \in Model, k = at[w], OnlyWorker(w), held'[w] = none
  PROVE  /\ Held(k)' \subseteq Held(k) /\ (OneHolder(k) => OneHolder(k)')
         /\ OneHolder(k) /\ held[w] # none => held[w] \notin Held(k)'
         /\ \A v \in Worker : at'[v] = k /\ held'[v] # none =>
              v # w /\ at[v] = k /\ held'[v] = held[v] /\ wpc'[v] = wpc[v]
<1>1. \A v \in Worker : at'[v] = k /\ held'[v] # none =>
        v # w /\ at[v] = k /\ held'[v] = held[v] /\ wpc'[v] = wpc[v]
  BY DEF OnlyWorker
<1>2. Held(k)' \subseteq Held(k) /\ (OneHolder(k) => OneHolder(k)')
  BY <1>1, HoldersFewer
<1>3. ASSUME OneHolder(k), held[w] # none, held[w] \in Held(k)' PROVE FALSE
  <2>1. PICK v \in Worker : at'[v] = k /\ held'[v] = held[w]
    BY <1>3 DEF Held
  <2>2. v # w /\ at[v] = k /\ held[v] = held[w]
    BY <1>1, <1>3, <2>1
  <2> QED BY <1>3, <2>2 DEF OneHolder
<1> QED BY <1>1, <1>2, <1>3

LEMMA PopKeeps ==
  ASSUME FInv, NEW w \in Worker, PopTask(w)
  PROVE  FInv'
<1>1. PICK k \in Model : k = at[w]
  BY DEF FInv, TypeOK
<1>2. /\ TypeOK /\ WorkersOK /\ PlacesOK(k) /\ KindsOK(k) /\ StepOK(k)
      /\ model[k].queue \in Seq(Task)
      /\ todo \in [Model -> SUBSET Cluster]
  BY <1>1, OwnModel
<1>3. PICK q \in Seq(Task) : q = model[k].queue
  BY <1>2
<1>4. PICK h, r : h = Head(q) /\ r = Tail(q)
  OBVIOUS
<1>5. /\ q # <<>> /\ WorkerGoes(w, "pop", "execute")
      /\ held' = [held EXCEPT ![w] = h]
      /\ model' = [model EXCEPT ![k].queue = r]
      /\ UNCHANGED <<mpc, mi, mainVars, pushVars, deleted, thread, at, todo>>
  BY <1>1, <1>3, <1>4 DEF PopTask
<1>6. /\ h \in Task /\ r \in Seq(Task) /\ h \in Elements(q) /\ Elements(r) \subseteq Elements(q)
      /\ NoRepeat(q) => NoRepeat(r) /\ h \notin Elements(r)
  BY <1>4, <1>5, TailElements
<1>7. ModelBecomes(k, r, model[k].clusters, model[k].step, model[k].updated, model[k].success)
  BY <1>2, <1>5, <1>6, ModelQueue
<1>8. OnlyWorker(w) /\ wpc[w] = "pop" /\ wpc'[w] = "execute" /\ at'[w] = k /\ held'[w] = h
  <2>1. "execute" \in WorkerPc
    BY DEF WorkerPc
  <2> QED BY <1>1, <1>2, <1>5, <1>6, <2>1, WorkerGoesLocal
<1>9. held[w] = none /\ h # none
  <2>1. wpc[w] = "pop" /\ (held[w] # none => wpc[w] \in Busy)
    BY <1>2, <1>8 DEF WorkersOK
  <2>2. held[w] = none
    BY <2>1 DEF Busy
  <2>3. none \notin Task
    BY TaskKinds
  <2> QED BY <1>6, <2>2, <2>3
<1>10. WorkerMoves(w, k, r, model[k].clusters, model[k].step, model[k].updated, model[k].success)
  BY <1>1, <1>2, <1>3, <1>5, <1>7, <1>8, <1>9 DEF WorkerMoves, Busy, Done, Updated
<1>11. \A v \in Worker : v # w => at'[v] = at[v] /\ held'[v] = held[v] /\ wpc'[v] = wpc[v]
  BY <1>8 DEF OnlyWorker
<1>12. PICK H : H = Held(k) \cup {h}
  OBVIOUS
<1>13. Held(k)' \subseteq H
  <2>1. none \notin Task
    BY TaskKinds
  <2> QED BY <1>8, <1>11, <1>12, <2>1 DEF Held
<1>14. OneHolder(k) /\ h \notin Held(k) => OneHolder(k)'
  BY <1>6, <1>8, <1>9, <1>11 DEF OneHolder, Held
<1>15. Queued(k) = Elements(q)
  BY <1>3 DEF Queued
<1>16. ASSUME model[k].success
       PROVE  /\ Places(Elements(r), H, Finished(k), Unpushed(k), lost[k])
              /\ lost[k] = {} => NoRepeat(r) /\ OneHolder(k)'
  <2>1. /\ Places(Elements(q), Held(k), Finished(k), Unpushed(k), lost[k])
        /\ lost[k] = {} => NoRepeat(q) /\ OneHolder(k)
    BY <1>2, <1>3, <1>15, <1>16 DEF PlacesOK
  <2>2. lost[k] = {} => h \notin Elements(r)
    BY <1>6, <2>1
  <2>3. Places(Elements(r), H, Finished(k), Unpushed(k), lost[k])
    BY <1>6, <1>12, <2>1, <2>2, PlacesPop
  <2>4. lost[k] = {} => h \notin Held(k)
    BY <1>6, <2>1 DEF Places
  <2> QED BY <1>6, <1>14, <2>1, <2>3, <2>4
<1>17. ASSUME model[k].success
       PROVE  /\ todo'[k] = Cluster \ model[k].clusters
              /\ \A v \in Worker : at'[v] = k /\ held'[v] = final_task /\ wpc'[v] # "execute" =>
                   model[k].clusters = Cluster
  <2>1. \A v \in Worker : at'[v] = k /\ held'[v] = final_task /\ wpc'[v] # "execute" =>
          at[v] = k /\ held[v] = final_task /\ wpc[v] # "execute"
    BY <1>8, <1>11
  <2> QED BY <1>2, <1>5, <1>17, <2>1 DEF StepOK
<1>18. Elements(r) \cup H \subseteq Queued(k) \cup Held(k)
  BY <1>6, <1>12, <1>15
<1>19. WorkerLeaves(k, r, model[k].clusters, model[k].step, model[k].updated, model[k].success, H)
  <2>1. model[k].success => Places(Elements(r), H, model[k].clusters \cup model[k].updated \cup
                                   {t \in {final_task} : model[k].step}, Unpushed(k), lost[k])
    BY <1>16 DEF Finished
  <2>2. /\ Done(k) => /\ model[k].clusters = Cluster
                      /\ StepTask \cap (Elements(r) \cup H \cup Unpushed(k)) = {}
        /\ Updated(k) => UpdateTask \cap (Elements(r) \cup H \cup Unpushed(k)) = {}
        /\ Updated(k) \/ Done(k)
    BY <1>2, <1>18 DEF KindsOK
  <2> QED BY <1>16, <1>17, <2>1, <2>2 DEF WorkerLeaves, Done, Updated
<1> QED BY <1>10, <1>13, <1>19, WorkerKeeps

LEMMA MatchKeeps ==
  ASSUME FInv, NEW w \in Worker, MatchShape(w)
  PROVE  FInv'
<1>1. PICK k \in Model : k = at[w]
  BY DEF FInv, TypeOK
<1>2. PICK h : h = held[w]
  OBVIOUS
<1>3. /\ TypeOK /\ WorkersOK /\ PlacesOK(k) /\ KindsOK(k) /\ StepOK(k)
      /\ model[k].clusters \in SUBSET Cluster
      /\ todo \in [Model -> SUBSET Cluster]
  BY <1>1, OwnModel
<1>4. PICK c : c = model[k].clusters \cup {h}
  OBVIOUS
<1>5. /\ h \in Cluster /\ NextExecutor(w, "run")
      /\ model' = [model EXCEPT ![k].clusters = c]
      /\ todo' = [todo EXCEPT ![k] = @ \ {h}]
  BY <1>1, <1>2, <1>4 DEF MatchShape
<1>6. OnlyWorker(w) /\ wpc[w] = "run" /\ wpc'[w] \in {"wait", "loop"} /\ held'[w] = none
  <2>1. "run" \in WorkerPc
    BY DEF WorkerPc
  <2> QED BY <1>3, <1>5, <2>1, NextExecutorLocal
<1>7. c \in SUBSET Cluster
  BY <1>3, <1>4, <1>5
<1>8. ModelBecomes(k, model[k].queue, c, model[k].step, model[k].updated, model[k].success)
  BY <1>3, <1>5, <1>7, ModelClusters
<1>9. todo' \in [Model -> SUBSET Cluster] /\ todo'[k] = todo[k] \ {h}
      /\ \A m \in Model : m # k => todo'[m] = todo[m]
  BY <1>3, <1>5
<1>10. WorkerMoves(w, k, model[k].queue, c, model[k].step, model[k].updated, model[k].success)
  BY <1>1, <1>6, <1>8, <1>9 DEF WorkerMoves, Busy, Done, Updated
<1>11. /\ Held(k)' \subseteq Held(k) /\ (OneHolder(k) => OneHolder(k)')
       /\ OneHolder(k) /\ held[w] # none => held[w] \notin Held(k)'
       /\ \A v \in Worker : at'[v] = k /\ held'[v] # none =>
            v # w /\ at[v] = k /\ held'[v] = held[v] /\ wpc'[v] = wpc[v]
  BY <1>1, <1>6, Released
<1>12. h # none /\ h \in StepTask /\ h # final_task
  BY <1>5, TaskKinds
<1>13. h \in Held(k) /\ ~ Done(k) /\ Updated(k)
  BY <1>1, <1>2, <1>12, HeldIsAwaited
<1>14. PICK H : H = Held(k)'
  OBVIOUS
<1>15. ASSUME model[k].success
       PROVE  /\ Places(Queued(k), H, Finished(k) \cup {h}, Unpushed(k), lost[k])
              /\ lost[k] = {} => NoRepeat(model[k].queue) /\ OneHolder(k)'
  <2>1. /\ Places(Queued(k), Held(k), Finished(k), Unpushed(k), lost[k])
        /\ lost[k] = {} => NoRepeat(model[k].queue) /\ OneHolder(k)
    BY <1>3, <1>15 DEF PlacesOK
  <2>2. H \subseteq Held(k) /\ (lost[k] = {} => h \notin H)
    BY <1>2, <1>11, <1>12, <1>14, <2>1
  <2>3. Places(Queued(k), H, Finished(k) \cup {h}, Unpushed(k), lost[k])
    BY <1>13, <2>1, <2>2, PlacesFinish
  <2> QED BY <1>11, <2>1, <2>3
<1>16. ASSUME model[k].success
       PROVE  /\ todo'[k] = Cluster \ c
              /\ \A v \in Worker : at'[v] = k /\ held'[v] = final_task /\ wpc'[v] # "execute" =>
                   c = Cluster
  <2>1. todo'[k] = Cluster \ c
    BY <1>3, <1>4, <1>9, <1>16 DEF StepOK
  <2>2. \A v \in Worker : at'[v] = k /\ held'[v] = final_task /\ wpc'[v] # "execute" =>
          at[v] = k /\ held[v] = final_task /\ wpc[v] # "execute"
    BY <1>11, TaskNumbers
  <2> QED BY <1>3, <1>4, <1>5, <1>16, <2>1, <2>2 DEF StepOK
<1>17. WorkerLeaves(k, model[k].queue, c, model[k].step, model[k].updated, model[k].success, H)
  <2>1. Finished(k) \cup {h} = c \cup model[k].updated \cup {t \in {final_task} : model[k].step}
    BY <1>4 DEF Finished
  <2>2. Updated(k) => UpdateTask \cap (Queued(k) \cup H \cup Unpushed(k)) = {}
    BY <1>3, <1>11, <1>14 DEF KindsOK
  <2> QED BY <1>13, <1>15, <1>16, <2>1, <2>2 DEF WorkerLeaves, Queued, Done, Updated
<1> QED BY <1>10, <1>14, <1>17, WorkerKeeps

\* The last part of an update finds the other tasks done.
LEMMA UpdateKeeps ==
  ASSUME FInv, NEW w \in Worker, UpdateVertices(w)
  PROVE  FInv'
<1>1. PICK k \in Model : k = at[w]
  BY DEF FInv, TypeOK
<1>2. PICK h : h = held[w]
  OBVIOUS
<1>3. /\ TypeOK /\ WorkersOK /\ PlacesOK(k) /\ KindsOK(k) /\ StepOK(k)
      /\ model[k].updated \in SUBSET UpdateTask
      /\ todo \in [Model -> SUBSET Cluster]
  BY <1>1, OwnModel
<1>4. PICK u : u = model[k].updated \cup {h}
  OBVIOUS
<1>5. /\ h \in UpdateTask /\ NextExecutor(w, "run")
      /\ model' = [model EXCEPT ![k].updated = u] /\ todo' = todo
  BY <1>1, <1>2, <1>4 DEF UpdateVertices
<1>6. OnlyWorker(w) /\ wpc[w] = "run" /\ wpc'[w] \in {"wait", "loop"} /\ held'[w] = none
  <2>1. "run" \in WorkerPc
    BY DEF WorkerPc
  <2> QED BY <1>3, <1>5, <2>1, NextExecutorLocal
<1>7. u \in SUBSET UpdateTask
  BY <1>3, <1>4, <1>5
<1>8. ModelBecomes(k, model[k].queue, model[k].clusters, model[k].step, u, model[k].success)
  BY <1>3, <1>5, <1>7, ModelUpdated
<1>9. h # none
  BY <1>5, TaskKinds
<1>10. h \in Held(k) /\ ~ Updated(k) /\ Done(k)
  BY <1>1, <1>2, <1>5, <1>9, HeldIsAwaited
<1>11. WorkerMoves(w, k, model[k].queue, model[k].clusters, model[k].step, u, model[k].success)
  BY <1>1, <1>3, <1>5, <1>6, <1>8, <1>10 DEF WorkerMoves, Busy, Done
<1>12. /\ Held(k)' \subseteq Held(k) /\ (OneHolder(k) => OneHolder(k)')
       /\ OneHolder(k) /\ held[w] # none => held[w] \notin Held(k)'
       /\ \A v \in Worker : at'[v] = k /\ held'[v] # none =>
            v # w /\ at[v] = k /\ held'[v] = held[v] /\ wpc'[v] = wpc[v]
  BY <1>1, <1>6, Released
<1>13. PICK H : H = Held(k)'
  OBVIOUS
<1>14. /\ Places(Queued(k), H, Finished(k) \cup {h}, Unpushed(k), lost[k])
       /\ lost[k] = {} => NoRepeat(model[k].queue) /\ OneHolder(k)'
  <2>1. /\ Places(Queued(k), Held(k), Finished(k), Unpushed(k), lost[k])
        /\ lost[k] = {} => NoRepeat(model[k].queue) /\ OneHolder(k)
    BY <1>3, <1>10 DEF PlacesOK, Done
  <2>2. H \subseteq Held(k) /\ (lost[k] = {} => h \notin H)
    BY <1>2, <1>9, <1>12, <1>13, <2>1
  <2>3. Places(Queued(k), H, Finished(k) \cup {h}, Unpushed(k), lost[k])
    BY <1>10, <2>1, <2>2, PlacesFinish
  <2> QED BY <1>12, <2>1, <2>3
<1>15. /\ model[k].clusters = Cluster /\ model[k].step /\ model[k].success
       /\ StepTask \cap (Queued(k) \cup H \cup Unpushed(k)) = {}
  BY <1>3, <1>10, <1>12, <1>13 DEF KindsOK, Done
<1>16. u = UpdateTask => UpdateTask \cap (Queued(k) \cup H \cup Unpushed(k)) = {}
  <2> SUFFICES ASSUME u = UpdateTask PROVE Queued(k) \cup H \cup Unpushed(k) = {}
    OBVIOUS
  <2>1. Finished(k) \cup {h} = Task
    BY <1>4, <1>15, TaskKinds DEF Finished
  <2>2. Places(Queued(k), H, Task, Unpushed(k), lost[k])
    BY <1>14, <2>1
  <2>3. H \subseteq Task
    BY <1>3, <1>12, <1>13, PlacesTyped
  <2> QED BY <1>3, <2>2, <2>3, PlacesTyped, PlacesFinished
<1>17. WorkerLeaves(k, model[k].queue, model[k].clusters, model[k].step, u, model[k].success, H)
  <2>1. Finished(k) \cup {h} = model[k].clusters \cup u \cup {t \in {final_task} : model[k].step}
    BY <1>4 DEF Finished
  <2>2. todo'[k] = Cluster \ model[k].clusters
    BY <1>3, <1>5, <1>15 DEF StepOK
  <2> QED BY <1>14, <1>15, <1>16, <2>1, <2>2 DEF WorkerLeaves, Queued
<1> QED BY <1>11, <1>13, <1>17, WorkerKeeps

\* The integration finds every cluster matched, nothing queued and nothing lost, unless its
\* step has failed.
LEMMA IntegratedLast ==
  ASSUME FInv, NEW w \in Worker, NEW k \in Model, k = at[w], held[w] = final_task,
         wpc[w] # "execute", model[k].success
  PROVE  /\ ~ model[k].step /\ model[k].clusters = Cluster /\ todo[k] = {}
         /\ Updated(k) /\ final_task \in Held(k)
<1>1. PlacesOK(k) /\ KindsOK(k) /\ StepOK(k)
  BY OwnModel
<1>2. final_task # none /\ final_task \in StepTask
  BY TaskKinds
<1>3. final_task \in Held(k) /\ ~ Done(k) /\ Updated(k)
  BY <1>2, HeldIsAwaited
<1>4. model[k].clusters = Cluster /\ todo[k] = {}
  BY <1>1 DEF StepOK
<1> QED BY <1>3, <1>4 DEF Done

LEMMA IntegrateKeeps ==
  ASSUME FInv, NEW w \in Worker, Integrate(w)
  PROVE  FInv'
<1>1. PICK k \in Model : k = at[w]
  BY DEF FInv, TypeOK
<1>2. /\ TypeOK /\ WorkersOK /\ PlacesOK(k) /\ KindsOK(k) /\ StepOK(k)
      /\ model[k].step \in BOOLEAN /\ todo \in [Model -> SUBSET Cluster]
  BY <1>1, OwnModel
<1>3. /\ held[w] = final_task /\ NextExecutor(w, "run") /\ todo' = todo
  BY DEF Integrate
<1>4. PICK s \in (IF model[k].success THEN {TRUE} ELSE {TRUE, model[k].step}) :
        model' = [model EXCEPT ![k].step = s]
  BY <1>1 DEF Integrate
<1>5. s \in BOOLEAN /\ (model[k].success => s)
  BY <1>2, <1>4
<1>6. OnlyWorker(w) /\ wpc[w] = "run" /\ wpc'[w] \in {"wait", "loop"} /\ held'[w] = none
  <2>1. "run" \in WorkerPc
    BY DEF WorkerPc
  <2> QED BY <1>2, <1>3, <2>1, NextExecutorLocal
<1>7. ModelBecomes(k, model[k].queue, model[k].clusters, s, model[k].updated, model[k].success)
  BY <1>2, <1>4, <1>5, ModelStepped
<1>8. final_task # none /\ final_task \in StepTask
  BY TaskKinds
<1>9. final_task \in Held(k) /\ ~ Done(k) /\ Updated(k)
  BY <1>1, <1>3, <1>8, HeldIsAwaited
<1>10. WorkerMoves(w, k, model[k].queue, model[k].clusters, s, model[k].updated, model[k].success)
  BY <1>1, <1>2, <1>3, <1>5, <1>6, <1>7, <1>9 DEF WorkerMoves, Busy, Updated
<1>11. /\ Held(k)' \subseteq Held(k) /\ (OneHolder(k) => OneHolder(k)')
       /\ OneHolder(k) /\ held[w] # none => held[w] \notin Held(k)'
  BY <1>1, <1>6, Released
<1>12. PICK H : H = Held(k)'
  OBVIOUS
<1>13. Updated(k) => UpdateTask \cap (Queued(k) \cup H \cup Unpushed(k)) = {}
  BY <1>2, <1>11, <1>12 DEF KindsOK
<1>14. CASE model[k].success
  <2>1. model[k].clusters = Cluster /\ todo[k] = {} /\ s
    BY <1>1, <1>3, <1>5, <1>6, <1>14, IntegratedLast
  <2>2. /\ Places(Queued(k), Held(k), Finished(k), Unpushed(k), lost[k])
        /\ lost[k] = {} => NoRepeat(model[k].queue) /\ OneHolder(k)
    BY <1>2, <1>14 DEF PlacesOK
  <2>3. H \subseteq Held(k) /\ (lost[k] = {} => final_task \notin H)
    BY <1>3, <1>8, <1>11, <1>12, <2>2
  <2>4. Finished(k) \cup {final_task} = Task /\ Task \subseteq Finished(k) \cup {final_task}
    BY <1>9, <2>1, TaskKinds DEF Finished, Updated
  <2>5. Places(Queued(k), H, Finished(k) \cup {final_task}, Unpushed(k), lost[k])
    BY <1>9, <2>2, <2>3, PlacesFinish
  <2>6. Places(Queued(k), H, Task, Unpushed(k), lost[k])
    BY <2>4, <2>5
  <2>7. H \subseteq Task
    BY <1>2, <2>3, PlacesTyped
  <2>8. Queued(k) \cup H \cup Unpushed(k) = {}
    BY <1>2, <2>6, <2>7, PlacesTyped, PlacesFinished
  <2>9. model[k].clusters \cup model[k].updated \cup {t \in {final_task} : s} = Task
    BY <1>9, <2>1, TaskKinds DEF Updated
  <2>10. WorkerLeaves(k, model[k].queue, model[k].clusters, s, model[k].updated, model[k].success, H)
    BY <1>3, <1>9, <1>11, <1>13, <2>1, <2>2, <2>6, <2>8, <2>9 DEF WorkerLeaves, Queued, Updated
  <2> QED BY <1>10, <1>12, <2>10, WorkerKeeps
<1>15. CASE ~ model[k].success
  <2>1. WorkerLeaves(k, model[k].queue, model[k].clusters, s, model[k].updated, model[k].success, H)
    BY <1>9, <1>13, <1>15 DEF WorkerLeaves, Queued, Updated
  <2> QED BY <1>10, <1>12, <2>1, WorkerKeeps
<1> QED BY <1>14, <1>15

LEMMA AbortKeeps ==
  ASSUME FInv, NEW w \in Worker, AbortFlag(w) \/ AbortRelease(w)
  PROVE  FInv'
<1>1. PICK k \in Model : k = at[w]
  BY DEF FInv, TypeOK
<1>2. /\ TypeOK /\ WorkersOK /\ KindsOK(k) /\ todo \in [Model -> SUBSET Cluster]
  BY <1>1, OwnModel
<1>3. ASSUME wpc[w] \in {"abort", "release"} PROVE held[w] # none /\ ~ Done(k) /\ Updated(k)
  <2>1. held[w] # none /\ held[w] \in StepTask
    BY <1>2, <1>3 DEF WorkersOK, Busy
  <2> QED BY <1>1, <2>1, HeldIsAwaited
<1>4. CASE AbortFlag(w)
  <2>1. /\ WorkerGoes(w, "abort", "release")
        /\ model' = [model EXCEPT ![k].success = FALSE]
        /\ UNCHANGED <<mpc, mi, mainVars, pushVars, deleted, thread, at, todo>> /\ held' = held
    BY <1>1, <1>4 DEF AbortFlag
  <2>2. held[w] \in Task \cup {none} /\ held' = [held EXCEPT ![w] = held[w]] /\ "release" \in WorkerPc
    BY <1>2, <2>1, HeldUnchanged DEF WorkerPc
  <2>3. OnlyWorker(w) /\ wpc[w] = "abort" /\ wpc'[w] = "release" /\ at'[w] = at[w] /\ held'[w] = held[w]
    BY <1>2, <2>1, <2>2, WorkerGoesLocal
  <2>4. held[w] \in StepTask /\ held[w] # none /\ ~ Done(k) /\ Updated(k)
    BY <1>2, <1>3, <2>3 DEF WorkersOK
  <2>5. ModelBecomes(k, model[k].queue, model[k].clusters, model[k].step, model[k].updated, FALSE)
    BY <1>2, <2>1, ModelFailed
  <2>6. WorkerMoves(w, k, model[k].queue, model[k].clusters, model[k].step, model[k].updated, FALSE)
    BY <1>1, <1>2, <2>1, <2>3, <2>4, <2>5 DEF WorkerMoves, Busy, Updated
  <2>7. Held(k)' = Held(k)
    BY <2>1 DEF Held
  <2>8. WorkerLeaves(k, model[k].queue, model[k].clusters, model[k].step, model[k].updated, FALSE,
                     Held(k))
    BY <1>2, <2>4 DEF WorkerLeaves, KindsOK, Queued, Updated
  <2> QED BY <2>6, <2>7, <2>8, WorkerKeeps
<1>5. CASE AbortRelease(w)
  <2>1. /\ WorkerGoes(w, "release", "ended")
        /\ model' = [model EXCEPT ![k].queue = <<>>, ![k].clusters = Cluster, ![k].step = TRUE]
        /\ UNCHANGED <<mpc, mi, mainVars, pushVars, deleted, thread, at, todo>>
        /\ held' = [held EXCEPT ![w] = none]
    BY <1>1, <1>5 DEF AbortRelease
  <2>2. none \in Task \cup {none} /\ "ended" \in WorkerPc
    BY DEF WorkerPc
  <2>3. OnlyWorker(w) /\ wpc[w] = "release" /\ wpc'[w] = "ended" /\ held'[w] = none
    BY <1>2, <2>1, <2>2, WorkerGoesLocal
  <2>4. ModelBecomes(k, <<>>, Cluster, TRUE, model[k].updated, model[k].success)
    BY <1>2, <2>1, ModelReleased
  <2>5. ~ model[k].success /\ Updated(k)
    BY <1>1, <1>2, <1>3, <2>3 DEF WorkersOK
  <2>6. WorkerMoves(w, k, <<>>, Cluster, TRUE, model[k].updated, model[k].success)
    BY <1>1, <1>2, <2>1, <2>3, <2>4, <2>5 DEF WorkerMoves, Busy, Done, Updated
  <2>7. Held(k)' \subseteq Held(k)
    BY <1>1, <2>3, Released
  <2>8. WorkerLeaves(k, <<>>, Cluster, TRUE, model[k].updated, model[k].success, Held(k))
    BY <1>2, <2>5, EmptyElements DEF WorkerLeaves, KindsOK, Updated
  <2> QED BY <2>6, <2>7, <2>8, WorkerKeeps
<1> QED BY <1>4, <1>5

LEMMA WorkKeeps ==
  ASSUME FInv, NEW w \in Worker, Work(w)
  PROVE  FInv'
BY SweepKeeps, PopKeeps, MatchKeeps, IntegrateKeeps, UpdateKeeps, AbortKeeps DEF Work

-----------------------------------------------------------------------------
(* The main thread. *)

\* One turn of a loop over the models: out of it, on with it, or through with it.
LEMMA NextModelGoes ==
  ASSUME mi \in Model, NEW loop, NEW after, NextModel(loop, after)
  PROVE  /\ mi' \in Model
         /\ \/ mi < ModelsNum /\ mpc' = loop /\ mi' = mi + 1
            \/ mi = ModelsNum /\ mpc' = after /\ mi' = 1
BY NumbersAssumption DEF NextModel, Model

LEMMA EachModelGoes ==
  ASSUME mi \in Model, NEW loop, NEW turn, NEW after, EachModel(loop, turn, after)
  PROVE  /\ mpc = loop /\ mi' \in Model
         /\ \/ turn # loop /\ mpc' = turn /\ mi' = mi
            \/ turn = loop /\ mi < ModelsNum /\ mpc' = loop /\ mi' = mi + 1
            \/ turn = loop /\ mi = ModelsNum /\ mpc' = after /\ mi' = 1
BY NumbersAssumption DEF EachModel, NextModel, Model

\* What the main thread does to its own variables outside a batch leaves the models and the
\* workers alone.
LEMMA MainAlone ==
  ASSUME FInv, UNCHANGED <<model, pushVars, wpc, at, held, todo>>,
         ~ InBatch' \/ UNCHANGED <<mpc, mi>>,
         TypeOK', ExecutorsOK', StepsAwaited', UpdatesAwaited'
  PROVE  FInv'
<1>1. WorkersOK'
  BY DEF FInv, WorkersOK
<1>2. lost' = lost /\ zero' = zero /\ next_push' = next_push
  BY DEF pushVars
<1>3. PushOK'
  <2>1. CASE ~ InBatch'
    BY <2>1 DEF PushOK
  <2>2. CASE UNCHANGED <<mpc, mi>>
    BY <1>2, <2>2 DEF FInv, PushOK, InBatch, Batch
  <2> QED BY <2>1, <2>2
<1>4. ASSUME NEW m \in Model PROVE ModelOK(m)'
  <2>1. Unpushed(m)' \subseteq Unpushed(m) /\ (Pushing(m)' => Pushing(m) /\ zero' = zero)
    BY <1>2 DEF Unpushed, Pushing, Batch, InBatch
  <2>2. ModelOK(m)
    BY DEF FInv
  <2> QED BY <1>2, <2>1, <2>2, ModelStays
<1> QED BY <1>1, <1>3, <1>4 DEF FInv

\* Once the models are added, the threads stay as they are.
LEMMA ExecutorsStay ==
  ASSUME FInv, mpc # "setup", mpc' # "setup",
         \A w \in Worker : thread'[w].executors = thread[w].executors
  PROVE  ExecutorsOK'
BY DEF FInv, ExecutorsOK

LEMMA SetupKeeps ==
  ASSUME FInv, AddModel
  PROVE  FInv'
<1>1. TypeOK /\ mi \in Model /\ WorkersOK /\ ExecutorsOK
  BY DEF FInv, TypeOK
<1>2. /\ mpc = "setup" /\ mi' \in Model
      /\ \/ mi < ModelsNum /\ mpc' = "setup" /\ mi' = mi + 1
         \/ mi = ModelsNum /\ mpc' = "messages" /\ mi' = 1
  BY <1>1, EachModelGoes DEF AddModel
<1>3. /\ thread' = [w \in Worker |-> [stopped |-> FALSE, executors |-> thread[w].executors + 1]]
      /\ wpc' = [w \in Worker |-> IF thread[w].stopped THEN "loop" ELSE wpc[w]]
      /\ UNCHANGED <<mainVars, model, pushVars, deleted, at, held, todo>>
  BY DEF AddModel
<1>4. \A w \in Worker : thread[w].executors + 1 = mi
  BY <1>1, <1>2 DEF ExecutorsOK, Model
<1>5. TypeOK'
  <2>1. thread' \in [Worker -> [stopped : BOOLEAN, executors : 0 .. ModelsNum]]
    BY <1>1, <1>3, <1>4, NumbersAssumption DEF Model
  <2>2. wpc' \in [Worker -> WorkerPc]
    BY <1>1, <1>3 DEF TypeOK, WorkerPc
  <2>3. mpc' \in MainPc
    BY <1>2 DEF MainPc
  <2> QED BY <1>1, <1>2, <1>3, <2>1, <2>2, <2>3 DEF TypeOK, mainVars, pushVars
<1>6. ExecutorsOK'
  <2>1. \A w \in Worker : thread'[w].executors = mi /\ ~ thread'[w].stopped
    BY <1>3, <1>4
  <2> QED BY <1>1, <1>2, <2>1, NumbersAssumption DEF ExecutorsOK, Model
<1>7. WorkersOK'
  <2>1. \A w \in Worker : wpc'[w] = wpc[w] \/ (wpc[w] = "created" /\ wpc'[w] = "loop")
    BY <1>1, <1>2, <1>3 DEF ExecutorsOK
  <2> QED BY <1>1, <1>3, <2>1 DEF WorkersOK, Busy
<1>8. ~ InBatch /\ ~ InBatch'
  BY <1>2 DEF InBatch
<1>9. \A m \in Model : Done(m)' = Done(m) /\ Updated(m)' = Updated(m)
  BY <1>3 DEF Done, Updated
<1>10. StepsAwaited'
  BY <1>2, <1>3, <1>8, <1>9 DEF FInv, StepsAwaited, mainVars, PushesStep, PushesUpdate
<1>11. UpdatesAwaited'
  BY <1>2, <1>3, <1>8, <1>9 DEF FInv, UpdatesAwaited, PushesStep, PushesUpdate
<1>12. PushOK'
  BY <1>8 DEF PushOK
<1>13. ASSUME NEW m \in Model PROVE ModelOK(m)'
  <2>1. \A w \in Worker : held[w] # none => wpc'[w] = wpc[w]
    <3>1. \A w \in Worker : held[w] # none => wpc[w] # "created"
      BY <1>1 DEF WorkersOK, Busy
    <3> QED BY <1>1, <1>2, <1>3, <3>1 DEF ExecutorsOK
  <2>2. Unpushed(m)' \subseteq Unpushed(m) /\ ~ Pushing(m)'
    BY <1>8 DEF Unpushed, Pushing, InBatch
  <2>3. ModelOK(m) /\ lost' = lost
    BY <1>3 DEF FInv, pushVars
  <2> QED BY <1>3, <2>1, <2>2, <2>3, ModelStays
<1> QED BY <1>5, <1>6, <1>7, <1>10, <1>11, <1>12, <1>13 DEF FInv

\* The messages are handled when every update and, on the CPU path, every step is over,
\* or while a message box is open; there they are about later waits only.
LEMMA MessagesKeep ==
  ASSUME FInv, HandleMessage \/ Quit \/ BeginFrame
  PROVE  FInv'
<1>1. TypeOK /\ (mpc = "messages" \/ (HandleMessage /\ BoxIsOpen)) /\ mi' = mi
  BY DEF FInv, HandleMessage, Quit, BeginFrame, MainGoes
<1>2. /\ UNCHANGED <<fresh, model, pushVars, deleted, workerVars, todo>>
      /\ \/ mpc = "messages" /\ mpc' \in {"messages", "stop", "prepare", "update", "render"}
         \/ mpc' = mpc /\ (mpc = "hit" \/ (mpc = "finish" /\ mi = 1))
      /\ settings' \in [gpu : BOOLEAN, show_mode : Mode]
      /\ settings.gpu => settings'.gpu
      /\ flags' \in [emulation_enabled : BOOLEAN, emultate_one_step : BOOLEAN,
                     impact_happened : BOOLEAN, vertices_update_needed : BOOLEAN]
  <2>1. CASE HandleMessage
    <3>1. /\ UNCHANGED <<fresh, model, pushVars, deleted, workerVars, todo>> /\ mpc' = mpc
          /\ mpc = "messages" \/ mpc = "hit" \/ (mpc = "finish" /\ mi = 1)
      BY <2>1 DEF HandleMessage, BoxIsOpen
    <3>2. CASE \E mode \in Mode : ShowMode(mode) \/ ApplySettings(mode)
      BY <1>1, <3>1, <3>2 DEF ShowMode, ApplySettings, TypeOK
    <3>3. CASE SetDefaults
      BY <1>1, <3>1, <3>3 DEF SetDefaults, TypeOK, Mode
    <3>4. CASE TogglePause
      BY <1>1, <3>1, <3>4 DEF TogglePause, TypeOK
    <3>5. CASE SingleStep
      BY <1>1, <3>1, <3>5 DEF SingleStep, TypeOK
    <3>6. CASE Impact
      BY <1>1, <3>1, <3>6 DEF Impact, TypeOK
    <3> QED BY <2>1, <3>2, <3>3, <3>4, <3>5, <3>6 DEF HandleMessage
  <2>2. CASE Quit \/ BeginFrame
    BY <1>1, <2>2 DEF Quit, BeginFrame, MainGoes, TypeOK, mainVars
  <2> QED BY <2>1, <2>2
<1>3. TypeOK'
  BY <1>1, <1>2 DEF TypeOK, workerVars, pushVars, MainPc
<1>4. ExecutorsOK'
  BY <1>1, <1>2, ExecutorsStay DEF workerVars
<1>5. ~ InBatch'
  BY <1>2 DEF InBatch
<1>6. StepsAwaited'
  <2>1. \A m \in Model : Done(m)' = Done(m)
    BY <1>2 DEF Done
  <2>2. CASE mpc = "messages"
    <3>1. ~ settings'.gpu => \A m \in Model : Done(m)
      BY <1>2, <2>2 DEF FInv, StepsAwaited
    <3> QED BY <1>1, <1>2, <1>5, <2>1, <2>2, <3>1 DEF StepsAwaited, PushesStep, PushesUpdate
  <2>3. CASE mpc = "hit" /\ mpc' = "hit"
    <3>1. Done(mi) /\ (~ settings'.gpu => \A m \in Model : m >= mi => Done(m))
      BY <1>2, <2>3 DEF FInv, StepsAwaited
    <3>2. mi \in Model
      BY <1>1 DEF TypeOK
    <3> QED BY <1>1, <1>5, <2>1, <2>3, <3>1, <3>2 DEF StepsAwaited, PushesStep, PushesUpdate
  <2>4. CASE mpc = "finish" /\ mpc' = "finish" /\ mi = 1
    <3>1. \A m \in Model : ~ m < mi'
      BY <1>1, <2>4 DEF Model
    <3> QED BY <1>5, <2>4, <3>1 DEF StepsAwaited, PushesStep, PushesUpdate
  <2> QED BY <1>2, <2>2, <2>3, <2>4
<1>7. UpdatesAwaited'
  <2>1. \A m \in Model : Updated(m)' = Updated(m)
    BY <1>2 DEF Updated
  <2> QED BY <1>1, <1>2, <1>5, <2>1 DEF FInv, UpdatesAwaited, PushesStep, PushesUpdate
<1> QED BY <1>2, <1>3, <1>4, <1>5, <1>6, <1>7, MainAlone DEF workerVars

\* The loops of a frame that change no model: the preparation, the end of a step and that
\* of an update, and what comes between and after them.
LEMMA LoopsKeep ==
  ASSUME FInv, Prepare \/ Hit \/ FinishStep \/ FinishUpdate \/ Render
               \/ StopThreads \/ AwaitLastStep \/ DeleteModel
  PROVE  FInv'
<1>1. /\ TypeOK /\ mi \in Model /\ StepsAwaited /\ UpdatesAwaited
      /\ mpc \in MainPc /\ ModelsNum \in Nat \ {0}
  BY NumbersAssumption DEF FInv, TypeOK
<1>2. UNCHANGED <<settings, model, pushVars, wpc, at, held, todo>>
      /\ \A w \in Worker : thread'[w].executors = thread[w].executors
  <2>1. CASE StopThreads
    BY <1>1, <2>1 DEF StopThreads, mainVars, TypeOK
  <2>2. CASE ~ StopThreads
    BY <2>2 DEF Prepare, Hit, FinishStep, FinishUpdate, Render, AwaitLastStep, DeleteModel,
       mainVars, workerVars
  <2> QED BY <2>1, <2>2
<1>3. \A m \in Model : Done(m)' = Done(m) /\ Updated(m)' = Updated(m) /\ model'[m] = model[m]
  BY <1>2 DEF Done, Updated
<1>4. SUFFICES /\ mpc' \in MainPc \ {"setup", "push", "publish"} /\ mpc # "setup" /\ mi' \in Model
               /\ UNCHANGED <<flags, fresh, deleted, thread>> \/ TypeOK'
               /\ ~ InBatch' => StepsAwaited' /\ UpdatesAwaited'
  <2>1. TypeOK'
    BY <1>1, <1>2, <1>4 DEF TypeOK, pushVars
  <2>2. ExecutorsOK'
    BY <1>2, <1>4, ExecutorsStay
  <2>3. ~ InBatch'
    BY <1>4 DEF InBatch
  <2> QED BY <1>2, <1>4, <2>1, <2>2, <2>3, MainAlone
<1> USE DEF PushesStep, PushesUpdate
<1>5. CASE Prepare
  <2>1. /\ UNCHANGED <<flags, fresh, deleted, thread>>
        /\ mpc = "prepare" /\ mi' = mi /\ mpc' \in {"stop", "hit", "compute"}
        /\ settings.gpu /\ mpc' # "stop" => Done(mi)
    <3>1. settings.gpu => model[mi].step
      BY <1>5 DEF Prepare
    <3>2. CASE settings.gpu /\ ~ model[mi].success
      BY <1>1, <1>5, <3>2, EachModelGoes DEF Prepare, mainVars, workerVars
    <3>3. CASE ~ (settings.gpu /\ ~ model[mi].success)
      <4>1. EachModel("prepare", IF flags.impact_happened THEN "hit" ELSE "compute", "finish")
            /\ UNCHANGED <<mainVars, deleted, workerVars>>
        BY <1>5, <3>3 DEF Prepare
      <4>2. mpc = "prepare" /\ mi' = mi /\ mpc' \in {"hit", "compute"}
        BY <1>1, <4>1, EachModelGoes
      <4> QED BY <3>1, <3>3, <4>1, <4>2 DEF mainVars, workerVars, Done
    <3> QED BY <3>2, <3>3
  <2>2. mpc' \in MainPc \ {"setup", "push", "publish"}
    BY <2>1 DEF MainPc
  <2>3. ~ InBatch' => StepsAwaited'
    <3>1. ~ settings.gpu => \A m \in Model : m >= mi => Done(m)
      BY <1>1, <2>1 DEF StepsAwaited
    <3>2. mi >= mi
      BY <1>1 DEF Model
    <3>3. mpc' # "stop" => Done(mi)
      BY <1>1, <2>1, <3>1, <3>2
    <3>4. Done(mi)' = Done(mi)
      BY <1>2, <2>1 DEF Done
    <3> QED BY <1>2, <1>3, <2>1, <3>1, <3>3, <3>4 DEF StepsAwaited
  <2>4. ~ InBatch' => UpdatesAwaited'
    BY <1>1, <1>2, <1>3, <2>1 DEF UpdatesAwaited
  <2> QED BY <1>1, <2>1, <2>2, <2>3, <2>4
<1>6. CASE Hit
  <2>1. /\ UNCHANGED <<flags, fresh, deleted, thread>>
        /\ mpc = "hit" /\ mi' = mi /\ mpc' = "compute"
    BY <1>6 DEF Hit, MainGoes, mainVars, workerVars
  <2>2. Done(mi)' = Done(mi)
    BY <1>2, <2>1 DEF Done
  <2>3. ~ InBatch' => StepsAwaited'
    BY <1>1, <1>2, <1>3, <2>1, <2>2 DEF StepsAwaited
  <2>4. ~ InBatch' => UpdatesAwaited'
    BY <1>1, <1>2, <1>3, <2>1 DEF UpdatesAwaited
  <2> QED BY <1>1, <2>1, <2>3, <2>4 DEF MainPc
<1>7. CASE FinishStep
  <2>1. /\ IF settings.gpu THEN model[mi].clusters = Cluster ELSE model[mi].step
        /\ EachModel("finish", IF model[mi].success THEN "finish" ELSE "stop", "update")
    BY <1>7 DEF FinishStep
  <2>2. /\ mpc = "finish" /\ mi' \in Model
        /\ \/ mpc' = "stop" /\ mi' = mi
           \/ model[mi].success /\ mi < ModelsNum /\ mpc' = "finish" /\ mi' = mi + 1
           \/ model[mi].success /\ mi = ModelsNum /\ mpc' = "update" /\ mi' = 1
    <3>1. CASE model[mi].success
      BY <1>1, <2>1, <3>1, EachModelGoes
    <3>2. CASE ~ model[mi].success
      BY <1>1, <2>1, <3>2, EachModelGoes
    <3> QED BY <3>1, <3>2
  <2>3. ~ settings.gpu /\ mpc' # "stop" => Done(mi)
    BY <2>1, <2>2 DEF Done
  <2>4. ~ settings.gpu => \A m \in Model : m < mi => Done(m)
    BY <1>1, <2>2 DEF StepsAwaited
  <2>5. ~ settings.gpu /\ mpc' # "stop" => \A m \in Model : m <= mi => Done(m)
    BY <1>1, <2>3, <2>4 DEF Model
  <2>6. ~ InBatch' => StepsAwaited'
    <3>1. mpc' = "finish" => \A m \in Model : m < mi' => m <= mi
      BY <1>1, <2>2 DEF Model
    <3>2. mpc' = "update" => \A m \in Model : m <= mi
      BY <2>2 DEF Model
    <3> QED BY <1>2, <1>3, <2>2, <2>5, <3>1, <3>2 DEF StepsAwaited
  <2>7. ~ InBatch' => UpdatesAwaited'
    BY <1>1, <1>2, <1>3, <2>2 DEF UpdatesAwaited
  <2>8. TypeOK'
    <3>1. /\ flags' \in [emulation_enabled : BOOLEAN, emultate_one_step : BOOLEAN,
                          impact_happened : BOOLEAN, vertices_update_needed : BOOLEAN]
          /\ fresh' = {} /\ UNCHANGED <<deleted, thread>>
      BY <1>1, <1>7 DEF FinishStep, TypeOK, workerVars
    <3> QED BY <1>1, <1>2, <2>2, <3>1 DEF TypeOK, MainPc, pushVars
  <2> QED BY <2>2, <2>6, <2>7, <2>8 DEF MainPc
<1>8. CASE FinishUpdate
  <2>1. /\ settings.show_mode = "graphical" /\ ~ settings.gpu => Updated(mi)
        /\ EachModel("update_wait",
               IF settings.show_mode = "graphical" /\ ~ settings.gpu /\ ~ model[mi].success
               THEN "stop" ELSE "update_wait", "render")
    BY <1>8 DEF FinishUpdate, Updated
  <2>2. /\ mpc = "update_wait" /\ mi' \in Model
        /\ \/ mpc' = "stop" /\ mi' = mi
           \/ mi < ModelsNum /\ mpc' = "update_wait" /\ mi' = mi + 1
           \/ mi = ModelsNum /\ mpc' = "render" /\ mi' = 1
    <3>1. CASE settings.show_mode = "graphical" /\ ~ settings.gpu /\ ~ model[mi].success
      BY <1>1, <2>1, <3>1, EachModelGoes
    <3>2. CASE ~ (settings.show_mode = "graphical" /\ ~ settings.gpu /\ ~ model[mi].success)
      <4>1. EachModel("update_wait", "update_wait", "render")
        BY <2>1, <3>2
      <4> QED BY <1>1, <4>1, EachModelGoes
    <3> QED BY <3>1, <3>2
  <2>3. ~ InBatch' => StepsAwaited'
    BY <1>1, <1>2, <1>3, <2>2 DEF StepsAwaited
  <2>4. Updated(mi)
    BY <1>1, <2>1, <2>2 DEF UpdatesAwaited
  <2>5. \A m \in Model : m <= mi => Updated(m)
    BY <1>1, <2>2, <2>4 DEF UpdatesAwaited, Model
  <2>6. ~ InBatch' => UpdatesAwaited'
    <3>1. mpc' = "update_wait" => \A m \in Model : m < mi' => m <= mi
      BY <1>1, <2>2 DEF Model
    <3>2. mpc' = "render" => \A m \in Model : m <= mi
      BY <2>2 DEF Model
    <3> QED BY <1>1, <1>2, <1>3, <2>2, <2>5, <3>1, <3>2 DEF UpdatesAwaited
  <2>7. TypeOK'
    <3>1. /\ flags' \in [emulation_enabled : BOOLEAN, emultate_one_step : BOOLEAN,
                          impact_happened : BOOLEAN, vertices_update_needed : BOOLEAN]
          /\ fresh' \subseteq Mode /\ UNCHANGED <<deleted, thread>>
      BY <1>1, <1>8 DEF FinishUpdate, TypeOK, workerVars
    <3> QED BY <1>1, <1>2, <2>2, <3>1 DEF TypeOK, MainPc, pushVars
  <2> QED BY <2>2, <2>3, <2>6, <2>7 DEF MainPc
<1>9. CASE Render
  <2>1. /\ UNCHANGED <<flags, fresh, deleted, thread>>
        /\ mpc = "render" /\ mi' = mi /\ mpc' = "messages"
    BY <1>9 DEF Render, MainGoes, mainVars, workerVars
  <2>2. ~ InBatch' => StepsAwaited'
    BY <1>1, <1>2, <1>3, <2>1 DEF StepsAwaited
  <2>3. ~ InBatch' => UpdatesAwaited'
    BY <1>1, <1>2, <1>3, <2>1 DEF UpdatesAwaited
  <2> QED BY <1>1, <2>1, <2>2, <2>3 DEF MainPc
<1>10. CASE StopThreads \/ AwaitLastStep \/ DeleteModel
  <2>1. /\ mpc \in {"stop", "stop_wait", "delete"} /\ mi' \in Model
        /\ mpc' \in {"stop_wait", "delete", "exited"}
        /\ TypeOK'
    <3>1. CASE StopThreads
      <4>1. mpc = "stop" /\ mpc' = "stop_wait" /\ mi' \in Model
        BY <1>1, <3>1 DEF StopThreads, Model
      <4>2. /\ thread' \in [Worker -> [stopped : BOOLEAN, executors : 0 .. ModelsNum]]
            /\ UNCHANGED <<mainVars, deleted>>
        BY <1>1, <3>1 DEF StopThreads, TypeOK
      <4> QED BY <1>1, <1>2, <4>1, <4>2 DEF TypeOK, MainPc, mainVars, pushVars
    <3>2. CASE AwaitLastStep
      <4>1. mpc = "stop_wait" /\ mpc' \in {"stop_wait", "delete"} /\ mi' \in Model
        BY <1>1, <3>2, EachModelGoes DEF AwaitLastStep
      <4>2. UNCHANGED <<mainVars, deleted, thread>>
        BY <3>2 DEF AwaitLastStep, workerVars
      <4> QED BY <1>1, <1>2, <4>1, <4>2 DEF TypeOK, MainPc, mainVars, pushVars
    <3>3. CASE DeleteModel
      <4>1. mpc = "delete" /\ mpc' \in {"delete", "exited"} /\ mi' \in Model
        BY <1>1, <3>3, EachModelGoes DEF DeleteModel
      <4>2. UNCHANGED <<mainVars, thread>> /\ deleted' \subseteq Model
        BY <1>1, <3>3 DEF DeleteModel, workerVars, TypeOK
      <4> QED BY <1>1, <1>2, <4>1, <4>2 DEF TypeOK, MainPc, mainVars, pushVars
    <3> QED BY <1>10, <3>1, <3>2, <3>3
  <2>2. ~ InBatch' => StepsAwaited' /\ UpdatesAwaited'
    BY <2>1 DEF StepsAwaited, UpdatesAwaited
  <2> QED BY <2>1, <2>2 DEF MainPc
<1> QED BY <1>5, <1>6, <1>7, <1>8, <1>9, <1>10

\* What the main thread changes in the model k that it has reached.
LEMMA MainChanges ==
  ASSUME FInv, NEW k \in Model, NEW q, NEW c, NEW s, NEW u, NEW ok,
         ModelBecomes(k, q, c, s, u, ok), ok => model[k].success,
         UNCHANGED <<settings, thread, wpc, at, held>>, InBatch' => mi' = k,
         \A m \in Model : m # k => todo'[m] = todo[m] /\ lost'[m] = lost[m],
         ModelOK(k)', TypeOK', mpc # "setup", mpc' # "setup", StepsAwaited', UpdatesAwaited', PushOK'
  PROVE  FInv'
<1>1. ExecutorsOK'
  BY ExecutorsStay
<1>2. WorkersOK'
  <2>1. \A m \in Model : model'[m].success => model[m].success
    BY DEF ModelBecomes
  <2> QED BY <2>1 DEF FInv, TypeOK, WorkersOK
<1>3. ASSUME NEW m \in Model, m # k PROVE ModelOK(m)'
  <2>1. model'[m] = model[m] /\ todo'[m] = todo[m] /\ lost'[m] = lost[m] /\ ModelOK(m)
    BY <1>3 DEF ModelBecomes, FInv
  <2>2. Unpushed(m)' \subseteq Unpushed(m) /\ ~ Pushing(m)'
    BY <1>3 DEF Unpushed, Pushing, InBatch
  <2> QED BY <2>1, <2>2, ModelStays
<1>4. \A m \in Model : ModelOK(m)'
  BY <1>3
<1> QED BY <1>1, <1>2, <1>4 DEF FInv

LEMMA ComputeKeeps ==
  ASSUME FInv, ComputeNextStep
  PROVE  FInv'
<1>1. PICK k \in Model : k = mi
  BY DEF FInv, TypeOK
<1>2. /\ mpc = "compute" /\ mpc' = "push" /\ mi' = mi /\ next_push' = 0
      /\ model' = [model EXCEPT ![k] = [queue |-> <<>>, clusters |-> {}, step |-> FALSE,
                                        updated |-> @.updated, success |-> TRUE]]
      /\ todo' = [todo EXCEPT ![k] = Cluster]
      /\ UNCHANGED <<mainVars, zero, lost, deleted, workerVars>>
  BY <1>1 DEF ComputeNextStep, MainGoes
<1>3. /\ TypeOK /\ ModelOK(k) /\ Done(k) /\ \A m \in Model : Updated(m)
      /\ StepsAwaited /\ UpdatesAwaited
  BY <1>1, <1>2 DEF FInv, StepsAwaited, UpdatesAwaited
<1>4. ModelBecomes(k, <<>>, {}, FALSE, model[k].updated, TRUE)
  BY <1>2, <1>3, ModelStarted
<1>5. todo' \in [Model -> SUBSET Cluster] /\ todo'[k] = Cluster
      /\ \A m \in Model : m # k => todo'[m] = todo[m]
  BY <1>2, <1>3 DEF TypeOK
<1>6. /\ model'[k].queue = <<>> /\ model'[k].clusters = {} /\ ~ model'[k].step
      /\ model'[k].updated = UpdateTask /\ model'[k].success
  BY <1>3, <1>4 DEF ModelBecomes, Updated
<1>7. UNCHANGED <<settings, thread, wpc, at, held>>
  BY <1>2 DEF mainVars, workerVars
<1>8. Pushing(k)' /\ InBatch' /\ Batch' = StepTask /\ PushesStep' /\ ~ PushesUpdate'
  BY <1>1, <1>2, TaskKinds DEF Pushing, InBatch, Batch, PushesStep, PushesUpdate
<1>9. ModelOK(k)'
  <2>1. Queued(k) = {} /\ Held(k) = {} /\ lost[k] = {} /\ \A w \in Worker : at[w] = k => held[w] = none
    <3>1. Held(k) = {} /\ Queued(k) = {} /\ lost[k] = {}
      BY <1>3, Quiet
    <3> QED BY <1>3, <3>1, HolderHolds
  <2>2. /\ Queued(k)' = {} /\ Held(k)' = {} /\ Finished(k)' = UpdateTask /\ lost'[k] = {}
        /\ Unpushed(k)' \subseteq StepTask
    <3>1. Finished(k)' = UpdateTask
      BY <1>6 DEF Finished
    <3>2. Unpushed(k)' \subseteq StepTask
      BY <1>8 DEF Unpushed
    <3>3. Held(k)' = {}
      BY <1>7, <2>1 DEF Held
    <3>4. Queued(k)' = {}
      BY <1>6, EmptyElements DEF Queued
    <3> QED BY <1>2, <2>1, <3>1, <3>2, <3>3, <3>4
  <2>3. Places({}, {}, UpdateTask, Unpushed(k)', {})
    BY <2>2, TaskKinds DEF Places
  <2>4. PlacesOK(k)'
    <3>1. NoRepeat(model'[k].queue) /\ OneHolder(k)'
      BY <1>6, <1>7, <2>1, EmptyElements DEF OneHolder
    <3> QED BY <2>2, <2>3, <3>1 DEF PlacesOK
  <2>5. KindsOK(k)'
    BY <1>6, <2>2, TaskKinds DEF KindsOK, Done, Updated
  <2>6. StepOK(k)'
    <3>1. \A w \in Worker : ~ (at'[w] = k /\ held'[w] = final_task)
      BY <1>7, <2>1, TaskKinds
    <3> QED BY <1>5, <1>6, <3>1 DEF StepOK
  <2> QED BY <2>4, <2>5, <2>6 DEF ModelOK
<1>10. TypeOK'
  <2>1. 0 \in Task /\ "push" \in MainPc
    BY TaskKinds DEF MainPc
  <2> QED BY <1>2, <1>3, <1>4, <1>5, <2>1 DEF TypeOK, ModelBecomes, ModelRecord, mainVars, workerVars
<1>11. StepsAwaited'
  <2>1. \A m \in Model : m > mi => Done(m)' = Done(m)
    BY <1>1, <1>4 DEF ModelBecomes, Done, Model
  <2>2. ~ settings.gpu => \A m \in Model : m > mi => Done(m)
    BY <1>1, <1>2, <1>3 DEF StepsAwaited, Model
  <2> QED BY <1>2, <1>7, <1>8, <2>1, <2>2 DEF StepsAwaited
<1>12. UpdatesAwaited'
  <2>1. \A m \in Model : Updated(m)'
    BY <1>3, <1>4, <1>6 DEF ModelBecomes, Updated
  <2> QED BY <1>2, <1>8, <2>1 DEF UpdatesAwaited
<1>13. PushOK'
  <2>1. model'[mi'].queue = <<>> /\ next_push' \in Task
    BY <1>1, <1>2, <1>6, TaskKinds
  <2> QED BY <1>2, <2>1 DEF PushOK
<1> QED BY <1>1, <1>2, <1>3, <1>4, <1>5, <1>7, <1>9, <1>10, <1>11, <1>12, <1>13, MainChanges DEF Done

\* A push stores its task in slot 0 if the queue is empty, and that task is not lost yet.
LEMMA StoreKeeps ==
  ASSUME FInv, StoreTask
  PROVE  FInv'
<1>1. PICK k \in Model : k = mi
  BY DEF FInv, TypeOK
<1>2. /\ mpc = "push" /\ mpc' = "publish" /\ mi' = mi /\ next_push' = next_push
      /\ zero' = IF model[k].queue = <<>> THEN next_push ELSE zero
      /\ UNCHANGED <<mainVars, model, lost, deleted, workerVars, todo>>
  BY <1>1 DEF StoreTask, MainGoes
<1>3. TypeOK /\ PushOK /\ InBatch /\ ModelOK(k) /\ KindsOK(k)
  BY <1>1, <1>2 DEF FInv, InBatch, ModelOK
<1>4. UNCHANGED <<settings, thread, wpc, at, held>>
  BY <1>2 DEF mainVars, workerVars
<1>5. next_push \in Task /\ next_push \in Batch /\ next_push \in Unpushed(k) /\ next_push \in Int
  BY <1>1, <1>3, PushedIsAwaited, TaskKinds DEF PushOK
<1>6. InBatch' /\ Batch' = Batch /\ PushesStep' = PushesStep /\ PushesUpdate' = PushesUpdate
  BY <1>2, <1>3 DEF InBatch, Batch, PushesStep, PushesUpdate
<1>7. \A m \in Model : Pushing(m)' = Pushing(m) /\ Unpushed(m)' = Unpushed(m)
  BY <1>2 DEF Pushing, Unpushed, Batch
<1>8. TypeOK'
  <2>1. zero' \in Task \cup {none} /\ "publish" \in MainPc
    BY <1>2, <1>3, <1>5 DEF TypeOK, MainPc
  <2> QED BY <1>2, <1>3, <2>1 DEF TypeOK, mainVars, workerVars
<1>9. WorkersOK' /\ ExecutorsOK'
  <2>1. WorkersOK'
    BY <1>2, <1>4 DEF FInv, WorkersOK
  <2> QED BY <1>2, <1>4, <2>1, ExecutorsStay
<1>10. \A m \in Model : Done(m)' = Done(m) /\ Updated(m)' = Updated(m)
  BY <1>2 DEF Done, Updated
<1>11. StepsAwaited' /\ UpdatesAwaited'
  BY <1>2, <1>4, <1>6, <1>10 DEF FInv, StepsAwaited, UpdatesAwaited, PushesStep, PushesUpdate, InBatch
<1>12. zero' \in Batch /\ zero' <= next_push
  <2>1. CASE model[k].queue = <<>>
    BY <1>2, <1>5, <2>1
  <2>2. CASE model[k].queue # <<>>
    BY <1>1, <1>2, <1>3, <2>2 DEF PushOK
  <2> QED BY <2>1, <2>2
<1>13. PushOK'
  BY <1>2, <1>5, <1>6, <1>12 DEF PushOK
<1>14. ModelOK(k)'
  <2>1. /\ model' = model /\ todo' = todo /\ lost' = lost
        /\ Queued(k)' = Queued(k) /\ Held(k)' = Held(k) /\ Finished(k)' = Finished(k)
        /\ OneHolder(k)' = OneHolder(k)
    BY <1>2, <1>4 DEF Queued, Held, Finished, OneHolder
  <2>2. PlacesOK(k)'
    <3> SUFFICES ASSUME model[k].success
                 PROVE  /\ Places(Queued(k), Held(k), Finished(k), Unpushed(k), lost[k])
                        /\ lost[k] = {} => NoRepeat(model[k].queue) /\ OneHolder(k)
                        /\ zero' \notin lost[k]
      BY <1>7, <2>1 DEF PlacesOK
    <3>1. /\ Places(Queued(k), Held(k), Finished(k), Unpushed(k), lost[k])
          /\ lost[k] = {} => NoRepeat(model[k].queue) /\ OneHolder(k)
          /\ zero \notin lost[k]
      BY <1>1, <1>2, <1>3 DEF ModelOK, PlacesOK, Pushing
    <3>2. next_push \notin lost[k]
      BY <1>5, <3>1 DEF Places
    <3> QED BY <1>2, <3>1, <3>2
  <2>3. KindsOK(k)'
    BY <1>3, <1>7, <1>10, <2>1 DEF KindsOK
  <2>4. StepOK(k)'
    BY <1>3, <1>4, <2>1 DEF ModelOK, StepOK
  <2> QED BY <2>2, <2>3, <2>4 DEF ModelOK
<1>15. ASSUME NEW m \in Model, m # k PROVE ModelOK(m)'
  <2>1. ModelOK(m) /\ ~ Pushing(m)' /\ Unpushed(m)' \subseteq Unpushed(m)
    BY <1>1, <1>2, <1>7, <1>15 DEF FInv, Pushing
  <2> QED BY <1>2, <1>4, <2>1, ModelStays
<1> QED BY <1>8, <1>9, <1>11, <1>13, <1>14, <1>15 DEF FInv

\* A push that is not overtaken publishes its own task; one that is publishes the task of
\* slot 0 again, and its own is lost.
LEMMA PublishKeeps ==
  ASSUME FInv, PublishTask
  PROVE  FInv'
<1>1. PICK k \in Model : k = mi
  BY DEF FInv, TypeOK
<1>2. PICK t, p : t = next_push /\ p = published
  OBVIOUS
<1>3. PICK q : q = Append(model[k].queue, p)
  OBVIOUS
<1>4. PICK L : L = lost[k] \cup ({t} \ {p})
  OBVIOUS
<1>5. /\ mpc = "publish"
      /\ model' = [model EXCEPT ![k].queue = q]
      /\ lost' = [lost EXCEPT ![k] = L]
      /\ UNCHANGED <<mainVars, deleted, workerVars, todo>>
  BY <1>1, <1>2, <1>3, <1>4 DEF PublishTask
<1>6. TypeOK /\ PushOK /\ InBatch /\ ModelOK(k) /\ KindsOK(k) /\ model[k].queue \in Seq(Task)
  BY <1>1, <1>5 DEF FInv, TypeOK, InBatch, ModelOK
<1>7. /\ t \in Task /\ t \in Batch /\ t \in Unpushed(k)
      /\ t \in StepTask => ~ Done(k)
      /\ t \in UpdateTask => ~ Updated(k)
      /\ zero \in Batch /\ zero <= t
  BY <1>1, <1>2, <1>5, <1>6, PushedIsAwaited DEF PushOK
<1>8. /\ p \in Batch /\ p \in Task /\ p <= t /\ (p # t => p = zero) /\ t \in Int
      /\ Batch \subseteq Task
  BY <1>2, <1>7, TaskKinds DEF published, Batch
<1>9. /\ q \in Seq(Task) /\ q # <<>> /\ Elements(q) = Elements(model[k].queue) \cup {p}
      /\ NoRepeat(model[k].queue) /\ p \notin Elements(model[k].queue) => NoRepeat(q)
  BY <1>3, <1>6, <1>8, AppendElements
<1>10. ModelBecomes(k, q, model[k].clusters, model[k].step, model[k].updated, model[k].success)
  BY <1>5, <1>6, <1>9, ModelQueue
<1>11. /\ model'[k].queue = q /\ model'[k].clusters = model[k].clusters
       /\ model'[k].step = model[k].step /\ model'[k].updated = model[k].updated
       /\ model'[k].success = model[k].success
  BY <1>10 DEF ModelBecomes
<1>12. UNCHANGED <<settings, thread, wpc, at, held>> /\ todo' = todo
  BY <1>5 DEF mainVars, workerVars
<1>13. /\ mi' \in Model /\ (InBatch' => mi' = mi)
       /\ \/ /\ t \notin {final_task, last_update_task} /\ mpc' = "push" /\ next_push' = t + 1
             /\ zero' = zero
          \/ /\ t = final_task /\ next_push' = none /\ zero' = none
             /\ \/ mi < ModelsNum /\ mpc' = "prepare" /\ mi' = mi + 1
                \/ mi = ModelsNum /\ mpc' = "finish" /\ mi' = 1
          \/ /\ t = last_update_task /\ next_push' = none /\ zero' = none
             /\ \/ mi < ModelsNum /\ mpc' = "update" /\ mi' = mi + 1
                \/ mi = ModelsNum /\ mpc' = "update_wait" /\ mi' = 1
  <2>0. mi \in Model
    BY <1>1
  <2>1. CASE t \notin {final_task, last_update_task}
    BY <1>2, <2>0, <2>1 DEF PublishTask
  <2>2. CASE t = final_task
    <3>1. NextModel("prepare", "finish") /\ next_push' = none /\ zero' = none
      BY <1>2, <2>2 DEF PublishTask
    <3> QED BY <2>0, <2>2, <3>1, NextModelGoes DEF InBatch
  <2>3. CASE t = last_update_task /\ t # final_task
    <3>1. NextModel("update", "update_wait") /\ next_push' = none /\ zero' = none
      BY <1>2, <2>3 DEF PublishTask
    <3> QED BY <2>0, <2>3, <3>1, NextModelGoes DEF InBatch
  <2> QED BY <2>1, <2>2, <2>3
<1>14. mpc' = "push" => /\ next_push' = t + 1 /\ t + 1 \in Task /\ mi' = mi /\ zero' = zero
                       /\ Batch' = Batch /\ t + 1 \notin {0, final_task + 1}
                       /\ PushesStep' = PushesStep /\ PushesUpdate' = PushesUpdate
  <2> SUFFICES ASSUME mpc' = "push" PROVE /\ t + 1 \in Task /\ t + 1 \notin {0, final_task + 1}
                                          /\ t \in StepTask <=> t + 1 \in StepTask
                                          /\ t \in UpdateTask <=> t + 1 \in UpdateTask
    BY <1>2, <1>6, <1>13 DEF Batch, PushesStep, PushesUpdate, InBatch
  <2>1. t # final_task /\ t # last_update_task
    BY <1>13
  <2> QED BY <1>7, <2>1, TaskNumbers
<1>15. ~ InBatch' \/ mpc' = "push"
  BY <1>13 DEF InBatch
<1>16. PICK U : U = Unpushed(k)'
  OBVIOUS
<1>17. U \subseteq Unpushed(k) \ {t} /\ p \notin U /\ (Pushing(k)' => zero' = zero)
  <2>1. Pushing(k)' <=> mpc' = "push"
    BY <1>1, <1>13, <1>14, <1>15 DEF Pushing, InBatch
  <2>2. CASE mpc' = "push"
    <3>1. U = {x \in Batch : x >= t + 1} /\ Unpushed(k) = {x \in Batch : x >= t}
      BY <1>1, <1>2, <1>5, <1>14, <1>16, <2>1, <2>2 DEF Unpushed, Pushing
    <3>2. Batch \subseteq Int
      BY <1>8, TaskKinds
    <3>3. p \in Int /\ t \in Int /\ p <= t
      BY <1>8, <3>2
    <3>4. ~ (p >= t + 1) /\ \A x \in Int : x >= t + 1 => x >= t /\ x # t
      BY <3>3
    <3> QED BY <1>14, <2>2, <3>1, <3>2, <3>4
  <2>3. CASE mpc' # "push"
    BY <1>16, <2>1, <2>3 DEF Unpushed
  <2> QED BY <2>2, <2>3
<1>18. ModelOK(k)'
  <2>1. /\ Queued(k)' = Queued(k) \cup {p} /\ Held(k)' = Held(k) /\ Finished(k)' = Finished(k)
        /\ OneHolder(k)' = OneHolder(k) /\ lost'[k] = L
        /\ Done(k)' = Done(k) /\ Updated(k)' = Updated(k)
    <3>1. Queued(k)' = Queued(k) \cup {p}
      BY <1>9, <1>11 DEF Queued
    <3>2. Held(k)' = Held(k) /\ OneHolder(k)' = OneHolder(k)
      BY <1>12 DEF Held, OneHolder
    <3>3. Finished(k)' = Finished(k) /\ Done(k)' = Done(k) /\ Updated(k)' = Updated(k)
      BY <1>11 DEF Finished, Done, Updated
    <3>4. lost'[k] = L
      BY <1>5, <1>6 DEF TypeOK
    <3> QED BY <3>1, <3>2, <3>3, <3>4
  <2>2. PlacesOK(k)'
    <3> SUFFICES ASSUME model[k].success
                 PROVE  /\ Places(Queued(k) \cup {p}, Held(k), Finished(k), U, L)
                        /\ L = {} => NoRepeat(q) /\ OneHolder(k)
                        /\ Pushing(k)' => zero' \notin L
      BY <1>11, <1>16, <2>1 DEF PlacesOK
    <3>1. /\ Places(Queued(k), Held(k), Finished(k), Unpushed(k), lost[k])
          /\ lost[k] = {} => NoRepeat(model[k].queue) /\ OneHolder(k)
          /\ zero \notin lost[k]
      BY <1>1, <1>5, <1>6 DEF ModelOK, PlacesOK, Pushing
    <3>2. t \notin lost[k] /\ t \notin Queued(k)
      BY <1>7, <3>1 DEF Places
    <3>3. p \notin lost[k]
      BY <1>8, <3>1, <3>2
    <3>4. Places(Queued(k) \cup {p}, Held(k), Finished(k), U, L)
      BY <1>4, <1>7, <1>17, <3>1, <3>3, PlacesPush
    <3>5. L = {} => lost[k] = {} /\ p = t
      BY <1>4
    <3>6. p \notin Queued(k) \/ p # t
      BY <3>2
    <3>7. zero # t \/ p = t
      BY <1>8
    <3>8. Pushing(k)' => zero' \notin L
      BY <1>4, <1>17, <3>1, <3>7
    <3> QED BY <1>9, <3>1, <3>4, <3>5, <3>6, <3>8 DEF Queued
  <2>3. KindsOK(k)'
    <3>1. Done(k) => p \notin StepTask
      BY <1>6, <1>7, <1>8, <1>2, TaskKinds DEF Batch
    <3>2. Updated(k) => p \notin UpdateTask
      BY <1>6, <1>7, <1>8, <1>2, TaskKinds DEF Batch
    <3> QED BY <1>6, <1>11, <1>16, <1>17, <2>1, <3>1, <3>2 DEF KindsOK
  <2>4. StepOK(k)'
    BY <1>6, <1>11, <1>12 DEF ModelOK, StepOK
  <2> QED BY <2>2, <2>3, <2>4 DEF ModelOK
<1>19. TypeOK'
  <2>1. L \subseteq Task /\ lost' \in [Model -> SUBSET Task]
    BY <1>4, <1>5, <1>6, <1>7 DEF TypeOK
  <2>2. next_push' \in Task \cup {none} /\ zero' \in Task \cup {none} /\ mpc' \in MainPc
    BY <1>6, <1>13, <1>14 DEF TypeOK, MainPc
  <2> QED BY <1>5, <1>6, <1>10, <1>13, <2>1, <2>2
          DEF TypeOK, ModelBecomes, ModelRecord, mainVars, workerVars
<1>20. \A m \in Model : Done(m)' = Done(m) /\ Updated(m)' = Updated(m)
  BY <1>10, <1>11 DEF ModelBecomes, Done, Updated
<1>21. (t \in StepTask => PushesStep) /\ (t \in UpdateTask => PushesUpdate)
       /\ (t = final_task => t \in StepTask) /\ (t = last_update_task => t \in UpdateTask)
  BY <1>2, <1>6, TaskNumbers DEF PushesStep, PushesUpdate
<1>22. /\ mpc' = "prepare" => \A m \in Model : m >= mi' => m > mi
       /\ mpc' = "update" => \A m \in Model : m >= mi' => m > mi
       /\ mpc' \in {"finish", "update_wait"} => \A m \in Model : ~ (m < mi')
  BY <1>1, <1>13 DEF Model
<1>23. StepsAwaited'
  <2>1. /\ ~ settings.gpu /\ PushesStep => \A m \in Model : m > mi => Done(m)
        /\ ~ settings.gpu /\ PushesUpdate => \A m \in Model : Done(m)
    BY DEF FInv, StepsAwaited
  <2>2. CASE mpc' = "push"
    BY <1>12, <1>14, <1>20, <2>1, <2>2 DEF StepsAwaited
  <2>3. CASE mpc' # "push"
    <3>1. ~ PushesStep' /\ ~ PushesUpdate'
      BY <1>15, <2>3 DEF PushesStep, PushesUpdate
    <3> QED BY <1>12, <1>13, <1>20, <1>21, <1>22, <2>1, <2>3, <3>1 DEF StepsAwaited
  <2> QED BY <2>2, <2>3
<1>24. UpdatesAwaited'
  <2>1. /\ PushesStep => \A m \in Model : Updated(m)
        /\ PushesUpdate => \A m \in Model : m > mi => Updated(m)
        /\ PushesUpdate => ~ settings.gpu /\ settings.show_mode = "graphical"
    BY DEF FInv, UpdatesAwaited
  <2>2. CASE mpc' = "push"
    BY <1>12, <1>14, <1>20, <2>1, <2>2 DEF UpdatesAwaited
  <2>3. CASE mpc' # "push"
    <3>1. ~ PushesStep' /\ ~ PushesUpdate'
      BY <1>15, <2>3 DEF PushesStep, PushesUpdate
    <3> QED BY <1>12, <1>13, <1>20, <1>21, <1>22, <2>1, <2>3, <3>1 DEF UpdatesAwaited
  <2> QED BY <2>2, <2>3
<1>25. PushOK'
  <2> SUFFICES ASSUME mpc' = "push"
               PROVE  t + 1 \in Task /\ t + 1 \notin {0, final_task + 1} /\ zero \in Batch /\ zero <= t + 1
    BY <1>14, <1>15 DEF PushOK
  <2>1. zero \in Int /\ t \in Int
    BY <1>7, <1>8, TaskKinds
  <2> QED BY <1>7, <1>14, <2>1
<1>26. \A m \in Model : m # k => todo'[m] = todo[m] /\ lost'[m] = lost[m]
  BY <1>5, <1>6 DEF TypeOK
<1>27. mpc # "setup" /\ mpc' # "setup" /\ (InBatch' => mi' = k)
  BY <1>1, <1>5, <1>13
<1> QED BY <1>10, <1>12, <1>18, <1>19, <1>23, <1>24, <1>25, <1>26, <1>27, MainChanges

LEMMA StartUpdateKeeps ==
  ASSUME FInv, StartUpdate
  PROVE  FInv'
<1>1. PICK k \in Model : k = mi
  BY DEF FInv, TypeOK
<1>2. /\ TypeOK /\ ModelOK(k) /\ StepsAwaited /\ UpdatesAwaited
      /\ mi \in Model /\ mpc \in MainPc
  BY <1>1 DEF FInv, TypeOK
<1>3. UNCHANGED <<mainVars, zero, lost, deleted, workerVars, todo>> /\ mpc = "update"
  BY DEF StartUpdate, MainGoes, EachModel
<1>4. Updated(k) /\ \A m \in Model : m >= mi => Updated(m)
  BY <1>1, <1>2, <1>3 DEF UpdatesAwaited, Model
<1>5. UNCHANGED <<settings, thread, wpc, at, held>>
  BY <1>3 DEF mainVars, workerVars
<1>6. CASE settings.show_mode = "graphical" /\ ~ settings.gpu
  <2>1. Done(k) /\ \A m \in Model : Done(m)
    BY <1>2, <1>3, <1>6 DEF StepsAwaited
  <2>2. /\ mpc' = "push" /\ mi' = mi /\ next_push' = final_task + 1
        /\ model' = [model EXCEPT ![k].updated = {}, ![k].success = TRUE]
    BY <1>1, <1>6 DEF StartUpdate, MainGoes
  <2>3. ModelBecomes(k, model[k].queue, model[k].clusters, model[k].step, {}, TRUE)
    BY <1>2, <2>2, ModelUpdating
  <2>4. /\ Queued(k) = {} /\ Held(k) = {} /\ lost[k] = {} /\ model[k].queue = <<>>
        /\ \A w \in Worker : at[w] = k => held[w] = none
    <3>1. Held(k) = {} /\ Queued(k) = {} /\ lost[k] = {} /\ model[k].queue = <<>>
      BY <1>2, <1>4, <2>1, Quiet
    <3> QED BY <1>2, <3>1, HolderHolds
  <2>5. /\ model'[k].queue = <<>> /\ model'[k].clusters = Cluster
        /\ model'[k].step /\ model'[k].updated = {} /\ model'[k].success
    BY <1>2, <2>1, <2>3, <2>4 DEF ModelBecomes, ModelOK, KindsOK, Done
  <2>6. Pushing(k)' /\ InBatch' /\ Batch' = UpdateTask /\ PushesUpdate' /\ ~ PushesStep'
    BY <1>1, <2>2, TaskKinds DEF Pushing, InBatch, Batch, PushesStep, PushesUpdate
  <2>7. ModelOK(k)'
    <3>1. /\ Queued(k)' = {} /\ Held(k)' = {} /\ Finished(k)' = StepTask /\ lost'[k] = {}
          /\ Unpushed(k)' \subseteq UpdateTask
      <4>1. Finished(k)' = StepTask
        BY <2>5, TaskKinds DEF Finished
      <4>2. Unpushed(k)' \subseteq UpdateTask
        BY <2>6 DEF Unpushed
      <4>3. Held(k)' = {}
        BY <1>5, <2>4 DEF Held
      <4>4. Queued(k)' = {}
        BY <2>5, EmptyElements DEF Queued
      <4> QED BY <1>3, <2>4, <4>1, <4>2, <4>3, <4>4
    <3>2. Places({}, {}, StepTask, Unpushed(k)', {})
      BY <3>1, TaskKinds DEF Places
    <3>3. PlacesOK(k)'
      <4>1. NoRepeat(model'[k].queue) /\ OneHolder(k)'
        BY <1>5, <2>4, <2>5, EmptyElements DEF OneHolder
      <4> QED BY <3>1, <3>2, <4>1 DEF PlacesOK
    <3>4. KindsOK(k)'
      BY <2>5, <3>1, TaskKinds DEF KindsOK, Done, Updated
    <3>5. StepOK(k)'
      <4>1. todo[k] = Cluster \ model[k].clusters /\ model[k].clusters = Cluster
        BY <1>2, <2>1 DEF ModelOK, StepOK, KindsOK, Done
      <4> QED BY <1>3, <2>5, <4>1 DEF StepOK
    <3> QED BY <3>3, <3>4, <3>5 DEF ModelOK
  <2>8. TypeOK'
    <3>1. final_task + 1 \in Task /\ "push" \in MainPc
      BY TaskKinds DEF MainPc
    <3> QED BY <1>2, <1>3, <2>2, <2>3, <3>1 DEF TypeOK, ModelBecomes, ModelRecord, mainVars, workerVars
  <2>9. StepsAwaited'
    <3>1. \A m \in Model : Done(m)'
      BY <2>1, <2>3, <2>5 DEF ModelBecomes, Done
    <3> QED BY <2>2, <2>6, <3>1 DEF StepsAwaited
  <2>10. UpdatesAwaited'
    <3>1. \A m \in Model : m > mi => Updated(m)
      BY <1>1, <1>4 DEF Model
    <3>2. \A m \in Model : m > mi => Updated(m)'
      BY <1>1, <2>3, <3>1 DEF ModelBecomes, Model, Updated
    <3> QED BY <1>5, <1>6, <2>2, <2>6, <3>2 DEF UpdatesAwaited
  <2>11. PushOK'
    <3>1. model'[mi'].queue = <<>> /\ next_push' \in Task
      BY <1>1, <2>2, <2>5, TaskKinds
    <3> QED BY <2>2, <3>1 DEF PushOK
  <2> QED BY <1>1, <1>3, <1>5, <2>1, <2>2, <2>3, <2>7, <2>8, <2>9, <2>10, <2>11, MainChanges DEF Done
<1>7. CASE ~ (settings.show_mode = "graphical" /\ ~ settings.gpu)
  <2>1. model' = model /\ next_push' = next_push /\ EachModel("update", "update", "update_wait")
    BY <1>7 DEF StartUpdate
  <2>2. mi' \in Model /\ mpc' \in {"update", "update_wait"}
    BY <1>2, <2>1, EachModelGoes
  <2>3. TypeOK'
    BY <1>2, <1>3, <2>1, <2>2 DEF TypeOK, mainVars, workerVars, MainPc
  <2>4. ExecutorsOK'
    BY <1>3, <1>5, <2>2, ExecutorsStay
  <2>5. ~ InBatch'
    BY <2>2 DEF InBatch
  <2>6. StepsAwaited'
    <3>1. \A m \in Model : Done(m)' = Done(m)
      BY <2>1 DEF Done
    <3> QED BY <1>2, <1>3, <1>5, <2>2, <2>5, <3>1 DEF StepsAwaited, PushesStep, PushesUpdate
  <2>7. UpdatesAwaited'
    <3>1. settings.gpu \/ settings.show_mode # "graphical"
      BY <1>2, <1>7 DEF TypeOK
    <3>2. \A m \in Model : Updated(m)
      BY <1>2, <1>3, <3>1 DEF UpdatesAwaited
    <3>3. \A m \in Model : Updated(m)'
      BY <2>1, <3>2 DEF Updated
    <3> QED BY <2>5, <3>3 DEF UpdatesAwaited, PushesStep, PushesUpdate
  <2> QED BY <1>3, <1>5, <2>1, <2>3, <2>4, <2>5, <2>6, <2>7, MainAlone DEF pushVars
<1> QED BY <1>6, <1>7

LEMMA FInvInit == Init => FInv
<1> SUFFICES ASSUME Init PROVE FInv
  OBVIOUS
<1>1. /\ mpc = "setup" /\ mi = 1 /\ fresh = {} /\ deleted = {} /\ next_push = none /\ zero = none
      /\ settings = [gpu |-> FALSE, show_mode |-> "graphical"]
      /\ flags = [emulation_enabled |-> TRUE, emultate_one_step |-> TRUE,
                  impact_happened |-> FALSE, vertices_update_needed |-> FALSE]
      /\ model = [m \in Model |-> [queue |-> <<>>, clusters |-> Cluster, step |-> TRUE,
                                   updated |-> UpdateTask, success |-> TRUE]]
      /\ thread \in [Worker -> [stopped : UninitializedStopped, executors : {0}]]
      /\ wpc = [w \in Worker |-> "created"] /\ at = [w \in Worker |-> 1]
      /\ held = [w \in Worker |-> none] /\ todo = [m \in Model |-> {}]
      /\ lost = [m \in Model |-> {}]
  BY DEF Init
<1>2. 1 \in Model /\ 0 \in 0 .. ModelsNum
  BY NumbersAssumption DEF Model
<1>3. TypeOK
  <2>1. settings \in [gpu : BOOLEAN, show_mode : Mode]
        /\ flags \in [emulation_enabled : BOOLEAN, emultate_one_step : BOOLEAN,
                      impact_happened : BOOLEAN, vertices_update_needed : BOOLEAN]
    BY <1>1 DEF Mode
  <2>2. model \in [Model -> [queue : Seq(Task), clusters : SUBSET Cluster,
                             step : BOOLEAN, updated : SUBSET UpdateTask, success : BOOLEAN]]
    BY <1>1, EmptyElements
  <2>3. thread \in [Worker -> [stopped : BOOLEAN, executors : 0 .. ModelsNum]]
    BY <1>1, <1>2, ChoicesAssumption
  <2> QED BY <1>1, <1>2, <2>1, <2>2, <2>3 DEF TypeOK, MainPc, WorkerPc
<1>4. WorkersOK
  BY <1>1 DEF WorkersOK, Busy
<1>5. ExecutorsOK
  BY <1>1 DEF ExecutorsOK
<1>6. \A m \in Model : /\ model[m].queue = <<>> /\ model[m].clusters = Cluster /\ model[m].step
                       /\ model[m].updated = UpdateTask /\ model[m].success
                       /\ todo[m] = {} /\ lost[m] = {}
  BY <1>1
<1>7. \A m \in Model : Done(m) /\ Updated(m)
  BY <1>6 DEF Done, Updated
<1>8. ~ InBatch
  BY <1>1 DEF InBatch
<1>9. StepsAwaited /\ UpdatesAwaited /\ PushOK
  BY <1>1, <1>7, <1>8 DEF StepsAwaited, UpdatesAwaited, PushOK, PushesStep, PushesUpdate
<1>10. ASSUME NEW m \in Model PROVE ModelOK(m)
  <2>1. \A w \in Worker : held[w] = none
    BY <1>1
  <2>2. Held(m) = {} /\ OneHolder(m)
    BY <2>1, TaskKinds DEF Held, OneHolder
  <2>3. Queued(m) = {} /\ NoRepeat(model[m].queue)
    BY <1>6, EmptyElements DEF Queued
  <2>4. ~ Pushing(m) /\ Unpushed(m) = {}
    BY <1>8 DEF Pushing, Unpushed, InBatch
  <2>5. PlacesOK(m)
    BY <1>6, <2>2, <2>3, <2>4 DEF PlacesOK, Places
  <2>6. KindsOK(m)
    BY <1>6, <1>7, <2>2, <2>3, <2>4 DEF KindsOK
  <2>7. StepOK(m)
    BY <1>6 DEF StepOK
  <2> QED BY <2>5, <2>6, <2>7 DEF ModelOK
<1> QED BY <1>3, <1>4, <1>5, <1>9, <1>10 DEF FInv

LEMMA FInvNext ==
  ASSUME FInv, [Next]_vars
  PROVE  FInv'
<1>1. CASE UNCHANGED vars
  <2>1. TypeOK' /\ ExecutorsOK'
    BY <1>1 DEF vars, mainVars, pushVars, workerVars, FInv, TypeOK, ExecutorsOK
  <2>2. StepsAwaited'
    BY <1>1 DEF vars, mainVars, pushVars, FInv, StepsAwaited, PushesStep, PushesUpdate, InBatch, Done
  <2>3. UpdatesAwaited'
    BY <1>1 DEF vars, mainVars, pushVars, FInv, UpdatesAwaited, PushesStep, PushesUpdate, InBatch,
       Updated
  <2> QED BY <1>1, <2>1, <2>2, <2>3, MainAlone DEF vars, workerVars
<1>2. CASE Main \/ HandleMessage \/ Quit
  BY <1>2, SetupKeeps, MessagesKeep, LoopsKeep, ComputeKeeps, StoreKeeps, PublishKeeps,
     StartUpdateKeeps DEF Main
<1> QED BY <1>1, <1>2, WorkKeeps DEF Next

-----------------------------------------------------------------------------
(* The theorems. *)

LEMMA FInvAlways == Spec => []FInv
BY FInvInit, FInvNext, PTL DEF Spec

\* The variables of the program keep their types (TypeOK).
THEOREM TypeCorrect == Spec => []TypeOK
<1>1. FInv => TypeOK
  BY DEF FInv
<1> QED BY <1>1, FInvAlways, PTL

\* While a model is hit, none of its tasks is running (HitsQuietModel), however many
\* models and threads there are and whichever of them have failed.
THEOREM HitsQuietModelCorrect == Spec => []HitsQuietModel
<1>1. FInv => HitsQuietModel
  <2> SUFFICES ASSUME FInv, mpc = "hit", NEW w \in Worker, Inside(w, mi), wpc[w] \in {"execute", "run"}
               PROVE  FALSE
    BY DEF HitsQuietModel
  <2>1. mi \in Model /\ Done(mi) /\ Updated(mi)
    BY DEF FInv, TypeOK, StepsAwaited, UpdatesAwaited
  <2>2. at[w] = mi /\ held[w] # none
    BY DEF FInv, WorkersOK, Busy, Inside
  <2> QED BY <2>1, <2>2, HeldIsAwaited, TaskKinds
<1> QED BY <1>1, FInvAlways, PTL

\* While a buffer is drawn, no worker writes it (DrawnIsStill).
THEOREM DrawnIsStillCorrect == Spec => []DrawnIsStill
<1>1. FInv => DrawnIsStill
  <2> SUFFICES ASSUME FInv, mpc = "render", NEW w \in Worker, held[w] \in UpdateTask
               PROVE  FALSE
    BY DEF DrawnIsStill
  <2>1. at[w] \in Model /\ Updated(at[w])
    BY DEF FInv, TypeOK, UpdatesAwaited
  <2>2. held[w] # none
    BY TaskKinds
  <2> QED BY <2>1, <2>2, HeldIsAwaited
<1> QED BY <1>1, FInvAlways, PTL

-----------------------------------------------------------------------------
(* No failure is masked, and each model keeps the promise of a step. *)

\* The main thread changes the events and the result of a model only when its step is over
\* and has not failed.
LEMMA MainOnModels ==
  ASSUME FInv, Main \/ HandleMessage \/ Quit
  PROVE  \/ /\ todo' = todo
            /\ \A m \in Model :
                 model'[m].step = model[m].step /\ model'[m].success = model[m].success
         \/ \E k \in Model :
              /\ Done(k) /\ model'[k].success
              /\ \A m \in Model : m # k => model'[m] = model[m] /\ todo'[m] = todo[m]
              /\ \/ ~ model'[k].step /\ todo'[k] = Cluster
                 \/ model'[k].step /\ todo'[k] = todo[k]
<1>1. CASE ComputeNextStep
  <2>1. PICK k \in Model : k = mi
    BY DEF FInv, TypeOK
  <2>2. /\ mpc = "compute"
        /\ model' = [model EXCEPT ![k] =
             [queue |-> <<>>, clusters |-> {}, step |-> FALSE, updated |-> @.updated,
              success |-> TRUE]]
        /\ todo' = [todo EXCEPT ![k] = Cluster]
    BY <1>1, <2>1 DEF ComputeNextStep, MainGoes
  <2>3. Done(k)
    BY <2>1, <2>2 DEF FInv, StepsAwaited
  <2>4. TypeOK /\ todo \in [Model -> SUBSET Cluster]
    BY DEF FInv, TypeOK
  <2>5. ModelBecomes(k, <<>>, {}, FALSE, model[k].updated, TRUE)
    BY <2>2, <2>4, ModelStarted
  <2>6. /\ model'[k].success /\ ~ model'[k].step /\ todo'[k] = Cluster
        /\ \A m \in Model : m # k => model'[m] = model[m] /\ todo'[m] = todo[m]
    BY <2>2, <2>4, <2>5 DEF ModelBecomes
  <2> QED BY <2>3, <2>6
<1>2. CASE StartUpdate
  <2>1. PICK k \in Model : k = mi
    BY DEF FInv, TypeOK
  <2>2. mpc = "update" /\ todo' = todo
    BY <1>2 DEF StartUpdate, EachModel, MainGoes
  <2>3. CASE settings.show_mode = "graphical" /\ ~ settings.gpu
    <3>1. Done(k)
      BY <2>2, <2>3 DEF FInv, StepsAwaited
    <3>2. TypeOK /\ model' = [model EXCEPT ![k].updated = {}, ![k].success = TRUE]
      BY <1>2, <2>1, <2>3 DEF StartUpdate, FInv
    <3>3. ModelBecomes(k, model[k].queue, model[k].clusters, model[k].step, {}, TRUE)
      BY <3>2, ModelUpdating
    <3> QED BY <2>2, <3>1, <3>3 DEF ModelBecomes, Done
  <2>4. CASE ~ (settings.show_mode = "graphical" /\ ~ settings.gpu)
    BY <1>2, <2>2, <2>4 DEF StartUpdate
  <2> QED BY <2>3, <2>4
<1>3. CASE PublishTask
  <2>1. PICK k, q : k = mi /\ q = Append(model[k].queue, published)
    OBVIOUS
  <2>2. model' = [model EXCEPT ![k].queue = q] /\ todo' = todo
    BY <1>3, <2>1 DEF PublishTask
  <2>3. model \in [Model -> [queue : Seq(Task), clusters : SUBSET Cluster, step : BOOLEAN,
                             updated : SUBSET UpdateTask, success : BOOLEAN]]
    BY DEF FInv, TypeOK
  <2>4. \A m \in Model : model'[m].step = model[m].step /\ model'[m].success = model[m].success
    BY <2>2, <2>3
  <2> QED BY <2>2, <2>4
<1>4. CASE ~ ComputeNextStep /\ ~ StartUpdate /\ ~ PublishTask
  BY <1>4 DEF Main, HandleMessage, Quit, AddModel, BeginFrame, Prepare, Hit, StoreTask, FinishStep,
     FinishUpdate, Render, StopThreads, AwaitLastStep, DeleteModel
<1> QED BY <1>1, <1>2, <1>3, <1>4

\* What a worker can do to the step of the model k it is in.
LEMMA WorkerOnModels ==
  ASSUME FInv, NEW w \in Worker, Work(w), NEW k \in Model, k = at[w]
  PROVE  /\ \A m \in Model : m # k => model'[m] = model[m] /\ todo'[m] = todo[m]
         /\ model'[k].success => model[k].success
         /\ \/ model'[k].step = model[k].step /\ todo'[k] = todo[k]
            \/ /\ model'[k].step = model[k].step /\ model'[k].success = model[k].success
               /\ \E c \in todo[k] : todo'[k] = todo[k] \ {c}
               /\ model[k].success => ~ model[k].step
            \/ /\ model[k].success /\ ~ model[k].step /\ todo[k] = {}
               /\ model'[k].success /\ model'[k].step /\ todo'[k] = todo[k]
            \/ /\ ~ model[k].success /\ ~ model'[k].success
               /\ model'[k].step /\ todo'[k] = todo[k]
<1>1. /\ TypeOK /\ WorkersOK /\ todo \in [Model -> SUBSET Cluster] /\ model[k].step \in BOOLEAN
      /\ model[k].clusters \in SUBSET Cluster /\ model[k].updated \in SUBSET UpdateTask
      /\ model[k].success \in BOOLEAN
  BY OwnModel
<1>2. CASE UNCHANGED <<model, todo>>
  BY <1>2
<1>3. CASE PopTask(w)
  <2>1. PICK q : q = Tail(model[k].queue)
    OBVIOUS
  <2>2. model' = [model EXCEPT ![k].queue = q] /\ model[k].queue # <<>> /\ todo' = todo
    BY <1>3, <2>1 DEF PopTask
  <2>3. q \in Seq(Task)
    BY <2>1, <2>2, OwnModel
  <2>4. ModelBecomes(k, q, model[k].clusters, model[k].step, model[k].updated, model[k].success)
    BY <1>1, <2>2, <2>3, ModelQueue
  <2> QED BY <2>2, <2>4 DEF ModelBecomes
<1>4. CASE MatchShape(w)
  <2>1. PICK h \in Cluster : h = held[w]
    BY <1>4 DEF MatchShape
  <2>2. PICK c : c = model[k].clusters \cup {h}
    OBVIOUS
  <2>3. /\ model' = [model EXCEPT ![k].clusters = c] /\ wpc[w] = "run"
        /\ todo' = [todo EXCEPT ![k] = @ \ {h}] /\ c \in SUBSET Cluster
    BY <1>1, <1>4, <2>1, <2>2 DEF MatchShape, NextExecutor, WorkerGoes
  <2>4. ModelBecomes(k, model[k].queue, c, model[k].step, model[k].updated, model[k].success)
    BY <1>1, <2>3, ModelClusters
  <2>5. /\ model'[k].step = model[k].step /\ model'[k].success = model[k].success
        /\ \A m \in Model : m # k => model'[m] = model[m] /\ todo'[m] = todo[m]
        /\ todo'[k] = todo[k] \ {h}
    BY <1>1, <2>3, <2>4 DEF ModelBecomes
  <2>6. held[w] # none /\ held[w] \in StepTask
    BY <2>1, TaskKinds
  <2>7. model[k].success => ~ model[k].step
    BY <2>6, HeldIsAwaited DEF Done
  <2>8. CASE h \in todo[k]
    BY <2>5, <2>7, <2>8
  <2>9. CASE h \notin todo[k]
    <3>1. todo'[k] = todo[k]
      BY <2>5, <2>9
    <3> QED BY <2>5, <3>1
  <2> QED BY <2>8, <2>9
<1>5. CASE Integrate(w)
  <2>1. PICK s \in (IF model[k].success THEN {TRUE} ELSE {TRUE, model[k].step}) :
          model' = [model EXCEPT ![k].step = s]
    BY <1>5 DEF Integrate
  <2>2. s \in BOOLEAN /\ (model[k].success => s)
    BY <1>1, <2>1
  <2>3. ModelBecomes(k, model[k].queue, model[k].clusters, s, model[k].updated, model[k].success)
    BY <1>1, <2>1, <2>2, ModelStepped
  <2>4. todo' = todo /\ held[w] = final_task /\ wpc[w] = "run"
    BY <1>5 DEF Integrate, NextExecutor, WorkerGoes
  <2>5. model[k].success => ~ model[k].step /\ todo[k] = {}
    BY <2>4, IntegratedLast
  <2>6. /\ model'[k].step = s /\ model'[k].success = model[k].success
        /\ \A m \in Model : m # k => model'[m] = model[m] /\ todo'[m] = todo[m]
        /\ todo'[k] = todo[k]
    BY <2>3, <2>4 DEF ModelBecomes
  <2>7. CASE model[k].success
    BY <2>2, <2>5, <2>6, <2>7
  <2>8. CASE ~ model[k].success
    BY <2>1, <2>6, <2>8
  <2> QED BY <2>7, <2>8
<1>6. CASE UpdateVertices(w)
  <2>1. PICK u : u = model[k].updated \cup {held[w]}
    OBVIOUS
  <2>2. model' = [model EXCEPT ![k].updated = u] /\ todo' = todo /\ u \in SUBSET UpdateTask
    BY <1>1, <1>6, <2>1 DEF UpdateVertices
  <2>3. ModelBecomes(k, model[k].queue, model[k].clusters, model[k].step, u, model[k].success)
    BY <1>1, <2>2, ModelUpdated
  <2> QED BY <2>2, <2>3 DEF ModelBecomes
<1>7. CASE AbortFlag(w)
  <2>1. model' = [model EXCEPT ![k].success = FALSE] /\ todo' = todo
    BY <1>7 DEF AbortFlag
  <2>2. ModelBecomes(k, model[k].queue, model[k].clusters, model[k].step, model[k].updated, FALSE)
    BY <1>1, <2>1, ModelFailed
  <2> QED BY <2>1, <2>2 DEF ModelBecomes
<1>8. CASE AbortRelease(w)
  <2>1. /\ model' = [model EXCEPT ![k].queue = <<>>, ![k].clusters = Cluster, ![k].step = TRUE]
        /\ todo' = todo /\ wpc[w] = "release"
    BY <1>8 DEF AbortRelease, WorkerGoes
  <2>2. ModelBecomes(k, <<>>, Cluster, TRUE, model[k].updated, model[k].success)
    BY <1>1, <2>1, ModelReleased
  <2>3. ~ model[k].success
    BY <1>1, <2>1 DEF WorkersOK
  <2> QED BY <2>1, <2>2, <2>3 DEF ModelBecomes
<1> QED BY <1>2, <1>3, <1>4, <1>5, <1>6, <1>7, <1>8
        DEF Work, BeginSweep, WakeUp, TimeOut, PopNothing, SkipTask, RunTask, TaskFails

\* No step makes a failure of a model disappear (FailureIsNotMasked), in spite of
\* `success' being set again by the next step and by an update of the vertices.
THEOREM FailureIsNotMaskedCorrect == Spec => FailureIsNotMasked
<1>1. ASSUME FInv, [Next]_vars
      PROVE  [\A m \in Model : ~ model[m].success => ~ model'[m].success]_vars
  <2>1. CASE UNCHANGED vars
    BY <2>1
  <2>2. CASE Main \/ HandleMessage \/ Quit
    <3>1. \A m \in Model : model'[m].success = model[m].success \/ model[m].success
      BY <1>1, <2>2, MainOnModels DEF Done
    <3> QED BY <3>1
  <2>3. ASSUME NEW w \in Worker, Work(w)
        PROVE  \A m \in Model : ~ model[m].success => ~ model'[m].success
    <3>1. PICK k \in Model : k = at[w]
      BY <1>1 DEF FInv, TypeOK
    <3>2. /\ \A m \in Model : m # k => model'[m] = model[m]
          /\ model'[k].success => model[k].success
      BY <1>1, <2>3, <3>1, WorkerOnModels
    <3> QED BY <3>2
  <2> QED BY <1>1, <2>1, <2>2, <2>3 DEF Next
<1> QED BY <1>1, FInvAlways, PTL DEF Spec, FailureIsNotMasked

\* Under the mapping of Barriered, the program begins as StepBarrier does ...
LEMMA BarriersInit ==
  ASSUME Init
  PROVE  \A m \in Model : Barriered(m)!Init
BY DEF Init, Barriered!Init

\* ... and every step of it is one of StepBarrier's, for each model, or a stutter.
LEMMA BarriersNext ==
  ASSUME FInv, [Next]_vars, NEW m \in Model
  PROVE  [Barriered(m)!Next]_(Barriered(m)!vars)
<1> USE DEF Barriered!Next, Barriered!vars, Barriered!Start, Barriered!Match, Barriered!Integrate,
            Barriered!Fail, Barriered!Release
<1>1. CASE UNCHANGED vars
  BY <1>1 DEF vars
<1>2. CASE Main \/ HandleMessage \/ Quit
  <2>1. CASE /\ todo' = todo
             /\ \A n \in Model :
                  model'[n].step = model[n].step /\ model'[n].success = model[n].success
    BY <2>1
  <2>2. ASSUME NEW k \in Model, Done(k), model'[k].success,
               \A n \in Model : n # k => model'[n] = model[n] /\ todo'[n] = todo[n],
               \/ ~ model'[k].step /\ todo'[k] = Cluster
               \/ model'[k].step /\ todo'[k] = todo[k]
        PROVE  [Barriered(m)!Next]_(Barriered(m)!vars)
    BY <2>2 DEF Done
  <2> QED BY <1>2, <2>1, <2>2, MainOnModels
<1>3. ASSUME NEW w \in Worker, Work(w) PROVE [Barriered(m)!Next]_(Barriered(m)!vars)
  <2>1. PICK k \in Model : k = at[w]
    BY DEF FInv, TypeOK
  <2>2. CASE m # k
    <3>1. model'[m] = model[m] /\ todo'[m] = todo[m]
      BY <1>3, <2>1, <2>2, WorkerOnModels
    <3> QED BY <3>1
  <2>3. CASE m = k
    BY <1>3, <2>1, <2>3, WorkerOnModels
  <2> QED BY <2>2, <2>3
<1> QED BY <1>1, <1>2, <1>3 DEF Next

\* Each model keeps the promise of a step (ImplementsBarriers, model.h:271-313), however
\* the threads share the models and whichever of their tasks fail.
THEOREM ImplementsBarriersCorrect == Spec => ImplementsBarriers
<1>1. ASSUME FInv, [Next]_vars
      PROVE  \A m \in Model : [Barriered(m)!Next]_(Barriered(m)!vars)
  BY <1>1, BarriersNext
<1> QED BY <1>1, BarriersInit, FInvAlways, PTL DEF Spec, ImplementsBarriers

-----------------------------------------------------------------------------
(* What is drawn is current, unless the mode is changed in the settings    *)
(* window: FramesApply shows that then it may not be.                      *)

LEMMA StaleInit == Init => StaleIsUpdated
BY DEF Init, StaleIsUpdated, DrawnIsCurrent

LEMMA StaleNext ==
  ASSUME "apply" \notin Inputs, FInv, StaleIsUpdated, [Next]_vars
  PROVE  StaleIsUpdated'
<1> USE DEF StaleIsUpdated, DrawnIsCurrent
<1>1. TypeOK /\ mi \in Model
  BY DEF FInv, TypeOK
<1>2. CASE UNCHANGED vars \/ \E w \in Worker : Work(w)
  <2>1. UNCHANGED <<mpc, mi, mainVars>>
    BY <1>2 DEF vars, Work, BeginSweep, WakeUp, TimeOut, PopTask, PopNothing, SkipTask, RunTask,
       MatchShape, Integrate, UpdateVertices, TaskFails, AbortFlag, AbortRelease, NextExecutor
  <2> QED BY <2>1 DEF mainVars, UpdatesBuffer
<1>3. CASE AddModel
  <2>1. mpc = "setup" /\ mpc' \in {"setup", "messages"} /\ UNCHANGED mainVars
    BY <1>1, <1>3, EachModelGoes DEF AddModel
  <2> QED BY <2>1 DEF mainVars
<1>4. CASE HandleMessage
  <2>1. mpc \in {"messages", "hit", "finish"} /\ mpc' = mpc /\ fresh' = fresh
    BY <1>4 DEF HandleMessage, BoxIsOpen
  <2>2. CASE \E mode \in Mode : ShowMode(mode)
    BY <1>1, <2>1, <2>2 DEF ShowMode, TypeOK
  <2>3. CASE SetDefaults
    BY <2>1, <2>3 DEF SetDefaults, UpdatesBuffer
  <2>4. CASE TogglePause
    BY <1>1, <2>1, <2>4 DEF TogglePause, TypeOK, UpdatesBuffer
  <2>5. CASE SingleStep
    BY <1>1, <2>1, <2>5 DEF SingleStep, TypeOK
  <2>6. CASE Impact
    BY <1>1, <2>1, <2>6 DEF Impact, TypeOK, UpdatesBuffer
  <2> QED BY <1>4, <2>2, <2>3, <2>4, <2>5, <2>6 DEF HandleMessage, ApplySettings
<1>5. CASE BeginFrame
  <2>1. /\ mpc = "messages" /\ UNCHANGED mainVars
        /\ mpc' = IF flags.emulation_enabled \/ flags.emultate_one_step THEN "prepare"
                  ELSE IF flags.vertices_update_needed THEN "update" ELSE "render"
    BY <1>5 DEF BeginFrame, MainGoes
  <2>2. mpc' = "render" => ~ flags.vertices_update_needed /\ ~ flags.emultate_one_step
    BY <2>1
  <2>3. mpc' \notin {"setup", "messages"}
    BY <2>1
  <2> QED BY <2>1, <2>2, <2>3 DEF mainVars, UpdatesBuffer
<1>6. CASE Render
  BY <1>6 DEF Render, MainGoes, mainVars, UpdatesBuffer
<1>7. CASE FinishUpdate
  <2>1. mpc' \in {"stop", "update_wait", "render"}
    <3>1. PICK turn \in {"stop", "update_wait"} : EachModel("update_wait", turn, "render")
      BY <1>7 DEF FinishUpdate
    <3> QED BY <1>1, <3>1, EachModelGoes
  <2>2. settings' = settings /\ (mpc' = "render" => settings.show_mode \in fresh')
    BY <1>7 DEF FinishUpdate
  <2> QED BY <2>1, <2>2
<1>8. CASE Quit \/ Prepare \/ Hit \/ ComputeNextStep \/ StoreTask \/ PublishTask \/ FinishStep
           \/ StartUpdate \/ StopThreads \/ AwaitLastStep \/ DeleteModel
  <2>1. mpc' \notin {"setup", "messages", "render"}
    <3>1. CASE Prepare \/ FinishStep \/ (StartUpdate /\ mpc' # "push") \/ AwaitLastStep
               \/ DeleteModel
      <4>1. PICK loop \in {"prepare", "finish", "update", "stop_wait", "delete"},
                 turn \in {"stop", "hit", "compute", "finish", "update", "stop_wait", "delete"},
                 after \in {"finish", "update", "update_wait", "delete", "exited"} :
              EachModel(loop, turn, after)
        BY <3>1 DEF Prepare, FinishStep, StartUpdate, AwaitLastStep, DeleteModel, MainGoes
      <4> QED BY <1>1, <4>1, EachModelGoes
    <3>2. CASE Quit \/ Hit \/ ComputeNextStep \/ StoreTask \/ StopThreads
      BY <3>2 DEF Quit, Hit, ComputeNextStep, StoreTask, StopThreads, MainGoes
    <3>3. CASE PublishTask
      BY <3>3 DEF PublishTask, NextModel
    <3> QED BY <1>8, <3>1, <3>2, <3>3
  <2> QED BY <2>1
<1> QED BY <1>2, <1>3, <1>4, <1>5, <1>6, <1>7, <1>8 DEF Next, Main

\* A buffer that is drawn was updated in the mode shown, after the last step
\* (DrawnIsCurrent), as long as the mode is changed by its keys.
THEOREM DrawnIsCurrentCorrect ==
  ASSUME "apply" \notin Inputs
  PROVE  Spec => []DrawnIsCurrent
<1>1. FInv /\ StaleIsUpdated /\ [Next]_vars => StaleIsUpdated'
  BY StaleNext
<1>2. StaleIsUpdated => DrawnIsCurrent
  BY DEF StaleIsUpdated
<1> QED BY <1>1, <1>2, StaleInit, FInvAlways, PTL DEF Spec
=============================================================================
