------------------------------ MODULE FifoQueue ------------------------------
(***************************************************************************)
(* What Parallel/task_queue.h promises (lines 9-11 and 35-50): a FIFO of   *)
(* tasks, pushed by one thread and popped by many.  A push takes time, and *)
(* takes effect when it returns at the latest; pops and a clear happen at  *)
(* an instant.  A pop gives the oldest task, and no other, to one worker.  *)
(***************************************************************************)
EXTENDS Sequences

CONSTANTS Task, Worker, NULL

VARIABLES
  queue,    \* the tasks waiting to be popped, oldest first
  pending,  \* the argument of the push under way, or NULL
  taken     \* the task each worker has popped and not completed, or NULL

vars == <<queue, pending, taken>>

Init == queue = << >> /\ pending = NULL /\ taken = [w \in Worker |-> NULL]

BeginPush(task) == pending = NULL /\ pending' = task /\ UNCHANGED <<queue, taken>>

EndPush ==
  /\ pending # NULL
  /\ queue' = Append(queue, pending)
  /\ pending' = NULL
  /\ UNCHANGED taken

Pop(w) ==
  /\ queue # << >> /\ taken[w] = NULL
  /\ taken' = [taken EXCEPT ![w] = Head(queue)]
  /\ queue' = Tail(queue)
  /\ UNCHANGED pending

Complete(w) == taken' = [taken EXCEPT ![w] = NULL] /\ UNCHANGED <<queue, pending>>

Clear == queue' = << >> /\ UNCHANGED <<pending, taken>>

Next ==
  \/ \E task \in Task : BeginPush(task)
  \/ EndPush
  \/ \E w \in Worker : Pop(w) \/ Complete(w)
  \/ Clear

Spec == Init /\ [][Next]_vars
==============================================================================
