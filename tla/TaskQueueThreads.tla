-------------------------- MODULE TaskQueueThreads --------------------------
(***************************************************************************)
(* A task queue used as Parallel/task_queue.h describes: one thread pushes *)
(* (and clears and resets) and several worker threads wait for the event,  *)
(* pop and complete tasks, in the loop of Renderer/worker_thread.cpp.  The *)
(* pusher calls the operations in any order and with any arguments.        *)
(***************************************************************************)
EXTENDS TaskQueue

CONSTANT Worker    \* the threads that pop

VARIABLES
  wpc,        \* where each worker is in its loop
  held,       \* the task each worker has popped, or NULL
  complete,   \* the tasks whose AbstractTask::_is_complete is true
  popped      \* history: the tasks popped since the last clear() or reset()

vars == <<queueVars, wpc, held, complete, popped>>

TypeOK ==
  /\ QueueTypeOK
  /\ wpc \in [Worker -> {"waiting", "popping", "working"}]
  /\ held \in [Worker -> Task \cup {NULL}]
  /\ complete \subseteq Task
  /\ popped \subseteq Task

Init ==
  /\ QueueInit
  /\ wpc = [w \in Worker |-> "waiting"]
  /\ held = [w \in Worker |-> NULL]
  /\ complete = {}
  /\ popped = {}

-----------------------------------------------------------------------------
(* The pushing thread. *)

BeginPush ==
  /\ \E task \in Task, set_event \in BOOLEAN : PushStore(task, set_event)
  /\ UNCHANGED <<wpc, held, complete, popped>>

PushToFull == PushRefused /\ UNCHANGED <<wpc, held, complete, popped>>

EndPush == PushPublish /\ UNCHANGED <<wpc, held, complete, popped>>

ClearQueue ==
  /\ pushing = NoPush
  /\ Clear
  /\ popped' = {}
  /\ UNCHANGED <<wpc, held, complete>>

ResetQueue ==
  /\ Reset
  /\ complete' = complete \ {tasks[i] : i \in 0 .. last}
  /\ popped' = {}
  /\ UNCHANGED <<wpc, held>>

ResetTooEarly == ResetRefused /\ UNCHANGED <<wpc, held, complete, popped>>

Pusher ==
  BeginPush \/ PushToFull \/ EndPush \/ ClearQueue \/ ResetQueue \/ ResetTooEarly

-----------------------------------------------------------------------------
(* The worker threads. *)

\* wait_for_tasks(): a wait that times out starts again and changes nothing.
WaitForTasks(w) ==
  /\ wpc[w] = "waiting"
  /\ has_tasks_event
  /\ wpc' = [wpc EXCEPT ![w] = "popping"]
  /\ UNCHANGED <<queueVars, held, complete, popped>>

\* complete_next_task() pops; with no task it returns to the wait.
PopTask(w) ==
  /\ wpc[w] = "popping"
  /\ \E task \in Task \cup {NULL} :
       /\ Pop(task)
       /\ held' = [held EXCEPT ![w] = task]
       /\ wpc' = [wpc EXCEPT ![w] = IF task = NULL THEN "waiting" ELSE "working"]
       /\ popped' = popped \cup ({task} \ {NULL})
  /\ UNCHANGED complete

\* AbstractTask::complete() has executed the task.
CompleteTask(w) ==
  /\ wpc[w] = "working"
  /\ complete' = complete \cup {held[w]}
  /\ held' = [held EXCEPT ![w] = NULL]
  /\ wpc' = [wpc EXCEPT ![w] = "waiting"]
  /\ UNCHANGED <<queueVars, popped>>

Work(w) == WaitForTasks(w) \/ PopTask(w) \/ CompleteTask(w)

Next == Pusher \/ \E w \in Worker : Work(w)

Spec == Init /\ [][Next]_vars

\* One thread does both, as Model::compute_next_step does and as the
\* SingleThreadFactory requires: no worker runs inside a push.
SerialNext == Pusher \/ (pushing = NoPush /\ \E w \in Worker : Work(w))

SerialSpec == Init /\ [][SerialNext]_vars

\* A push that has begun returns, and the workers never stop looping; the
\* pusher need not ever push again.
FairSpec == Spec /\ WF_vars(EndPush) /\ \A w \in Worker : WF_vars(Work(w))

-----------------------------------------------------------------------------
(* Properties. *)

\* pop() never hands a worker an uninitialised pointer, whatever the races:
\* every slot a pop can reach was stored to (task_queue.cpp:13, 27, 45).
NeverPopsGarbage == ReachableSlotsWritten /\ IndicesOK

Fifo == INSTANCE FifoQueue WITH
  queue <- Window, pending <- pushing.task, taken <- held

\* Every step of the code is a step of the FIFO queue of task_queue.h, but
\* one: the end of a push that a pop or clear overtook (task_queue.cpp:27-29
\* against 45-50), which publishes an old task instead of the new one.
FifoUnlessOvertaken ==
  [][ \/ pushing.overtaken /\ EndPush
      \/ [Fifo!Next]_Fifo!vars ]_vars

\* Workers are woken for work: only reset() can leave the event set on a
\* queue with nothing to pop (task_queue.cpp:31-34, 47-51, 79, 99).
OnlyResetWakesForNothing ==
  [][ has_tasks_event' /\ is_empty' =>
        ResetQueue \/ (has_tasks_event /\ is_empty) ]_vars

\* The whole of what task_queue.h promises.
QueueIsFifo == Fifo!Spec

\* reset() hands back every task popped since the queue was last cleared,
\* and marks it incomplete (task_queue.h:44-46, task_queue_unittest.cpp:72-85).
ResetReturnsPopped ==
  [][ ResetQueue /\ popped # {} =>
        /\ popped \subseteq {Window'[i] : i \in DOMAIN Window'}
        /\ popped \cap complete' = {} ]_vars

\* No wakeup is lost: once the event is set on a queue that has tasks, the
\* workers empty it, or another push begins (worker_thread.cpp:42-67 with
\* task_queue.cpp:31-34 and 47-51).
AnnouncedWorkIsDone ==
  has_tasks_event /\ ~ is_empty ~> is_empty \/ pushing # NoPush

==============================================================================
