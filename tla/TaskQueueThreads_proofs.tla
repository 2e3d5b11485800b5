----------------------- MODULE TaskQueueThreads_proofs -----------------------
(***************************************************************************)
(* Proofs about the task queue and its threads, for any number of tasks,   *)
(* slots and workers.                                                      *)
(***************************************************************************)
EXTENDS TaskQueueThreads, TaskQueueLemmas

\* The threads' own variables are well typed.
ThreadsTypeOK ==
  /\ wpc \in [Worker -> {"waiting", "popping", "working"}]
  /\ held \in [Worker -> Task \cup {NULL}]
  /\ complete \subseteq Task
  /\ popped \subseteq Task
  /\ \A w \in Worker : wpc[w] = "working" <=> held[w] # NULL

\* The inductive invariant of the whole.
IInv == QueueInv /\ ThreadsTypeOK

\* Init establishes the inductive invariant.
LEMMA IInvInit == Init => IInv
<1> SUFFICES ASSUME Init PROVE IInv
  OBVIOUS
<1>1. QueueInv
  BY QueueInitInv DEF Init
<1>2. ThreadsTypeOK
  BY DEF Init, ThreadsTypeOK
<1> QED
  BY <1>1, <1>2 DEF IInv

\* Whatever the pushing thread does preserves it.
LEMMA PusherInv == IInv /\ Pusher => IInv'
<1> SUFFICES ASSUME IInv, Pusher PROVE IInv'
  OBVIOUS
<1> USE DEF IInv
<1>1. CASE BeginPush
  BY <1>1, PushStoreInv DEF BeginPush, ThreadsTypeOK
<1>2. CASE PushToFull
  BY <1>2, UnchangedInv DEF PushToFull, PushRefused, ThreadsTypeOK
<1>3. CASE EndPush
  BY <1>3, PushPublishInv DEF EndPush, ThreadsTypeOK
<1>4. CASE ClearQueue
  BY <1>4, ClearInv DEF ClearQueue, ThreadsTypeOK
<1>5. CASE ResetQueue
  BY <1>5, ResetInv DEF ResetQueue, ThreadsTypeOK
<1>6. CASE ResetTooEarly
  BY <1>6, UnchangedInv DEF ResetTooEarly, ResetRefused, ThreadsTypeOK
<1> QED
  BY <1>1, <1>2, <1>3, <1>4, <1>5, <1>6 DEF Pusher

\* Whatever a worker does preserves it.
LEMMA WorkInv == ASSUME IInv, NEW w \in Worker, Work(w) PROVE IInv'
<1> USE DEF IInv
<1>1. CASE WaitForTasks(w)
  BY <1>1, UnchangedInv DEF WaitForTasks, ThreadsTypeOK
<1>2. CASE PopTask(w)
  <2>1. PICK task \in Task \cup {NULL} :
          /\ Pop(task)
          /\ held' = [held EXCEPT ![w] = task]
          /\ wpc' = [wpc EXCEPT ![w] = IF task = NULL THEN "waiting" ELSE "working"]
          /\ popped' = popped \cup ({task} \ {NULL})
    BY <1>2 DEF PopTask
  <2>2. QueueInv'
    BY <2>1, PopInv
  <2>3. ThreadsTypeOK'
    BY <1>2, <2>1, PointerAssumption DEF PopTask, ThreadsTypeOK
  <2> QED
    BY <2>2, <2>3
<1>3. CASE CompleteTask(w)
  BY <1>3, UnchangedInv, PointerAssumption DEF CompleteTask, ThreadsTypeOK
<1> QED
  BY <1>1, <1>2, <1>3 DEF Work

\* Every step of the threads preserves it.
LEMMA IInvNext == IInv /\ [Next]_vars => IInv'
<1> SUFFICES ASSUME IInv, [Next]_vars PROVE IInv'
  OBVIOUS
<1>1. CASE Pusher
  BY <1>1, PusherInv
<1>2. ASSUME NEW w \in Worker, Work(w) PROVE IInv'
  BY <1>2, WorkInv
<1>3. CASE UNCHANGED vars
  BY <1>3, UnchangedInv DEF vars, IInv, ThreadsTypeOK
<1> QED
  BY <1>1, <1>2, <1>3 DEF Next

\* The state of the queue and of its threads stays well typed: no index ever
\* leaves the array, in every interleaving of one pusher and any number of
\* workers.
THEOREM TypeCorrect == Spec => []TypeOK
<1>1. IInv => TypeOK
  BY DEF IInv, QueueInv, ThreadsTypeOK, TypeOK
<1> QED
  BY <1>1, IInvInit, IInvNext, PTL DEF Spec

\* No pop ever returns a slot of the array that was not stored to.
THEOREM NeverPopsGarbageCorrect == Spec => []NeverPopsGarbage
<1>1. IInv => NeverPopsGarbage
  BY DEF IInv, QueueInv, NeverPopsGarbage
<1> QED
  BY <1>1, IInvInit, IInvNext, PTL DEF Spec

-----------------------------------------------------------------------------
(* The queue against its abstract specification. *)

\* What `pending' is mapped to, while and outside a push.
LEMMA PendingOfPushing ==
  ASSUME IInv
  PROVE  /\ pushing.task \in Task \cup {NULL}
         /\ pushing.task = NULL <=> pushing = NoPush
  BY PointerAssumption DEF IInv, QueueInv, QueueTypeOK, Push, NoPush

\* A clear does not touch the argument of the push under way.
LEMMA ClearKeepsPending ==
  ASSUME IInv, clear_unsafe
  PROVE  pushing'.task = pushing.task
  BY DEF clear_unsafe, IInv, QueueInv, QueueTypeOK, Push

\* Nor does a pop (task_queue.cpp:38-56).
LEMMA PopKeepsPending ==
  ASSUME IInv, NEW task, Pop(task)
  PROVE  pushing'.task = pushing.task
  BY ClearKeepsPending DEF Pop, PopLast, PopEarlier, queueVars

\* The pusher's steps are steps of a FIFO queue, unless it was overtaken.
LEMMA PusherIsFifo ==
  ASSUME IInv, Pusher
  PROVE  (pushing.overtaken /\ EndPush) \/ [Fifo!Next]_Fifo!vars
<1> USE DEF IInv
<1> held' = held
  BY DEF Pusher, BeginPush, PushToFull, EndPush, ClearQueue, ResetQueue,
         ResetTooEarly
<1>1. CASE BeginPush
  <2>1. PICK task \in Task, set_event \in BOOLEAN : PushStore(task, set_event)
    BY <1>1 DEF BeginPush
  <2>2. Window' = Window
    BY <2>1, PushStoreWindow
  <2>3. pushing.task = NULL /\ pushing'.task = task
    BY <2>1 DEF PushStore, NoPush
  <2>4. Fifo!BeginPush(task)
    BY <2>2, <2>3 DEF Fifo!BeginPush
  <2> QED
    BY <2>4 DEF Fifo!Next
<1>2. CASE EndPush /\ ~ pushing.overtaken
  <2>1. PushPublish
    BY <1>2 DEF EndPush
  <2>2. Window' = Append(Window, pushing.task)
    BY <1>2, <2>1, PushPublishWindow
  <2>3. pushing.task # NULL /\ pushing'.task = NULL
    BY <2>1, PendingOfPushing DEF PushPublish, NoPush
  <2>4. Fifo!EndPush
    BY <2>2, <2>3 DEF Fifo!EndPush
  <2> QED
    BY <2>4 DEF Fifo!Next
<1>3. CASE ClearQueue
  <2>1. Window' = << >> /\ pushing'.task = pushing.task
    BY <1>3, ClearWindow, ClearKeepsPending DEF ClearQueue, Clear
  <2>2. Fifo!Clear
    BY <2>1 DEF Fifo!Clear
  <2> QED
    BY <2>2 DEF Fifo!Next
<1>4. CASE ResetQueue
  <2>1. first' = first /\ UNCHANGED <<tasks, last, pushing>>
    BY <1>4 DEF ResetQueue, Reset, QueueInv, IndicesOK
  <2> QED
    BY <2>1 DEF Window, Fifo!vars
<1>5. CASE PushToFull \/ ResetTooEarly
  BY <1>5 DEF PushToFull, PushRefused, ResetTooEarly, ResetRefused, queueVars,
              Window, Fifo!vars
<1> QED
  BY <1>1, <1>2, <1>3, <1>4, <1>5 DEF Pusher

\* The workers' steps are always steps of a FIFO queue.
LEMMA WorkIsFifo ==
  ASSUME IInv, NEW w \in Worker, Work(w)
  PROVE  [Fifo!Next]_Fifo!vars
<1> USE DEF IInv
<1>1. CASE WaitForTasks(w)
  BY <1>1 DEF WaitForTasks, queueVars, Window, Fifo!vars
<1>2. CASE CompleteTask(w)
  <2>1. Window' = Window /\ pushing' = pushing
    BY <1>2 DEF CompleteTask, queueVars, Window
  <2>2. Fifo!Complete(w)
    BY <1>2, <2>1 DEF CompleteTask, Fifo!Complete
  <2> QED
    BY <2>2 DEF Fifo!Next
<1>3. CASE PopTask(w)
  <2>1. PICK task \in Task \cup {NULL} :
          Pop(task) /\ held' = [held EXCEPT ![w] = task]
    BY <1>3 DEF PopTask
  <2>2. pushing'.task = pushing.task /\ held[w] = NULL /\ held \in [Worker -> Task \cup {NULL}]
    BY <1>3, <2>1, PopKeepsPending DEF PopTask, ThreadsTypeOK
  <2>3. CASE task = NULL /\ UNCHANGED queueVars
    <3>1. held' = held
      BY <2>1, <2>2, <2>3
    <3> QED
      BY <2>3, <3>1 DEF queueVars, Window, Fifo!vars
  <2>4. CASE Window # << >> /\ task = Head(Window) /\ Window' = Tail(Window)
    <3>1. Fifo!Pop(w)
      BY <2>1, <2>2, <2>4 DEF Fifo!Pop
    <3> QED
      BY <3>1 DEF Fifo!Next
  <2> QED
    BY <2>1, <2>3, <2>4, PopWindow
<1> QED
  BY <1>1, <1>2, <1>3 DEF Work

\* In every interleaving, each step of the queue is a step of a FIFO queue,
\* with the one exception of a push that a pop or a clear overtook between
\* its store and its increment (task_queue.cpp:27-29).
THEOREM FifoUnlessOvertakenCorrect == Spec => FifoUnlessOvertaken
<1>1. IInv /\ [Next]_vars =>
        [(pushing.overtaken /\ EndPush) \/ [Fifo!Next]_Fifo!vars]_vars
  <2> SUFFICES ASSUME IInv, [Next]_vars
               PROVE  (pushing.overtaken /\ EndPush) \/ [Fifo!Next]_Fifo!vars
    OBVIOUS
  <2>1. CASE Pusher
    BY <2>1, PusherIsFifo
  <2>2. ASSUME NEW w \in Worker, Work(w) PROVE [Fifo!Next]_Fifo!vars
    BY <2>2, WorkIsFifo
  <2>3. CASE UNCHANGED vars
    BY <2>3 DEF vars, queueVars, Window, Fifo!vars
  <2> QED
    BY <2>1, <2>2, <2>3 DEF Next
<1> QED
  BY <1>1, IInvInit, IInvNext, PTL DEF Spec, FifoUnlessOvertaken

\* Used by one thread only, the queue is never overtaken.
SerialInv == IInv /\ ~ pushing.overtaken

\* A new queue has no push under way.
LEMMA SerialInvInit == Init => SerialInv
  BY IInvInit DEF SerialInv, Init, QueueInit, NoPush

\* With one thread, no step overtakes a push.
LEMMA SerialInvNext == SerialInv /\ [SerialNext]_vars => SerialInv'
<1> SUFFICES ASSUME SerialInv, [SerialNext]_vars PROVE SerialInv'
  OBVIOUS
<1>1. IInv'
  BY IInvNext DEF SerialInv, SerialNext, Next
<1>2. CASE Pusher
  <2>1. ASSUME BeginPush PROVE ~ pushing'.overtaken
    BY <2>1 DEF BeginPush, PushStore
  <2>2. ASSUME EndPush PROVE ~ pushing'.overtaken
    BY <2>2 DEF EndPush, PushPublish, NoPush
  <2>3. ASSUME ClearQueue PROVE ~ pushing'.overtaken
    BY <2>3 DEF ClearQueue, Clear, clear_unsafe, SerialInv
  <2>4. ASSUME PushToFull \/ ResetQueue \/ ResetTooEarly
        PROVE  ~ pushing'.overtaken
    BY <2>4 DEF PushToFull, PushRefused, ResetQueue, Reset, ResetTooEarly,
                ResetRefused, queueVars, SerialInv
  <2>5. ~ pushing'.overtaken
    BY <1>2, <2>1, <2>2, <2>3, <2>4 DEF Pusher, SerialInv
  <2> QED
    BY <1>1, <2>5 DEF SerialInv
<1>3. ASSUME NEW w \in Worker, pushing = NoPush, Work(w) PROVE SerialInv'
  <2>1. pushing' = NoPush
    BY <1>3 DEF Work, WaitForTasks, PopTask, CompleteTask, Pop, PopLast,
                PopEarlier, clear_unsafe, queueVars
  <2> QED
    BY <1>1, <1>3, <2>1 DEF SerialInv
<1>4. CASE UNCHANGED vars
  BY <1>1, <1>4 DEF vars, queueVars, SerialInv
<1> QED
  BY <1>2, <1>3, <1>4 DEF SerialNext

\* With one thread pushing and popping, as in Model::compute_next_step, the
\* queue implements a FIFO queue (task_queue.h:9-11).
THEOREM SerialQueueIsFifo == SerialSpec => QueueIsFifo
<1>1. Init => Fifo!Init
  <2> SUFFICES ASSUME Init PROVE Fifo!Init
    OBVIOUS
  <2>1. is_empty /\ pushing.task = NULL
    BY DEF Init, QueueInit, is_empty, NoPush
  <2>2. Window = << >>
    BY <2>1, IInvInit, WindowSeq DEF IInv
  <2> QED
    BY <2>1, <2>2 DEF Fifo!Init, Init
<1>2. SerialInv /\ [SerialNext]_vars => [Fifo!Next]_Fifo!vars
  <2> SUFFICES ASSUME SerialInv, [SerialNext]_vars PROVE [Fifo!Next]_Fifo!vars
    OBVIOUS
  <2> USE DEF SerialInv
  <2>1. CASE Pusher
    BY <2>1, PusherIsFifo
  <2>2. ASSUME NEW w \in Worker, Work(w) PROVE [Fifo!Next]_Fifo!vars
    BY <2>2, WorkIsFifo
  <2>3. CASE UNCHANGED vars
    BY <2>3 DEF vars, queueVars, Window, Fifo!vars
  <2> QED
    BY <2>1, <2>2, <2>3 DEF SerialNext
<1> QED
  BY <1>1, <1>2, SerialInvInit, SerialInvNext, PTL
  DEF SerialSpec, QueueIsFifo, Fifo!Spec

\* In every interleaving, only reset() sets the event of a queue that has
\* nothing to pop (task_queue.cpp:79); no push, pop or clear leaves it set.
THEOREM OnlyResetWakesForNothingCorrect == Spec => OnlyResetWakesForNothing
<1>1. IInv /\ [Next]_vars =>
        [has_tasks_event' /\ is_empty' =>
           ResetQueue \/ (has_tasks_event /\ is_empty)]_vars
  <2> SUFFICES ASSUME IInv, [Next]_vars, has_tasks_event', is_empty',
                      ~ ResetQueue
               PROVE  has_tasks_event /\ is_empty
    OBVIOUS
  <2>1. /\ first \in Int /\ last \in Int /\ first <= last + 1
        /\ is_empty => first = 0 /\ last = -1
    BY DEF IInv, QueueInv, QueueTypeOK, IndicesOK
  <2>2. CASE UNCHANGED <<first, last, has_tasks_event>>
    BY <2>2 DEF is_empty
  <2>3. CASE EndPush
    BY <2>1, <2>3 DEF EndPush, PushPublish, is_empty
  <2>4. CASE ClearQueue
    BY <2>4 DEF ClearQueue, Clear, clear_unsafe
  <2>5. ASSUME NEW w \in Worker, PopTask(w)
        PROVE  has_tasks_event /\ is_empty
    <3>1. \/ UNCHANGED queueVars
          \/ PopLast
          \/ PopEarlier
      BY <2>5 DEF PopTask, Pop
    <3>2. ~ PopLast
      BY DEF PopLast, clear_unsafe
    <3>3. ASSUME PopEarlier PROVE FALSE
      <4>1. first < last /\ first' = first + 1 /\ last' = last
        BY <3>3 DEF PopEarlier
      <4>2. first' > last'
        BY DEF is_empty
      <4> QED
        BY <2>1, <4>1, <4>2
    <3> QED
      BY <2>2, <3>1, <3>2, <3>3 DEF queueVars
  <2>6. CASE BeginPush \/ PushToFull \/ ResetTooEarly
    BY <2>2, <2>6 DEF BeginPush, PushStore, PushToFull, PushRefused,
                      ResetTooEarly, ResetRefused, queueVars
  <2>7. ASSUME NEW w \in Worker, WaitForTasks(w) \/ CompleteTask(w)
        PROVE  has_tasks_event /\ is_empty
    BY <2>2, <2>7 DEF WaitForTasks, CompleteTask, queueVars
  <2>8. CASE UNCHANGED vars
    BY <2>2, <2>8 DEF vars, queueVars
  <2> QED
    BY <2>3, <2>4, <2>5, <2>6, <2>7, <2>8 DEF Next, Pusher, Work
<1> QED
  BY <1>1, IInvInit, IInvNext, PTL DEF Spec, OnlyResetWakesForNothing

==============================================================================
