------------------------------ MODULE TaskQueue ------------------------------
(***************************************************************************)
(* CrashAndSqueeze::Parallel::TaskQueue (Parallel/task_queue.{h,cpp}): the *)
(* array of task pointers that one thread fills and many threads empty.    *)
(*                                                                         *)
(* This module holds the state of one queue and its operations; the        *)
(* modules that use it (TaskQueueThreads, ModelStep) decide who calls them *)
(* and when.  Everything the code does while it owns pop_lock is one       *)
(* action: the only accesses made without the lock are the pusher's reads  *)
(* of `last' and its store into a slot, and they touch nothing that a      *)
(* locked section reads half-way.  push() itself is therefore two actions, *)
(* the store outside the lock and the increment inside it.                 *)
(***************************************************************************)
EXTENDS Integers, Sequences

CONSTANTS
  Task,      \* the task objects whose pointers are queued
  Size,      \* max_size given to the constructor
  Garbage,   \* what a slot of `new AbstractTask*[size]' holds before a store
  NULL       \* what pop() returns when there is nothing to pop

ASSUME SizeAssumption == Size \in Nat \ {0}
ASSUME PointerAssumption == Garbage \notin Task /\ NULL \notin Task /\ Garbage # NULL

VARIABLES
  tasks,            \* the slots, indexed from 0
  first,            \* index of the next task to pop
  last,             \* index of the last task added
  has_tasks_event,  \* is the notification event set?
  pushing           \* the push() under way, or NoPush

queueVars == <<tasks, first, last, has_tasks_event, pushing>>

Slot == 0 .. Size - 1

(***************************************************************************)
(* A push between its store and its increment.  `overtaken' is a history   *)
(* flag: the indices went back to their initial values in the meantime, so *)
(* the increment will publish slot 0 instead of the slot just stored.      *)
(***************************************************************************)
Push == [task : Task, set_event : BOOLEAN, overtaken : BOOLEAN]
NoPush == [task |-> NULL, set_event |-> FALSE, overtaken |-> FALSE]

QueueTypeOK ==
  /\ tasks \in [Slot -> Task \cup {Garbage}]
  /\ first \in 0 .. Size
  /\ last \in -1 .. Size - 1
  /\ has_tasks_event \in BOOLEAN
  /\ pushing \in Push \cup {NoPush}

QueueInit ==
  /\ tasks = [i \in Slot |-> Garbage]
  /\ first = 0
  /\ last = -1
  /\ has_tasks_event = FALSE
  /\ pushing = NoPush

is_empty == first > last
\* Variant with the boundary off by one.
is_full_late == last = Size

is_full == last = Size - 1

\* What the queue holds, in the order it will be popped.
Window == [i \in 1 .. last - first + 1 |-> tasks[first + i - 1]]

\* The first half of push(): the slot is written without the lock.
PushStore(task, set_event) ==
  /\ pushing = NoPush
  /\ ~ is_full
  /\ tasks' = [tasks EXCEPT ![last + 1] = task]
  /\ pushing' = [task |-> task, set_event |-> set_event, overtaken |-> FALSE]
  /\ UNCHANGED <<first, last, has_tasks_event>>

\* push() on a full queue reports an error and changes nothing.
PushRefused ==
  /\ pushing = NoPush
  /\ is_full
  /\ UNCHANGED queueVars

\* The second half of push(): under the lock, the index moves on.
PushPublish ==
  /\ pushing # NoPush
  /\ last' = last + 1
  /\ has_tasks_event' = (has_tasks_event \/ pushing.set_event)
  /\ pushing' = NoPush
  /\ UNCHANGED <<tasks, first>>

\* Variants of clear_unsafe: `first' left behind, the event left set, and
\* the indices left to grow instead of going back to the start.
clear_keeps_first == first' = first /\ last' = -1 /\ has_tasks_event' = FALSE /\ UNCHANGED pushing
clear_keeps_event == first' = 0 /\ last' = -1 /\ UNCHANGED <<has_tasks_event, pushing>>
clear_keeps_last == first' = last + 1 /\ has_tasks_event' = FALSE /\ UNCHANGED <<last, pushing>>

clear_unsafe ==
  /\ first' = 0
  /\ last' = -1
  /\ has_tasks_event' = FALSE
  /\ pushing' = IF pushing # NoPush /\ last # -1
                THEN [pushing EXCEPT !.overtaken = TRUE]
                ELSE pushing

\* Variant that takes the last task but one for the last.
PopLastEarly == first >= last - 1 /\ clear_unsafe /\ UNCHANGED tasks

PopLast ==
  /\ first = last
  /\ clear_unsafe
  /\ UNCHANGED tasks

\* Variants of PopEarlier: each pop consumes the event, and `first' stays.
PopEarlierUnsets ==
  first < last /\ first' = first + 1 /\ has_tasks_event' = FALSE /\ UNCHANGED <<tasks, last, pushing>>
PopEarlierStays == first < last /\ UNCHANGED queueVars

PopEarlier ==
  /\ first < last
  /\ first' = first + 1
  /\ UNCHANGED <<tasks, last, has_tasks_event, pushing>>

\* pop(): `task' is the value it returns.
Pop(task) ==
  \/ is_empty /\ task = NULL /\ UNCHANGED queueVars
  \/ ~ is_empty /\ task = tasks[first] /\ (PopLast \/ PopEarlier)

Clear == clear_unsafe /\ UNCHANGED tasks

\* reset() on an empty queue; the tasks it hands back are those left in
\* Window' (reset() calls AbstractTask::reset on each of them).
Reset ==
  /\ pushing = NoPush
  /\ is_empty
  /\ first' = 0
  /\ has_tasks_event' = TRUE
  /\ UNCHANGED <<tasks, last, pushing>>

\* reset() on a queue that still has tasks reports an error.
ResetRefused ==
  /\ pushing = NoPush
  /\ ~ is_empty
  /\ UNCHANGED queueVars

(***************************************************************************)
(* No slot that a pop can reach, now or after any clear, is uninitialised. *)
(* The slots up to `last', and the one a push has just stored, have been   *)
(* written; an overtaken push leaves slot 0 to be published, which was     *)
(* written when `last' moved past -1.                                      *)
(***************************************************************************)
ReachableSlotsWritten ==
  \A i \in Slot :
    i <= last \/ (pushing # NoPush /\ i = last + 1) => tasks[i] # Garbage

(***************************************************************************)
(* A push that nothing overtook will publish the task it was given.        *)
(***************************************************************************)
StoredTaskWillBePublished ==
  pushing # NoPush /\ ~ pushing.overtaken => tasks[last + 1] = pushing.task

\* The indices stay in step with each other and inside the array.
IndicesOK ==
  /\ first <= last + 1
  /\ is_empty => first = 0 /\ last = -1
  /\ pushing # NoPush => last + 1 < Size
==============================================================================
