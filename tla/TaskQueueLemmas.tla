--------------------------- MODULE TaskQueueLemmas ---------------------------
(***************************************************************************)
(* What each operation of the queue preserves and does to the queue's      *)
(* contents, for every size and every set of tasks.  The proofs about the  *)
(* systems that use the queue cite these lemmas, one per operation.        *)
(***************************************************************************)
EXTENDS TaskQueue, SequenceTheorems, TLAPS

\* The inductive invariant of the queue.
QueueInv ==
  /\ QueueTypeOK
  /\ IndicesOK
  /\ ReachableSlotsWritten
  /\ StoredTaskWillBePublished

\* A new queue satisfies the invariant (task_queue.cpp:10-16).
LEMMA QueueInitInv == QueueInit => QueueInv
<1> SUFFICES ASSUME QueueInit PROVE QueueInv
  OBVIOUS
<1> USE SizeAssumption DEF QueueInit
<1>1. tasks \in [Slot -> Task \cup {Garbage}]
  OBVIOUS
<1>2. first \in 0 .. Size /\ last \in -1 .. Size - 1
  OBVIOUS
<1>3. QueueTypeOK
  BY <1>1, <1>2 DEF QueueTypeOK
<1>4. IndicesOK /\ ReachableSlotsWritten /\ StoredTaskWillBePublished
  BY DEF IndicesOK, ReachableSlotsWritten, StoredTaskWillBePublished, is_empty, Slot
<1> QED
  BY <1>3, <1>4 DEF QueueInv

\* A step that leaves the queue alone preserves the invariant.
LEMMA UnchangedInv == QueueInv /\ UNCHANGED queueVars => QueueInv'
  BY DEF queueVars, QueueInv, QueueTypeOK, IndicesOK, ReachableSlotsWritten,
         StoredTaskWillBePublished, is_empty

\* The store of a push preserves the invariant (task_queue.cpp:20-27).
LEMMA PushStoreInv ==
  ASSUME QueueInv, NEW task \in Task, NEW set_event \in BOOLEAN,
         PushStore(task, set_event)
  PROVE  QueueInv'
<1> USE SizeAssumption, PointerAssumption DEF PushStore, is_full, is_empty, Slot
<1> last + 1 \in Slot
  BY DEF QueueInv, QueueTypeOK
<1>1. QueueTypeOK'
  BY DEF QueueInv, QueueTypeOK, Push
<1>2. IndicesOK'
  BY DEF QueueInv, QueueTypeOK, IndicesOK
<1>3. pushing' # NoPush
  BY DEF NoPush
<1>4. ReachableSlotsWritten'
  BY <1>3 DEF QueueInv, QueueTypeOK, ReachableSlotsWritten
<1>5. StoredTaskWillBePublished'
  BY DEF QueueInv, QueueTypeOK, StoredTaskWillBePublished
<1> QED
  BY <1>1, <1>2, <1>4, <1>5 DEF QueueInv

\* The increment that ends a push preserves the invariant
\* (task_queue.cpp:28-35), overtaken or not.
LEMMA PushPublishInv == QueueInv /\ PushPublish => QueueInv'
<1> SUFFICES ASSUME QueueInv, PushPublish PROVE QueueInv'
  OBVIOUS
<1> USE SizeAssumption, PointerAssumption DEF PushPublish, is_empty, Slot
<1> pushing \in Push
  BY DEF QueueInv, QueueTypeOK
<1>1. QueueTypeOK'
  BY DEF QueueInv, QueueTypeOK, IndicesOK, Push
<1>2. IndicesOK'
  BY DEF QueueInv, QueueTypeOK, IndicesOK
<1>3. ReachableSlotsWritten'
  BY DEF QueueInv, QueueTypeOK, ReachableSlotsWritten
<1>4. StoredTaskWillBePublished'
  BY DEF StoredTaskWillBePublished
<1> QED
  BY <1>1, <1>2, <1>3, <1>4 DEF QueueInv

\* Emptying the queue preserves the invariant, even during a push
\* (task_queue.cpp:92-100).
LEMMA ClearInv == QueueInv /\ Clear => QueueInv'
<1> SUFFICES ASSUME QueueInv, Clear PROVE QueueInv'
  OBVIOUS
<1> USE SizeAssumption, PointerAssumption DEF Clear, clear_unsafe, is_empty, Slot
<1>1. \/ pushing = NoPush /\ pushing' = NoPush
      \/ pushing # NoPush /\ pushing' # NoPush /\ pushing' \in Push
         /\ (last # -1 => pushing'.overtaken) /\ (last = -1 => pushing' = pushing)
  BY DEF QueueInv, QueueTypeOK, Push, NoPush
<1>2. QueueTypeOK'
  <2>1. pushing' \in Push \cup {NoPush}
    BY <1>1
  <2>2. first' \in 0 .. Size /\ last' \in -1 .. Size - 1
    OBVIOUS
  <2> QED
    BY <2>1, <2>2 DEF QueueInv, QueueTypeOK
<1>3. IndicesOK'
  BY <1>1 DEF QueueInv, QueueTypeOK, IndicesOK
<1>4. ReachableSlotsWritten'
  BY <1>1 DEF QueueInv, QueueTypeOK, ReachableSlotsWritten
<1>5. StoredTaskWillBePublished'
  BY <1>1 DEF QueueInv, QueueTypeOK, StoredTaskWillBePublished
<1> QED
  BY <1>2, <1>3, <1>4, <1>5 DEF QueueInv

\* A pop preserves the invariant, and returns a task or NULL
\* (task_queue.cpp:38-56).
LEMMA PopInv ==
  ASSUME QueueInv, NEW task, Pop(task)
  PROVE  QueueInv' /\ task \in Task \cup {NULL} /\ (task = NULL <=> is_empty)
<1> USE SizeAssumption, PointerAssumption DEF is_empty, Slot
<1>1. CASE is_empty /\ task = NULL /\ UNCHANGED queueVars
  BY <1>1, UnchangedInv
<1>2. CASE ~ is_empty /\ task = tasks[first] /\ (PopLast \/ PopEarlier)
  <2>1. task \in Task
    BY <1>2 DEF QueueInv, QueueTypeOK, ReachableSlotsWritten
  <2>2. CASE PopLast
    <3>1. Clear
      BY <2>2 DEF PopLast, Clear
    <3> QED
      BY <1>2, <2>1, <3>1, ClearInv
  <2>3. CASE PopEarlier
    <3>1. QueueTypeOK' /\ IndicesOK'
      BY <2>3 DEF PopEarlier, QueueInv, QueueTypeOK, IndicesOK
    <3>2. ReachableSlotsWritten' /\ StoredTaskWillBePublished'
      BY <2>3 DEF PopEarlier, QueueInv, ReachableSlotsWritten,
                  StoredTaskWillBePublished
    <3> QED
      BY <1>2, <2>1, <3>1, <3>2 DEF QueueInv
  <2> QED
    BY <1>2, <2>2, <2>3
<1> QED
  BY <1>1, <1>2 DEF Pop

\* A reset preserves the invariant (task_queue.cpp:58-82).
LEMMA ResetInv == QueueInv /\ Reset => QueueInv'
  BY SizeAssumption
  DEF Reset, QueueInv, QueueTypeOK, IndicesOK, ReachableSlotsWritten,
      StoredTaskWillBePublished, is_empty

-----------------------------------------------------------------------------
(* What the operations do to the contents of the queue. *)

\* The contents are a sequence, empty exactly when is_empty() says so.
LEMMA WindowSeq ==
  ASSUME QueueInv
  PROVE  /\ Window \in Seq(Task)
         /\ Len(Window) = last - first + 1
         /\ Window = << >> <=> is_empty
<1>1. last - first + 1 \in Nat
  BY DEF QueueInv, QueueTypeOK, IndicesOK
<1>2. \A i \in 1 .. last - first + 1 : tasks[first + i - 1] \in Task
  BY SizeAssumption DEF QueueInv, QueueTypeOK, ReachableSlotsWritten, Slot
<1>3. Window \in Seq(Task) /\ Len(Window) = last - first + 1
  BY <1>1, <1>2 DEF Window
<1>4. is_empty <=> last - first + 1 = 0
  BY <1>1 DEF is_empty, QueueInv, QueueTypeOK
<1> QED
  BY <1>3, <1>4

\* The store of a push is out of the poppers' sight.
LEMMA PushStoreWindow ==
  ASSUME QueueInv, NEW task \in Task, NEW set_event \in BOOLEAN,
         PushStore(task, set_event)
  PROVE  Window' = Window
<1>1. \A i \in 1 .. last - first + 1 : tasks'[first + i - 1] = tasks[first + i - 1]
  BY SizeAssumption DEF PushStore, is_full, QueueInv, QueueTypeOK, IndicesOK, Slot
<1> QED
  BY <1>1 DEF Window, PushStore

\* A push that nothing overtook appends its task.
LEMMA PushPublishWindow ==
  ASSUME QueueInv, PushPublish, ~ pushing.overtaken
  PROVE  Window' = Append(Window, pushing.task)
<1>1. pushing \in Push /\ tasks[last + 1] = pushing.task
  BY DEF PushPublish, QueueInv, QueueTypeOK, StoredTaskWillBePublished
<1>2. /\ Window \in Seq(Task)
      /\ Len(Window) = last - first + 1
  BY WindowSeq
<1>3. first \in Int /\ last \in Int /\ first <= last + 1
  BY DEF QueueInv, QueueTypeOK, IndicesOK
<1>4. Window' = [i \in 1 .. last - first + 2 |-> tasks[first + i - 1]]
  BY <1>3 DEF Window, PushPublish
<1>5. pushing.task \in Task
  BY <1>1 DEF Push
<1>6. /\ Append(Window, pushing.task) \in Seq(Task)
      /\ Len(Append(Window, pushing.task)) = last - first + 2
      /\ \A i \in 1 .. last - first + 2 :
           Append(Window, pushing.task)[i] = tasks[first + i - 1]
  BY <1>1, <1>2, <1>3, <1>5 DEF Window
<1>7. DOMAIN Append(Window, pushing.task) = 1 .. last - first + 2
  BY <1>6
<1> QED
  BY <1>4, <1>6, <1>7

\* The tail of a sequence, as the function it is.
LEMMA TailAsFunction ==
  ASSUME NEW S, NEW s \in Seq(S), s # << >>
  PROVE  Tail(s) = [i \in 1 .. Len(s) - 1 |-> s[i + 1]]
<1>1. /\ Tail(s) \in Seq(S)
      /\ Len(Tail(s)) = Len(s) - 1
      /\ \A i \in 1 .. Len(Tail(s)) : Tail(s)[i] = s[i + 1]
  BY HeadTailProperties
<1>2. Tail(s) \in [1 .. Len(Tail(s)) -> S] /\ Len(s) \in Nat
  BY <1>1, LenProperties
<1>3. \A i \in 1 .. Len(s) - 1 : Tail(s)[i] = s[i + 1]
  BY <1>1
<1> QED
  BY <1>1, <1>2, <1>3

\* A pop that finds a task removes the oldest one; one that finds none
\* removes nothing.
LEMMA PopWindow ==
  ASSUME QueueInv, NEW task, Pop(task)
  PROVE  \/ task = NULL /\ Window = << >> /\ UNCHANGED queueVars
         \/ Window # << >> /\ task = Head(Window) /\ Window' = Tail(Window)
<1>1. /\ Window \in Seq(Task)
      /\ Len(Window) = last - first + 1
      /\ Window = << >> <=> is_empty
  BY WindowSeq
<1>2. first \in Int /\ last \in Int /\ first <= last + 1
  BY DEF QueueInv, QueueTypeOK, IndicesOK
<1>3. CASE is_empty
  BY <1>1, <1>3 DEF Pop
<1>4. CASE ~ is_empty
  <2>1. task = tasks[first] /\ (PopLast \/ PopEarlier)
    BY <1>4 DEF Pop
  <2>2. Len(Window) > 0 /\ Head(Window) = tasks[first]
    BY <1>1, <1>2, <1>4 DEF Window, is_empty
  <2>3. last - first \in Nat /\ Len(Window) = (last - first) + 1
    BY <1>1, <1>2, <1>4 DEF is_empty
  <2>4. Tail(Window) = [i \in 1 .. last - first |-> tasks[first + i]]
    <3>1. Tail(Window) = [i \in 1 .. Len(Window) - 1 |-> Window[i + 1]]
      BY <1>1, <1>4, TailAsFunction
    <3>2. \A i \in 1 .. last - first : Window[i + 1] = tasks[first + i]
      BY <1>2, <2>3 DEF Window
    <3>3. 1 .. Len(Window) - 1 = 1 .. last - first
      BY <2>3
    <3> QED
      BY <3>1, <3>2, <3>3
  <2>5. CASE PopLast
    <3>1. Window' = [i \in 1 .. 0 |-> tasks[i - 1]]
      BY <2>5 DEF PopLast, clear_unsafe, Window
    <3>2. Tail(Window) = [i \in 1 .. 0 |-> tasks[first + i]]
      BY <1>2, <2>4, <2>5 DEF PopLast
    <3> QED
      BY <2>1, <2>2, <3>1, <3>2
  <2>6. CASE PopEarlier
    <3>1. Window' = [i \in 1 .. last - (first + 1) + 1 |-> tasks[first + 1 + i - 1]]
      BY <2>6 DEF PopEarlier, Window
    <3>2. last - (first + 1) + 1 = last - first
      BY <1>2
    <3>3. \A i \in 1 .. last - first : first + 1 + i - 1 = first + i
      BY <1>2
    <3> QED
      BY <2>1, <2>2, <2>4, <3>1, <3>2, <3>3
  <2> QED
    BY <2>1, <2>5, <2>6
<1> QED
  BY <1>3, <1>4

\* A clear leaves nothing to pop.
LEMMA ClearWindow == Clear => Window' = << >>
  BY DEF Clear, clear_unsafe, Window

==============================================================================
