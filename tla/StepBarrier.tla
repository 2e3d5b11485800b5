------------------------------ MODULE StepBarrier ------------------------------
(***************************************************************************)
(* What a step of the simulation promises to the thread that asks for it   *)
(* (Core/model.h:271-313): steps do not overlap; within one, every cluster *)
(* is matched, then the particle system is integrated, and only then is    *)
(* the step over.  A failure ends the step early, and once a computation   *)
(* has failed no other step starts.                                        *)
(***************************************************************************)
CONSTANT Cluster

VARIABLES
  running,   \* is a step under way?
  todo,      \* the clusters the step has still to match
  failed     \* has the computation failed?

vars == <<running, todo, failed>>

Init == running = FALSE /\ todo = {} /\ failed = FALSE

Start ==
  /\ ~ running /\ ~ failed
  /\ running' = TRUE
  /\ todo' = Cluster
  /\ UNCHANGED failed

\* A failure does not interrupt the clusters being matched elsewhere.
Match(c) ==
  /\ running \/ failed
  /\ todo' = todo \ {c}
  /\ UNCHANGED <<running, failed>>

Integrate ==
  /\ running /\ todo = {} /\ ~ failed
  /\ running' = FALSE
  /\ UNCHANGED <<todo, failed>>

Fail == failed' = TRUE /\ UNCHANGED <<running, todo>>

Release == failed /\ running' = FALSE /\ UNCHANGED <<todo, failed>>

Next == Start \/ (\E c \in todo : Match(c)) \/ Integrate \/ Fail \/ Release

Spec == Init /\ [][Next]_vars
==============================================================================
