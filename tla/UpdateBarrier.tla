----------------------------- MODULE UpdateBarrier -----------------------------
(***************************************************************************)
(* What an update of the vertices promises (Core/model.h:337-349): updates *)
(* do not overlap; in one, every part gets its positions and, when asked   *)
(* for, its vectors, these after the normals were generated; the update is *)
(* over when all of it is done.  A failure ends it early (model.h:312),    *)
(* and no other follows.                                                   *)
(***************************************************************************)
CONSTANT Part

VARIABLES
  running,     \* is an update under way?
  normals,     \* are the normals still to be generated?
  vectors,     \* the parts whose vectors are still to be updated
  positions,   \* the parts whose positions are still to be updated
  failed       \* has the computation failed?

vars == <<running, normals, vectors, positions, failed>>

Init ==
  running = FALSE /\ normals = FALSE /\ vectors = {} /\ positions = {} /\ failed = FALSE

Start ==
  /\ ~ running /\ ~ failed
  /\ running' = TRUE
  /\ positions' = Part
  /\ \/ vectors' = {} /\ normals' = FALSE
     \/ vectors' = Part /\ normals' \in BOOLEAN
  /\ UNCHANGED failed

GenerateNormals ==
  normals /\ normals' = FALSE /\ UNCHANGED <<running, vectors, positions, failed>>

UpdateVectors(p) ==
  ~ normals /\ vectors' = vectors \ {p} /\ UNCHANGED <<running, normals, positions, failed>>

UpdatePositions(p) ==
  positions' = positions \ {p} /\ UNCHANGED <<running, normals, vectors, failed>>

Finish ==
  /\ running /\ ~ failed
  /\ ~ normals /\ vectors = {} /\ positions = {}
  /\ running' = FALSE
  /\ UNCHANGED <<normals, vectors, positions, failed>>

Fail == failed' = TRUE /\ UNCHANGED <<running, normals, vectors, positions>>

Release == failed /\ running' = FALSE /\ UNCHANGED <<normals, vectors, positions, failed>>

Next ==
  \/ Start \/ GenerateNormals \/ Finish \/ Fail \/ Release
  \/ \E p \in vectors : UpdateVectors(p)
  \/ \E p \in positions : UpdatePositions(p)

Spec == Init /\ [][Next]_vars
=============================================================================
