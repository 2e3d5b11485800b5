----------------------------- MODULE Drawing_proofs -----------------------------
(***************************************************************************)
(* Proofs about the vertex buffers of the demo, for any number of steps    *)
(* and any messages.                                                       *)
(***************************************************************************)
EXTENDS Drawing, TLAPS

Field == {"shape", "color", "clusters"}
Contents ==
  [shape : (Mode \cup {"rest", "undefined"}) \X Nat,
   color : {"plain", "painted", "repainted", "undefined"},
   clusters : {"none", "known", "undefined"}]
VertexBuffer ==
  [buffer : Contents, staging_buffer : Contents, dynamic : BOOLEAN, staging_backed : BOOLEAN,
   locked_buffer : {"nullptr", "buffer", "staging_buffer"}, update_after_unlock : BOOLEAN]

TypeOK ==
  /\ options \in [paint : BOOLEAN, normals : BOOLEAN, reactions : BOOLEAN, gpu : BOOLEAN]
  /\ settings \in [gpu : BOOLEAN, show_mode : Mode]
  /\ step \in Nat
  /\ vertices \in [{"high", "low", "normals"} -> VertexBuffer]
  /\ written \in [{"high", "low"} -> Contents]

\* A buffer with a copy in memory: both hold the same, locked or not.
Synced(b, d) ==
  b.dynamic /\ b.staging_backed /\ b.buffer = d /\ b.staging_buffer = d

\* A model is locked while it is updated, and when an error has ended the program.
LocksOK ==
  /\ mpc # "error"
  /\ mpc # "stopped" =>
       \A m \in {"high", "low"} :
         IF mpc = "update_wait" /\ UpdatesBuffer /\ display_model = m
         THEN vertices[m].locked_buffer = "staging_buffer" /\ vertices[m].update_after_unlock
         ELSE vertices[m].locked_buffer = "nullptr"

\* The buffer of the normals has no copy, and is locked only while it is written.
NormalsOK ==
  /\ vertices.normals.dynamic
  /\ vertices.normals.locked_buffer = "nullptr"

\* The normals follow the surface; they are behind it until they are told.
NormalsFollow ==
  options.normals /\ mpc \notin {"add_model", "paint", "normals", "stopped"}
    /\ ~ (mpc = "notify" /\ settings.show_mode = "graphical") =>
    vertices.normals.buffer.shape = vertices.high.buffer.shape

\* The inductive invariant.
DInv ==
  /\ TypeOK
  /\ \A m \in {"high", "low"} : Synced(vertices[m], written[m])
  /\ LocksOK /\ NormalsOK /\ NormalsFollow

-----------------------------------------------------------------------------
(* What the operations on a buffer do. *)

\* A lock that nothing forbids changes nothing but the lock, unless it is to overwrite.
LEMMA LockedSynced ==
  ASSUME NEW b \in VertexBuffer, NEW d \in Contents, Synced(b, d), b.locked_buffer = "nullptr"
  PROVE  /\ ~ LockError(b, "LOCK_READ") /\ ~ LockError(b, "LOCK_READ_WRITE")
         /\ LET l == Locked(b, "LOCK_READ_WRITE")
            IN  /\ l \in VertexBuffer /\ Synced(l, d)
                /\ l.locked_buffer = "staging_buffer" /\ l.update_after_unlock
         /\ LET l == Locked(b, "LOCK_READ")
            IN  /\ Data(l) = d
                /\ Unlocked(l) \in VertexBuffer /\ Synced(Unlocked(l), d)
                /\ Unlocked(l).locked_buffer = "nullptr"
<1> USE DEF VertexBuffer
<1>1. ~ LockError(b, "LOCK_READ") /\ ~ LockError(b, "LOCK_READ_WRITE")
  BY DEF LockError, Synced
<1>2. LET l == Locked(b, "LOCK_READ_WRITE")
      IN  /\ l \in VertexBuffer /\ Synced(l, d)
          /\ l.locked_buffer = "staging_buffer" /\ l.update_after_unlock
  BY DEF Locked, Synced
<1> DEFINE l == Locked(b, "LOCK_READ")
<1>3. /\ l \in VertexBuffer /\ Synced(l, d)
      /\ l.locked_buffer = "staging_buffer" /\ ~ l.update_after_unlock
  BY DEF Locked, Synced
<1> HIDE DEF l
<1>4. Data(l) = d
  BY <1>3 DEF Data, Synced
<1>5. Unlocked(l) \in VertexBuffer /\ Synced(Unlocked(l), d) /\ Unlocked(l).locked_buffer = "nullptr"
  BY <1>3 DEF Unlocked, Synced
<1> QED
  BY <1>1, <1>2, <1>4, <1>5 DEF l

\* What is written under a lock is there when it is released, in both copies.
LEMMA UnlockedSynced ==
  ASSUME NEW b \in VertexBuffer, NEW d \in Contents, Synced(b, d),
         b.locked_buffer = "staging_buffer", b.update_after_unlock,
         NEW field \in Field, NEW value, [d EXCEPT ![field] = value] \in Contents
  PROVE  LET u == Unlocked(Written(b, field, value))
         IN  /\ u \in VertexBuffer /\ Synced(u, [d EXCEPT ![field] = value])
             /\ u.locked_buffer = "nullptr"
<1> DEFINE e == [d EXCEPT ![field] = value]
           v == [b EXCEPT !.staging_buffer = e]
<1>1. Written(b, field, value) = v
  <2>1. b.staging_buffer = d
    BY DEF Synced
  <2>2. Written(b, field, value) = [b EXCEPT !["staging_buffer"][field] = value]
    BY DEF Written
  <2> QED
    BY <2>1, <2>2
<1>2. e \in Contents
  OBVIOUS
<1> HIDE DEF e
<1>3. /\ v \in VertexBuffer /\ v.staging_buffer = e /\ v.dynamic /\ v.staging_backed
      /\ v.locked_buffer = "staging_buffer" /\ v.update_after_unlock
  BY <1>2 DEF VertexBuffer, Synced
<1> HIDE DEF v
<1>4. Data(v) = e
  BY <1>3 DEF Data, VertexBuffer
<1>5. /\ Unlocked(v) \in VertexBuffer /\ Synced(Unlocked(v), e)
      /\ Unlocked(v).locked_buffer = "nullptr"
  BY <1>2, <1>3, <1>4 DEF Unlocked, VertexBuffer, Synced
<1> QED
  BY <1>1, <1>5 DEF e

\* A model that is locked, written and unlocked holds what was written, twice.
LEMMA RewrittenSynced ==
  ASSUME NEW b \in VertexBuffer, NEW d \in Contents, Synced(b, d), b.locked_buffer = "nullptr",
         NEW field \in Field, NEW value, [d EXCEPT ![field] = value] \in Contents
  PROVE  LET r == Rewritten(b, field, value)
         IN  /\ r \in VertexBuffer /\ Synced(r, [d EXCEPT ![field] = value])
             /\ r.locked_buffer = "nullptr"
<1> DEFINE l == Locked(b, "LOCK_READ_WRITE")
<1>1. l \in VertexBuffer /\ Synced(l, d) /\ l.locked_buffer = "staging_buffer" /\ l.update_after_unlock
  BY LockedSynced
<1>2. Rewritten(b, field, value) = Unlocked(Written(l, field, value))
  BY DEF Rewritten
<1> HIDE DEF l
<1> QED
  BY <1>1, <1>2, UnlockedSynced

\* The normals are overwritten, with the shape of the surface.
LEMMA NormalsRewritten ==
  ASSUME NEW b \in VertexBuffer, b.dynamic, b.locked_buffer = "nullptr", NEW d \in Contents
  PROVE  LET r == Unlocked(Written(Locked(b, "LOCK_OVERWRITE"), "shape", d.shape))
         IN  /\ ~ LockError(b, "LOCK_OVERWRITE")
             /\ r \in VertexBuffer /\ r.dynamic /\ r.locked_buffer = "nullptr"
             /\ r.buffer.shape = d.shape
<1> DEFINE l == [b EXCEPT !.locked_buffer = "buffer", !.buffer = Undefined,
                          !.update_after_unlock = FALSE]
           e == [Undefined EXCEPT !.shape = d.shape]
           v == [l EXCEPT !.buffer = e]
<1>1. ~ LockError(b, "LOCK_OVERWRITE") /\ Locked(b, "LOCK_OVERWRITE") = l
  BY DEF LockError, Locked
<1>2. Undefined \in Contents /\ d.shape \in (Mode \cup {"rest", "undefined"}) \X Nat
  BY DEF Undefined, Contents
<1>3. e \in Contents /\ e.shape = d.shape
  BY <1>2 DEF Contents
<1>4. l \in VertexBuffer /\ l.buffer = Undefined /\ l.locked_buffer = "buffer" /\ l.dynamic
      /\ ~ l.update_after_unlock
  BY <1>2 DEF VertexBuffer
<1> HIDE DEF l, e
<1>5. Written(l, "shape", d.shape) = v
  <2>1. Written(l, "shape", d.shape) = [l EXCEPT !["buffer"]["shape"] = d.shape]
    BY <1>4 DEF Written
  <2> QED
    BY <1>4, <2>1 DEF e
<1>6. /\ v \in VertexBuffer /\ v.buffer = e /\ v.locked_buffer = "buffer" /\ v.dynamic
      /\ ~ v.update_after_unlock
  BY <1>3, <1>4 DEF VertexBuffer
<1> HIDE DEF v
<1>7. /\ Unlocked(v) \in VertexBuffer /\ Unlocked(v).dynamic /\ Unlocked(v).buffer = e
      /\ Unlocked(v).locked_buffer = "nullptr"
  BY <1>6 DEF Unlocked, VertexBuffer
<1> QED
  BY <1>1, <1>3, <1>5, <1>7

\* Init establishes the invariant.
LEMMA DInvInit == Init => DInv
<1> SUFFICES ASSUME Init PROVE DInv
  OBVIOUS
<1>1. Fresh \in Contents /\ Undefined \in Contents
  BY DEF Fresh, Rest, Undefined, Contents
<1> DEFINE f == NewBuffer(Fresh, TRUE, TRUE)
           n == NewBuffer(Undefined, TRUE, FALSE)
<1>2. /\ f \in VertexBuffer /\ Synced(f, Fresh) /\ f.locked_buffer = "nullptr"
      /\ n \in VertexBuffer /\ n.dynamic /\ n.locked_buffer = "nullptr"
  BY <1>1 DEF NewBuffer, VertexBuffer, Synced
<1>3. vertices = [high |-> f, low |-> f, normals |-> n]
  BY DEF Init
<1> HIDE DEF f, n
<1>4. /\ vertices \in [{"high", "low", "normals"} -> VertexBuffer]
      /\ vertices["high"] = f /\ vertices["low"] = f /\ vertices["normals"] = n
  BY <1>2, <1>3
<1>5. /\ written \in [{"high", "low"} -> Contents]
      /\ written["high"] = Fresh /\ written["low"] = Fresh
  BY <1>1 DEF Init
<1>6. TypeOK
  BY <1>4, <1>5 DEF Init, TypeOK, Mode
<1>7. /\ \A m \in {"high", "low"} : Synced(vertices[m], written[m])
      /\ \A m \in {"high", "low"} : vertices[m].locked_buffer = "nullptr"
  BY <1>2, <1>4, <1>5
<1>8. NormalsOK
  BY <1>2, <1>4 DEF NormalsOK
<1> QED
  BY <1>6, <1>7, <1>8 DEF Init, DInv, LocksOK, NormalsFollow

-----------------------------------------------------------------------------
(* What the actions do. *)

\* The facts on types that the steps below use.
LEMMA DTypes ==
  ASSUME DInv
  PROVE  /\ \A m \in {"high", "low"} :
              /\ vertices[m] \in VertexBuffer /\ written[m] \in Contents
              /\ Synced(vertices[m], written[m])
         /\ vertices.normals \in VertexBuffer
         /\ DOMAIN vertices = {"high", "low", "normals"} /\ DOMAIN written = {"high", "low"}
         /\ display_model \in {"high", "low"}
  BY DEF DInv, TypeOK, display_model

\* While no model is updated, none is locked.
LEMMA Unlocking ==
  ASSUME DInv, mpc \notin {"stopped", "update_wait"}
  PROVE  \A m \in {"high", "low"} : vertices[m].locked_buffer = "nullptr"
  BY DEF DInv, LocksOK

\* What leaves the vertices alone, and is not the end of an update.
LEMMA NoBuffers ==
  ASSUME DInv, UNCHANGED <<options, vertices, written>>,
         mpc \notin {"notify", "update_wait", "stopped", "add_model", "paint", "normals"},
         mpc' \notin {"error", "update_wait"},
         settings' \in [gpu : BOOLEAN, show_mode : Mode], step' \in Nat
  PROVE  DInv'
<1>1. TypeOK' /\ NormalsOK'
  BY DEF DInv, TypeOK, NormalsOK
<1>2. \A m \in {"high", "low"} : Synced(vertices[m], written[m])'
  BY DEF DInv
<1>3. LocksOK'
  BY Unlocking DEF LocksOK
<1>4. NormalsFollow'
  BY DEF DInv, NormalsFollow
<1> QED
  BY <1>1, <1>2, <1>3, <1>4 DEF DInv

\* Messages, the step itself and the drawing touch no buffer.
LEMMA MessagesSafe ==
  ASSUME DInv,
         \/ \E mode \in Mode : ShowMode(mode) \/ ApplySettings(mode)
         \/ SetDefaults \/ TogglePause \/ StepCommand \/ Simulate \/ SkipSimulation \/ Render
  PROVE  DInv'
<1> USE DEF Goes, HandlesMessages
<1>1. UNCHANGED <<options, vertices, written>> /\ mpc \in {"messages", "react", "draw"}
      /\ mpc' \in {"messages", "react", "update", "draw"}
  BY DEF ShowMode, ApplySettings, SetDefaults, TogglePause, StepCommand, Simulate,
         SkipSimulation, Render
<1>2. settings \in [gpu : BOOLEAN, show_mode : Mode] /\ step \in Nat
  BY DEF DInv, TypeOK
<1>3. step' \in Nat
  BY <1>2 DEF ShowMode, ApplySettings, SetDefaults, TogglePause, StepCommand, Simulate,
              SkipSimulation, Render
<1>4. settings' \in [gpu : BOOLEAN, show_mode : Mode]
  <2>1. CASE \E mode \in Mode : settings' = [settings EXCEPT !.show_mode = mode]
    BY <1>2, <2>1
  <2>2. CASE SetDefaults
    BY <2>2 DEF SetDefaults, Mode
  <2>3. CASE UNCHANGED settings
    BY <1>2, <2>3
  <2> QED
    BY <2>1, <2>2, <2>3
    DEF ShowMode, ApplySettings, TogglePause, StepCommand, Simulate, SkipSimulation, Render
<1> QED
  BY <1>1, <1>3, <1>4, NoBuffers

\* A field of both models is written, as painting and adding a model do.
LEMMA BothRewritten ==
  ASSUME DInv, mpc \notin {"stopped", "update_wait"}, mpc' \in {"paint", "normals"},
         NEW field \in Field, NEW value, \A d \in Contents : [d EXCEPT ![field] = value] \in Contents,
         vertices' = [m \in DOMAIN vertices |->
           IF m = "normals" THEN vertices[m] ELSE Rewritten(vertices[m], field, value)],
         written' = [m \in DOMAIN written |-> [written[m] EXCEPT ![field] = value]],
         UNCHANGED <<options, settings, step>>
  PROVE  DInv'
<1>1. \A m \in {"high", "low"} :
        /\ vertices'[m] = Rewritten(vertices[m], field, value)
        /\ written'[m] = [written[m] EXCEPT ![field] = value]
  BY DTypes
<1>2. vertices'["normals"] = vertices["normals"]
  BY DTypes
<1>3. \A m \in {"high", "low"} :
        /\ vertices'[m] \in VertexBuffer /\ written'[m] \in Contents
        /\ Synced(vertices'[m], written'[m])
        /\ vertices'[m].locked_buffer = "nullptr"
  BY <1>1, DTypes, Unlocking, RewrittenSynced
<1>4. /\ vertices' \in [{"high", "low", "normals"} -> VertexBuffer]
      /\ written' \in [{"high", "low"} -> Contents]
  BY <1>2, <1>3, DTypes
<1>5. TypeOK'
  BY <1>4 DEF DInv, TypeOK
<1>6. LocksOK' /\ NormalsOK' /\ NormalsFollow'
  BY <1>2, <1>3 DEF DInv, LocksOK, NormalsOK, NormalsFollow
<1> QED
  BY <1>3, <1>5, <1>6 DEF DInv

LEMMA AddModelSafe == ASSUME DInv, AddModel PROVE DInv'
<1>1. \A d \in Contents : [d EXCEPT !["clusters"] = "known"] \in Contents
  BY DEF Contents
<1> QED
  BY <1>1, BothRewritten DEF AddModel, Goes, Field

LEMMA PaintSafe == ASSUME DInv, Paint PROVE DInv'
<1>1. mpc = "paint" /\ mpc' = "normals" /\ UNCHANGED <<options, settings, step>>
  BY DEF Paint, Goes
<1>2. CASE options.paint
  <2>1. \A d \in Contents : [d EXCEPT !["color"] = "painted"] \in Contents
    BY DEF Contents
  <2> QED
    BY <1>1, <1>2, <2>1, BothRewritten DEF Paint, Field
<1>3. CASE ~ options.paint
  <2>1. UNCHANGED <<vertices, written>>
    BY <1>3 DEF Paint
  <2> QED
    BY <1>1, <2>1 DEF DInv, TypeOK, LocksOK, NormalsOK, NormalsFollow
<1> QED
  BY <1>2, <1>3

\* An error while a model is added leaves locks that nobody meets.
LEMMA AddModelFailsSafe == ASSUME DInv, AddModelFails PROVE DInv'
<1>1. /\ mpc = "add_model" /\ mpc' = "stopped"
      /\ \A m \in {"high", "low"} : vertices'[m] = Locked(vertices[m], "LOCK_READ_WRITE")
      /\ vertices'["normals"] = vertices["normals"]
      /\ DOMAIN vertices' = {"high", "low", "normals"}
      /\ vertices' = [m \in DOMAIN vertices |-> vertices'[m]]
      /\ UNCHANGED <<options, settings, step, written>>
  BY DTypes DEF AddModelFails, Goes
<1>2. \A m \in {"high", "low"} : vertices'[m] \in VertexBuffer /\ Synced(vertices'[m], written[m])
  BY <1>1, DTypes, Unlocking, LockedSynced
<1>3. TypeOK'
  BY <1>1, <1>2, DTypes DEF DInv, TypeOK
<1> QED
  BY <1>1, <1>2, <1>3 DEF DInv, LocksOK, NormalsOK, NormalsFollow

\* The normals are updated from the surface, which is locked meanwhile.
LEMMA NormalsUpdatedOK ==
  ASSUME DInv, mpc \notin {"stopped", "update_wait"}
  PROVE  /\ ~ NormalsLockError
         /\ NormalsUpdated \in [{"high", "low", "normals"} -> VertexBuffer]
         /\ \A m \in {"high", "low"} :
              Synced(NormalsUpdated[m], written[m]) /\ NormalsUpdated[m].locked_buffer = "nullptr"
         /\ LET n == NormalsUpdated.normals
            IN  n.dynamic /\ n.locked_buffer = "nullptr"
                /\ n.buffer.shape = NormalsUpdated.high.buffer.shape
<1> DEFINE h == Unlocked(Locked(vertices.high, "LOCK_READ"))
           n == Unlocked(Written(Locked(vertices.normals, "LOCK_OVERWRITE"), "shape",
                                 written.high.shape))
<1>1. /\ vertices["high"] \in VertexBuffer /\ written["high"] \in Contents
      /\ Synced(vertices["high"], written["high"]) /\ vertices["high"].locked_buffer = "nullptr"
      /\ vertices["normals"] \in VertexBuffer
      /\ vertices["normals"].dynamic /\ vertices["normals"].locked_buffer = "nullptr"
      /\ vertices \in [{"high", "low", "normals"} -> VertexBuffer]
  BY DTypes, Unlocking DEF DInv, NormalsOK, TypeOK
<1>2. /\ ~ LockError(vertices.high, "LOCK_READ")
      /\ Data(Locked(vertices.high, "LOCK_READ")) = written.high
      /\ h \in VertexBuffer /\ Synced(h, written.high) /\ h.locked_buffer = "nullptr"
  BY <1>1, LockedSynced
<1>3. /\ ~ LockError(vertices.normals, "LOCK_OVERWRITE")
      /\ n \in VertexBuffer /\ n.dynamic /\ n.locked_buffer = "nullptr"
      /\ n.buffer.shape = written.high.shape
  BY <1>1, NormalsRewritten
<1>4. NormalsUpdated = [vertices EXCEPT !.high = h, !.normals = n]
  BY <1>2 DEF NormalsUpdated
<1> HIDE DEF h, n
<1>5. /\ NormalsUpdated \in [{"high", "low", "normals"} -> VertexBuffer]
      /\ NormalsUpdated["high"] = h /\ NormalsUpdated["normals"] = n
      /\ NormalsUpdated["low"] = vertices["low"]
  BY <1>1, <1>2, <1>3, <1>4
<1>6. Synced(vertices["low"], written["low"]) /\ vertices["low"].locked_buffer = "nullptr"
  BY DTypes, Unlocking
<1>7. h.buffer = written.high
  BY <1>2 DEF Synced
<1> QED
  BY <1>2, <1>3, <1>5, <1>6, <1>7 DEF NormalsLockError

\* The normals are created, and notified, when the surface is not locked.
LEMMA NormalsSafe == ASSUME DInv, CreateNormals \/ NotifySubscriber PROVE DInv'
<1>1. /\ mpc \in {"normals", "notify"} /\ ~ NormalsLockError
      /\ UNCHANGED <<options, settings, step, written>>
  BY NormalsUpdatedOK DEF CreateNormals, NotifySubscriber, Goes
<1>2. mpc' \in {"reactions", "draw"}
  BY <1>1 DEF CreateNormals, NotifySubscriber, Goes
<1>3. CASE vertices' = NormalsUpdated
  BY <1>1, <1>2, <1>3, NormalsUpdatedOK DEF DInv, TypeOK, LocksOK, NormalsOK, NormalsFollow
<1>4. CASE vertices' = vertices /\ ~ (options.normals /\ (mpc = "normals" \/ settings.show_mode = "graphical"))
  <2>1. LocksOK'
    BY <1>1, <1>2, <1>4, Unlocking DEF LocksOK
  <2>2. NormalsFollow'
    BY <1>1, <1>2, <1>4 DEF DInv, NormalsFollow
  <2>3. TypeOK' /\ NormalsOK' /\ \A m \in {"high", "low"} : Synced(vertices[m], written[m])'
    BY <1>1, <1>4 DEF DInv, TypeOK, NormalsOK
  <2> QED
    BY <2>1, <2>2, <2>3 DEF DInv
<1> QED
  BY <1>3, <1>4 DEF CreateNormals, NotifySubscriber, Goes

\* One model is locked, perhaps written, and unlocked: the surface, for the reactions.
LEMMA SurfaceVisited ==
  ASSUME DInv, mpc \in {"reactions", "react"}, mpc' \in {"messages", "update"},
         UNCHANGED <<options, settings, step>>,
         NEW b, vertices' = [vertices EXCEPT !.high = b],
         NEW d \in Contents, written' = [written EXCEPT !.high = d],
         b \in VertexBuffer, Synced(b, d), b.locked_buffer = "nullptr",
         d.shape = written.high.shape
  PROVE  DInv'
<1>1. /\ vertices' \in [{"high", "low", "normals"} -> VertexBuffer]
      /\ vertices'["high"] = b /\ vertices'["low"] = vertices["low"]
      /\ vertices'["normals"] = vertices["normals"]
      /\ written' \in [{"high", "low"} -> Contents]
      /\ written'["high"] = d /\ written'["low"] = written["low"]
  BY DEF DInv, TypeOK
<1>2. TypeOK'
  BY <1>1 DEF DInv, TypeOK
<1>3. \A m \in {"high", "low"} : Synced(vertices'[m], written'[m])
                                 /\ vertices'[m].locked_buffer = "nullptr"
  BY <1>1, DTypes, Unlocking
<1>4. vertices'.high.buffer.shape = vertices.high.buffer.shape
  BY <1>1, DTypes DEF Synced
<1> QED
  BY <1>1, <1>2, <1>3, <1>4 DEF DInv, LocksOK, NormalsOK, NormalsFollow

LEMMA ReactionsSafe == ASSUME DInv, CreateReactions \/ React PROVE DInv'
<1>1. /\ mpc \in {"reactions", "react"} /\ UNCHANGED <<options, settings, step>>
  BY DEF CreateReactions, React, Goes
<1>2. /\ vertices["high"] \in VertexBuffer /\ written["high"] \in Contents
      /\ Synced(vertices["high"], written["high"]) /\ vertices["high"].locked_buffer = "nullptr"
      /\ vertices \in [{"high", "low", "normals"} -> VertexBuffer]
      /\ written \in [{"high", "low"} -> Contents]
  BY <1>1, DTypes, Unlocking DEF DInv, TypeOK
<1>3. ~ LockError(vertices.high, "LOCK_READ") /\ ~ LockError(vertices.high, "LOCK_READ_WRITE")
  BY <1>2, LockedSynced
<1>4. mpc' \in {"messages", "update"}
  BY <1>3 DEF CreateReactions, React, Goes
<1>5. CASE UNCHANGED <<vertices, written>>
  <2>1. mpc' \notin {"error", "update_wait"} /\ mpc \notin {"notify", "update_wait", "stopped", "add_model", "paint", "normals"}
    BY <1>1, <1>4
  <2>2. settings \in [gpu : BOOLEAN, show_mode : Mode] /\ step \in Nat
    BY DEF DInv, TypeOK
  <2> QED
    BY <1>1, <1>5, <2>1, <2>2, NoBuffers
<1>6. CASE vertices' = [vertices EXCEPT !.high = Unlocked(Locked(@, "LOCK_READ"))]
           /\ UNCHANGED written
  <2> DEFINE b == Unlocked(Locked(vertices.high, "LOCK_READ"))
  <2>1. b \in VertexBuffer /\ Synced(b, written.high) /\ b.locked_buffer = "nullptr"
    BY <1>2, LockedSynced
  <2>2. vertices' = [vertices EXCEPT !.high = b]
    BY <1>6
  <2>3. written' = [written EXCEPT !.high = written.high]
    BY <1>2, <1>6
  <2> HIDE DEF b
  <2> QED
    BY <1>1, <1>2, <1>4, <2>1, <2>2, <2>3, SurfaceVisited
<1>7. CASE vertices' = [vertices EXCEPT !.high = Rewritten(@, "color", "repainted")]
           /\ written' = [written EXCEPT !.high.color = "repainted"]
  <2> DEFINE b == Rewritten(vertices.high, "color", "repainted")
             d == [written.high EXCEPT !["color"] = "repainted"]
  <2>1. d \in Contents /\ d.shape = written.high.shape
    BY <1>2 DEF Contents
  <2>2. b \in VertexBuffer /\ Synced(b, d) /\ b.locked_buffer = "nullptr"
    BY <1>2, <2>1, RewrittenSynced DEF Field
  <2>3. vertices' = [vertices EXCEPT !.high = b]
    BY <1>7
  <2>4. written' = [written EXCEPT !.high = d]
    BY <1>7
  <2> HIDE DEF b, d
  <2> QED
    BY <1>1, <1>4, <2>1, <2>2, <2>3, <2>4, SurfaceVisited
<1> QED
  BY <1>5, <1>6, <1>7 DEF CreateReactions, React

\* The model that is displayed is locked for the workers ...
LEMMA StartUpdateSafe == ASSUME DInv, StartUpdate PROVE DInv'
<1>1. mpc = "update" /\ UNCHANGED <<options, settings, step, written>>
      /\ UpdatesBuffer' = UpdatesBuffer /\ display_model' = display_model
  BY DEF StartUpdate, Goes, UpdatesBuffer, display_model
<1> DEFINE m == display_model
           b == Locked(vertices[m], "LOCK_READ_WRITE")
<1>2. /\ m \in {"high", "low"} /\ ~ LockError(vertices[m], "LOCK_READ_WRITE")
      /\ b \in VertexBuffer /\ Synced(b, written[m])
      /\ b.locked_buffer = "staging_buffer" /\ b.update_after_unlock
  BY <1>1, DTypes, Unlocking, LockedSynced
<1>3. mpc' = "update_wait"
  BY <1>2 DEF StartUpdate, Goes
<1>4. CASE UpdatesBuffer
  <2>1. vertices' = [vertices EXCEPT ![m] = b]
    BY <1>4 DEF StartUpdate
  <2> HIDE DEF m, b
  <2>2. /\ vertices' \in [{"high", "low", "normals"} -> VertexBuffer]
        /\ vertices'[m] = b /\ \A n \in {"high", "low", "normals"} : n # m => vertices'[n] = vertices[n]
    BY <1>2, <2>1 DEF DInv, TypeOK
  <2>3. \A n \in {"high", "low"} : Synced(vertices'[n], written[n])
    BY <1>2, <2>2, DTypes
  <2>4. LocksOK'
    BY <1>1, <1>2, <1>3, <2>2, Unlocking DEF LocksOK, m
  <2>5. vertices'["high"].buffer = vertices["high"].buffer /\ vertices'["normals"] = vertices["normals"]
    BY <1>2, <2>2, <2>3, DTypes DEF Synced
  <2> QED
    BY <1>1, <1>3, <2>2, <2>3, <2>4, <2>5 DEF DInv, TypeOK, NormalsOK, NormalsFollow
<1>5. CASE ~ UpdatesBuffer
  <2>1. UNCHANGED vertices
    BY <1>5 DEF StartUpdate
  <2>2. LocksOK'
    BY <1>1, <1>3, <1>5, <2>1, Unlocking DEF LocksOK
  <2> QED
    BY <1>1, <1>3, <2>1, <2>2 DEF DInv, TypeOK, NormalsOK, NormalsFollow
<1> QED
  BY <1>4, <1>5

\* ... and unlocked when they have written it, which puts the normals behind; a failure
\* leaves it locked, and ends the program.
LEMMA FinishUpdateSafe == ASSUME DInv, FinishUpdate PROVE DInv'
<1>1. mpc = "update_wait" /\ mpc' = "notify" /\ UNCHANGED <<options, settings, step>>
      /\ UpdatesBuffer' = UpdatesBuffer /\ display_model' = display_model
  BY DEF FinishUpdate, Goes, UpdatesBuffer, display_model
<1>2. CASE UpdatesBuffer
  <2> DEFINE m == display_model
             s == <<settings.show_mode, step>>
             b == Unlocked(Written(vertices[m], "shape", s))
             d == [written[m] EXCEPT !["shape"] = s]
  <2>1. m \in {"high", "low"} /\ written[m] \in Contents /\ vertices[m] \in VertexBuffer
        /\ Synced(vertices[m], written[m])
        /\ vertices[m].locked_buffer = "staging_buffer" /\ vertices[m].update_after_unlock
    BY <1>1, <1>2, DTypes DEF DInv, LocksOK
  <2>2. s \in (Mode \cup {"rest", "undefined"}) \X Nat
    BY DEF DInv, TypeOK
  <2>3. d \in Contents
    BY <2>1, <2>2 DEF Contents
  <2>4. b \in VertexBuffer /\ Synced(b, d) /\ b.locked_buffer = "nullptr"
    BY <2>1, <2>3, UnlockedSynced DEF Field
  <2>5. vertices' = [vertices EXCEPT ![m] = b] /\ written' = [written EXCEPT ![m] = d]
    BY <1>2 DEF FinishUpdate
  <2>6. m = "high" <=> settings.show_mode = "graphical"
    BY DEF display_model
  <2> HIDE DEF m, s, b, d
  <2>7. /\ vertices' \in [{"high", "low", "normals"} -> VertexBuffer]
        /\ vertices'[m] = b /\ \A n \in {"high", "low", "normals"} : n # m => vertices'[n] = vertices[n]
        /\ written' \in [{"high", "low"} -> Contents]
        /\ written'[m] = d /\ \A n \in {"high", "low"} : n # m => written'[n] = written[n]
    BY <2>1, <2>3, <2>4, <2>5 DEF DInv, TypeOK
  <2>8. \A n \in {"high", "low"} : Synced(vertices'[n], written'[n])
    BY <2>1, <2>4, <2>7, DTypes
  <2>9. \A n \in {"high", "low"} : vertices'[n].locked_buffer = "nullptr"
    BY <1>1, <2>1, <2>4, <2>7 DEF DInv, LocksOK, m
  <2>10. settings.show_mode # "graphical" => vertices'["high"] = vertices["high"]
    BY <2>6, <2>7
  <2>11. vertices'["normals"] = vertices["normals"]
    BY <2>1, <2>7
  <2> QED
    BY <1>1, <2>7, <2>8, <2>9, <2>10, <2>11
    DEF DInv, TypeOK, LocksOK, NormalsOK, NormalsFollow
<1>3. CASE ~ UpdatesBuffer
  <2>1. UNCHANGED <<vertices, written>>
    BY <1>3 DEF FinishUpdate
  <2> QED
    BY <1>1, <1>3, <2>1 DEF DInv, TypeOK, LocksOK, NormalsOK, NormalsFollow
<1> QED
  BY <1>2, <1>3

LEMMA FailUpdateSafe == ASSUME DInv, FailUpdate PROVE DInv'
  BY DEF FailUpdate, Goes, DInv, TypeOK, LocksOK, NormalsOK, NormalsFollow

-----------------------------------------------------------------------------
\* Every step preserves the invariant.
LEMMA DInvNext == DInv /\ [Next]_vars => DInv'
<1> SUFFICES ASSUME DInv, [Next]_vars PROVE DInv'
  OBVIOUS
<1>1. CASE Next
  BY <1>1, AddModelSafe, AddModelFailsSafe, PaintSafe, NormalsSafe, ReactionsSafe, MessagesSafe,
     StartUpdateSafe, FinishUpdateSafe, FailUpdateSafe
  DEF Next
<1>2. CASE UNCHANGED vars
  BY <1>2
  DEF vars, DInv, TypeOK, LocksOK, NormalsOK, NormalsFollow, UpdatesBuffer, display_model
<1> QED
  BY <1>1, <1>2

\* The invariant holds in every reachable state.
LEMMA DInvCorrect == Spec => []DInv
  BY DInvInit, DInvNext, PTL DEF Spec

\* No lock is refused, and none is left behind but by an error that ends the program
\* (Buffer.cpp:46-97, Application.cpp:629-689).
THEOREM LocksAreBalancedCorrect == Spec => []LocksAreBalanced
<1>1. DInv => LocksAreBalanced
  <2> SUFFICES ASSUME DInv PROVE LocksAreBalanced
    OBVIOUS
  <2>1. DOMAIN vertices = {"high", "low", "normals"}
    BY DTypes
  <2> QED
    BY <2>1, Unlocking DEF DInv, LocksOK, NormalsOK, LocksAreBalanced
<1> QED
  BY <1>1, DInvCorrect, PTL

\* What is drawn is what was written last, with the normals that belong to it
\* (Buffer.h:11-20, Application.cpp:678-689).
THEOREM PictureIsConsistentCorrect == Spec => []PictureIsConsistent
<1>1. DInv => PictureIsConsistent
  <2> SUFFICES ASSUME DInv PROVE DrawnAsWritten /\ NormalsMatchSurface
    BY DEF PictureIsConsistent
  <2>1. DrawnAsWritten
    BY DTypes DEF DrawnAsWritten, Synced
  <2>2. NormalsMatchSurface
    BY DEF DInv, NormalsFollow, NormalsMatchSurface
  <2> QED
    BY <2>1, <2>2
<1> QED
  BY <1>1, DInvCorrect, PTL
=============================================================================
