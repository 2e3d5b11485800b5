-------------------------------- MODULE Drawing --------------------------------
(***************************************************************************)
(* The vertex buffers of the demo: who locks which of them when, what is   *)
(* written to them and what is drawn (Renderer/Model.cpp, main.cpp,        *)
(* Application.cpp).  A physical model has a high and a low model; a       *)
(* normals model, which subscribes to the high one, may show its normals.  *)
(*                                                                         *)
(* All of this is done by the main thread; an update that the worker       *)
(* threads compute (ModelUpdate) is there when it is waited for, or fails. *)
(* A shape is the mode and the step that it shows.                         *)
(***************************************************************************)
EXTENDS Buffers, Integers

CONSTANTS
  MaxSteps,   \* bound: how many steps are simulated
  Inputs      \* the messages a user can send

ASSUME DrawingAssumption == MaxSteps \in Nat

VARIABLES
  mpc,        \* where the main thread is
  options,    \* PAINT_MODEL, SHOW_NORMALS, ENABLE_REACTIONS and UPDATE_ON_GPU of main.cpp
  settings,   \* update_vertices_on_gpu and show_mode, as they are now
  flags,      \* emulation_enabled, emultate_one_step and vertices_update_needed
  step,       \* the number of the last step
  vertices,   \* the vertex buffers
  written     \* history: what was last written of the high and of the low vertices

vars == <<mpc, options, settings, flags, step, vertices, written>>

Mode == {"graphical", "current", "equilibrium", "initial"}
Rest == <<"rest", 0>>
Fresh == [shape |-> Rest, color |-> "plain", clusters |-> "none"]

Init ==
  /\ mpc = "add_model"
  /\ options \in [paint : BOOLEAN, normals : BOOLEAN, reactions : BOOLEAN, gpu : BOOLEAN]
  /\ settings = [gpu |-> options.gpu, show_mode |-> "graphical"]
  /\ flags = [emulation_enabled |-> TRUE, emultate_one_step |-> TRUE, vertices_update_needed |-> FALSE]
  /\ step = 0
  /\ vertices = [high |-> NewBuffer(Fresh, TRUE, TRUE), low |-> NewBuffer(Fresh, TRUE, TRUE),
                 normals |-> NewBuffer(Undefined, TRUE, FALSE)]
  /\ written = [high |-> Fresh, low |-> Fresh]

Goes(from, to) == mpc = from /\ mpc' = to

\* A model's vertices are locked, a field of them is written, and they are unlocked.
Rewritten(b, field, value) ==
  Unlocked(Written(Locked(b, "LOCK_READ_WRITE"), field, value))

-----------------------------------------------------------------------------
(* Preparing the demo. *)

\* Application::add_model(): the constructor of the physical model writes the indices of
\* the clusters to both models, which are locked for it.
AddModel ==
  /\ Goes("add_model", "paint")
  /\ vertices' = [m \in DOMAIN vertices |->
       IF m = "normals" THEN vertices[m] ELSE Rewritten(vertices[m], "clusters", "known")]
  /\ written' = [m \in DOMAIN written |-> [written[m] EXCEPT !.clusters = "known"]]
  /\ UNCHANGED <<options, settings, flags, step>>

\* "cluster indices limit exceeded", or any other error, ends the program.
AddModelFails ==
  /\ Goes("add_model", "stopped")
  /\ vertices' = [m \in DOMAIN vertices |->
       IF m = "normals" THEN vertices[m] ELSE Locked(vertices[m], "LOCK_READ_WRITE")]
  /\ UNCHANGED <<options, settings, flags, step, written>>

\* paint_model()
Paint ==
  /\ Goes("paint", "normals")
  /\ IF options.paint
     THEN /\ vertices' = [m \in DOMAIN vertices |->
               IF m = "normals" THEN vertices[m] ELSE Rewritten(vertices[m], "color", "painted")]
          /\ written' = [m \in DOMAIN written |-> [written[m] EXCEPT !.color = "painted"]]
     ELSE UNCHANGED <<vertices, written>>
  /\ UNCHANGED <<options, settings, flags, step>>

\* update_normals() reads the parent's vertices and overwrites its own.
NormalsUpdated ==
  LET high == Locked(vertices.high, "LOCK_READ")
      normals == Locked(vertices.normals, "LOCK_OVERWRITE")
  IN  [vertices EXCEPT
        !.high = Unlocked(high),
        !.normals = Unlocked(Written(normals, "shape", Data(high).shape))]

NormalsLockError ==
  LockError(vertices.high, "LOCK_READ") \/ LockError(vertices.normals, "LOCK_OVERWRITE")

\* The constructor of the normals model.
CreateNormals ==
  /\ Goes("normals", IF options.normals /\ NormalsLockError THEN "error" ELSE "reactions")
  /\ vertices' = IF options.normals THEN NormalsUpdated ELSE vertices
  /\ UNCHANGED <<options, settings, flags, step, written>>

\* The regions of the reactions look for their vertices in the high model.
CreateReactions ==
  /\ Goes("reactions", IF options.reactions /\ LockError(vertices.high, "LOCK_READ")
                       THEN "error" ELSE "messages")
  /\ vertices' = IF options.reactions
                 THEN [vertices EXCEPT !.high = Unlocked(Locked(@, "LOCK_READ"))] ELSE vertices
  /\ UNCHANGED <<options, settings, flags, step, written>>

-----------------------------------------------------------------------------
(* Messages *)

\* They come between frames, and while a reaction shows a message box, as those of the
\* cylinder's demo do.
HandlesMessages == mpc \in {"messages", "react"}

ShowMode(mode) ==
  /\ HandlesMessages /\ "show" \in Inputs /\ mode # settings.show_mode
  /\ settings' = [settings EXCEPT !.show_mode = mode]
  /\ flags' = [flags EXCEPT !.vertices_update_needed = TRUE]
  /\ UNCHANGED <<mpc, options, step, vertices, written>>

\* set_settings() with another mode does not ask for an update.
ApplySettings(mode) ==
  /\ HandlesMessages /\ "apply" \in Inputs
  /\ settings' = [settings EXCEPT !.show_mode = mode]
  /\ UNCHANGED <<mpc, options, flags, step, vertices, written>>

SetDefaults ==
  /\ HandlesMessages /\ "defaults" \in Inputs
  /\ settings' = [gpu |-> TRUE, show_mode |-> "graphical"]
  /\ UNCHANGED <<mpc, options, flags, step, vertices, written>>

TogglePause ==
  /\ HandlesMessages /\ "pause" \in Inputs
  /\ flags' = [flags EXCEPT !.emulation_enabled = ~ @]
  /\ UNCHANGED <<mpc, options, settings, step, vertices, written>>

StepCommand ==
  /\ HandlesMessages /\ "step" \in Inputs
  /\ flags' = [flags EXCEPT !.emulation_enabled = FALSE, !.emultate_one_step = TRUE]
  /\ UNCHANGED <<mpc, options, settings, step, vertices, written>>

-----------------------------------------------------------------------------
(* Frames *)

\* A frame of the simulation.
Simulate ==
  /\ flags.emulation_enabled \/ flags.emultate_one_step
  /\ step < MaxSteps
  /\ Goes("messages", "react")
  /\ step' = step + 1
  /\ UNCHANGED <<options, settings, flags, vertices, written>>

SkipSimulation ==
  /\ ~ flags.emulation_enabled /\ ~ flags.emultate_one_step
  /\ Goes("messages", IF flags.vertices_update_needed THEN "update" ELSE "draw")
  /\ UNCHANGED <<options, settings, flags, step, vertices, written>>

\* react_to_events(): a RepaintReaction whose vertices have moved too far repaints the
\* high model, while the step is being computed.  With the end of simulate(), run()
\* takes a request of a single step as answered.
React ==
  /\ Goes("react", IF options.reactions /\ LockError(vertices.high, "LOCK_READ_WRITE")
                   THEN "error" ELSE "update")
  /\ \/ UNCHANGED <<vertices, written>>
     \/ /\ options.reactions
        /\ vertices' = [vertices EXCEPT !.high = Rewritten(@, "color", "repainted")]
        /\ written' = [written EXCEPT !.high.color = "repainted"]
  /\ flags' = [flags EXCEPT !.emultate_one_step = FALSE, !.vertices_update_needed = TRUE]
  /\ UNCHANGED <<options, settings, step>>

display_model == IF settings.show_mode = "graphical" THEN "high" ELSE "low"
UpdatesBuffer == ~ (settings.gpu /\ settings.show_mode = "graphical")

\* update_vertices(), first loop
StartUpdate ==
  /\ Goes("update", IF UpdatesBuffer /\ LockError(vertices[display_model], "LOCK_READ_WRITE")
                    THEN "error" ELSE "update_wait")
  /\ vertices' = IF UpdatesBuffer
                 THEN [vertices EXCEPT ![display_model] = Locked(@, "LOCK_READ_WRITE")] ELSE vertices
  /\ UNCHANGED <<options, settings, flags, step, written>>

\* Variant that does not unlock the buffer.
FinishUpdateLocked ==
  /\ Goes("update_wait", "notify")
  /\ IF UpdatesBuffer
     THEN /\ vertices' = [vertices EXCEPT ![display_model] =
               Written(@, "shape", <<settings.show_mode, step>>)]
          /\ written' = [written EXCEPT ![display_model].shape = <<settings.show_mode, step>>]
     ELSE UNCHANGED <<vertices, written>>
  /\ UNCHANGED <<options, settings, flags, step>>

\* Second loop: the positions, and for the high model the normals, have been written.
FinishUpdate ==
  /\ Goes("update_wait", "notify")
  /\ IF UpdatesBuffer
     THEN /\ vertices' = [vertices EXCEPT ![display_model] =
               Unlocked(Written(@, "shape", <<settings.show_mode, step>>))]
          /\ written' = [written EXCEPT ![display_model].shape = <<settings.show_mode, step>>]
     ELSE UNCHANGED <<vertices, written>>
  /\ UNCHANGED <<options, settings, flags, step>>

\* A failed update leaves the buffer locked.
FailUpdate ==
  /\ settings.show_mode = "graphical" /\ UpdatesBuffer
  /\ Goes("update_wait", "stopped")
  /\ UNCHANGED <<options, settings, flags, step, vertices, written>>

\* Variant that tells nobody.
NotifyNobody ==
  /\ Goes("notify", "draw")
  /\ flags' = [flags EXCEPT !.vertices_update_needed = FALSE]
  /\ UNCHANGED <<options, settings, step, vertices, written>>

\* Third loop: only the high model has a subscriber.
NotifySubscriber ==
  LET told == options.normals /\ settings.show_mode = "graphical"
  IN  /\ Goes("notify", IF told /\ NormalsLockError THEN "error" ELSE "draw")
      /\ vertices' = IF told THEN NormalsUpdated ELSE vertices
      /\ flags' = [flags EXCEPT !.vertices_update_needed = FALSE]
      /\ UNCHANGED <<options, settings, step, written>>

\* Renderer::render(); while mpc = "draw", it is drawing.
Render ==
  /\ Goes("draw", "messages")
  /\ UNCHANGED <<options, settings, flags, step, vertices, written>>

Next ==
  \/ AddModel \/ AddModelFails \/ Paint \/ CreateNormals \/ CreateReactions
  \/ SetDefaults \/ TogglePause \/ StepCommand
  \/ \E mode \in Mode : ShowMode(mode) \/ ApplySettings(mode)
  \/ Simulate \/ SkipSimulation \/ React \/ StartUpdate \/ FinishUpdate \/ FailUpdate
  \/ NotifySubscriber \/ Render

Spec == Init /\ [][Next]_vars

-----------------------------------------------------------------------------
(* Properties *)

\* What is drawn is what was last written, field by field: neither the colors that a
\* reaction or the painting has left, nor the clusters' indices, nor the positions of the
\* last update are lost by what another one writes (Buffer.h:11-20).
DrawnAsWritten ==
  mpc = "draw" => \A m \in DOMAIN written : vertices[m].buffer = written[m]

\* When the vertices are updated on the CPU, the normals that are shown are those of the
\* surface that is drawn (Application.cpp:678-689).
NormalsMatchSurface ==
  mpc = "draw" /\ options.normals /\ ~ settings.gpu /\ settings.show_mode = "graphical" =>
    vertices.normals.buffer.shape = vertices.high.buffer.shape

\* Everything that is drawn together belongs together: each vertex as it was last written,
\* and the normals that go with it.
PictureIsConsistent == DrawnAsWritten /\ NormalsMatchSurface

\* No lock meets a buffer that is still locked, or one that does not allow it, and none is
\* locked while it is drawn; only an error that ends the program leaves one locked.
LocksAreBalanced ==
  /\ mpc # "error"
  /\ mpc \in {"messages", "draw"} =>
       \A m \in DOMAIN vertices : vertices[m].locked_buffer = "nullptr"

\* The picture shows the last step in the mode that is set.  Only a program that was built
\* to update on the GPU has a shader that deforms, and it must be given undeformed vertices
\* (main.cpp:53-57).
PictureIsCurrent ==
  mpc = "draw" =>
    IF settings.show_mode # "graphical"
    THEN vertices.low.buffer.shape = <<settings.show_mode, step>>
    ELSE vertices.high.buffer.shape = IF options.gpu THEN Rest ELSE <<"graphical", step>>
=============================================================================
