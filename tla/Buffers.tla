-------------------------------- MODULE Buffers --------------------------------
(***************************************************************************)
(* A buffer of Renderer/Buffer.cpp: the Direct3D buffer that is drawn      *)
(* from, its copy in memory (the staging buffer) if it has one, and which  *)
(* of the two is locked.                                                   *)
(***************************************************************************)

\* What a buffer holds that was mapped for discarding, or never written.
Undefined == [shape |-> <<"undefined", 0>>, color |-> "undefined", clusters |-> "undefined"]

\* BufferImpl(): both buffers get the data.
NewBuffer(data, dynamic, staging_backed) ==
  [buffer |-> data, staging_buffer |-> data, dynamic |-> dynamic,
   staging_backed |-> staging_backed, locked_buffer |-> "nullptr", update_after_unlock |-> FALSE]

LockError(b, lock_type) ==
  \/ b.locked_buffer # "nullptr"
  \/ lock_type # "LOCK_READ" /\ ~ b.dynamic
  \/ lock_type # "LOCK_OVERWRITE" /\ ~ b.staging_backed

\* Variant in which unlocking never copies.
LockedForReading(b, lock_type) ==
  IF lock_type = "LOCK_OVERWRITE"
  THEN [b EXCEPT !.locked_buffer = "buffer", !.buffer = Undefined, !.update_after_unlock = FALSE]
  ELSE [b EXCEPT !.locked_buffer = "staging_buffer", !.update_after_unlock = FALSE]

Locked(b, lock_type) ==
  IF lock_type = "LOCK_OVERWRITE"
  THEN [b EXCEPT !.locked_buffer = "buffer", !.buffer = Undefined, !.update_after_unlock = FALSE]
  ELSE [b EXCEPT !.locked_buffer = "staging_buffer",
                 !.update_after_unlock = lock_type = "LOCK_READ_WRITE"]

\* Through the pointer that lock() returns.
Data(b) == b[b.locked_buffer]
Written(b, field, value) == [b EXCEPT ![b.locked_buffer][field] = value]

Unlocked(b) ==
  [b EXCEPT !.buffer = IF b.locked_buffer # "nullptr" /\ b.update_after_unlock THEN Data(b) ELSE @,
            !.locked_buffer = "nullptr"]
=============================================================================
