\* Two models, two workers, failures; the user may switch to the GPU.
\* The program ends, and its threads with it.
CONSTANTS
  ModelsNum = 2
  ClustersNum = 2
  UpdateTasksNum = 2
  Worker = {w1, w2}
  Inputs = {"defaults", "apply", "pause", "impact", "quit"}
  MessageBoxes = TRUE
  MayFail = TRUE
  UninitializedStopped = {TRUE}
SPECIFICATION Spec
INVARIANTS HitsQuietModel
PROPERTIES FailureIsNotMasked ImplementsBarriers
CHECK_DEADLOCK FALSE
