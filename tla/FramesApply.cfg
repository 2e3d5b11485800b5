\* The mode is changed in the settings window, while paused.
CONSTANTS
  ModelsNum = 1
  ClustersNum = 1
  UpdateTasksNum = 2
  Worker = {w1}
  Inputs = {"apply", "pause"}
  MessageBoxes = FALSE
  MayFail = FALSE
  UninitializedStopped = {TRUE}
SPECIFICATION Spec
INVARIANTS DrawnIsCurrent
CHECK_DEADLOCK FALSE
