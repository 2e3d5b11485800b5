\* The models are deleted when the user quits.
CONSTANTS
  ModelsNum = 1
  ClustersNum = 1
  UpdateTasksNum = 2
  Worker = {w1}
  Inputs = {"quit"}
  MessageBoxes = FALSE
  MayFail = FALSE
  UninitializedStopped = {TRUE}
SPECIFICATION Spec
INVARIANTS NoUseAfterDelete
CHECK_DEADLOCK FALSE
