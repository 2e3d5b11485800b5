\* Two models, one of which fails.
CONSTANTS
  ModelsNum = 2
  ClustersNum = 1
  UpdateTasksNum = 2
  Worker = {w1, w2}
  Inputs = {}
  MessageBoxes = FALSE
  MayFail = TRUE
  UninitializedStopped = {TRUE}
SPECIFICATION FairSpec
PROPERTIES FailureEndsProgram
CHECK_DEADLOCK FALSE
