\* The memory of the threads holds anything before they start.
CONSTANTS
  ModelsNum = 1
  ClustersNum = 1
  UpdateTasksNum = 2
  Worker = {w1, w2}
  Inputs = {}
  MessageBoxes = FALSE
  MayFail = FALSE
  UninitializedStopped = {TRUE, FALSE}
SPECIFICATION Spec
INVARIANTS AllThreadsWork
CHECK_DEADLOCK FALSE
