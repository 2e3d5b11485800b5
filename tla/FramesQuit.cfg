\* The user quits while a step is computed behind the rendering.
CONSTANTS
  ModelsNum = 1
  ClustersNum = 1
  UpdateTasksNum = 2
  Worker = {w1, w2}
  Inputs = {"defaults", "quit"}
  MessageBoxes = FALSE
  MayFail = FALSE
  UninitializedStopped = {TRUE}
SPECIFICATION FairSpec
PROPERTIES QuitEnds
CHECK_DEADLOCK FALSE
