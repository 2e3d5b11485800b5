\* No task fails, and yet a step can wait for a task that was lost.
\* Threads really stop here: a failure ends them, and a lost task blocks them.
CONSTANTS
  ClustersNum = 2
  Task = {0, 1, 2}
  Size = 12
  Garbage = Garbage
  NULL = NULL
  Worker = {w1, w2}
  UpdateOnGpu = FALSE
  MayFail = FALSE
SPECIFICATION FairSpec
PROPERTIES EveryWaitReturns
CHECK_DEADLOCK FALSE
