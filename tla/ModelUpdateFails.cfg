\* A task that fails leaves the main thread waiting.
\* Threads really stop here: a failure ends them, and a lost task blocks them.
CONSTANTS
  UpdateTasksNum = 2
  VerticesNum = 2
  Task = {0, 1, 2, 3, 4}
  Size = 8
  Garbage = Garbage
  NULL = NULL
  Worker = {w1, w2}
  GeneratesNormals = TRUE
  MayFail = TRUE
SPECIFICATION FairSpec
PROPERTIES FailureReleasesWaiters
CHECK_DEADLOCK FALSE
