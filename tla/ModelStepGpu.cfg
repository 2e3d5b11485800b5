\* Two clusters, three workers; the integration overlaps with rendering.
\* Threads really stop here: a failure ends them, and a lost task blocks them.
CONSTANTS
  ClustersNum = 2
  Task = {0, 1, 2}
  Size = 12
  Garbage = Garbage
  NULL = NULL
  Worker = {w1, w2, w3}
  UpdateOnGpu = TRUE
  MayFail = TRUE
SPECIFICATION Spec
INVARIANTS ResultsStable StartsFromIntegrated
CHECK_DEADLOCK FALSE
