\* Three clusters, two workers; the main thread waits for the whole step.
\* Threads really stop here: a failure ends them, and a lost task blocks them.
CONSTANTS
  ClustersNum = 3
  Task = {0, 1, 2, 3}
  Size = 13
  Garbage = Garbage
  NULL = NULL
  Worker = {w1, w2}
  UpdateOnGpu = FALSE
  MayFail = TRUE
SPECIFICATION FairSpec
INVARIANTS TypeOK Barrier SuccessIsHonest HandedOutOnce FinalTaskComesLast PushNeverRefused
PROPERTIES ImplementsBarrier WaitReturnsUnlessLost FailureStopsAll
CHECK_DEADLOCK FALSE
