\* Two models, two workers, no failures, updates on the CPU.
\* The program ends, and its threads with it.
CONSTANTS
  ModelsNum = 2
  ClustersNum = 1
  UpdateTasksNum = 2
  Worker = {w1, w2}
  Inputs = {"show", "pause", "impact", "quit"}
  MessageBoxes = TRUE
  MayFail = FALSE
  UninitializedStopped = {TRUE}
SPECIFICATION FairSpec
INVARIANTS TypeOK DrawnIsCurrent DrawnIsStill
PROPERTIES FramesGoOn QuitEnds
CHECK_DEADLOCK FALSE
