SPECIFICATION Spec
CONSTANTS
  ClustersNum = 3
  UpdateTasksNum = 2
INVARIANTS TrueMeansDone OnlyFailuresBlock
