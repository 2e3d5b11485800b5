SPECIFICATION Spec
CONSTANTS
  Worker = {w1, w2}
  ClusterIndexBits = 4
  Circle <- Polygons
  Scenes <- SteppedScenes
INVARIANT EquilibriumIsAverage
