SPECIFICATION Spec
CONSTANTS
  Worker = {w1, w2}
  ClusterIndexBits = 4
  Circle <- Polygons
  Scenes <- MCScenes
SYMMETRY Symmetry
INVARIANTS MeshIsComplete SurfaceHasNoHoles VerticesHaveClusters WeightsAreUsable AdditionsAreAveraged
