\* A mesh file without texture coordinates.
SPECIFICATION Spec
CONSTANTS
  Worker = {w1, w2}
  ClusterIndexBits = 4
  Circle <- Polygons
  Scenes <- NoTextureScenes
SYMMETRY Symmetry
INVARIANTS MeshIsComplete
