\* Three parts, two workers, normals generated; four vertices, so that the
\* ranges divide unevenly, or into empty parts.
\* Threads really stop here: a failure ends them, and a lost task blocks them.
CONSTANTS
  UpdateTasksNum = 3
  VerticesNum = 4
  Task = {0, 1, 2, 3, 4, 5, 6}
  Size = 10
  Garbage = Garbage
  NULL = NULL
  Worker = {w1, w2}
  GeneratesNormals = TRUE
  MayFail = TRUE
SPECIFICATION FairSpec
INVARIANTS TypeOK EachVertexOnce BufferLeftAlone NormalsAreOnTheirWay PushNeverRefused
PROPERTIES ImplementsUpdate WaitReturnsUnlessLost
CHECK_DEADLOCK FALSE
