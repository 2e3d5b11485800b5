-------------------------------- MODULE Scene ---------------------------------
(***************************************************************************)
(* A scene of the demo from its meshes to its first steps: the meshes of   *)
(* the high and of the low model are generated, the surface of the high    *)
(* one is built, the constructor of Core::Model distributes the vertices   *)
(* to clusters, and worker threads match the clusters while the vertices   *)
(* that several clusters share collect what each of them contributes.      *)
(*                                                                         *)
(* The protocol of a step is the subject of ModelStep: here its barrier is *)
(* a guard.  The value of a contribution is the cluster and the step it    *)
(* comes from; an equilibrium position, which is a sum of moves, is the    *)
(* number of moves of each cluster that have gone into it.                 *)
(***************************************************************************)
EXTENDS Meshes, Clusters

CONSTANTS
  Scenes,        \* the scenes: shapes of the low and of the high model, the
                 \* clusters by axes, the padding, and how many steps are emulated
  Worker         \* the worker threads

ASSUME ScenesAssumption ==
  \A s \in Scenes :
    /\ s.by_axes \in [Axis -> Nat \ {0}]            \* model.cpp:325 refuses zero
    /\ s.padding \in [num : Int, den : Nat \ {0}] /\ s.steps \in Nat
    /\ \/ s.high \in GeneratedMeshes /\ s.low \in GeneratedMeshes
       \/ IsMeshFile(s.high) /\ s.low \in PointModels

VARIABLES
  phase,         \* what the program is doing
  scene,         \* the scene that was chosen
  high,          \* the mesh of the high model, once it is there
  surface,       \* IndexedSurface::triangles
  physical,      \* of each physical vertex: including_clusters_num, next_addition_index,
                 \* velocity_additions and equilibrium_pos
  graphical,     \* of each graphical vertex: its clusters and their weights
  infos,         \* physical_vertex_infos of each cluster
  step,          \* the number of the step
  unmatched,     \* the cluster tasks in the queue
  task,          \* what each worker does
  averaged       \* history: the additions that each vertex has averaged last

modelVars == <<physical, graphical, infos>>
stepVars == <<step, unmatched, task, averaged>>
vars == <<meshVars, phase, scene, high, surface, modelVars, stepVars>>

grid == Grid(scene.by_axes, scene.padding, ToSet(vertices))
Cluster == 0 .. ClustersNum(scene.by_axes) - 1
Idle == [cluster |-> -1, doing |-> "nothing", at |-> 0, read |-> <<>>, again |-> FALSE]

Init ==
  /\ scene \in Scenes
  /\ phase = "high mesh"
  /\ shape = scene.high /\ loop = FirstTurn(scene.high)
  /\ vertices = <<>> /\ indices = <<>> /\ surface = <<>>
  /\ high = [vertices |-> <<>>, indices |-> <<>>]
  /\ physical = <<>> /\ graphical = <<>>
  /\ infos = [c \in 0 .. ClustersNum(scene.by_axes) - 1 |-> <<>>]
  /\ step = 0 /\ unmatched = <<>> /\ averaged = <<>>
  /\ task = [w \in Worker |-> Idle]

GenerateMesh ==
  /\ phase \in {"high mesh", "low mesh"} /\ Generate
  /\ UNCHANGED <<phase, scene, high, surface, modelVars, stepVars>>

\* The high mesh goes to its buffers, and its indices to the surface; the low one follows.
FinishHighMesh ==
  /\ phase = "high mesh" /\ shape.name # "file" /\ Generated
  /\ phase' = "low mesh"
  /\ high' = [vertices |-> vertices, indices |-> indices]
  /\ surface' = Triangles
  /\ shape' = scene.low /\ loop' = FirstTurn(scene.low)
  /\ vertices' = <<>> /\ indices' = <<>>
  /\ UNCHANGED <<scene, modelVars, stepVars>>

\* The mesh demo: the low model has every some vertices of the file's mesh, which is scaled.
IsUsable(points) ==
  points # <<>> /\ MaxDimension(ToSet(points)) > 0 /\ PointsOf(points, scene.low.by) # <<>>

FinishMeshFile ==
  /\ phase = "high mesh" /\ shape.name = "file" /\ Generated /\ IsUsable(vertices)
  /\ phase' = "low mesh"
  /\ high' = [vertices |-> vertices, indices |-> indices]
  /\ surface' = Triangles
  /\ shape' = scene.low /\ loop' = FirstTurn(scene.low)
  /\ vertices' = PointsOf(vertices, scene.low.by) /\ indices' = <<>>
  /\ UNCHANGED <<scene, modelVars, stepVars>>

\* An index of the file is wrong, the mesh has no dimension, or a buffer would be empty.
RefuseMeshFile ==
  /\ phase = "high mesh" /\ shape.name = "file"
  /\ loop.failed \/ (Generated /\ ~ IsUsable(vertices))
  /\ phase' = "refused"
  /\ UNCHANGED <<meshVars, scene, high, surface, modelVars, stepVars>>

FinishLowMesh ==
  /\ phase = "low mesh" /\ Generated
  /\ phase' = "physical"
  /\ UNCHANGED <<meshVars, scene, high, surface, modelVars, stepVars>>

-----------------------------------------------------------------------------
(* Model::init_clusters()                                                  *)

\* A physical vertex is included in the clusters found for it; each of them gets the
\* next of the vertex's places for velocity additions.
PhysicalVertex(found) ==
  [including |-> Len(found), next |-> Len(found),
   additions |-> [i \in 0 .. CLUSTER_INDICES_NUM - 1 |-> <<>>],
   equilibrium |-> [c \in Cluster |-> 0]]

\* As if get_next_addition_index() did not count.
AdditionIndexStuck(found, c) == 0

AdditionIndex(found, c) == CHOOSE i \in 0 .. Len(found) - 1 : found[i + 1] = c

AddPhysicalVertex ==
  LET v == Len(physical) + 1
      found == find_clusters_for_vertex(grid, vertices[v])
  IN  /\ physical' = Append(physical, PhysicalVertex(found))
      /\ infos' = [c \in Cluster |->
                     IF c \in ToSet(found)
                     THEN Append(infos[c], [vertex |-> v, addition_index |-> AdditionIndex(found, c),
                                            moves |-> 0])
                     ELSE infos[c]]

AssignPhysical ==
  /\ phase = "physical" /\ Len(physical) < Len(vertices)
  /\ AddPhysicalVertex
  /\ UNCHANGED <<meshVars, phase, scene, high, surface, graphical, stepVars>>

FinishPhysical ==
  /\ phase = "physical" /\ Len(physical) = Len(vertices)
  /\ phase' = "graphical"
  /\ UNCHANGED <<meshVars, scene, high, surface, modelVars, stepVars>>

AssignGraphical ==
  /\ phase = "graphical" /\ Len(graphical) < Len(high.vertices)
  /\ LET p == high.vertices[Len(graphical) + 1]
         found == find_clusters_for_vertex(grid, p)
     IN  /\ Len(found) <= CLUSTER_INDICES_NUM
         /\ graphical' = Append(graphical, [clusters |-> found, weights |-> WeightsOf(grid, p)])
  /\ UNCHANGED <<meshVars, phase, scene, high, surface, physical, infos, stepVars>>

\* "cluster indices limit exceeded": the error leaves the constructor, and the program ends.
ExceedLimit ==
  /\ phase = "graphical" /\ Len(graphical) < Len(high.vertices)
  /\ Len(find_clusters_for_vertex(grid, high.vertices[Len(graphical) + 1])) > CLUSTER_INDICES_NUM
  /\ phase' = "refused"
  /\ UNCHANGED <<meshVars, scene, high, surface, modelVars, stepVars>>

\* update_cluster_indices() and init_tasks(): the model is ready.
FinishModel ==
  /\ phase = "graphical" /\ Len(graphical) = Len(high.vertices)
  /\ phase' = "ready"
  /\ UNCHANGED <<meshVars, scene, high, surface, modelVars, stepVars>>

-----------------------------------------------------------------------------
(* Steps: Cluster::match_shape() by the workers, then the integration.     *)

StartStep ==
  /\ phase = "ready" /\ step < scene.steps
  /\ phase' = "step" /\ step' = step + 1
  /\ unmatched' = AllClusters(grid)
  /\ UNCHANGED <<meshVars, scene, high, surface, modelVars, task, averaged>>

Worker_step(w, doing) == phase = "step" /\ task[w].doing = doing

PopCluster(w) ==
  /\ Worker_step(w, "nothing") /\ unmatched # <<>>
  /\ unmatched' = Tail(unmatched)
  /\ task' = [task EXCEPT ![w] =
                IF infos[Head(unmatched)] = <<>> THEN Idle      \* no physical vertices
                ELSE [Idle EXCEPT !.cluster = Head(unmatched), !.doing = "read", !.at = 1]]
  /\ UNCHANGED <<meshVars, phase, scene, high, surface, modelVars, step, averaged>>

info(w) == infos[task[w].cluster][task[w].at]

\* change_equilibrium_pos(): `+=' reads the position of the vertex and writes it back.
ReadEquilibrium(w) ==
  /\ Worker_step(w, "read")
  /\ task' = [task EXCEPT ![w].doing = "write", ![w].read = physical[info(w).vertex].equilibrium]
  /\ UNCHANGED <<meshVars, phase, scene, high, surface, modelVars, step, unmatched, averaged>>

WriteEquilibrium(w) ==
  /\ Worker_step(w, "write")
  /\ LET t == task[w]
         c == t.cluster
     IN  /\ physical' = [physical EXCEPT ![info(w).vertex].equilibrium =
                           [t.read EXCEPT ![c] = t.read[c] + 1]]
         /\ infos' = [infos EXCEPT ![c][t.at].moves = @ + 1]
         /\ task' = [task EXCEPT ![w] =
              IF t.at < Len(infos[c])
              THEN [t EXCEPT !.doing = "read", !.at = t.at + 1, !.read = <<>>]
              ELSE IF t.again THEN Idle
              ELSE [t EXCEPT !.doing = "goals", !.at = 0, !.read = <<>>]]
  /\ UNCHANGED <<meshVars, phase, scene, high, surface, graphical, step, unmatched, averaged>>

\* apply_goal_positions(): an addition for each vertex, at the cluster's own place there.
Additions(c) ==
  [v \in DOMAIN physical |->
     LET mine == {i \in DOMAIN infos[c] : infos[c][i].vertex = v}
     IN  IF mine = {} THEN physical[v]
         ELSE [physical[v] EXCEPT !.additions[infos[c][Min(mine)].addition_index] = <<c, step>>]]

ApplyGoals(w) ==
  /\ Worker_step(w, "goals")
  /\ physical' = Additions(task[w].cluster)
  /\ task' = [task EXCEPT ![w].doing = "plasticity"]
  /\ UNCHANGED <<meshVars, phase, scene, high, surface, graphical, infos, step, unmatched, averaged>>

\* update_plasticity_state(): a deformation that was too large moves the equilibrium again.
UpdatePlasticity(w) ==
  /\ Worker_step(w, "plasticity")
  /\ task' \in {[task EXCEPT ![w] = Idle],
                [task EXCEPT ![w].doing = "read", ![w].at = 1, ![w].again = TRUE]}
  /\ UNCHANGED <<meshVars, phase, scene, high, surface, modelVars, step, unmatched, averaged>>

\* compute_velocity_addition() of each vertex, after all the clusters.
Integrate ==
  /\ phase = "step" /\ unmatched = <<>> /\ \A w \in Worker : task[w] = Idle
  /\ averaged' = [v \in DOMAIN physical |->
                    [i \in 1 .. physical[v].including |-> physical[v].additions[i - 1]]]
  /\ phase' = "ready"
  /\ UNCHANGED <<meshVars, scene, high, surface, modelVars, step, unmatched, task>>

Done ==
  /\ phase = "refused" \/ (phase = "ready" /\ step = scene.steps)
  /\ UNCHANGED vars

Next ==
  \/ GenerateMesh \/ FinishHighMesh \/ FinishMeshFile \/ RefuseMeshFile \/ FinishLowMesh
  \/ AssignPhysical \/ FinishPhysical \/ AssignGraphical \/ ExceedLimit \/ FinishModel
  \/ StartStep \/ Integrate \/ Done
  \/ \E w \in Worker : \/ PopCluster(w) \/ ReadEquilibrium(w) \/ WriteEquilibrium(w)
                       \/ ApplyGoals(w) \/ UpdatePlasticity(w)

Spec == Init /\ [][Next]_vars

-----------------------------------------------------------------------------
(* Properties *)

\* The buffers that the callers allocate by the *_vertices_count and *_indices_count
\* functions are never overrun, are full at the end, and every index names a vertex.
BuffersFit ==
  shape.name \notin {"file", "points"} =>
  /\ Len(vertices) <= VerticesCount(shape) /\ Len(indices) <= IndicesCount(shape)
  /\ Generated => /\ Len(vertices) = VerticesCount(shape)
                  /\ Len(indices) = IndicesCount(shape)
                  /\ \A i \in DOMAIN indices : indices[i] \in 0 .. VerticesCount(shape) - 1

\* A loaded mesh has the position and the normal that each corner of the file names, and
\* no vertex twice: corners share one exactly when they name the same position and have
\* the same normal (ObjMeshLoader.cpp:108, 146).
FaceLines == {l \in DOMAIN shape.commands : shape.commands[l].cmd = "f"}
IndexOfCorner(l, k) ==
  indices[VERTICES_PER_TRIANGLE * Cardinality({e \in FaceLines : e < l}) + k]
Corners == 1 .. VERTICES_PER_TRIANGLE
CornerIsLoaded(l, k) ==
  LET corner == shape.commands[l].corners[k]
      index == IndexOfCorner(l, k) + 1
  IN  /\ vertices[index] = loop.positions[corner[1]]
      /\ corner[3] # Empty => loop.vertex_normals[index] = loop.normals[corner[3]]
NamedVertices ==
  {<<shape.commands[l].corners[k][1], loop.vertex_normals[IndexOfCorner(l, k) + 1]>> :
     l \in FaceLines, k \in Corners}
LoadedAsWritten ==
  shape.name = "file" /\ Generated =>
    /\ Len(indices) = VERTICES_PER_TRIANGLE * Cardinality(FaceLines)
    /\ \A l \in FaceLines, k \in Corners : CornerIsLoaded(l, k)
    /\ Len(vertices) = Cardinality(NamedVertices)

\* Whatever a mesh comes from, it is complete.
MeshIsComplete == BuffersFit /\ LoadedAsWritten

\* How often the triangles of the surface pass from one position to another.
Passes(from, to) ==
  Cardinality({u \in (DOMAIN surface) \X (1 .. VERTICES_PER_TRIANGLE) :
                 /\ high.vertices[surface[u[1]][u[2]] + 1] = from
                 /\ high.vertices[surface[u[1]][(u[2] % VERTICES_PER_TRIANGLE) + 1] + 1] = to})
SurfaceEdges ==
  {<<high.vertices[surface[t][i] + 1], high.vertices[surface[t][(i % VERTICES_PER_TRIANGLE) + 1] + 1]>> :
     t \in DOMAIN surface, i \in 1 .. VERTICES_PER_TRIANGLE}
OpenEdges == {e \in SurfaceEdges : Passes(e[1], e[2]) > Passes(e[2], e[1])}

\* The triangles that IndexedSurface makes of a mesh form an oriented surface without
\* holes: along each edge, as many triangles run one way as the other.  The plane has a
\* rim; the cylinder has one triangle too many, which the jump between its caps adds.
SurfaceHasNoHoles ==
  phase = "low mesh" /\ vertices = <<>> =>
    Cardinality(OpenEdges) = CASE scene.high.name = "cylinder" -> 3
                               [] scene.high.name = "plane" -> 8 * scene.high.half
                               [] OTHER -> 0

\* With a padding of less than half a cluster, every vertex has between one cluster and
\* as many as its arrays hold, and the indices written for the shader name its clusters
\* and, behind them, none, as long as the clusters fit ClusterIndex and the model is not
\* flat along an axis where it is cut.
VerticesHaveClusters ==
  (/\ phase = "ready" /\ 2 * scene.padding.num < scene.padding.den
   /\ ClustersNum(scene.by_axes) < 2^ClusterIndexBits
   /\ \A a \in Axis : scene.by_axes[a] > 1 => grid.dimensions[a] > 0) =>
    /\ \A v \in DOMAIN physical : physical[v].including \in 1 .. CLUSTER_INDICES_NUM
    /\ \A g \in DOMAIN graphical :
         LET written == ClusterIndices(grid, graphical[g].clusters)
         IN  {written[i] : i \in DOMAIN written} \cap Cluster = ToSet(graphical[g].clusters)
             /\ graphical[g].clusters # <<>>

\* Where the model has an extent and the boxes a padding along each axis, the weights of
\* every vertex inside the physical model can be normalized: one of them is positive.
WeightsAreUsable ==
  phase = "ready" /\ (\A a \in Axis : Padding(grid, a) > 0) =>
    \A g \in DOMAIN graphical :
      (\A a \in Axis : high.vertices[g][a] - grid.min_pos[a] \in 0 .. grid.dimensions[a]) =>
        /\ "positive" \in ToSet(graphical[g].weights)
        /\ "undefined" \notin ToSet(graphical[g].weights)

\* The velocity addition of every vertex is the average of exactly one addition of each
\* of its clusters, computed in the same step.
AdditionsAreAveraged ==
  averaged # <<>> /\ phase = "ready" =>
    \A v \in DOMAIN averaged :
      /\ ToSet(averaged[v]) =
           {<<c, step>> : c \in {d \in Cluster : \E i \in DOMAIN infos[d] : infos[d][i].vertex = v}}
      /\ IsInjective(averaged[v])

\* The equilibrium position of a vertex is the average of those that its clusters know.
EquilibriumIsAverage ==
  phase = "ready" =>
    \A c \in Cluster : \A i \in DOMAIN infos[c] :
      physical[infos[c][i].vertex].equilibrium[c] = infos[c][i].moves
=============================================================================
