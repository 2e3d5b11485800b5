------------------------------- MODULE Clusters -------------------------------
(***************************************************************************)
(* How a model is cut into clusters: the grid of padded boxes around its   *)
(* physical vertices (Model::create_auto_cluster_regions), the clusters    *)
(* that include a vertex (find_clusters_for_vertex) and the weights and    *)
(* indices a graphical vertex keeps of them.                               *)
(*                                                                         *)
(* A coordinate of a box is a rational number: along an axis, everything   *)
(* is multiplied by Scale(grid, axis), which makes it an integer.  Of a    *)
(* weight only its sign is kept, and whether it is a number at all.        *)
(***************************************************************************)
EXTENDS Integers, FiniteSets, SequencesExt

CONSTANT ClusterIndexBits     \* the width of ClusterIndex, 8 in core.h

ASSUME BitsAssumption == ClusterIndexBits \in Nat \ {0} /\ 2^ClusterIndexBits \in Nat \ {0}

CLUSTER_INDICES_NUM == 8      \* vertex_info.h; MAX_CLUSTERS_NUM of physical_vertex.h
Axis == 1 .. 3

\* What init_physical_vertices() and the arguments of the constructor leave behind:
\* clusters_by_axes, the padding as a fraction, min_pos and the dimensions.
Grid(by_axes, padding, positions) ==
  LET low(a) == Min({p[a] : p \in positions})
  IN  [by_axes |-> by_axes, padding |-> padding,
       min_pos |-> [a \in Axis |-> low(a)],
       dimensions |-> [a \in Axis |-> Max({p[a] : p \in positions}) - low(a)]]

ClustersNum(by_axes) == by_axes[1] * by_axes[2] * by_axes[3]
Scale(grid, a) == grid.by_axes[a] * grid.padding.den

\* cluster_regions: the boxes in the order of the three loops.
Box(grid, c) ==
  <<c \div (grid.by_axes[2] * grid.by_axes[3]),
    (c \div grid.by_axes[3]) % grid.by_axes[2],
    c % grid.by_axes[3]>>

Padding(grid, a) == grid.padding.num * grid.dimensions[a]
MinCorner(grid, c, a) ==
  grid.min_pos[a] * Scale(grid, a)
  + Box(grid, c)[a] * grid.dimensions[a] * grid.padding.den - Padding(grid, a)
\* BoxRegion::set_box corrects a box that a negative padding has turned inside out.
MaxCorner(grid, c, a) ==
  MinCorner(grid, c, a)
  + Max({0, grid.dimensions[a] * grid.padding.den + 2 * Padding(grid, a)})

Coordinate(grid, p, a) == p[a] * Scale(grid, a)

contains(grid, c, p) ==
  \A a \in Axis : /\ MinCorner(grid, c, a) <= Coordinate(grid, p, a)
                  /\ Coordinate(grid, p, a) <= MaxCorner(grid, c, a)

\* The square of the distance to the center of a box, in a scale common to all axes.
DistanceSquare(grid, c, p) ==
  LET offset(a) == (2 * Coordinate(grid, p, a) - MinCorner(grid, c, a) - MaxCorner(grid, c, a))
                   * (ClustersNum(grid.by_axes) \div grid.by_axes[a])
  IN  offset(1) * offset(1) + offset(2) * offset(2) + offset(3) * offset(3)

\* A box without its padding, as a wrong copy of the corner would have it.
WeightInsideCell(grid, c, p) ==
  LET cell == [grid EXCEPT !.padding.num = 0]
  IN  IF \E a \in Axis : Coordinate(cell, p, a) \in {MinCorner(cell, c, a), MaxCorner(cell, c, a)}
      THEN "zero" ELSE "positive"

\* BoxRegionWeightFunc of a vertex inside the box: the distance to the nearest side,
\* divided by the padding there if it is smaller.
Weight(grid, c, p) ==
  LET border == {a \in Axis : Coordinate(grid, p, a) \in {MinCorner(grid, c, a), MaxCorner(grid, c, a)}}
  IN  IF border = {} \/ Padding(grid, Min(border)) < 0 THEN "positive"
      ELSE IF Padding(grid, Min(border)) = 0 THEN "undefined"    \* 0/0
      ELSE "zero"

AllClusters(grid) == [i \in 1 .. ClustersNum(grid.by_axes) |-> i - 1]

\* The numbers of a set in the order in which a loop meets them.
InOrder(S) ==
  [i \in 1 .. Cardinality(S) |-> CHOOSE c \in S : Cardinality({d \in S : d < c}) = i - 1]

Containing(grid, p) == {c \in ToSet(AllClusters(grid)) : contains(grid, c, p)}

\* The search without its second half.
find_containing_only(grid, p) == InOrder(Containing(grid, p))

\* The clusters that include a vertex, in their order: those whose boxes contain it,
\* or the first of those with the nearest center.
find_clusters_for_vertex(grid, p) ==
  LET clusters == ToSet(AllClusters(grid))
      nearest == {c \in clusters :
                    \A d \in clusters : DistanceSquare(grid, c, p) <= DistanceSquare(grid, d, p)}
  IN  IF Containing(grid, p) # {} THEN InOrder(Containing(grid, p)) ELSE <<Min(nearest)>>

\* The weights that go with them.
WeightsOf(grid, p) ==
  LET found == find_clusters_for_vertex(grid, p)
  IN  [i \in DOMAIN found |->
         IF contains(grid, found[i], p) THEN Weight(grid, found[i], p) ELSE "positive"]

ClusterIndex(i) == i % 2^ClusterIndexBits
null_cluster_index(grid) == ClusterIndex(ClustersNum(grid.by_axes))

\* update_cluster_indices: what the vertex buffer holds for the shader.
ClusterIndices(grid, found) ==
  [i \in 1 .. CLUSTER_INDICES_NUM |->
     IF i <= Len(found) THEN ClusterIndex(found[i]) ELSE null_cluster_index(grid)]
=============================================================================
