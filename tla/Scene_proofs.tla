------------------------------ MODULE Scene_proofs ------------------------------
(***************************************************************************)
(* Scene for every scene: the grid and the clusters of a vertex, the       *)
(* counts of the generators, the loader's cache, the assignment of the     *)
(* vertices and the additions of the steps.                                *)
(***************************************************************************)
EXTENDS Scene, FiniteSetTheorems, TLAPS

-----------------------------------------------------------------------------
(* Clusters: numbers and sets, the grid, the boxes that contain a vertex,  *)
(* the weights and the indices.                                            *)

\* The least element of a set of natural numbers.
LEMMA Least ==
  ASSUME NEW S, S \subseteq Nat, S # {}
  PROVE  \E x \in S : \A y \in S : x <= y
<1> DEFINE R == OpToRel(<, Nat)
<1>1. IsWellFoundedOn(R, Nat)
  BY NatLessThanWellFounded
<1>2. \A x, y \in Nat : x < y => <<x, y>> \in R
  BY DEF OpToRel
<1> HIDE DEF R
<1>3. PICK x \in S : \A y \in S : ~ (<<y, x>> \in R)
  BY <1>1, WFMin
<1>4. \A y \in S : ~ (y < x)
  BY <1>2, <1>3
<1> QED BY <1>3, <1>4

\* A set of numbers that has 0 and every successor has all of them.
LEMMA Everyone ==
  ASSUME NEW S, 0 \in S, \A n \in Nat : n \in S => n + 1 \in S
  PROVE  Nat \subseteq S
<1> SUFFICES ASSUME NEW k \in Nat, k \notin S PROVE FALSE
  OBVIOUS
<1> DEFINE T == {n \in Nat : n \notin S}
<1>1. T # {} /\ T \subseteq Nat
  OBVIOUS
<1> HIDE DEF T
<1>2. PICK x \in T : \A y \in T : x <= y
  BY <1>1, Least
<1> USE DEF T
<1>3. x \in Nat /\ x # 0 /\ x - 1 \in Nat
  OBVIOUS
<1>4. x - 1 \in S
  BY <1>2, <1>3
<1>5. (x - 1) + 1 \in S
  BY <1>3, <1>4
<1> QED BY <1>3, <1>5

\* A function on finitely many numbers takes its minimum somewhere.
LEMMA HasLeast ==
  ASSUME NEW n \in Nat \ {0}, NEW f \in [1 .. n -> Int]
  PROVE  \E i \in 1 .. n : \A j \in 1 .. n : f[i] <= f[j]
<1> DEFINE S == {k \in Nat : k + 1 <= n => \E i \in 1 .. (k + 1) : \A j \in 1 .. (k + 1) : f[i] <= f[j]}
<1>1. 0 \in S
  <2>1. 1 <= n => \E i \in 1 .. 1 : \A j \in 1 .. 1 : f[i] <= f[j]
    OBVIOUS
  <2> QED BY <2>1
<1>2. ASSUME NEW k \in Nat, k \in S PROVE k + 1 \in S
  <2>1. SUFFICES ASSUME k + 2 <= n
                 PROVE \E i \in 1 .. (k + 2) : \A j \in 1 .. (k + 2) : f[i] <= f[j]
    OBVIOUS
  <2>2. PICK i \in 1 .. (k + 1) : \A j \in 1 .. (k + 1) : f[i] <= f[j]
    BY <1>2, <2>1
  <2>3. CASE f[i] <= f[k + 2]
    <3>1. \A j \in 1 .. (k + 2) : f[i] <= f[j]
      BY <2>2, <2>3
    <3> QED BY <3>1
  <2>4. CASE f[k + 2] <= f[i]
    <3>1. \A j \in 1 .. (k + 2) : f[k + 2] <= f[j]
      BY <2>1, <2>2, <2>4
    <3> QED BY <3>1
  <2> QED BY <2>1, <2>3, <2>4
<1> HIDE DEF S
<1>3. n - 1 \in S
  BY SMTT(30), <1>1, <1>2, Everyone
<1> QED BY <1>3 DEF S

\* A sequence of integers that is not empty has a greatest element.
LEMMA HasGreatest ==
  ASSUME NEW n \in Nat \ {0}, NEW f \in [1 .. n -> Int]
  PROVE  \E i \in 1 .. n : \A j \in 1 .. n : f[j] <= f[i]
<1> DEFINE g == [i \in 1 .. n |-> -f[i]]
<1>1. PICK i \in 1 .. n : \A j \in 1 .. n : g[i] <= g[j]
  <2> g \in [1 .. n -> Int]
    OBVIOUS
  <2> HIDE DEF g
  <2> QED BY HasLeast
<1>2. \A j \in 1 .. n : -f[i] <= -f[j]
  BY <1>1
<1>3. \A j \in 1 .. n : f[j] \in Int /\ f[i] \in Int
  OBVIOUS
<1>4. \A j \in 1 .. n : f[j] <= f[i]
  BY <1>2, <1>3
<1> QED BY <1>4

\* Min is the least element, when there is one.
LEMMA MinOf ==
  ASSUME NEW S, S \subseteq Int, NEW x \in S, \A y \in S : x <= y
  PROVE  Min(S) = x
<1>1. \E z \in S : \A y \in S : z <= y
  OBVIOUS
<1>2. Min(S) \in S /\ \A y \in S : Min(S) <= y
  BY <1>1, Zenon DEF Min
<1>3. Min(S) <= x /\ x <= Min(S) /\ Min(S) \in Int
  BY <1>2
<1> QED BY <1>3

\* Max is the greatest element, when there is one.
LEMMA MaxOf ==
  ASSUME NEW S, S \subseteq Int, NEW x \in S, \A y \in S : y <= x
  PROVE  Max(S) = x
<1>1. \E z \in S : \A y \in S : z >= y
  OBVIOUS
<1>2. Max(S) \in S /\ \A y \in S : Max(S) >= y
  BY <1>1, Zenon DEF Max
<1>3. Max(S) <= x /\ x <= Max(S) /\ Max(S) \in Int
  BY <1>2
<1> QED BY <1>3

IsGrid(g) ==
  /\ g.by_axes \in [Axis -> Nat \ {0}]
  /\ g.padding.num \in Int /\ g.padding.den \in Nat \ {0}
  /\ g.min_pos \in [Axis -> Int] /\ g.dimensions \in [Axis -> Nat]
Inside(g, p) == \A a \in Axis : p[a] - g.min_pos[a] \in 0 .. g.dimensions[a]

\* The least and the greatest of the positions of a mesh along an axis.
LEMMA Extent ==
  ASSUME NEW vs \in Seq([Axis -> Int]), vs # <<>>, NEW a \in Axis
  PROVE  LET S == {p[a] : p \in ToSet(vs)}
         IN  /\ Min(S) \in Int /\ Max(S) \in Int /\ Min(S) <= Max(S)
             /\ \A i \in 1 .. Len(vs) : Min(S) <= vs[i][a] /\ vs[i][a] <= Max(S)
<1> DEFINE S == {p[a] : p \in ToSet(vs)}
           n == Len(vs)
           f == [i \in 1 .. n |-> vs[i][a]]
<1>1. n \in Nat \ {0} /\ DOMAIN vs = 1 .. n /\ \A i \in 1 .. n : vs[i] \in [Axis -> Int]
  OBVIOUS
<1>2. f \in [1 .. n -> Int] /\ \A i \in 1 .. n : f[i] = vs[i][a]
  BY <1>1
<1>3. \A i \in 1 .. n : f[i] \in S
  BY <1>1 DEF ToSet
<1>4. \A x \in S : \E i \in 1 .. n : x = f[i]
  BY <1>1 DEF ToSet
<1> HIDE DEF S, f, n
<1>5. S \subseteq Int
  BY <1>2, <1>4
<1>6. PICK least \in 1 .. n : \A j \in 1 .. n : f[least] <= f[j]
  BY <1>1, <1>2, HasLeast
<1>7. PICK most \in 1 .. n : \A j \in 1 .. n : f[j] <= f[most]
  BY <1>1, <1>2, HasGreatest
<1>8. Min(S) = f[least]
  <2>1. \A y \in S : f[least] <= y
    BY <1>4, <1>6
  <2> QED BY <1>3, <1>5, <2>1, MinOf
<1>9. Max(S) = f[most]
  <2>1. \A y \in S : y <= f[most]
    BY <1>4, <1>7
  <2> QED BY <1>3, <1>5, <2>1, MaxOf
<1>10. Min(S) \in Int /\ Max(S) \in Int /\ Min(S) <= Max(S)
  BY <1>2, <1>6, <1>8, <1>9
<1>11. \A i \in 1 .. n : Min(S) <= vs[i][a] /\ vs[i][a] <= Max(S)
  BY <1>2, <1>6, <1>7, <1>8, <1>9
<1> QED BY <1>10, <1>11 DEF S, n

\* The positions of a mesh lie in the box from its least to its greatest coordinates.
LEMMA GridFacts ==
  ASSUME NEW vs \in Seq([Axis -> Int]), vs # <<>>,
         NEW by \in [Axis -> Nat \ {0}], NEW padding \in [num : Int, den : Nat \ {0}]
  PROVE  LET g == Grid(by, padding, ToSet(vs))
         IN  /\ IsGrid(g) /\ g.by_axes = by /\ g.padding = padding
             /\ \A i \in DOMAIN vs : Inside(g, vs[i])
<1> DEFINE g == Grid(by, padding, ToSet(vs))
           S(a) == {p[a] : p \in ToSet(vs)}
           n == Len(vs)
<1>1. n \in Nat \ {0} /\ DOMAIN vs = 1 .. n /\ \A i \in 1 .. n : vs[i] \in [Axis -> Int]
  OBVIOUS
<1>2. \A a \in Axis : /\ Min(S(a)) \in Int /\ Max(S(a)) \in Int /\ Min(S(a)) <= Max(S(a))
                     /\ \A i \in 1 .. n : Min(S(a)) <= vs[i][a] /\ vs[i][a] <= Max(S(a))
  BY Extent
<1>3. /\ g.by_axes = by /\ g.padding = padding
      /\ g.min_pos = [a \in Axis |-> Min(S(a))]
      /\ g.dimensions = [a \in Axis |-> Max(S(a)) - Min(S(a))]
  BY DEF Grid
<1> HIDE DEF S, n
<1>4. \A a \in Axis : Min(S(a)) \in Int /\ Max(S(a)) - Min(S(a)) \in Nat
  BY <1>1, <1>2
<1> HIDE DEF g
<1>5. IsGrid(g)
  BY <1>3, <1>4 DEF IsGrid
<1>6. \A i \in DOMAIN vs : Inside(g, vs[i])
  <2> SUFFICES ASSUME NEW i \in 1 .. n, NEW a \in Axis
               PROVE vs[i][a] - g.min_pos[a] \in 0 .. g.dimensions[a]
    BY <1>1 DEF Inside
  <2>1. vs[i][a] \in Int
    BY <1>1
  <2>2. Min(S(a)) \in Int /\ Max(S(a)) \in Int /\ Min(S(a)) <= vs[i][a] /\ vs[i][a] <= Max(S(a))
    BY <1>2
  <2>3. g.min_pos[a] = Min(S(a)) /\ g.dimensions[a] = Max(S(a)) - Min(S(a))
    BY <1>3
  <2> QED BY <2>1, <2>2, <2>3
<1> QED BY <1>3, <1>5, <1>6 DEF g

-----------------------------------------------------------------------------
(* Quotients and remainders.                                               *)

\* A product by a natural number is monotonic.
LEMMA Monotone ==
  ASSUME NEW d \in Nat, NEW x \in Int, NEW y \in Int, x <= y
  PROVE  d * x <= d * y
OBVIOUS

\* Multiplication distributes over addition.
LEMMA Distributes ==
  ASSUME NEW x \in Int, NEW y \in Int, NEW z \in Int
  PROVE  x * (y + z) = x * y + x * z
OBVIOUS

\* Multiplication is associative and commutative.
LEMMA Associates ==
  ASSUME NEW x \in Int, NEW y \in Int, NEW z \in Int
  PROVE  x * (y * z) = (y * x) * z
OBVIOUS

\* Division with its remainder.
LEMMA Quotient ==
  ASSUME NEW x \in Int, NEW d \in Nat \ {0}
  PROVE  x \div d \in Int /\ x % d \in 0 .. d - 1 /\ x = d * (x \div d) + (x % d)
OBVIOUS

\* Quotient and remainder are unique.
LEMMA SameQuotient ==
  ASSUME NEW d \in Nat \ {0}, NEW q \in Int, NEW r \in 0 .. d - 1,
         NEW q2 \in Int, NEW r2 \in 0 .. d - 1, d * q + r = d * q2 + r2
  PROVE  q = q2 /\ r = r2
<1>1. CASE q < q2
  <2>1. d * (q + 1) <= d * q2
    BY <1>1, Monotone
  <2>2. d * (q + 1) = d * q + d
    OBVIOUS
  <2> QED BY <2>1, <2>2
<1>2. CASE q2 < q
  <2>1. d * (q2 + 1) <= d * q
    BY <1>2, Monotone
  <2>2. d * (q2 + 1) = d * q2 + d
    OBVIOUS
  <2> QED BY <2>1, <2>2
<1> QED BY <1>1, <1>2

-----------------------------------------------------------------------------
(* The boxes of a grid.                                                    *)

\* A number below a product of three is three numbers, each below its factor.
LEMMA ProductBelow ==
  ASSUME NEW n \in Nat \ {0}, NEW k \in Nat \ {0}, NEW q \in Int, NEW r \in 0 .. k - 1
  PROVE  (k * q + r \in 0 .. n * k - 1) <=> (q \in 0 .. n - 1)
<1>1. CASE q < 0
  <2>1. k * q <= k * (-1)
    BY <1>1, Monotone
  <2>2. k * (-1) = -k
    OBVIOUS
  <2> QED BY <1>1, <2>1, <2>2
<1>2. CASE q \in 0 .. n - 1
  <2>1. k * 0 <= k * q /\ k * (q + 1) <= k * n
    BY <1>2, Monotone
  <2>2. k * (q + 1) = k * q + k /\ k * 0 = 0 /\ k * n = n * k
    OBVIOUS
  <2> QED BY <1>2, <2>1, <2>2
<1>3. CASE q >= n
  <2>1. k * n <= k * q
    BY <1>3, Monotone
  <2>2. k * n = n * k
    OBVIOUS
  <2> QED BY <1>3, <2>1, <2>2
<1> QED BY <1>1, <1>2, <1>3

Cells(g) == 0 .. ClustersNum(g.by_axes) - 1

\* A grid has at least one cluster.
LEMMA ClustersNumType ==
  ASSUME NEW g, IsGrid(g)
  PROVE  ClustersNum(g.by_axes) \in Nat \ {0}
<1>1. ASSUME NEW i \in Nat \ {0}, NEW j \in Nat \ {0} PROVE i * j \in Nat \ {0}
  OBVIOUS
<1>2. g.by_axes[1] \in Nat \ {0} /\ g.by_axes[2] \in Nat \ {0} /\ g.by_axes[3] \in Nat \ {0}
  BY DEF IsGrid, Axis
<1>3. g.by_axes[1] * g.by_axes[2] \in Nat \ {0}
  BY <1>1, <1>2
<1> QED BY <1>1, <1>2, <1>3 DEF ClustersNum

\* The sequence of all clusters goes through the cells of the grid (model.cpp:424-426).
LEMMA AllClustersAre ==
  ASSUME NEW g, IsGrid(g)
  PROVE  /\ ToSet(AllClusters(g)) = Cells(g)
         /\ AllClusters(g) \in Seq(Cells(g)) /\ Len(AllClusters(g)) = ClustersNum(g.by_axes)
<1>1. PICK n \in Nat \ {0} : n = ClustersNum(g.by_axes)
  BY ClustersNumType
<1>2. AllClusters(g) = [i \in 1 .. n |-> i - 1] /\ Cells(g) = 0 .. n - 1
  BY <1>1 DEF AllClusters, Cells
<1>3. \A c \in 0 .. n - 1 : c + 1 \in 1 .. n /\ AllClusters(g)[c + 1] = c
  BY <1>2
<1>4. DOMAIN AllClusters(g) = 1 .. n /\ \A i \in 1 .. n : AllClusters(g)[i] = i - 1
  BY <1>2
<1>5. ToSet(AllClusters(g)) = Cells(g)
  <2>1. \A c \in Cells(g) : c \in ToSet(AllClusters(g))
    <3> SUFFICES ASSUME NEW c \in 0 .. n - 1 PROVE c \in ToSet(AllClusters(g))
      BY <1>2
    <3>1. c + 1 \in DOMAIN AllClusters(g) /\ AllClusters(g)[c + 1] = c
      BY <1>3, <1>4
    <3> QED BY <3>1, Zenon DEF ToSet
  <2>2. \A c \in ToSet(AllClusters(g)) : c \in Cells(g)
    BY <1>2, <1>4 DEF ToSet
  <2> QED BY <2>1, <2>2
<1>6. [i \in 1 .. n |-> i - 1] \in Seq(0 .. n - 1) /\ Len([i \in 1 .. n |-> i - 1]) = n
  OBVIOUS
<1> QED BY <1>1, <1>2, <1>5, <1>6

\* A box is the number of its cell along each axis, and each such number is a box.
LEMMA BoxFacts ==
  ASSUME NEW g, IsGrid(g), NEW c \in Cells(g)
  PROVE  /\ \A a \in Axis : Box(g, c)[a] \in 0 .. g.by_axes[a] - 1
         /\ c = g.by_axes[3] * (g.by_axes[2] * Box(g, c)[1] + Box(g, c)[2]) + Box(g, c)[3]
<1>1. PICK n1 \in Nat \ {0}, n2 \in Nat \ {0}, n3 \in Nat \ {0} :
        n1 = g.by_axes[1] /\ n2 = g.by_axes[2] /\ n3 = g.by_axes[3]
  BY DEF IsGrid, Axis
<1>2. c \in 0 .. (n1 * n2) * n3 - 1 /\ c \in Int
  BY <1>1 DEF Cells, ClustersNum
<1>3. PICK q \in Int, r \in 0 .. n3 - 1 : q = c \div n3 /\ r = c % n3 /\ c = n3 * q + r
  BY <1>2, Quotient
<1>4. n1 * n2 \in Nat \ {0} /\ n2 * n3 \in Nat \ {0}
  OBVIOUS
<1>5. q \in 0 .. n1 * n2 - 1
  BY <1>2, <1>3, <1>4, ProductBelow
<1>6. PICK s \in Int, t \in 0 .. n2 - 1 : s = q \div n2 /\ t = q % n2 /\ q = n2 * s + t
  <2>1. q \div n2 \in Int /\ q % n2 \in 0 .. n2 - 1 /\ q = n2 * (q \div n2) + (q % n2)
    BY <1>3, Quotient
  <2> QED BY <2>1
<1>7. s \in 0 .. n1 - 1
  BY <1>5, <1>6, ProductBelow
<1>8. c \div (n2 * n3) = s
  <2>1. n3 * t + r \in 0 .. n2 * n3 - 1
    <3>1. t \in Int /\ t \in 0 .. n2 - 1 /\ r \in 0 .. n3 - 1
      BY <1>3, <1>6
    <3>2. (n3 * t + r \in 0 .. n2 * n3 - 1) <=> (t \in 0 .. n2 - 1)
      BY <3>1, ProductBelow
    <3> QED BY <3>1, <3>2
  <2>2. PICK ns \in Int : ns = n2 * s
    BY <1>6
  <2>3. n3 * (ns + t) = n3 * ns + n3 * t
    BY <1>3, <1>6, <2>2, Distributes
  <2>4. n3 * ns = (n2 * n3) * s
    BY <1>6, <2>2, Associates
  <2>8. PICK nt \in Int : nt = n3 * t
    BY <1>6
  <2>9. PICK nns \in Int : nns = n3 * ns
    BY <2>2
  <2>10. c = (n2 * n3) * s + (n3 * t + r)
    <3>1. c = n3 * (ns + t) + r
      BY <1>3, <1>6, <2>2
    <3>2. c = (nns + nt) + r
      BY <2>3, <2>8, <2>9, <3>1
    <3>3. c = nns + (nt + r)
      BY <3>2
    <3> QED BY <2>4, <2>8, <2>9, <3>3
  <2>5. PICK k \in Nat \ {0} : k = n2 * n3
    BY <1>4
  <2>6. PICK y \in Int, z \in 0 .. k - 1 : y = c \div k /\ c = k * y + z
    <3>1. c \div k \in Int /\ c % k \in 0 .. k - 1 /\ c = k * (c \div k) + (c % k)
      BY <1>2, Quotient
    <3> QED BY <3>1
  <2>7. PICK w \in 0 .. k - 1 : w = n3 * t + r
    BY <2>1, <2>5
  <2>11. k * s + w = k * y + z
    BY <2>5, <2>6, <2>7, <2>10
  <2>12. s = y
    BY <1>6, <2>11, SameQuotient
  <2> QED BY <2>5, <2>6, <2>12
<1>9. Box(g, c) = <<s, t, r>>
  BY <1>1, <1>3, <1>6, <1>8 DEF Box
<1>10. Box(g, c)[1] = s /\ Box(g, c)[2] = t /\ Box(g, c)[3] = r
  BY <1>9
<1>11. c = n3 * (n2 * s + t) + r
  BY <1>3, <1>6
<1>12. c = g.by_axes[3] * (g.by_axes[2] * Box(g, c)[1] + Box(g, c)[2]) + Box(g, c)[3]
  BY <1>1, <1>10, <1>11
<1>13. \A a \in Axis : Box(g, c)[a] \in 0 .. g.by_axes[a] - 1
  <2>1. Box(g, c)[1] \in 0 .. g.by_axes[1] - 1
    BY <1>1, <1>7, <1>10
  <2>2. Box(g, c)[2] \in 0 .. g.by_axes[2] - 1
    BY <1>1, <1>6, <1>10
  <2>3. Box(g, c)[3] \in 0 .. g.by_axes[3] - 1
    BY <1>1, <1>3, <1>10
  <2>4. \A a \in Axis : a = 1 \/ a = 2 \/ a = 3
    BY DEF Axis
  <2> QED BY <2>1, <2>2, <2>3, <2>4
<1> QED BY <1>12, <1>13

\* Every place of the grid is the box of a cluster: the index is a number by mixed radix.
LEMMA BoxOf ==
  ASSUME NEW g, IsGrid(g), NEW b \in [Axis -> Nat], \A a \in Axis : b[a] < g.by_axes[a]
  PROVE  \E c \in Cells(g) : \A a \in Axis : Box(g, c)[a] = b[a]
<1>1. PICK n1 \in Nat \ {0}, n2 \in Nat \ {0}, n3 \in Nat \ {0} :
        n1 = g.by_axes[1] /\ n2 = g.by_axes[2] /\ n3 = g.by_axes[3]
  BY DEF IsGrid, Axis
<1>2. b[1] \in 0 .. n1 - 1 /\ b[2] \in 0 .. n2 - 1 /\ b[3] \in 0 .. n3 - 1
  BY <1>1 DEF Axis
<1>3. PICK q \in Int : q = n2 * b[1] + b[2]
  BY <1>2
<1>4. PICK c \in Int : c = n3 * q + b[3]
  BY <1>2
<1>5. q \in 0 .. n1 * n2 - 1
  BY <1>2, <1>3, ProductBelow
<1>6. c \in 0 .. (n1 * n2) * n3 - 1
  <2>1. n1 * n2 \in Nat \ {0}
    OBVIOUS
  <2> QED BY <1>2, <1>4, <1>5, <2>1, ProductBelow
<1>7. c \in Cells(g)
  BY <1>1, <1>6 DEF Cells, ClustersNum
<1>8. PICK s \in 0 .. n1 - 1, t \in 0 .. n2 - 1, r \in 0 .. n3 - 1 :
        /\ s = Box(g, c)[1] /\ t = Box(g, c)[2] /\ r = Box(g, c)[3]
        /\ c = n3 * (n2 * s + t) + r
  BY <1>1, <1>7, BoxFacts DEF Axis
<1>9. PICK u \in Int : u = n2 * s + t
  OBVIOUS
<1>10. n3 * q + b[3] = n3 * u + r
  BY <1>4, <1>8, <1>9
<1>12. q = u /\ b[3] = r
  BY <1>2, <1>10, SameQuotient
<1>13. n2 * b[1] + b[2] = n2 * s + t
  BY <1>3, <1>9, <1>12
<1>11. b[1] = s /\ b[2] = t
  BY <1>2, <1>13, SameQuotient
<1> QED BY <1>7, <1>8, <1>11, <1>12 DEF Axis

-----------------------------------------------------------------------------
(* The numbers of a set in their order.                                    *)

Rank(S, c) == Cardinality({d \in S : d < c})

\* Ranks are below the number of elements, and a greater element has a greater rank.
LEMMA RankGrows ==
  ASSUME NEW S, IsFiniteSet(S), S \subseteq Nat, NEW c \in S
  PROVE  /\ Rank(S, c) \in 0 .. Cardinality(S) - 1
         /\ \A e \in S : c < e => Rank(S, c) < Rank(S, e)
<1> DEFINE B(e) == {d \in S : d < e}
<1>1. \A e \in S : IsFiniteSet(B(e)) /\ Cardinality(B(e)) \in Nat
  BY FS_Subset, FS_CardinalityType
<1>2. IsFiniteSet(B(c) \cup {c}) /\ Cardinality(B(c) \cup {c}) = Cardinality(B(c)) + 1
  <2>1. c \notin B(c)
    OBVIOUS
  <2> HIDE DEF B
  <2> QED BY <1>1, <2>1, FS_AddElement
<1>3. Cardinality(B(c)) + 1 <= Cardinality(S)
  <2>1. B(c) \cup {c} \subseteq S
    OBVIOUS
  <2> HIDE DEF B
  <2> QED BY <1>2, <2>1, FS_Subset
<1>4. ASSUME NEW e \in S, c < e PROVE Cardinality(B(c)) + 1 <= Cardinality(B(e))
  <2>1. B(c) \cup {c} \subseteq B(e)
    <3>1. \A d \in S : d < c => d < e
      BY <1>4
    <3> QED BY <1>4, <3>1
  <2> HIDE DEF B
  <2> QED BY <1>1, <1>2, <2>1, FS_Subset
<1>5. Cardinality(S) \in Nat
  BY FS_CardinalityType
<1>6. \A e \in S : Rank(S, e) = Cardinality(B(e))
  BY DEF Rank
<1> HIDE DEF B
<1> QED BY <1>1, <1>3, <1>4, <1>5, <1>6

\* A finite set in order is a sequence of it, without repetitions.
LEMMA InOrderFacts ==
  ASSUME NEW S, IsFiniteSet(S), S \subseteq Nat
  PROVE  /\ InOrder(S) \in Seq(S) /\ Len(InOrder(S)) = Cardinality(S)
         /\ ToSet(InOrder(S)) = S /\ IsInjective(InOrder(S))
<1>1. PICK n \in Nat : n = Cardinality(S)
  BY FS_CardinalityType
<1> DEFINE f == [c \in S |-> Rank(S, c)]
<1>2. f \in [S -> 0 .. n - 1] /\ \A c \in S : f[c] = Rank(S, c)
  BY <1>1, RankGrows
<1> HIDE DEF f
<1>3. \A c, e \in S : f[c] = f[e] => c = e
  <2> SUFFICES ASSUME NEW c \in S, NEW e \in S, c # e PROVE f[c] # f[e]
    OBVIOUS
  <2>1. c \in Nat /\ e \in Nat /\ f[c] \in Int /\ f[e] \in Int
    BY <1>2
  <2>2. c < e => f[c] < f[e]
    BY <1>2, RankGrows
  <2>3. e < c => f[e] < f[c]
    BY <1>2, RankGrows
  <2> QED BY <2>1, <2>2, <2>3
<1>4. f \in Injection(S, 0 .. n - 1)
  BY <1>2, <1>3 DEF Injection, IsInjective
<1>5. IsFiniteSet(0 .. n - 1) /\ Cardinality(0 .. n - 1) = n
  BY FS_Interval
<1>6. f \in Surjection(S, 0 .. n - 1)
  BY <1>1, <1>4, <1>5, FS_Injection
<1>7. \A i \in 1 .. n : \E c \in S : Rank(S, c) = i - 1
  BY <1>2, <1>6 DEF Surjection
<1> DEFINE s(i) == CHOOSE c \in S : Rank(S, c) = i - 1
<1>8. InOrder(S) = [i \in 1 .. n |-> s(i)]
  BY <1>1 DEF InOrder, Rank
<1>9. \A i \in 1 .. n : s(i) \in S /\ Rank(S, s(i)) = i - 1
  BY <1>7
<1> HIDE DEF s
<1>10. InOrder(S) \in [1 .. n -> S] /\ \A i \in 1 .. n : InOrder(S)[i] = s(i)
  BY <1>8, <1>9
<1>11. \A c \in S : f[c] + 1 \in 1 .. n /\ s(f[c] + 1) = c
  <2> SUFFICES ASSUME NEW c \in S PROVE f[c] + 1 \in 1 .. n /\ s(f[c] + 1) = c
    OBVIOUS
  <2>1. f[c] \in 0 .. n - 1 /\ f[c] + 1 \in 1 .. n
    BY <1>2
  <2>2. s(f[c] + 1) \in S /\ Rank(S, s(f[c] + 1)) = (f[c] + 1) - 1
    BY <1>9, <2>1
  <2>4. PICK e \in S : e = s(f[c] + 1)
    BY <2>2
  <2>5. f[e] = Rank(S, e) /\ Rank(S, e) = (f[c] + 1) - 1
    BY <1>2, <2>2, <2>4
  <2>3. f[s(f[c] + 1)] = f[c]
    BY <2>1, <2>4, <2>5
  <2> QED BY <1>3, <2>1, <2>2, <2>3
<1>12. ToSet(InOrder(S)) = S
  <2>1. \A c \in S : \E i \in DOMAIN InOrder(S) : InOrder(S)[i] = c
    BY <1>10, <1>11
  <2> QED BY <1>10, <2>1 DEF ToSet
<1>13. IsInjective(InOrder(S))
  <2> SUFFICES ASSUME NEW i \in 1 .. n, NEW j \in 1 .. n, s(i) = s(j) PROVE i = j
    BY <1>10 DEF IsInjective
  <2>1. i - 1 = j - 1
    BY <1>9
  <2> QED BY <2>1
<1>14. InOrder(S) \in Seq(S) /\ Len(InOrder(S)) = n
  BY <1>1, <1>10
<1> QED BY <1>1, <1>12, <1>13, <1>14

-----------------------------------------------------------------------------
(* The corners of boxes, in the integers that Scale makes of coordinates.  *)

Origin(g, a) == g.min_pos[a] * Scale(g, a)
CellSize(g, a) == g.dimensions[a] * g.padding.den

\* The maximum of a size and zero.
LEMMA MaxWithZero ==
  ASSUME NEW x \in Int
  PROVE  Max({0, x}) = IF x >= 0 THEN x ELSE 0
<1>1. CASE x >= 0
  BY <1>1, MaxOf
<1>2. CASE x < 0
  BY <1>2, MaxOf
<1> QED BY <1>1, <1>2

\* The numbers that corners are made of.
LEMMA CornerTypes ==
  ASSUME NEW g, IsGrid(g), NEW a \in Axis
  PROVE  /\ Origin(g, a) \in Int /\ CellSize(g, a) \in Nat /\ Padding(g, a) \in Int
         /\ Scale(g, a) \in Nat \ {0}
<1>1. /\ g.by_axes[a] \in Nat \ {0} /\ g.padding.den \in Nat \ {0} /\ g.padding.num \in Int
      /\ g.min_pos[a] \in Int /\ g.dimensions[a] \in Nat
  BY DEF IsGrid
<1>2. \A i, j \in Nat \ {0} : i * j \in Nat \ {0}
  OBVIOUS
<1>3. \A i, j \in Nat : i * j \in Nat
  OBVIOUS
<1>4. Scale(g, a) \in Nat \ {0}
  BY <1>1, <1>2 DEF Scale
<1>5. CellSize(g, a) \in Nat
  BY <1>1, <1>3 DEF CellSize
<1> QED BY <1>1, <1>4, <1>5 DEF Origin, Padding

\* The corners of a cluster's box, in the integers of Scale
\* (model.cpp:344-348).
LEMMA CornerFacts ==
  ASSUME NEW g, IsGrid(g), NEW c \in Cells(g), NEW a \in Axis
  PROVE  LET low == Origin(g, a) + CellSize(g, a) * Box(g, c)[a] - Padding(g, a)
             size == CellSize(g, a) + 2 * Padding(g, a)
         IN  /\ Box(g, c)[a] \in 0 .. g.by_axes[a] - 1
             /\ MinCorner(g, c, a) = low
             /\ MaxCorner(g, c, a) = low + (IF size >= 0 THEN size ELSE 0)
<1>1. /\ g.by_axes[a] \in Nat \ {0} /\ g.padding.den \in Nat \ {0} /\ g.dimensions[a] \in Nat
  BY DEF IsGrid
<1>2. Box(g, c)[a] \in 0 .. g.by_axes[a] - 1
  BY BoxFacts
<1>3. PICK b \in Int, D \in Nat, den \in Nat \ {0} :
        b = Box(g, c)[a] /\ D = g.dimensions[a] /\ den = g.padding.den
  BY <1>1, <1>2
<1>4. (b * D) * den = (D * den) * b
  BY <1>3
<1>5. PICK O \in Int, U \in Nat, P \in Int :
        O = Origin(g, a) /\ U = CellSize(g, a) /\ P = Padding(g, a)
  BY CornerTypes
<1>6. U = D * den
  BY <1>3, <1>5 DEF CellSize
<1>7. PICK M \in Int : M = MinCorner(g, c, a) /\ M = O + U * b - P
  BY <1>3, <1>4, <1>5, <1>6 DEF MinCorner, Origin
<1>8. MaxCorner(g, c, a) = M + Max({0, U + 2 * P})
  BY <1>3, <1>5, <1>6, <1>7 DEF MaxCorner
<1>9. Max({0, U + 2 * P}) = IF U + 2 * P >= 0 THEN U + 2 * P ELSE 0
  BY <1>5, MaxWithZero
<1> QED BY <1>2, <1>3, <1>5, <1>7, <1>8, <1>9

IsNarrow(g) == 2 * g.padding.num < g.padding.den
IsSolid(g) == \A a \in Axis : g.by_axes[a] > 1 => g.dimensions[a] > 0

\* Two boxes that contain a vertex are equal or neighbours along each axis.
LEMMA Neighbours ==
  ASSUME NEW g, IsGrid(g), IsNarrow(g), IsSolid(g), NEW p \in [Axis -> Int],
         NEW c \in Cells(g), NEW d \in Cells(g), contains(g, c, p), contains(g, d, p),
         NEW a \in Axis
  PROVE  Box(g, c)[a] <= Box(g, d)[a] + 1
<1>1. PICK b \in Int, e \in Int :
        /\ b = Box(g, c)[a] /\ e = Box(g, d)[a] /\ b \in 0 .. g.by_axes[a] - 1 /\ e \in 0 .. g.by_axes[a] - 1
  <2>1. Box(g, c)[a] \in 0 .. g.by_axes[a] - 1 /\ Box(g, d)[a] \in 0 .. g.by_axes[a] - 1
    BY BoxFacts
  <2>2. g.by_axes[a] \in Nat
    BY DEF IsGrid
  <2> QED BY <2>1, <2>2
<1>2. PICK O \in Int, U \in Nat, P \in Int :
        O = Origin(g, a) /\ U = CellSize(g, a) /\ P = Padding(g, a)
  BY CornerTypes
<1>3. PICK x \in Int : x = Coordinate(g, p, a)
  BY CornerTypes DEF Coordinate
<1>4. PICK ub \in Int, ue \in Int : ub = U * b /\ ue = U * e
  BY <1>1, <1>2
<1>5. O + ub - P <= x
  <2>1. MinCorner(g, c, a) <= x
    BY <1>3 DEF contains
  <2>2. MinCorner(g, c, a) = O + ub - P
    BY <1>1, <1>2, <1>4, CornerFacts
  <2> QED BY <2>1, <2>2
<1>6. x <= O + ue - P + (IF U + 2 * P >= 0 THEN U + 2 * P ELSE 0)
  <2>1. x <= MaxCorner(g, d, a)
    BY <1>3 DEF contains
  <2>2. MaxCorner(g, d, a) = O + ue - P + (IF U + 2 * P >= 0 THEN U + 2 * P ELSE 0)
    BY <1>1, <1>2, <1>4, CornerFacts
  <2> QED BY <2>1, <2>2
<1>7. CASE g.by_axes[a] = 1
  BY <1>1, <1>7
<1>8. CASE g.by_axes[a] > 1
  <2>1. PICK D \in Nat \ {0}, den \in Nat \ {0}, num \in Int :
          D = g.dimensions[a] /\ den = g.padding.den /\ num = g.padding.num /\ 2 * num < den
    BY <1>8 DEF IsGrid, IsSolid, IsNarrow
  <2>2. U = D * den /\ P = num * D
    BY <1>2, <2>1 DEF CellSize, Padding
  <2>3. D * (2 * num + 1) <= D * den
    <3>1. 2 * num + 1 \in Int /\ den \in Int /\ 2 * num + 1 <= den
      BY <2>1
    <3> QED BY <3>1, Monotone
  <2>4. D * (2 * num + 1) = 2 * (num * D) + D
    BY <2>1
  <2>5. 2 * P < U
    BY <2>1, <2>2, <2>3, <2>4
  <2>6. SUFFICES ASSUME e + 2 <= b PROVE FALSE
    BY <1>1
  <2>7. U * (e + 2) <= U * b
    BY <1>2, <2>6, Monotone
  <2>8. U * (e + 2) = U * e + 2 * U
    BY <1>1, <1>2
  <2>9. ue + 2 * U <= ub
    BY <1>4, <2>7, <2>8
  <2>10. ub - P <= ue - P + (IF U + 2 * P >= 0 THEN U + 2 * P ELSE 0)
    BY <1>2, <1>3, <1>4, <1>5, <1>6
  <2>11. U > 0
    BY <2>1, <2>2
  <2> QED BY <1>2, <1>4, <2>5, <2>9, <2>10, <2>11
<1> QED BY <1>7, <1>8 DEF IsGrid

-----------------------------------------------------------------------------
(* The clusters found for a vertex.                                        *)

\* The clusters that contain a point are a finite set of the cells.
LEMMA ContainingFacts ==
  ASSUME NEW g, IsGrid(g), NEW p
  PROVE  /\ Containing(g, p) = {c \in Cells(g) : contains(g, c, p)}
         /\ IsFiniteSet(Containing(g, p)) /\ Containing(g, p) \subseteq Nat
<1>1. Containing(g, p) = {c \in Cells(g) : contains(g, c, p)}
  BY AllClustersAre DEF Containing
<1>2. IsFiniteSet(Cells(g)) /\ Cells(g) \subseteq Nat
  BY ClustersNumType, FS_Interval DEF Cells
<1>3. Containing(g, p) \subseteq Cells(g)
  BY <1>1
<1> QED BY <1>1, <1>2, <1>3, FS_Subset

\* Among clusters there is one whose box is first along an axis.
LEMMA LeastBox ==
  ASSUME NEW g, IsGrid(g), NEW K, K \subseteq Cells(g), K # {}, NEW a \in Axis
  PROVE  \E m \in K : \A c \in K : Box(g, m)[a] <= Box(g, c)[a]
<1> DEFINE S == {Box(g, c)[a] : c \in K}
<1>1. \A c \in K : Box(g, c)[a] \in Nat
  <2> SUFFICES ASSUME NEW c \in K PROVE Box(g, c)[a] \in Nat
    OBVIOUS
  <2>1. Box(g, c)[a] \in 0 .. g.by_axes[a] - 1
    BY BoxFacts
  <2> QED BY <2>1
<1>2. S \subseteq Nat /\ S # {}
  BY <1>1
<1> HIDE DEF S
<1>3. PICK x \in S : \A y \in S : x <= y
  BY <1>2, Least
<1> QED BY <1>3 DEF S

\* Eight places: two along each of three axes.
LEMMA TwoCubed ==
  LET T == 0 .. 1 IN IsFiniteSet((T \X T) \X T) /\ Cardinality((T \X T) \X T) = 8
<1> DEFINE T == 0 .. 1
<1>1. IsFiniteSet(T) /\ Cardinality(T) = 2
  <2>1. PICK n \in Nat : n = 2
    OBVIOUS
  <2>2. IsFiniteSet(0 .. n - 1) /\ Cardinality(0 .. n - 1) = n
    BY FS_Interval
  <2>3. T = 0 .. n - 1
    BY <2>1
  <2> QED BY <2>1, <2>2, <2>3
<1> HIDE DEF T
<1>2. IsFiniteSet(T \X T) /\ Cardinality(T \X T) = 2 * 2
  BY <1>1, FS_Product
<1>3. IsFiniteSet((T \X T) \X T) /\ Cardinality((T \X T) \X T) = (2 * 2) * 2
  BY <1>1, <1>2, FS_Product
<1> QED BY <1>3 DEF T

\* A vertex lies in two boxes along an axis at most, so in eight at most.
LEMMA AtMostEight ==
  ASSUME NEW g, IsGrid(g), IsNarrow(g), IsSolid(g), NEW p \in [Axis -> Int]
  PROVE  Cardinality(Containing(g, p)) <= CLUSTER_INDICES_NUM
<1> DEFINE K == Containing(g, p)
           T == 0 .. 1
<1>1. K \subseteq Cells(g) /\ \A c \in K : contains(g, c, p)
  BY ContainingFacts
<1>2. CASE K = {}
  BY <1>2, FS_EmptySet DEF CLUSTER_INDICES_NUM
<1>3. CASE K # {}
  <2> HIDE DEF K
  <2>1. ASSUME NEW a \in Axis
        PROVE  \E m \in Nat : \A c \in K : Box(g, c)[a] \in Nat /\ Box(g, c)[a] - m \in T
    <3>1. PICK d \in K : \A c \in K : Box(g, d)[a] <= Box(g, c)[a]
      BY <1>1, <1>3, LeastBox
    <3>2. \A c \in K : Box(g, c)[a] \in Nat
      <4> SUFFICES ASSUME NEW c \in K PROVE Box(g, c)[a] \in Nat
        OBVIOUS
      <4>1. Box(g, c)[a] \in 0 .. g.by_axes[a] - 1
        BY <1>1, BoxFacts
      <4> QED BY <4>1
    <3>3. \A c \in K : Box(g, c)[a] <= Box(g, d)[a] + 1
      BY <1>1, Neighbours
    <3> QED BY <3>1, <3>2, <3>3
  <2>2. PICK m1 \in Nat : \A c \in K : Box(g, c)[1] \in Nat /\ Box(g, c)[1] - m1 \in T
    BY <2>1 DEF Axis
  <2>3. PICK m2 \in Nat : \A c \in K : Box(g, c)[2] \in Nat /\ Box(g, c)[2] - m2 \in T
    BY <2>1 DEF Axis
  <2>4. PICK m3 \in Nat : \A c \in K : Box(g, c)[3] \in Nat /\ Box(g, c)[3] - m3 \in T
    BY <2>1 DEF Axis
  <2> DEFINE f == [c \in K |-> << <<Box(g, c)[1] - m1, Box(g, c)[2] - m2>>, Box(g, c)[3] - m3>>]
             E == (T \X T) \X T
  <2>5. f \in [K -> E]
    BY <2>2, <2>3, <2>4
  <2>6. ASSUME NEW c \in K, NEW d \in K, f[c] = f[d] PROVE c = d
    <3>1. /\ Box(g, c)[1] - m1 = Box(g, d)[1] - m1 /\ Box(g, c)[2] - m2 = Box(g, d)[2] - m2
          /\ Box(g, c)[3] - m3 = Box(g, d)[3] - m3
      BY <2>6
    <3>2. /\ Box(g, c)[1] = Box(g, d)[1] /\ Box(g, c)[2] = Box(g, d)[2]
          /\ Box(g, c)[3] = Box(g, d)[3]
      BY <2>2, <2>3, <2>4, <3>1
    <3>3. /\ c = g.by_axes[3] * (g.by_axes[2] * Box(g, c)[1] + Box(g, c)[2]) + Box(g, c)[3]
          /\ d = g.by_axes[3] * (g.by_axes[2] * Box(g, d)[1] + Box(g, d)[2]) + Box(g, d)[3]
      BY <1>1, BoxFacts
    <3> QED BY <3>2, <3>3
  <2>7. f \in Injection(K, E)
    BY <2>5, <2>6 DEF Injection, IsInjective
  <2>10. IsFiniteSet(E) /\ Cardinality(E) = 8
    BY TwoCubed
  <2> HIDE DEF f, E
  <2>11. Cardinality(K) <= 8
    BY <2>7, <2>10, FS_Injection
  <2> QED BY <2>11 DEF K, CLUSTER_INDICES_NUM
<1> QED BY <1>2, <1>3

\* Corners are integers.
LEMMA CornersAreInt ==
  ASSUME NEW g, IsGrid(g), NEW c \in Cells(g), NEW a \in Axis
  PROVE  MinCorner(g, c, a) \in Int /\ MaxCorner(g, c, a) \in Int
<1>1. PICK O \in Int, U \in Nat, P \in Int :
        O = Origin(g, a) /\ U = CellSize(g, a) /\ P = Padding(g, a)
  BY CornerTypes
<1>2. PICK b \in Int : b = Box(g, c)[a]
  <2>1. Box(g, c)[a] \in 0 .. g.by_axes[a] - 1
    BY BoxFacts
  <2> QED BY <2>1
<1>3. PICK ub \in Int : ub = U * b
  BY <1>1, <1>2
<1> QED BY <1>1, <1>2, <1>3, CornerFacts

\* The square of a distance is an integer.
LEMMA DistanceType ==
  ASSUME NEW g, IsGrid(g), NEW c \in Cells(g), NEW p \in [Axis -> Int]
  PROVE  DistanceSquare(g, c, p) \in Int
<1> DEFINE offset(a) == (2 * Coordinate(g, p, a) - MinCorner(g, c, a) - MaxCorner(g, c, a))
                        * (ClustersNum(g.by_axes) \div g.by_axes[a])
<1>1. ASSUME NEW a \in Axis PROVE offset(a) \in Int
  <2>1. Coordinate(g, p, a) \in Int
    BY CornerTypes DEF Coordinate
  <2>2. 2 * Coordinate(g, p, a) - MinCorner(g, c, a) - MaxCorner(g, c, a) \in Int
    BY <2>1, CornersAreInt
  <2>3. ClustersNum(g.by_axes) \in Int /\ g.by_axes[a] \in Nat \ {0}
    BY ClustersNumType DEF IsGrid
  <2>4. ClustersNum(g.by_axes) \div g.by_axes[a] \in Int
    BY <2>3, Quotient
  <2> QED BY <2>2, <2>4
<1>2. offset(1) \in Int /\ offset(2) \in Int /\ offset(3) \in Int
  BY <1>1 DEF Axis
<1>3. DistanceSquare(g, c, p) = offset(1) * offset(1) + offset(2) * offset(2) + offset(3) * offset(3)
  BY DEF DistanceSquare
<1> HIDE DEF offset
<1> QED BY <1>2, <1>3

\* A vertex is in one cluster at least, in none of them twice, and in eight at most
\* where the grid is narrow.
LEMMA FoundFacts ==
  ASSUME NEW g, IsGrid(g), NEW p \in [Axis -> Int]
  PROVE  LET found == find_clusters_for_vertex(g, p)
         IN  /\ found \in Seq(Cells(g)) /\ Len(found) >= 1 /\ IsInjective(found)
             /\ IsNarrow(g) /\ IsSolid(g) => Len(found) <= CLUSTER_INDICES_NUM
             /\ Containing(g, p) # {} => ToSet(found) = Containing(g, p)
<1> DEFINE K == Containing(g, p)
           n == ClustersNum(g.by_axes)
           nearest == {c \in Cells(g) :
                         \A d \in Cells(g) : DistanceSquare(g, c, p) <= DistanceSquare(g, d, p)}
<1>1. find_clusters_for_vertex(g, p) = IF K # {} THEN InOrder(K) ELSE <<Min(nearest)>>
  <2>1. ToSet(AllClusters(g)) = Cells(g)
    BY AllClustersAre
  <2> QED BY <2>1, Zenon DEF find_clusters_for_vertex
<1>2. K \subseteq Cells(g) /\ IsFiniteSet(K) /\ K \subseteq Nat
  BY ContainingFacts
<1>3. CASE K # {}
  <2> HIDE DEF K
  <2>1. /\ InOrder(K) \in Seq(K) /\ Len(InOrder(K)) = Cardinality(K)
        /\ ToSet(InOrder(K)) = K /\ IsInjective(InOrder(K))
    BY <1>2, InOrderFacts
  <2>2. Cardinality(K) \in Nat /\ Cardinality(K) # 0
    BY <1>2, <1>3, FS_CardinalityType, FS_EmptySet
  <2>3. IsNarrow(g) /\ IsSolid(g) => Cardinality(K) <= CLUSTER_INDICES_NUM
    BY AtMostEight DEF K
  <2>4. InOrder(K) \in Seq(Cells(g))
    <3>1. PICK s \in Seq(K) : s = InOrder(K)
      BY <2>1
    <3>2. Len(s) \in Nat /\ s \in [1 .. Len(s) -> K]
      BY <3>1
    <3>3. s \in [1 .. Len(s) -> Cells(g)]
      BY <1>2, <3>2
    <3>4. s \in Seq(Cells(g))
      BY <3>2, <3>3
    <3> QED BY <3>1, <3>4
  <2> QED BY <1>1, <1>3, <2>1, <2>2, <2>3, <2>4 DEF K
<1>4. CASE K = {}
  <2>1. n \in Nat \ {0} /\ Cells(g) = 0 .. n - 1
    BY ClustersNumType DEF Cells
  <2> DEFINE f == [i \in 1 .. n |-> DistanceSquare(g, i - 1, p)]
  <2>2. \A c \in Cells(g) : DistanceSquare(g, c, p) \in Int
    BY DistanceType
  <2>3. f \in [1 .. n -> Int] /\ \A c \in 0 .. n - 1 : f[c + 1] = DistanceSquare(g, c, p)
    <3> HIDE DEF n
    <3>1. \A i \in 1 .. n : i - 1 \in Cells(g)
      BY <2>1
    <3>2. \A c \in 0 .. n - 1 : c + 1 \in 1 .. n /\ (c + 1) - 1 = c
      BY <2>1
    <3> QED BY <2>2, <3>1, <3>2
  <2> HIDE DEF f, n
  <2>4. PICK i \in 1 .. n : \A j \in 1 .. n : f[i] <= f[j]
    BY <2>1, <2>3, HasLeast
  <2>5. i - 1 \in nearest
    <3>1. i - 1 \in 0 .. n - 1 /\ f[(i - 1) + 1] = f[i]
      BY <2>1
    <3>2. \A d \in 0 .. n - 1 : f[i] <= f[d + 1]
      BY <2>1, <2>4
    <3> QED BY <2>1, <2>3, <3>1, <3>2
  <2>6. nearest \subseteq Nat /\ nearest \subseteq Int /\ nearest # {} /\ nearest \subseteq Cells(g)
    <3>1. Cells(g) \subseteq Nat /\ Cells(g) \subseteq Int
      BY <2>1
    <3>2. nearest \subseteq Cells(g)
      OBVIOUS
    <3> HIDE DEF nearest
    <3> QED BY <2>5, <3>1, <3>2
  <2> HIDE DEF nearest
  <2>7. PICK x \in nearest : \A y \in nearest : x <= y
    BY <2>6, Least
  <2>8. Min(nearest) = x
    BY <2>6, <2>7, MinOf
  <2>9. <<x>> \in Seq(Cells(g)) /\ Len(<<x>>) = 1 /\ IsInjective(<<x>>)
    BY <2>6, <2>7 DEF IsInjective
  <2> QED BY <1>1, <1>4, <2>8, <2>9 DEF CLUSTER_INDICES_NUM
<1> QED BY <1>3, <1>4

-----------------------------------------------------------------------------
(* The weights of a vertex inside the physical model.                      *)

IsPadded(g) == \A a \in Axis : Padding(g, a) > 0
IsDeep(g, c, p) ==
  \A a \in Axis : MinCorner(g, c, a) < Coordinate(g, p, a) /\ Coordinate(g, p, a) < MaxCorner(g, c, a)

\* Along each axis a point of a padded model lies strictly between the corners of some
\* box.
LEMMA DeepAlong ==
  ASSUME NEW g, IsGrid(g), IsPadded(g), NEW p \in [Axis -> Int], Inside(g, p), NEW a \in Axis
  PROVE  \E b \in Nat : /\ b < g.by_axes[a]
                        /\ \A c \in Cells(g) : Box(g, c)[a] = b =>
                             /\ MinCorner(g, c, a) < Coordinate(g, p, a)
                             /\ Coordinate(g, p, a) < MaxCorner(g, c, a)
<1>1. PICK n \in Nat \ {0}, D \in Nat, den \in Nat \ {0}, x \in Int, m \in Int :
        /\ n = g.by_axes[a] /\ D = g.dimensions[a] /\ den = g.padding.den
        /\ x = p[a] /\ m = g.min_pos[a]
  BY DEF IsGrid
<1>2. PICK O \in Int, U \in Nat, P \in Int, S \in Nat \ {0} :
        O = Origin(g, a) /\ U = CellSize(g, a) /\ P = Padding(g, a) /\ S = Scale(g, a)
  BY CornerTypes
<1>3. P > 0
  BY <1>2 DEF IsPadded
<1>4. U > 0
  <2>1. D # 0
    <3>1. SUFFICES ASSUME D = 0 PROVE P = 0
      BY <1>3
    <3>2. P = g.padding.num * 0 /\ g.padding.num \in Int
      BY <1>1, <1>2, <3>1 DEF Padding, IsGrid
    <3> QED BY <3>2
  <2>2. \A i, j \in Nat \ {0} : i * j \in Nat \ {0}
    OBVIOUS
  <2>3. U = D * den /\ D \in Nat \ {0}
    BY <1>1, <1>2, <2>1 DEF CellSize
  <2> QED BY <1>1, <2>2, <2>3
<1>5. PICK L \in Int : L = S * (x - m)
  BY <1>1, <1>2
<1>6. L \in 0 .. U * n
  <2>1. x - m \in 0 .. D
    BY <1>1 DEF Inside
  <2>2. S * 0 <= S * (x - m) /\ S * (x - m) <= S * D
    BY <1>1, <1>2, <2>1, Monotone
  <2>3. S * D = U * n
    <3>1. S = n * den /\ U = D * den
      BY <1>1, <1>2 DEF Scale, CellSize
    <3>2. (n * den) * D = (D * den) * n
      BY <1>1
    <3> QED BY <3>1, <3>2
  <2> QED BY <1>2, <1>5, <2>2, <2>3
<1>7. Coordinate(g, p, a) = O + L
  <2>1. S * (x - m) = x * S - m * S
    BY <1>1, <1>2
  <2>2. Coordinate(g, p, a) = x * S /\ O = m * S
    BY <1>1, <1>2 DEF Coordinate, Origin
  <2> QED BY <1>1, <1>2, <1>5, <2>1, <2>2
<1>8. PICK b \in Nat : b < n /\ U * b <= L /\ L <= U * b + U
  <2>1. CASE L = U * n
    <3>1. n - 1 \in Nat /\ U * n = U * (n - 1) + U
      BY <1>2
    <3> QED BY <1>2, <2>1, <3>1
  <2>2. CASE L # U * n
    <3>1. PICK q \in Int, r \in 0 .. U - 1 : L = U * q + r
      <4>1. L \div U \in Int /\ L % U \in 0 .. U - 1 /\ L = U * (L \div U) + (L % U)
        <5>1. U \in Nat \ {0}
          BY <1>4
        <5> QED BY <1>5, <5>1, Quotient
      <4> QED BY <4>1
    <3>2. U * n = n * U
      BY <1>2
    <3>3. U * q + r \in 0 .. n * U - 1
      BY <1>2, <1>6, <2>2, <3>1, <3>2
    <3>4. q \in 0 .. n - 1
      BY <1>2, <1>4, <3>1, <3>3, ProductBelow
    <3> QED BY <1>2, <3>1, <3>4
  <2> QED BY <2>1, <2>2
<1>9. ASSUME NEW c \in Cells(g), Box(g, c)[a] = b
      PROVE  MinCorner(g, c, a) < O + L /\ O + L < MaxCorner(g, c, a)
  <2>1. PICK ub \in Int : ub = U * b
    BY <1>2
  <2>2. MinCorner(g, c, a) = O + ub - P
    BY <1>2, <1>9, <2>1, CornerFacts
  <2>3. MaxCorner(g, c, a) = O + ub - P + (IF U + 2 * P >= 0 THEN U + 2 * P ELSE 0)
    BY <1>2, <1>9, <2>1, CornerFacts
  <2>4. ub <= L /\ L <= ub + U
    BY <1>8, <2>1
  <2> QED BY <1>2, <1>3, <1>5, <2>1, <2>2, <2>3, <2>4
<1> QED BY <1>1, <1>7, <1>8, <1>9

\* So it lies strictly inside the box of some cluster.
LEMMA DeepSomewhere ==
  ASSUME NEW g, IsGrid(g), IsPadded(g), NEW p \in [Axis -> Int], Inside(g, p)
  PROVE  \E c \in Cells(g) : IsDeep(g, c, p)
<1> DEFINE Deep(a, b) == /\ b < g.by_axes[a]
                         /\ \A c \in Cells(g) : Box(g, c)[a] = b =>
                              /\ MinCorner(g, c, a) < Coordinate(g, p, a)
                              /\ Coordinate(g, p, a) < MaxCorner(g, c, a)
           box == [a \in Axis |-> CHOOSE b \in Nat : Deep(a, b)]
<1>1. \A a \in Axis : \E b \in Nat : Deep(a, b)
  BY DeepAlong
<1> HIDE DEF Deep
<1>2. box \in [Axis -> Nat] /\ \A a \in Axis : Deep(a, box[a])
  BY <1>1
<1> HIDE DEF box
<1>3. \A a \in Axis : box[a] < g.by_axes[a]
  BY <1>2 DEF Deep
<1>4. PICK c \in Cells(g) : \A a \in Axis : Box(g, c)[a] = box[a]
  BY <1>2, <1>3, BoxOf
<1>5. IsDeep(g, c, p)
  BY <1>2, <1>4 DEF Deep, IsDeep
<1> QED BY <1>5

\* With padding no weight is undefined, and strictly inside a box it is positive.
LEMMA WeightFacts ==
  ASSUME NEW g, IsGrid(g), IsPadded(g), NEW p \in [Axis -> Int], NEW c \in Cells(g)
  PROVE  /\ Weight(g, c, p) # "undefined"
         /\ IsDeep(g, c, p) => Weight(g, c, p) = "positive" /\ contains(g, c, p)
<1> DEFINE border == {a \in Axis : Coordinate(g, p, a) \in {MinCorner(g, c, a), MaxCorner(g, c, a)}}
<1>1. Weight(g, c, p) = IF border = {} \/ Padding(g, Min(border)) < 0 THEN "positive"
                        ELSE IF Padding(g, Min(border)) = 0 THEN "undefined" ELSE "zero"
  BY DEF Weight
<1>2. \A a \in Axis : /\ Coordinate(g, p, a) \in Int /\ MinCorner(g, c, a) \in Int
                     /\ MaxCorner(g, c, a) \in Int
  BY CornerTypes, CornersAreInt DEF Coordinate
<1>3. IsDeep(g, c, p) => border = {} /\ contains(g, c, p)
  BY <1>2 DEF IsDeep, contains
<1>4. border \subseteq Axis
  OBVIOUS
<1> HIDE DEF border
<1>5. border # {} => Padding(g, Min(border)) > 0 /\ Padding(g, Min(border)) \in Int
  <2> SUFFICES ASSUME border # {} PROVE Min(border) \in Axis
    BY CornerTypes DEF IsPadded
  <2>1. border \subseteq Nat /\ border \subseteq Int
    BY <1>4 DEF Axis
  <2>2. PICK x \in border : \A y \in border : x <= y
    BY <2>1, Least
  <2>3. Min(border) = x
    BY <2>1, <2>2, MinOf
  <2> QED BY <1>4, <2>3
<1> QED BY <1>1, <1>3, <1>5

\* The weights of a point inside a padded model: one is positive, none is undefined.
LEMMA WeightsFacts ==
  ASSUME NEW g, IsGrid(g), IsPadded(g), NEW p \in [Axis -> Int], Inside(g, p)
  PROVE  "positive" \in ToSet(WeightsOf(g, p)) /\ "undefined" \notin ToSet(WeightsOf(g, p))
<1> DEFINE found == find_clusters_for_vertex(g, p)
           weight(c) == IF contains(g, c, p) THEN Weight(g, c, p) ELSE "positive"
<1>1. WeightsOf(g, p) = [i \in DOMAIN found |-> weight(found[i])]
  BY DEF WeightsOf
<1>2. found \in Seq(Cells(g)) /\ (Containing(g, p) # {} => ToSet(found) = Containing(g, p))
  BY FoundFacts
<1> HIDE DEF found
<1>3. \A i \in DOMAIN found : found[i] \in Cells(g)
  BY <1>2
<1>4. \A c \in Cells(g) : weight(c) # "undefined"
  BY WeightFacts
<1>5. PICK c \in Cells(g) : IsDeep(g, c, p)
  BY DeepSomewhere
<1>6. weight(c) = "positive" /\ c \in Containing(g, p)
  BY <1>5, WeightFacts, ContainingFacts
<1>7. PICK i \in DOMAIN found : found[i] = c
  BY <1>2, <1>6 DEF ToSet
<1> HIDE DEF weight
<1>8. WeightsOf(g, p)[i] = "positive" /\ i \in DOMAIN WeightsOf(g, p)
  BY <1>1, <1>6, <1>7
<1>9. \A k \in DOMAIN WeightsOf(g, p) : WeightsOf(g, p)[k] # "undefined"
  BY <1>1, <1>3, <1>4
<1> QED BY <1>8, <1>9 DEF ToSet

\* What the shader reads of a vertex: its clusters, and none behind them.
LEMMA WrittenIndices ==
  ASSUME NEW g, IsGrid(g), ClustersNum(g.by_axes) < 2^ClusterIndexBits,
         NEW found \in Seq(Cells(g)), Len(found) <= CLUSTER_INDICES_NUM
  PROVE  LET written == ClusterIndices(g, found)
         IN  {written[i] : i \in DOMAIN written} \cap Cells(g) = ToSet(found)
<1>1. PICK m \in Nat \ {0}, n \in Nat \ {0} : m = 2^ClusterIndexBits /\ n = ClustersNum(g.by_axes) /\ n < m
  BY BitsAssumption, ClustersNumType
<1>2. \A c \in 0 .. m - 1 : ClusterIndex(c) = c
  <2> SUFFICES ASSUME NEW c \in 0 .. m - 1 PROVE c % m = c
    BY <1>1 DEF ClusterIndex
  <2> QED OBVIOUS
<1>3. null_cluster_index(g) = n /\ n \notin Cells(g)
  BY <1>1, <1>2 DEF null_cluster_index, Cells
<1> DEFINE written == ClusterIndices(g, found)
<1>4. written = [i \in 1 .. 8 |-> IF i <= Len(found) THEN ClusterIndex(found[i]) ELSE n]
  BY <1>3 DEF ClusterIndices, CLUSTER_INDICES_NUM
<1>5. \A i \in 1 .. Len(found) : ClusterIndex(found[i]) = found[i] /\ found[i] \in Cells(g)
  <2> SUFFICES ASSUME NEW i \in 1 .. Len(found)
               PROVE ClusterIndex(found[i]) = found[i] /\ found[i] \in Cells(g)
    OBVIOUS
  <2>1. found[i] \in 0 .. n - 1
    BY <1>1 DEF Cells
  <2>2. found[i] \in 0 .. m - 1
    BY <1>1, <2>1
  <2> QED BY <1>1, <1>2, <2>1, <2>2 DEF Cells
<1> HIDE DEF written
<1>6. DOMAIN written = 1 .. 8
  BY <1>4
<1>7. \A i \in 1 .. 8 : written[i] \in Cells(g) => i \in DOMAIN found /\ written[i] = found[i]
  BY <1>3, <1>4, <1>5
<1>8. \A i \in DOMAIN found : i \in 1 .. 8 /\ written[i] = found[i] /\ found[i] \in Cells(g)
  BY <1>4, <1>5 DEF CLUSTER_INDICES_NUM
<1>9. {written[i] : i \in DOMAIN written} \cap Cells(g) = ToSet(found)
  BY <1>6, <1>7, <1>8 DEF ToSet
<1> QED BY <1>9 DEF written

-----------------------------------------------------------------------------
(* Meshes: where the loops of a generator stand, and what they have made.  *)

Position == [1 .. 3 -> Int]
IndexOf(s) == 0 .. VerticesCount(s) - 1
Times(x, y) == x * y

\* The numbers that the loops of a generator have made when they stand at a turn.
Strip(b, level, turn) == IF level = 0 THEN 0 ELSE 2 * Times(b + 1, level - 1) + 2 * turn
LevelsOf(s, part) == IF part = "side" THEN s.height + 1 ELSE s.cap
PartVertices(s, part) ==
  CASE part = "side" -> 0
    [] part = "top" -> Times(s.base, s.height + 1)
    [] OTHER -> Times(s.base, s.height + 1) + Times(s.base, s.cap) + 1
PartIndices(s, part) ==
  CASE part = "side" -> 0
    [] part = "top" -> Strip(s.base, s.height + 1, 0)
    [] part = "jump" -> Strip(s.base, s.height + 1, 0) + Strip(s.base, s.cap, 0) + 2 * s.base + 1
    [] OTHER -> Strip(s.base, s.height + 1, 0) + Strip(s.base, s.cap, 0) + 2 * s.base + 3

CylinderAt(s, l, n, m) ==
  /\ l \in [part : {"side", "top", "jump", "bottom"}, level : Nat, step : 0 .. s.base - 1]
  /\ l.part = "jump" => l.level = 0 /\ l.step = 0
  /\ \/ /\ l.level <= LevelsOf(s, l.part) /\ (l.level = LevelsOf(s, l.part) => l.step = 0)
        /\ n = PartVertices(s, l.part) + Times(s.base, l.level) + l.step
        /\ m = PartIndices(s, l.part) + Strip(s.base, l.level, l.step)
     \/ /\ l.part = "bottom" /\ l.level = s.cap + 1 /\ l.step = 0
        /\ n = VerticesCount(s) /\ m = IndicesCount(s)

-----------------------------------------------------------------------------
\* A turn of a generator's loop appends its vertices and its indices, and nothing else.
LEMMA Appended ==
  ASSUME NEW STATE new_vertices, NEW STATE new_indices, NEW STATE next,
         vertices \in Seq(Position), indices \in Seq(IndexOf(shape)),
         new_vertices \in Seq(Position), new_indices \in Seq(IndexOf(shape)),
         Add(new_vertices, new_indices, next)
  PROVE  /\ vertices' \in Seq(Position) /\ Len(vertices') = Len(vertices) + Len(new_vertices)
         /\ indices' \in Seq(IndexOf(shape)) /\ Len(indices') = Len(indices) + Len(new_indices)
         /\ loop' = next /\ shape' = shape
BY DEF Add

\* A product by a counter grows by its factor when the counter is incremented.
LEMMA TimesFacts ==
  ASSUME NEW x \in Nat, NEW y \in Nat
  PROVE  Times(x, y) \in Nat /\ Times(x, 0) = 0 /\ Times(x, y + 1) = Times(x, y) + x
BY DEF Times

\* A product by a smaller counter is smaller by at least the factor.
LEMMA TimesGrows ==
  ASSUME NEW x \in Nat, NEW y \in Nat, NEW z \in Nat, y < z
  PROVE  Times(x, y) + x <= Times(x, z)
<1>1. x * (y + 1) <= x * z /\ x * (y + 1) = x * y + x
  BY Monotone
<1> QED BY <1>1 DEF Times

\* How many indices of the strips of a side the next turn adds.
LEMMA StripNext ==
  ASSUME NEW b \in Nat \ {0}, NEW level \in Nat, NEW turn \in 0 .. b - 1
  PROVE  /\ Strip(b, level, turn) \in Nat
         /\ Strip(b, level, turn + 1) = Strip(b, level, turn) + (IF level = 0 THEN 0 ELSE 2)
         /\ Strip(b, level + 1, 0) = Strip(b, level, b - 1) + (IF level = 0 THEN 0 ELSE 4)
<1>1. CASE level = 0
  <2>1. Times(b + 1, 0) = 0
    BY TimesFacts
  <2> QED BY <1>1, <2>1 DEF Strip
<1>2. CASE level # 0
  <2>1. PICK j \in Nat : level = j + 1
    <3>1. level - 1 \in Nat /\ level = (level - 1) + 1
      BY <1>2
    <3> QED BY <3>1
  <2>2. Times(b + 1, j) \in Nat /\ Times(b + 1, j + 1) = Times(b + 1, j) + (b + 1)
    BY TimesFacts
  <2>3. level - 1 = j /\ (level + 1) - 1 = j + 1 /\ level + 1 # 0
    BY <2>1
  <2> QED BY <1>2, <2>2, <2>3 DEF Strip
<1> QED BY <1>1, <1>2

CylinderShape == [name : {"cylinder"}, base : DOMAIN Circle, height : Nat \ {0}, cap : Nat \ {0}]
SphereShape == [name : {"sphere"}, meridian : {n \in Nat \ {0, 1} : 2 * n \in DOMAIN Circle}]

\* bh and sh are vertices and indices of the side, bk and sk of the levels of a cap.
CylinderNumbers(s, b, h, k, bh, bk, sh, sk) ==
  /\ s.base = b /\ s.height = h /\ s.cap = k /\ s.name = "cylinder"
  /\ Times(b, h + 1) = bh /\ Times(b, k) = bk /\ bh >= b /\ bk >= b
  /\ Strip(b, h + 1, 0) = sh /\ Strip(b, k, 0) = sk
  /\ VerticesCount(s) = bh + 2 * bk + 2
  /\ IndicesCount(s) = sh + 2 * sk + 4 * b + 4

\* The counts of a cylinder, in terms of products that are no longer opened.
LEMMA CylinderCounts ==
  ASSUME NEW s \in CylinderShape
  PROVE  \E b \in Nat \ {0}, h \in Nat \ {0}, k \in Nat \ {0},
            bh \in Nat, bk \in Nat, sh \in Nat, sk \in Nat :
           CylinderNumbers(s, b, h, k, bh, bk, sh, sk)
<1>1. PICK b \in Nat \ {0}, h \in Nat \ {0}, k \in Nat \ {0} :
        s.base = b /\ s.height = h /\ s.cap = k /\ s.name = "cylinder"
  BY CircleAssumption DEF CylinderShape
<1>2. PICK bh \in Nat, bk \in Nat : Times(b, h + 1) = bh /\ Times(b, k) = bk /\ bh >= b /\ bk >= b
  <2>1. h + 1 \in Nat /\ k \in Nat /\ 0 < h + 1 /\ 0 < k /\ b \in Nat
    OBVIOUS
  <2>2. /\ Times(b, h + 1) \in Nat /\ Times(b, k) \in Nat /\ Times(b, 0) = 0
        /\ Times(b, 0) + b <= Times(b, h + 1) /\ Times(b, 0) + b <= Times(b, k)
    BY <2>1, TimesFacts, TimesGrows
  <2> QED BY <2>2
<1>3. PICK sh \in Nat, sk \in Nat : /\ Strip(b, h + 1, 0) = sh /\ Strip(b, k, 0) = sk
                                    /\ 2 * ((b + 1) * h) = sh /\ 2 * ((b + 1) * (k - 1)) = sk
  <2>1. Strip(b, h + 1, 0) \in Nat /\ Strip(b, k, 0) \in Nat
    <3>1. h + 1 \in Nat /\ k \in Nat /\ 0 \in 0 .. b - 1
      OBVIOUS
    <3> QED BY <3>1, StripNext
  <2>2. Strip(b, h + 1, 0) = 2 * ((b + 1) * h) /\ Strip(b, k, 0) = 2 * ((b + 1) * (k - 1))
    BY DEF Strip, Times
  <2> QED BY <2>1, <2>2
<1>4. VerticesCount(s) = bh + 2 * bk + 2
  <2>1. b * ((h + 1) + 2 + 2 * (k - 1)) = b * (h + 1) + b * (2 * k)
    <3>1. (h + 1) + 2 + 2 * (k - 1) = (h + 1) + 2 * k
      OBVIOUS
    <3>2. b * ((h + 1) + 2 * k) = b * (h + 1) + b * (2 * k)
      BY Distributes
    <3> QED BY <3>1, <3>2
  <2>2. b * (2 * k) = 2 * (b * k)
    OBVIOUS
  <2>3. VerticesCount(s) = b * ((h + 1) + 2 + 2 * (k - 1)) + 2
    BY <1>1 DEF VerticesCount, cylinder_vertices_count
  <2> QED BY <1>2, <2>1, <2>2, <2>3 DEF Times
<1>5. IndicesCount(s) = sh + 2 * sk + 4 * b + 4
  <2>1. 2 * (b + 1) * (h + 2 * (k - 1)) = 2 * (b + 1) * h + 2 * (b + 1) * (2 * (k - 1))
    BY Distributes
  <2>2. 2 * (b + 1) * (2 * (k - 1)) = 2 * (2 * ((b + 1) * (k - 1)))
    OBVIOUS
  <2>3. IndicesCount(s) = 2 * (b + 1) * (h + 2 * (k - 1)) + 2 * (2 * b + 1) + 2
    BY <1>1 DEF IndicesCount, cylinder_indices_count
  <2>4. 2 * (b + 1) * h = 2 * ((b + 1) * h)
    OBVIOUS
  <2> QED BY <1>3, <2>1, <2>2, <2>3, <2>4
<1>6. /\ b \in Nat \ {0} /\ h \in Nat \ {0} /\ k \in Nat \ {0}
      /\ bh \in Nat /\ bk \in Nat /\ sh \in Nat /\ sk \in Nat
  BY <1>1, <1>2, <1>3
<1>7. CylinderNumbers(s, b, h, k, bh, bk, sh, sk)
  BY <1>1, <1>2, <1>3, <1>4, <1>5 DEF CylinderNumbers
<1> QED BY <1>6, <1>7

\* The coordinates of the points of a circle.
LEMMA CircleFacts ==
  ASSUME NEW n \in DOMAIN Circle, NEW i \in 0 .. n - 1
  PROVE  Cos(n, i) \in Int /\ Sin(n, i) \in Int
<1>1. n \in Nat \ {0} /\ Circle[n] \in [1 .. n -> Int \X Int]
  BY CircleAssumption
<1>2. i + 1 \in 1 .. n
  BY <1>1
<1>3. Circle[n][i + 1] \in Int \X Int
  BY <1>1, <1>2
<1> QED BY <1>3 DEF Cos, Sin

\* A triple of integers is a position.
LEMMA PositionType ==
  ASSUME NEW x \in Int, NEW y \in Int, NEW z \in Int
  PROVE  <<x, y, z>> \in Position
BY DEF Position

\* A turn of the loops over a cylinder's rings keeps the counts.
LEMMA CylinderLevelKeeps ==
  ASSUME shape \in CylinderShape, vertices \in Seq(Position), indices \in Seq(IndexOf(shape)),
         CylinderAt(shape, loop, Len(vertices), Len(indices)), CylinderLevel
  PROVE  /\ vertices' \in Seq(Position) /\ indices' \in Seq(IndexOf(shape)) /\ shape' = shape
         /\ CylinderAt(shape, loop', Len(vertices'), Len(indices'))
<1>0. PICK b \in Nat \ {0}, h \in Nat \ {0}, k \in Nat \ {0},
           bh \in Nat, bk \in Nat, sh \in Nat, sk \in Nat :
        CylinderNumbers(shape, b, h, k, bh, bk, sh, sk)
  BY CylinderCounts
<1>1. /\ shape.base = b /\ shape.height = h /\ shape.cap = k /\ shape.name = "cylinder"
      /\ Times(b, h + 1) = bh /\ Times(b, k) = bk /\ bh >= b /\ bk >= b
      /\ VerticesCount(shape) = bh + 2 * bk + 2
      /\ b \in Nat \ {0} /\ h \in Nat \ {0} /\ k \in Nat \ {0} /\ bh \in Nat /\ bk \in Nat
  BY <1>0 DEF CylinderNumbers
<1>2. PICK part \in {"side", "top", "bottom"}, level \in Nat, turn \in 0 .. b - 1 :
        loop = [part |-> part, level |-> level, step |-> turn]
  BY <1>1 DEF CylinderAt, CylinderLevel
<1>n. /\ Strip(b, level, turn) \in Nat
      /\ Strip(b, level, turn + 1) = Strip(b, level, turn) + (IF level = 0 THEN 0 ELSE 2)
      /\ Strip(b, level + 1, 0) = Strip(b, level, b - 1) + (IF level = 0 THEN 0 ELSE 4)
  <2>1. b \in Nat \ {0} /\ level \in Nat /\ turn \in 0 .. b - 1
    BY <1>1, <1>2
  <2> QED BY <2>1, StripNext
<1>3. /\ b \in Nat \ {0} /\ h \in Nat \ {0} /\ k \in Nat \ {0} /\ bh \in Nat /\ bk \in Nat
      /\ bh >= b /\ bk >= b /\ level \in Nat /\ turn \in 0 .. b - 1
  BY <1>1, <1>2
<1>4. LevelsOf(shape, part) = (IF part = "side" THEN h + 1 ELSE k) /\ level < LevelsOf(shape, part)
  BY <1>1, <1>2 DEF LevelsOf, levels_count, CylinderLevel
<1>5. PICK levels \in Nat \ {0}, all \in Nat :
        /\ levels = LevelsOf(shape, part) /\ all = Times(b, levels)
        /\ all = (IF part = "side" THEN bh ELSE bk)
  <2>1. CASE part = "side"
    BY <1>1, <1>3, <1>4, <2>1
  <2>2. CASE part # "side"
    BY <1>1, <1>3, <1>4, <2>2
  <2> QED BY <2>1, <2>2
<1>6. PICK bl \in Nat, st \in Nat : bl = Times(b, level) /\ st = Strip(b, level, turn)
  BY <1>3, <1>n, TimesFacts
<1>7. level < levels /\ bl + b <= all /\ levels \in Nat /\ bl \in Nat /\ all \in Nat /\ st \in Nat
  BY <1>3, <1>4, <1>5, <1>6, TimesGrows
<1>8. PICK pv \in Nat, pi \in Nat :
        /\ pv = PartVertices(shape, part) /\ pi = PartIndices(shape, part)
        /\ \/ part = "side" /\ pv = 0 /\ all = bh
           \/ part # "side" /\ pv \in {bh, bh + bk + 1} /\ all = bk
  <2>1. PartIndices(shape, part) \in Nat
    <3>1. sh \in Nat /\ sk \in Nat
      BY <1>0
    <3>2. PartIndices(shape, part) \in {0, sh, sh + sk + 2 * b + 3}
      BY <1>0, <1>2 DEF PartIndices, CylinderNumbers
    <3> QED BY <1>3, <3>1, <3>2
  <2>2. CASE part = "side"
    BY <1>5, <2>1, <2>2 DEF PartVertices
  <2>3. CASE part # "side"
    <3>1. PartVertices(shape, part) \in {bh, bh + bk + 1}
      BY <1>1, <1>2, <2>3 DEF PartVertices
    <3> QED BY <1>3, <1>5, <2>1, <2>3, <3>1
  <2> QED BY <2>2, <2>3
<1>9. PICK n \in Nat, m \in Nat : vertex = n /\ Len(vertices) = n /\ Len(indices) = m
  BY DEF vertex
<1>10. n = pv + bl + turn /\ m = pi + st
  <2>1. ~ (part = "bottom" /\ level = shape.cap + 1)
    BY <1>1, <1>3, <1>4
  <2>2. Len(vertices) = pv + bl + turn /\ Len(indices) = pi + st
    BY <1>1, <1>2, <1>6, <1>8, <2>1 DEF CylinderAt
  <2> QED BY <1>9, <2>2
<1>11. PICK count \in Nat : VerticesCount(shape) = count /\ n < count
  <2>1. PICK count \in Nat : VerticesCount(shape) = count /\ count = bh + 2 * bk + 2
    <3>1. bh + 2 * bk + 2 \in Nat
      BY <1>3
    <3> QED BY <1>1, <3>1
  <2>2. pv \in Nat /\ ((pv = 0 /\ all = bh) \/ (pv \in {bh, bh + bk + 1} /\ all = bk))
    BY <1>8
  <2>3. n < bh + 2 * bk + 2
    BY <1>3, <1>7, <1>10, <2>2
  <2> QED BY <2>1, <2>3
<1>12. /\ n \in Nat /\ m \in Nat /\ pv \in Nat /\ pi \in Nat /\ count \in Nat /\ n < count
       /\ (part # "side" => pv >= b)
  <2>1. part # "side" => pv \in {bh, bh + bk + 1}
    BY <1>8
  <2>2. pv \in Nat /\ pi \in Nat
    BY <1>8
  <2> QED BY <1>3, <1>9, <1>11, <2>1, <2>2
<1> DEFINE position == IF loop.level = 0 /\ loop.part # "side" THEN CopiedPosition ELSE LevelPosition
<1>13. position \in Position
  <2>1. LevelPosition \in Position
    <3>1. Cos(shape.base, turn) \in Int /\ Sin(shape.base, turn) \in Int
      BY <1>1, CircleFacts DEF CylinderShape
    <3> DEFINE radius == IF loop.part = "side" THEN shape.cap ELSE shape.cap - loop.level
               z == IF loop.part = "side" THEN loop.level ELSE CapHeight
    <3>2. radius \in Int /\ z \in Int
      BY <1>1, <1>2 DEF CapHeight
    <3>3. LevelPosition = <<radius * Cos(shape.base, turn), radius * Sin(shape.base, turn), z>>
      BY <1>2 DEF LevelPosition
    <3> HIDE DEF radius, z
    <3>4. radius * Cos(shape.base, turn) \in Int /\ radius * Sin(shape.base, turn) \in Int
      BY <3>1, <3>2
    <3> QED BY <3>2, <3>3, <3>4, PositionType
  <2>2. ASSUME level = 0, part # "side" PROVE CopiedPosition \in Position
    <3>1. bl = 0
      BY <1>3, <1>6, <2>2, TimesFacts
    <3>2. n - b + 1 \in 1 .. n /\ turn + 1 \in 1 .. n
      BY <1>3, <1>10, <1>12, <2>2, <3>1
    <3>3. (IF loop.part = "top" THEN vertex - shape.base ELSE loop.step) + 1 \in 1 .. Len(vertices)
      BY <1>1, <1>2, <1>9, <3>2
    <3> QED BY <3>3 DEF CopiedPosition
  <2> QED BY <1>2, <2>1, <2>2
<1>14. PICK new \in Nat : /\ LevelIndices \in Seq(IndexOf(shape)) /\ Len(LevelIndices) = new
                          /\ new = IF level = 0 THEN 0 ELSE IF turn = b - 1 THEN 4 ELSE 2
  <2>1. CASE level = 0
    BY <1>2, <2>1 DEF LevelIndices
  <2>2. CASE level # 0
    <3>1. bl >= b
      <4>1. Times(b, 0) = 0 /\ Times(b, 0) + b <= Times(b, level)
        <5>1. b \in Nat /\ level \in Nat /\ 0 \in Nat /\ 0 < level
          BY <1>3, <2>2
        <5> QED BY <5>1, TimesFacts, TimesGrows
      <4> QED BY <1>3, <1>6, <4>1
    <3>2. /\ n \in 0 .. count - 1 /\ n - b \in 0 .. count - 1 /\ n - b + 1 \in 0 .. count - 1
          /\ turn = b - 1 => n - 2 * b + 1 \in 0 .. count - 1
      BY <1>3, <1>7, <1>10, <1>12, <3>1
    <3>3. LevelIndices = <<n, n - b>>
             \o (IF turn = b - 1 THEN <<n - b + 1, n - 2 * b + 1>> ELSE <<>>)
      BY <1>1, <1>2, <1>9, <2>2 DEF LevelIndices
    <3>4. IndexOf(shape) = 0 .. count - 1
      BY <1>11 DEF IndexOf
    <3>5. CASE turn = b - 1
      BY <2>2, <3>2, <3>3, <3>4, <3>5
    <3>6. CASE turn # b - 1
      BY <2>2, <3>2, <3>3, <3>4, <3>6
    <3> QED BY <3>5, <3>6
  <2> QED BY <2>1, <2>2
<1>15. /\ vertices' \in Seq(Position) /\ Len(vertices') = n + 1
       /\ indices' \in Seq(IndexOf(shape)) /\ Len(indices') = m + new
       /\ loop' = NextLevelStep /\ shape' = shape
  <2>1. Add(<<position>>, LevelIndices, NextLevelStep)
    BY DEF CylinderLevel
  <2> HIDE DEF position
  <2>2. <<position>> \in Seq(Position) /\ Len(<<position>>) = 1
    BY <1>13
  <2> QED BY <1>9, <1>14, <2>1, <2>2, Appended
<1> HIDE DEF position
<1>16. new = (IF level = 0 THEN 0 ELSE IF turn = b - 1 THEN 4 ELSE 2)
  BY <1>14
<1>17. CASE turn + 1 < b
  <2>1. loop' = [part |-> part, level |-> level, step |-> turn + 1]
    BY <1>1, <1>2, <1>15, <1>17 DEF NextLevelStep
  <2>2. Strip(b, level, turn + 1) = st + new /\ turn + 1 \in 0 .. b - 1
    BY <1>3, <1>6, <1>16, <1>17, <1>n
  <2>3. n + 1 = pv + bl + (turn + 1) /\ m + new = pi + (st + new)
    BY <1>3, <1>7, <1>10, <1>12, <1>16
  <2>4. CylinderAt(shape, [part |-> part, level |-> level, step |-> turn + 1], n + 1, m + new)
    <3>1. level # LevelsOf(shape, part) /\ level <= LevelsOf(shape, part)
      BY <1>4, <1>5, <1>7
    <3>2. /\ n + 1 = PartVertices(shape, part) + Times(shape.base, level) + (turn + 1)
          /\ m + new = PartIndices(shape, part) + Strip(shape.base, level, turn + 1)
      BY <1>1, <1>6, <1>8, <2>2, <2>3
    <3> QED BY <1>1, <1>2, <1>3, <2>2, <3>1, <3>2 DEF CylinderAt
  <2> QED BY <1>15, <2>1, <2>4
<1>18. CASE turn + 1 = b
  <2>1. loop' = [part |-> part, level |-> level + 1, step |-> 0]
    <3>1. loop' = [loop EXCEPT !.step = 0, !.level = @ + 1]
      BY <1>1, <1>2, <1>15, <1>18 DEF NextLevelStep
    <3> QED BY <1>2, <3>1
  <2>2. Strip(b, level + 1, 0) = st + new /\ 0 \in 0 .. b - 1
    <3>1. /\ Strip(b, level + 1, 0) = Strip(b, level, turn) + (IF level = 0 THEN 0 ELSE 4)
          /\ turn = b - 1
      BY <1>3, <1>18, <1>n
    <3> QED BY <1>3, <1>6, <1>16, <3>1
  <2>3. Times(b, level + 1) = bl + b
    BY <1>3, <1>6, TimesFacts
  <2>4. n + 1 = pv + (bl + b) + 0 /\ m + new = pi + (st + new)
    BY <1>3, <1>7, <1>10, <1>12, <1>16, <1>18
  <2>5. CylinderAt(shape, [part |-> part, level |-> level + 1, step |-> 0], n + 1, m + new)
    <3>1. level + 1 <= LevelsOf(shape, part)
      BY <1>3, <1>4, <1>5, <1>7
    <3>2. /\ n + 1 = PartVertices(shape, part) + Times(shape.base, level + 1) + 0
          /\ m + new = PartIndices(shape, part) + Strip(shape.base, level + 1, 0)
      BY <1>1, <1>6, <1>8, <2>2, <2>3, <2>4
    <3> QED BY <1>1, <1>2, <1>3, <2>2, <3>1, <3>2 DEF CylinderAt
  <2> QED BY <1>15, <2>1, <2>5
<1> QED BY <1>3, <1>15, <1>17, <1>18

\* The last line of the side, which closes it, keeps the counts.
LEMMA CylinderSideEndKeeps ==
  ASSUME shape \in CylinderShape, vertices \in Seq(Position), indices \in Seq(IndexOf(shape)),
         CylinderAt(shape, loop, Len(vertices), Len(indices)), CylinderSideEnd
  PROVE  /\ vertices' \in Seq(Position) /\ indices' \in Seq(IndexOf(shape)) /\ shape' = shape
         /\ CylinderAt(shape, loop', Len(vertices'), Len(indices'))
<1>1. PICK b \in Nat \ {0}, h \in Nat \ {0}, k \in Nat \ {0},
           bh \in Nat, bk \in Nat, sh \in Nat, sk \in Nat :
        CylinderNumbers(shape, b, h, k, bh, bk, sh, sk)
  BY CylinderCounts
<1>2. b \in Nat \ {0} /\ h \in Nat \ {0} /\ k \in Nat \ {0} /\ bh \in Nat /\ sh \in Nat
  BY <1>1
<1>3. Times(b, 0) = 0 /\ Strip(b, 0, 0) = 0
  BY <1>2, TimesFacts DEF Strip
<1>4. Len(vertices) = bh /\ Len(indices) = sh
  <2>1. loop.part = "side" /\ loop.level = h + 1 /\ loop.level = LevelsOf(shape, "side") /\ loop.step = 0
    BY <1>1, <1>2 DEF CylinderAt, CylinderSideEnd, levels_count, LevelsOf, CylinderNumbers
  <2>2. /\ Len(vertices) = PartVertices(shape, "side") + Times(b, h + 1) + 0
        /\ Len(indices) = PartIndices(shape, "side") + Strip(b, h + 1, 0)
    BY <1>1, <2>1 DEF CylinderAt, CylinderNumbers
  <2> QED BY <1>1, <1>2, <2>2 DEF PartVertices, PartIndices, CylinderNumbers
<1>5. /\ vertices' \in Seq(Position) /\ Len(vertices') = bh
      /\ indices' \in Seq(IndexOf(shape)) /\ Len(indices') = sh
      /\ loop' = [part |-> "top", level |-> 0, step |-> 0] /\ shape' = shape
  BY <1>4 DEF CylinderSideEnd, Add
<1>6. CylinderAt(shape, [part |-> "top", level |-> 0, step |-> 0], bh, sh)
  <2>1. 0 \in 0 .. b - 1 /\ 0 <= LevelsOf(shape, "top") /\ 0 # LevelsOf(shape, "top")
    BY <1>1, <1>2 DEF LevelsOf, CylinderNumbers
  <2>2. bh = PartVertices(shape, "top") + Times(b, 0) + 0 /\ sh = PartIndices(shape, "top") + Strip(b, 0, 0)
    BY SMTT(30), <1>1, <1>2, <1>3 DEF PartVertices, PartIndices, CylinderNumbers
  <2>3. shape.base = b
    BY <1>1 DEF CylinderNumbers
  <2> QED BY <2>1, <2>2, <2>3 DEF CylinderAt
<1> QED BY <1>5, <1>6

\* The jump to the top's center keeps the counts.
LEMMA CylinderJumpKeeps ==
  ASSUME shape \in CylinderShape, vertices \in Seq(Position), indices \in Seq(IndexOf(shape)),
         CylinderAt(shape, loop, Len(vertices), Len(indices)), CylinderJump
  PROVE  /\ vertices' \in Seq(Position) /\ indices' \in Seq(IndexOf(shape)) /\ shape' = shape
         /\ CylinderAt(shape, loop', Len(vertices'), Len(indices'))
<1>1. PICK b \in Nat \ {0}, h \in Nat \ {0}, k \in Nat \ {0},
           bh \in Nat, bk \in Nat, sh \in Nat, sk \in Nat :
        CylinderNumbers(shape, b, h, k, bh, bk, sh, sk)
  BY CylinderCounts
<1>2. /\ b \in Nat \ {0} /\ h \in Nat \ {0} /\ k \in Nat \ {0}
      /\ bh \in Nat /\ bk \in Nat /\ sh \in Nat /\ sk \in Nat
  BY <1>1
<1>3. Times(b, 0) = 0 /\ Strip(b, 0, 0) = 0
  BY <1>2, TimesFacts DEF Strip
<1>4. PICK n \in Nat, m \in Nat : /\ Len(vertices) = n /\ Len(indices) = m
                                  /\ n = bh + bk + 1 /\ m = sh + sk + 2 * b + 1
  <2>1. loop.part = "jump" /\ loop.level = 0 /\ loop.step = 0
    BY DEF CylinderAt, CylinderJump
  <2>2. Len(vertices) = PartVertices(shape, "jump") + 0 + 0 /\ Len(indices) = PartIndices(shape, "jump") + 0
    BY <1>1, <1>3, <2>1 DEF CylinderAt, CylinderNumbers
  <2>3. Len(vertices) = bh + bk + 1 /\ Len(indices) = sh + sk + 2 * b + 1
    BY SMTT(30), <1>1, <1>2, <2>2 DEF PartVertices, PartIndices, CylinderNumbers
  <2> QED BY <2>3
<1>5. n \in 0 .. VerticesCount(shape) - 1
  <2>1. VerticesCount(shape) = bh + 2 * bk + 2
    BY <1>1 DEF CylinderNumbers
  <2> QED BY <1>2, <1>4, <2>1
<1>6. /\ vertices' \in Seq(Position) /\ Len(vertices') = n
      /\ indices' \in Seq(IndexOf(shape)) /\ Len(indices') = m + 2
      /\ loop' = [part |-> "bottom", level |-> 0, step |-> 0] /\ shape' = shape
  <2> DEFINE new == [i \in 1 .. VERTICES_PER_TRIANGLE - 1 |-> vertex]
  <2>1. new \in Seq(IndexOf(shape)) /\ Len(new) = 2
    BY <1>4, <1>5 DEF IndexOf, VERTICES_PER_TRIANGLE, vertex
  <2>2. Add(<<>>, new, [part |-> "bottom", level |-> 0, step |-> 0])
    BY DEF CylinderJump
  <2> HIDE DEF new
  <2>3. vertices' = vertices /\ indices' = indices \o new /\ shape' = shape
        /\ loop' = [part |-> "bottom", level |-> 0, step |-> 0]
    BY <2>2 DEF Add
  <2>4. ASSUME NEW S, NEW s \in Seq(S), NEW t \in Seq(S)
        PROVE  s \o t \in Seq(S) /\ Len(s \o t) = Len(s) + Len(t)
    OBVIOUS
  <2>5. indices \o new \in Seq(IndexOf(shape)) /\ Len(indices \o new) = Len(indices) + Len(new)
    BY <2>1, <2>4
  <2> QED BY <1>4, <2>1, <2>3, <2>5
<1>7. CylinderAt(shape, [part |-> "bottom", level |-> 0, step |-> 0], n, m + 2)
  <2>1. 0 \in 0 .. b - 1 /\ 0 <= LevelsOf(shape, "bottom") /\ 0 # LevelsOf(shape, "bottom")
    BY <1>1, <1>2 DEF LevelsOf, CylinderNumbers
  <2>2. n = PartVertices(shape, "bottom") + Times(b, 0) + 0 /\ m + 2 = PartIndices(shape, "bottom") + Strip(b, 0, 0)
    <3>1. PartVertices(shape, "bottom") = bh + bk + 1 /\ PartIndices(shape, "bottom") = sh + sk + 2 * b + 3
      BY <1>1, <1>2 DEF PartVertices, PartIndices, CylinderNumbers
    <3> QED BY <1>2, <1>3, <1>4, <3>1
  <2>3. shape.base = b
    BY <1>1 DEF CylinderNumbers
  <2> QED BY <2>1, <2>2, <2>3 DEF CylinderAt
<1> QED BY <1>6, <1>7

\* The center of the cap, with its fan of triangles, keeps the counts.
LEMMA CylinderCenterKeeps ==
  ASSUME shape \in CylinderShape, vertices \in Seq(Position), indices \in Seq(IndexOf(shape)),
         CylinderAt(shape, loop, Len(vertices), Len(indices)), CylinderCenter
  PROVE  /\ vertices' \in Seq(Position) /\ indices' \in Seq(IndexOf(shape)) /\ shape' = shape
         /\ CylinderAt(shape, loop', Len(vertices'), Len(indices'))
<1>1. PICK b \in Nat \ {0}, h \in Nat \ {0}, k \in Nat \ {0},
           bh \in Nat, bk \in Nat, sh \in Nat, sk \in Nat :
        CylinderNumbers(shape, b, h, k, bh, bk, sh, sk)
  BY CylinderCounts
<1>2. /\ b \in Nat \ {0} /\ h \in Nat \ {0} /\ k \in Nat \ {0}
      /\ bh \in Nat /\ bk \in Nat /\ sh \in Nat /\ sk \in Nat /\ bk >= b
  BY <1>1 DEF CylinderNumbers
<1>3. shape.base = b /\ shape.cap = k
  BY <1>1 DEF CylinderNumbers
<1>4. PICK part \in {"top", "bottom"} : loop = [part |-> part, level |-> k, step |-> 0]
  <2>1. LevelsOf(shape, loop.part) = k /\ levels_count = k
    BY <1>3 DEF LevelsOf, levels_count, CylinderCenter
  <2>2. loop \in [part : {"side", "top", "jump", "bottom"}, level : Nat, step : 0 .. b - 1] /\ loop.level = k
        /\ loop.part \in {"top", "bottom"}
    BY <1>3, <2>1 DEF CylinderAt, CylinderCenter
  <2>3. loop.step = 0
    BY <1>2, <1>3, <2>1, <2>2 DEF CylinderAt
  <2> QED BY <2>2, <2>3
<1>5. PICK pv \in Nat, pi \in Nat :
        /\ pv = (IF part = "top" THEN bh ELSE bh + bk + 1)
        /\ pi = (IF part = "top" THEN sh ELSE sh + sk + 2 * b + 3)
  <2>1. bh + bk + 1 \in Nat /\ sh + sk + 2 * b + 3 \in Nat
    BY <1>2
  <2> QED BY <1>2, <2>1
<1>6. PartVertices(shape, part) = pv /\ PartIndices(shape, part) = pi
  BY <1>1, <1>4, <1>5 DEF PartVertices, PartIndices, CylinderNumbers
<1>7. PICK n \in Nat, m \in Nat : /\ Len(vertices) = n /\ vertex = n /\ Len(indices) = m
                                  /\ n = pv + bk /\ m = pi + sk
  <2>1. Times(b, k) = bk /\ Strip(b, k, 0) = sk
    BY <1>1 DEF CylinderNumbers
  <2>2. Len(vertices) = pv + bk + 0 /\ Len(indices) = pi + sk
    BY <1>2, <1>3, <1>4, <1>6, <2>1 DEF CylinderAt
  <2>3. pv + bk \in Nat /\ pi + sk \in Nat /\ pv + bk + 0 = pv + bk
    BY <1>2, <1>5
  <2> QED BY <2>2, <2>3 DEF vertex
<1>8. /\ VerticesCount(shape) = bh + 2 * bk + 2 /\ IndicesCount(shape) = sh + 2 * sk + 4 * b + 4
      /\ IndexOf(shape) = 0 .. bh + 2 * bk + 1
  <2>1. VerticesCount(shape) = bh + 2 * bk + 2 /\ IndicesCount(shape) = sh + 2 * sk + 4 * b + 4
    BY <1>1 DEF CylinderNumbers
  <2>2. (bh + 2 * bk + 2) - 1 = bh + 2 * bk + 1
    BY <1>2
  <2> QED BY <2>1, <2>2 DEF IndexOf
<1> DEFINE fan == [i \in 1 .. 2 * shape.base |->
                     IF i % 2 = 1 THEN vertex ELSE vertex - shape.base + (i \div 2) - 1]
           next == IF loop.part = "top" THEN [part |-> "jump", level |-> 0, step |-> 0]
                   ELSE [loop EXCEPT !.level = @ + 1]
<1>9. Append(fan, vertex - shape.base) \in Seq(IndexOf(shape)) /\ Len(Append(fan, vertex - shape.base)) = 2 * b + 1
  <2>1. n \in IndexOf(shape) /\ n - b \in IndexOf(shape)
    BY <1>2, <1>5, <1>7, <1>8
  <2>2. \A i \in 1 .. 2 * b : fan[i] \in IndexOf(shape)
    <3>1. TAKE i \in 1 .. 2 * b
    <3>2. CASE i % 2 = 1
      BY <1>3, <1>7, <2>1, <3>2
    <3>3. CASE i % 2 # 1
      <4>1. PICK q \in Int : q = i \div 2 /\ q \in 1 .. b
        BY <1>2, <3>1, <3>3
      <4>2. n - b + q - 1 \in 0 .. bh + 2 * bk + 1
        BY <1>2, <1>5, <1>7, <4>1
      <4> QED BY <1>3, <1>7, <1>8, <3>3, <4>1, <4>2
    <3> QED BY <3>2, <3>3
  <2>3. fan \in [1 .. 2 * b -> IndexOf(shape)]
    BY <1>3, <2>2
  <2> HIDE DEF fan
  <2>4. 2 * b \in Nat
    BY <1>2
  <2> QED BY <1>3, <1>7, <2>1, <2>3, <2>4
<1>10. /\ vertices' \in Seq(Position) /\ Len(vertices') = n + 1
       /\ indices' \in Seq(IndexOf(shape)) /\ Len(indices') = m + (2 * b + 1)
       /\ loop' = next /\ shape' = shape
  <2>1. << <<0, 0, CapHeight>> >> \in Seq(Position) /\ Len(<< <<0, 0, CapHeight>> >>) = 1
    <3>1. CapHeight \in Int
      BY <1>1, <1>2 DEF CapHeight, CylinderNumbers
    <3> QED BY <3>1, PositionType
  <2>2. Add(<< <<0, 0, CapHeight>> >>, Append(fan, vertex - shape.base), next)
    BY DEF CylinderCenter
  <2> HIDE DEF fan, next
  <2> QED BY <1>7, <1>9, <2>1, <2>2, Appended
<1>11. CASE part = "top"
  <2>1. next = [part |-> "jump", level |-> 0, step |-> 0]
    BY <1>4, <1>11
  <2>2. CylinderAt(shape, [part |-> "jump", level |-> 0, step |-> 0], n + 1, m + (2 * b + 1))
    <3>1. 0 \in 0 .. b - 1 /\ 0 <= LevelsOf(shape, "jump") /\ 0 # LevelsOf(shape, "jump")
      BY <1>2, <1>3 DEF LevelsOf
    <3>2. /\ n + 1 = PartVertices(shape, "jump") + Times(b, 0) + 0
          /\ m + (2 * b + 1) = PartIndices(shape, "jump") + Strip(b, 0, 0)
      <4>1. PartVertices(shape, "jump") = bh + bk + 1 /\ PartIndices(shape, "jump") = sh + sk + 2 * b + 1
        BY <1>1, <1>2 DEF PartVertices, PartIndices, CylinderNumbers
      <4>2. Times(b, 0) = 0 /\ Strip(b, 0, 0) = 0
        BY <1>2, TimesFacts DEF Strip
      <4> QED BY <1>2, <1>5, <1>7, <1>11, <4>1, <4>2
    <3> QED BY <1>3, <3>1, <3>2 DEF CylinderAt
  <2> HIDE DEF next
  <2> QED BY <1>10, <2>1, <2>2
<1>12. CASE part = "bottom"
  <2>1. next = [part |-> "bottom", level |-> k + 1, step |-> 0]
    BY <1>4, <1>12
  <2>2. CylinderAt(shape, [part |-> "bottom", level |-> k + 1, step |-> 0], n + 1, m + (2 * b + 1))
    <3>1. n + 1 = VerticesCount(shape) /\ m + (2 * b + 1) = IndicesCount(shape)
      BY <1>2, <1>5, <1>7, <1>8, <1>12
    <3>2. 0 \in 0 .. b - 1 /\ k + 1 \in Nat
      BY <1>2
    <3> QED BY <1>3, <3>1, <3>2 DEF CylinderAt
  <2> HIDE DEF next
  <2> QED BY <1>10, <2>1, <2>2
<1> QED BY <1>4, <1>11, <1>12

\* Rings of vertices between the poles: the loops stand at one of a ring, or at a pole.
SphereAt(s, l, n, m) ==
  LET k == s.meridian
      around == 2 * k
  IN  /\ l \in [theta : 0 .. k + 1, phi : 0 .. around - 1]
      /\ \/ l.theta = 0 /\ l.phi = 0 /\ n = 0 /\ m = 0
         \/ /\ l.theta \in 1 .. k - 1 /\ n = 1 + Times(around, l.theta - 1) + l.phi
            /\ m = IF l.theta = 1 THEN 3 * l.phi
                   ELSE 3 * around + 6 * (Times(around, l.theta - 2) + l.phi)
         \/ /\ l.theta = k /\ n = 1 + Times(around, k - 1) + (IF l.phi = 0 THEN 0 ELSE 1)
            /\ m = 3 * around + 6 * Times(around, k - 2) + 3 * l.phi
         \/ l.theta = k + 1 /\ l.phi = 0 /\ n = VerticesCount(s) /\ m = IndicesCount(s)

SphereNumbers(s, k, around, v, i) ==
  /\ s.name = "sphere" /\ s.meridian = k /\ 2 * k = around /\ 2 * s.meridian = around
  /\ around \in DOMAIN Circle /\ k >= 2 /\ v >= around
  /\ Times(around, k - 1) = v /\ Times(around, k - 2) = i /\ v = i + around
  /\ VerticesCount(s) = 2 + v /\ IndicesCount(s) = 6 * around + 6 * i
  /\ IndexOf(s) = 0 .. v + 1

\* The counts of a sphere, in terms of products that are no longer opened.
LEMMA SphereCounts ==
  ASSUME NEW s \in SphereShape
  PROVE  \E k \in Nat, around \in Nat, v \in Nat, i \in Nat : SphereNumbers(s, k, around, v, i)
<1>1. PICK k \in Nat : s.meridian = k /\ k >= 2 /\ 2 * k \in DOMAIN Circle /\ s.name = "sphere"
  BY DEF SphereShape
<1>2. PICK around \in Nat : around = 2 * k
  BY <1>1
<1>3. PICK j \in Nat : k = j + 2
  <2>1. k - 2 \in Nat /\ k = (k - 2) + 2
    BY <1>1
  <2> QED BY <2>1
<1>4. PICK i \in Nat, v \in Nat : i = Times(around, j) /\ v = Times(around, j + 1) /\ v = i + around
  <2>1. Times(around, j) \in Nat /\ Times(around, j + 1) = Times(around, j) + around
    BY <1>2, <1>3, TimesFacts
  <2>2. Times(around, j) + around \in Nat
    BY <1>2, <2>1
  <2> QED BY <2>1, <2>2
<1>5. k - 2 = j /\ k - 1 = j + 1
  BY <1>3
<1>6. VerticesCount(s) = 2 + v
  <2>1. VerticesCount(s) = 2 + (j + 1) * 2 * k
    BY <1>1, <1>5 DEF VerticesCount, sphere_vertices_count
  <2>2. (j + 1) * 2 * k = (2 * k) * (j + 1)
    BY <1>1, <1>3
  <2> QED BY <1>2, <1>4, <2>1, <2>2 DEF Times
<1>7. IndicesCount(s) = 6 * around + 6 * i
  <2>1. IndicesCount(s) = 3 * (4 * k + 2 * j * 2 * k)
    BY <1>1, <1>5 DEF IndicesCount, sphere_indices_count
  <2>2. 2 * j * 2 * k = 2 * ((2 * k) * j)
    BY <1>1, <1>3
  <2>3. IndicesCount(s) = 3 * (4 * k + 2 * i)
    BY <1>2, <1>4, <2>1, <2>2 DEF Times
  <2> QED BY <1>1, <1>2, <1>4, <2>3
<1>8. (2 + v) - 1 = v + 1 /\ v >= around
  BY <1>2, <1>4
<1>9. SphereNumbers(s, k, around, v, i)
  BY <1>1, <1>2, <1>4, <1>5, <1>6, <1>7, <1>8 DEF SphereNumbers, IndexOf
<1> QED BY <1>1, <1>2, <1>4, <1>9

\* A turn of the loops over a sphere keeps the counts.
LEMMA SphereVertexKeeps ==
  ASSUME shape \in SphereShape, vertices \in Seq(Position), indices \in Seq(IndexOf(shape)),
         SphereAt(shape, loop, Len(vertices), Len(indices)), SphereVertex
  PROVE  /\ vertices' \in Seq(Position) /\ indices' \in Seq(IndexOf(shape)) /\ shape' = shape
         /\ SphereAt(shape, loop', Len(vertices'), Len(indices'))
<1>1. PICK k \in Nat, around \in Nat, v \in Nat, i \in Nat : SphereNumbers(shape, k, around, v, i)
  BY SphereCounts
<1>2. /\ k \in Nat /\ around \in Nat /\ v \in Nat /\ i \in Nat
      /\ 2 * k = around /\ k >= 2 /\ v >= around /\ v = i + around
  BY <1>1 DEF SphereNumbers
<1>3. shape.meridian = k /\ around \in DOMAIN Circle /\ IndexOf(shape) = 0 .. v + 1
  BY <1>1 DEF SphereNumbers
<1>4. PICK theta \in 0 .. k, phi \in 0 .. around - 1 :
        /\ loop = [theta |-> theta, phi |-> phi]
        /\ theta = 0 => phi = 0
  <2>1. loop \in [theta : 0 .. k + 1, phi : 0 .. around - 1] /\ loop.theta <= k
    BY <1>2, <1>3 DEF SphereAt, SphereVertex
  <2>2. loop.theta = 0 => loop.phi = 0
    BY <1>2, <1>3 DEF SphereAt
  <2> QED BY <1>2, <2>1, <2>2
<1>5. /\ theta \in 0 .. k /\ phi \in 0 .. around - 1 /\ around - 1 \in Nat
  BY <1>2, <1>4
<1>6. PICK n \in Nat, m \in Nat : Len(vertices) = n /\ vertex = n /\ Len(indices) = m
  BY DEF vertex
<1>7. \/ theta = 0 /\ phi = 0 /\ n = 0 /\ m = 0
      \/ /\ theta \in 1 .. k - 1 /\ n = 1 + Times(around, theta - 1) + phi
         /\ m = IF theta = 1 THEN 3 * phi ELSE 3 * around + 6 * (Times(around, theta - 2) + phi)
      \/ /\ theta = k /\ n = 1 + v + (IF phi = 0 THEN 0 ELSE 1) /\ m = 3 * around + 6 * i + 3 * phi
  <2>1. SphereAt(shape, [theta |-> theta, phi |-> phi], n, m)
    BY <1>4, <1>6
  <2>2. 2 * shape.meridian = around /\ Times(around, k - 1) = v /\ Times(around, k - 2) = i
    BY <1>1 DEF SphereNumbers
  <2>3. theta # k + 1
    BY <1>5
  <2> QED BY <1>3, <2>1, <2>2, <2>3 DEF SphereAt
<1> DEFINE first == loop.phi = 0
           add_vertex == loop.theta # k \/ first
           last == IF add_vertex THEN vertex ELSE vertex - 1
           over == last - around + (IF add_vertex THEN 0 ELSE loop.phi)
           back == last - 1 + (IF first THEN around ELSE 0)
           over_back == over - 1 + (IF first THEN around ELSE 0)
           position == <<Sin(around, loop.theta) * Cos(around, loop.phi),
                         Sin(around, loop.theta) * Sin(around, loop.phi),
                         Cos(around, loop.theta) * Cos(around, 0)>>
           new == IF add_vertex THEN <<position>> ELSE <<>>
           triangles == CASE loop.theta = 0 -> <<>>
                          [] loop.theta = 1 -> <<back, last, 0>>
                          [] loop.theta = k /\ k # 1 -> <<over_back, last, over>>
                          [] OTHER -> <<back, last, over, back, over, over_back>>
           next == IF loop.theta = 0 \/ loop.phi + 1 = around
                   THEN [theta |-> loop.theta + 1, phi |-> 0] ELSE [loop EXCEPT !.phi = @ + 1]
<1>8. Add(new, triangles, next)
  <2>1. 2 * shape.meridian = around
    BY <1>1 DEF SphereNumbers
  <2> QED BY <1>3, <2>1 DEF SphereVertex
<1>9. position \in Position
  <2>1. theta \in 0 .. around - 1 /\ phi \in 0 .. around - 1 /\ 0 \in 0 .. around - 1
    BY <1>2, <1>5
  <2>2. /\ Sin(around, theta) \in Int /\ Cos(around, theta) \in Int
        /\ Sin(around, phi) \in Int /\ Cos(around, phi) \in Int /\ Cos(around, 0) \in Int
    BY <1>3, <2>1, CircleFacts
  <2>3. \A x \in Int, y \in Int : x * y \in Int
    OBVIOUS
  <2> QED BY <1>4, <2>2, <2>3, PositionType
<1>10. PICK dn \in 0 .. 1 : /\ new \in Seq(Position) /\ Len(new) = dn
                            /\ dn = IF theta # k \/ phi = 0 THEN 1 ELSE 0
  <2> HIDE DEF position
  <2> QED BY <1>4, <1>9
<1> HIDE DEF position, new
<1>11. dn \in 0 .. 1 /\ dn = (IF theta # k \/ phi = 0 THEN 1 ELSE 0)
  BY <1>10
<1>12. /\ theta = 0 \/ phi + 1 = around => next = [theta |-> theta + 1, phi |-> 0]
       /\ theta # 0 /\ phi + 1 # around => next = [theta |-> theta, phi |-> phi + 1]
  BY <1>4
<1>13. ASSUME NEW dm \in Nat, triangles \in Seq(IndexOf(shape)), Len(triangles) = dm,
              SphereAt(shape, next, n + dn, m + dm)
       PROVE  /\ vertices' \in Seq(Position) /\ indices' \in Seq(IndexOf(shape)) /\ shape' = shape
              /\ SphereAt(shape, loop', Len(vertices'), Len(indices'))
  <2> HIDE DEF triangles, next
  <2>1. /\ vertices' \in Seq(Position) /\ Len(vertices') = Len(vertices) + Len(new)
        /\ indices' \in Seq(IndexOf(shape)) /\ Len(indices') = Len(indices) + Len(triangles)
        /\ loop' = next /\ shape' = shape
    BY <1>8, <1>10, <1>13, Appended
  <2> QED BY <1>6, <1>10, <1>13, <2>1
<1>14. /\ 2 * shape.meridian = around /\ Times(around, k - 1) = v /\ Times(around, k - 2) = i
       /\ VerticesCount(shape) = 2 + v /\ IndicesCount(shape) = 6 * around + 6 * i
  BY <1>1 DEF SphereNumbers
<1>15. CASE theta = 0
  <2>1. triangles = <<>>
    <3>1. loop.theta = 0 /\ loop.theta # 1 /\ loop.theta # k
      BY <1>2, <1>4, <1>15
    <3> HIDE DEF last, over, back, over_back
    <3> QED BY <3>1
  <2>2. next = [theta |-> 1, phi |-> 0]
    BY <1>12, <1>15
  <2>3. dn = 1 /\ n = 0 /\ m = 0
    BY <1>2, <1>7, <1>11, <1>15
  <2>4. Times(around, 0) = 0
    BY <1>2, TimesFacts
  <2>5. SphereAt(shape, [theta |-> 1, phi |-> 0], n + dn, m + 0)
    <3>1. 1 \in 1 .. k - 1 /\ 0 \in 0 .. around - 1 /\ 1 \in 0 .. k + 1 /\ 1 - 1 = 0 /\ 3 * 0 = 0
      BY <1>2
    <3>2. n + dn = 1 + Times(around, 1 - 1) + 0 /\ m + 0 = 3 * 0
      BY <2>3, <2>4, <3>1
    <3> QED BY <1>3, <1>14, <3>1, <3>2 DEF SphereAt
  <2> HIDE DEF triangles, next
  <2> QED BY <1>13, <2>1, <2>2, <2>5
<1>16. CASE theta \in 1 .. k - 1
  <2>1. PICK t \in Nat : t + 1 = theta
    <3>1. theta - 1 \in Nat /\ (theta - 1) + 1 = theta
      BY <1>5, <1>16
    <3> QED BY <3>1
  <2>2. PICK tt \in Nat : tt = Times(around, t)
    BY <1>2, <2>1, TimesFacts
  <2>3. t \in Nat /\ t < k - 1 /\ tt \in Nat /\ tt + around <= v
    <3>1. t \in Nat /\ k - 1 \in Nat /\ t < k - 1 /\ around \in Nat
      BY <1>2, <1>16, <2>1
    <3>2. Times(around, t) + around <= Times(around, k - 1)
      BY <3>1, TimesGrows
    <3> QED BY <1>14, <2>2, <3>1, <3>2
  <2>4. theta - 1 = t /\ n = 1 + tt + phi /\ dn = 1
    <3>1. theta - 1 = t /\ theta # k /\ theta # 0
      BY <1>2, <1>16, <2>1
    <3>2. n = 1 + Times(around, theta - 1) + phi
      BY <1>7, <3>1
    <3> QED BY <1>11, <2>2, <3>1, <3>2
  <2>5. IF t = 0 THEN m = 3 * phi ELSE m = 3 * around + 6 * (Times(around, t - 1) + phi)
    <3>1. theta - 2 = t - 1 /\ (theta = 1 <=> t = 0) /\ theta # k /\ theta # 0
      BY <1>2, <1>16, <2>1
    <3> QED BY <1>7, <3>1
  <2>6. last = n /\ over = n - around /\ back = n - 1 + (IF phi = 0 THEN around ELSE 0)
        /\ over_back = n - around - 1 + (IF phi = 0 THEN around ELSE 0)
    <3>1. theta # k
      BY <1>16
    <3> QED BY <1>4, <1>6, <3>1
  <2> HIDE DEF last, over, back, over_back
  <2>7. last \in IndexOf(shape) /\ back \in IndexOf(shape) /\ 0 \in IndexOf(shape)
        /\ (t # 0 => over \in IndexOf(shape) /\ over_back \in IndexOf(shape))
    <3>1. t # 0 => tt >= around
      <4>1. t # 0 => Times(around, 0) + around <= Times(around, t) /\ Times(around, 0) = 0
        <5>1. around \in Nat /\ t \in Nat /\ 0 \in Nat /\ (t # 0 => 0 < t)
          BY <1>2, <2>3
        <5> QED BY <5>1, TimesGrows, TimesFacts
      <4> QED BY <1>2, <2>2, <4>1
    <3>2. CASE phi = 0
      BY <1>2, <1>3, <1>5, <2>3, <2>4, <2>6, <3>1, <3>2
    <3>3. CASE phi # 0
      BY <1>2, <1>3, <1>5, <2>3, <2>4, <2>6, <3>1, <3>3
    <3> QED BY <3>2, <3>3
  <2>8. triangles = IF t = 0 THEN <<back, last, 0>> ELSE <<back, last, over, back, over, over_back>>
    <3>1. theta # 0 /\ theta # k /\ (theta = 1 <=> t = 0)
      BY <1>16, <2>1
    <3> QED BY <1>4, <3>1
  <2>9. PICK dm \in Nat : /\ dm = IF t = 0 THEN 3 ELSE 6
                          /\ triangles \in Seq(IndexOf(shape)) /\ Len(triangles) = dm
    <3> HIDE DEF triangles
    <3>1. CASE t = 0
      BY <2>7, <2>8, <3>1
    <3>2. CASE t # 0
      BY <2>7, <2>8, <3>2
    <3> QED BY <3>1, <3>2
  <2>10. SphereAt(shape, next, n + dn, m + dm)
    <3>1. CASE phi + 1 # around
      <4>1. next = [theta |-> theta, phi |-> phi + 1]
        BY <1>12, <1>16, <3>1
      <4>2. phi + 1 \in 0 .. around - 1 /\ theta \in 0 .. k + 1
        BY <1>2, <1>5, <3>1
      <4>3. n + dn = 1 + Times(around, theta - 1) + (phi + 1)
        BY <1>5, <2>2, <2>3, <2>4
      <4>4. m + dm = IF theta = 1 THEN 3 * (phi + 1)
                     ELSE 3 * around + 6 * (Times(around, theta - 2) + (phi + 1))
        <5>1. CASE t = 0
          BY <1>5, <2>1, <2>5, <2>9, <5>1
        <5>2. CASE t # 0
          <6>1. t - 1 \in Nat /\ theta - 2 = t - 1 /\ theta # 1
            BY <2>1, <5>2
          <6>2. PICK p \in Nat : p = Times(around, t - 1)
            BY <1>2, <6>1, TimesFacts
          <6>3. p = Times(around, theta - 2)
            BY <6>1, <6>2
          <6>4. m = 3 * around + 6 * (p + phi) /\ dm = 6
            BY <2>5, <2>9, <5>2, <6>2
          <6>5. m + dm = 3 * around + 6 * (p + (phi + 1))
            BY SMTT(30), <1>2, <1>5, <6>2, <6>4
          <6> QED BY <6>1, <6>3, <6>5
        <5> QED BY <5>1, <5>2
      <4> HIDE DEF next
      <4> QED BY <1>3, <1>14, <1>16, <4>1, <4>2, <4>3, <4>4 DEF SphereAt
    <3>2. CASE phi + 1 = around
      <4>1. next = [theta |-> theta + 1, phi |-> 0]
        BY <1>12, <1>16, <3>2
      <4>2. theta + 1 \in 1 .. k /\ 0 \in 0 .. around - 1 /\ theta + 1 \in 0 .. k + 1 /\ theta + 1 # 1
        BY <1>2, <1>5, <1>16
      <4>3. n + dn = 1 + (tt + around) /\ Times(around, theta) = tt + around
        <5>1. Times(around, t + 1) = Times(around, t) + around
          BY <1>2, <2>3, TimesFacts
        <5>2. n + dn = 1 + (tt + around)
          BY <1>2, <1>5, <2>3, <2>4, <3>2
        <5> QED BY <2>1, <2>2, <5>1, <5>2
      <4>4. m + dm = 3 * around + 6 * tt
        <5>1. CASE t = 0
          <6>1. tt = 0
            BY <1>2, <2>2, <5>1, TimesFacts
          <6> QED BY <1>5, <2>5, <2>9, <3>2, <5>1, <6>1
        <5>2. CASE t # 0
          <6>1. t - 1 \in Nat /\ (t - 1) + 1 = t
            BY <2>3, <5>2
          <6>2. PICK p \in Nat : p = Times(around, t - 1) /\ tt = p + around
            <7>1. /\ Times(around, t - 1) \in Nat
                  /\ Times(around, (t - 1) + 1) = Times(around, t - 1) + around
              BY <1>2, <6>1, TimesFacts
            <7> QED BY <2>2, <6>1, <7>1
          <6>3. m = 3 * around + 6 * (p + phi) /\ dm = 6
            BY <2>5, <2>9, <5>2, <6>2
          <6>4. p \in Nat /\ tt = p + around /\ phi = around - 1 /\ around \in Nat
            BY <1>2, <1>5, <3>2, <6>2
          <6>5. m + dm = 3 * around + 6 * (p + (around - 1)) + 6
            BY <6>3, <6>4
          <6>6. 3 * around + 6 * (p + (around - 1)) + 6 = 3 * around + 6 * (p + around)
            BY <6>4
          <6> QED BY <6>4, <6>5, <6>6
        <5> QED BY <5>1, <5>2
      <4> HIDE DEF next
      <4>5. CASE theta + 1 = k
        <5>1. n + dn = 1 + v + 0 /\ m + dm = 3 * around + 6 * i + 3 * 0
          <6>1. k - 1 = theta /\ k - 2 = t
            BY <1>5, <2>1, <4>5
          <6>2. v = tt + around /\ i = tt
            BY <1>14, <2>2, <4>3, <6>1
          <6> QED BY <1>2, <2>3, <4>3, <4>4, <6>2
        <5> QED BY <1>3, <1>14, <4>1, <4>2, <4>5, <5>1 DEF SphereAt
      <4>6. CASE theta + 1 # k
        <5>1. theta + 1 \in 1 .. k - 1
          BY <1>2, <1>5, <4>2, <4>6
        <5>2. /\ n + dn = 1 + Times(around, (theta + 1) - 1) + 0
              /\ m + dm = 3 * around + 6 * (Times(around, (theta + 1) - 2) + 0)
          <6>1. (theta + 1) - 1 = theta /\ (theta + 1) - 2 = t
            BY <2>1
          <6>2. Times(around, (theta + 1) - 1) = tt + around /\ Times(around, (theta + 1) - 2) = tt
            BY <2>2, <4>3, <6>1
          <6>3. 1 + (tt + around) = 1 + (tt + around) + 0 /\ tt + 0 = tt
            BY <1>2, <2>3
          <6> QED BY <4>3, <4>4, <6>2, <6>3
        <5> QED BY <1>3, <1>14, <4>1, <4>2, <5>1, <5>2 DEF SphereAt
      <4> QED BY <4>5, <4>6
    <3> QED BY <3>1, <3>2
  <2> HIDE DEF triangles, next
  <2> QED BY <1>13, <2>9, <2>10
<1>17. CASE theta = k
  <2>1. theta # 0 /\ theta # 1 /\ theta \notin 1 .. k - 1
    BY <1>2, <1>17
  <2>2. n = 1 + v + (IF phi = 0 THEN 0 ELSE 1) /\ m = 3 * around + 6 * i + 3 * phi
        /\ dn = (IF phi = 0 THEN 1 ELSE 0)
    BY <1>7, <1>11, <1>17, <2>1
  <2>3. n + dn = 2 + v
    BY <1>2, <2>2
  <2>4. last = 1 + v /\ over = 1 + v - around + phi
        /\ over_back = 1 + v - around + phi - 1 + (IF phi = 0 THEN around ELSE 0)
    BY <1>2, <1>4, <1>5, <1>6, <1>17, <2>2
  <2>5. triangles = <<over_back, last, over>>
    <3>1. loop.theta # 0 /\ loop.theta # 1 /\ loop.theta = k /\ k # 1
      BY <1>4, <1>17, <2>1
    <3> HIDE DEF last, over, back, over_back
    <3> QED BY <3>1
  <2> HIDE DEF last, over, back, over_back
  <2>6. last \in IndexOf(shape) /\ over \in IndexOf(shape) /\ over_back \in IndexOf(shape)
    BY <1>2, <1>3, <1>5, <2>4
  <2> HIDE DEF triangles
  <2>7. triangles \in Seq(IndexOf(shape)) /\ Len(triangles) = 3
    BY <2>5, <2>6
  <2>8. SphereAt(shape, next, n + dn, m + 3)
    <3>1. CASE phi + 1 # around
      <4>1. next = [theta |-> k, phi |-> phi + 1] /\ phi + 1 # 0
        BY <1>5, <1>12, <1>17, <2>1, <3>1
      <4>2. phi + 1 \in 0 .. around - 1 /\ k \in 0 .. k + 1
        BY <1>2, <1>5, <3>1
      <4>3. n + dn = 1 + v + 1 /\ m + 3 = 3 * around + 6 * i + 3 * (phi + 1)
        BY <1>2, <1>5, <2>2, <2>3
      <4> HIDE DEF next
      <4> QED BY <1>3, <1>14, <4>1, <4>2, <4>3 DEF SphereAt
    <3>2. CASE phi + 1 = around
      <4>1. next = [theta |-> k + 1, phi |-> 0]
        BY <1>12, <1>17, <3>2
      <4>2. 0 \in 0 .. around - 1 /\ k + 1 \in 0 .. k + 1
        BY <1>2
      <4>3. n + dn = 2 + v /\ m + 3 = 6 * around + 6 * i
        BY <1>2, <1>5, <2>2, <2>3, <3>2
      <4> HIDE DEF next
      <4> QED BY <1>3, <1>14, <4>1, <4>2, <4>3 DEF SphereAt
    <3> QED BY <3>1, <3>2
  <2> HIDE DEF next
  <2> QED BY <1>13, <2>7, <2>8
<1> QED BY <1>4, <1>15, <1>16, <1>17

\* Lines of ever more vertices: those above a line are a smaller tessellated triangle.
CubeShape == [name : {"cube"}, degree : Nat \ {0}]
LinesVertices(line) == IF line = 0 THEN 0 ELSE tesselated_vertices_count(line - 1)
LinesIndices(line) == IF line = 0 THEN 0 ELSE tesselated_indices_count(line - 1)
CubeAt(s, l, n, m) ==
  /\ l \in [face : 1 .. 13, line : 0 .. s.degree, column : 0 .. s.degree]
  /\ l.column <= l.line /\ (l.face = 13 => l.line = 0)
  /\ n = Times(tesselated_vertices_count(s.degree), l.face - 1) + LinesVertices(l.line) + l.column
  /\ m = Times(tesselated_indices_count(s.degree), l.face - 1) + LinesIndices(l.line)
         + (IF l.column = 0 THEN 0 ELSE 6 * (l.column - 1))

\* The number of vertices of a tessellated triangle, line by line.
LEMMA TessellatedVertices ==
  ASSUME NEW j \in Nat
  PROVE  /\ tesselated_vertices_count(j) \in Nat /\ tesselated_vertices_count(j) >= j + 1
         /\ tesselated_vertices_count(j + 1) = tesselated_vertices_count(j) + j + 2
         /\ tesselated_vertices_count(0) = 1
<1>1. PICK x \in Int : x = (j + 1) * (j + 2)
  OBVIOUS
<1>2. (j + 1) * 2 <= (j + 1) * (j + 2)
  <2>1. j + 1 \in Nat /\ 2 \in Int /\ j + 2 \in Int /\ 2 <= j + 2
    OBVIOUS
  <2> QED BY <2>1, Monotone
<1>3. x >= 2 * (j + 1)
  <2>1. (j + 1) * 2 = 2 * (j + 1)
    OBVIOUS
  <2> QED BY <1>1, <1>2, <2>1
<1>4. ((j + 1) + 1) * ((j + 1) + 2) = x + 2 * (j + 2)
  BY <1>1
<1>5. (x + 2 * (j + 2)) \div 2 = x \div 2 + j + 2 /\ x \div 2 \in Nat /\ x \div 2 >= j + 1
  BY <1>3
<1>6. tesselated_vertices_count(j) = x \div 2 /\ tesselated_vertices_count(j + 1) = (x + 2 * (j + 2)) \div 2
  BY <1>1, <1>4 DEF tesselated_vertices_count
<1>7. tesselated_vertices_count(0) = 1
  BY DEF tesselated_vertices_count
<1> QED BY <1>5, <1>6, <1>7

\* The number of indices of a tessellated triangle, line by line.
LEMMA TessellatedIndices ==
  ASSUME NEW j \in Nat
  PROVE  /\ tesselated_indices_count(j) \in Nat /\ tesselated_indices_count(0) = 0
         /\ tesselated_indices_count(j + 1) = tesselated_indices_count(j) + 6 * j + 3
<1>1. PICK x \in Nat : x = j * j
  OBVIOUS
<1>2. 3 * j * j = 3 * x /\ 3 * (j + 1) * (j + 1) = 3 * x + 6 * j + 3
  BY <1>1
<1>3. 3 * x \in Nat /\ 3 * 0 * 0 = 0
  BY <1>1
<1> QED BY <1>2, <1>3 DEF tesselated_indices_count

\* More lines have more vertices.
LEMMA TessellatedGrows ==
  ASSUME NEW i \in Nat, NEW j \in Nat, i <= j
  PROVE  tesselated_vertices_count(i) <= tesselated_vertices_count(j)
<1>1. (i + 1) * (i + 2) <= (i + 1) * (j + 2)
  BY Monotone
<1>2. (j + 2) * (i + 1) <= (j + 2) * (j + 1)
  BY Monotone
<1>3. PICK x \in Int, y \in Int, z \in Int : /\ x = (i + 1) * (i + 2) /\ y = (i + 1) * (j + 2)
                                             /\ z = (j + 1) * (j + 2)
  OBVIOUS
<1>4. (j + 2) * (i + 1) = y /\ (j + 2) * (j + 1) = z
  BY <1>3
<1>5. x <= z
  BY <1>1, <1>2, <1>3, <1>4
<1>6. x \div 2 <= z \div 2
  BY <1>3, <1>5
<1> QED BY <1>3, <1>6 DEF tesselated_vertices_count

\* The corners of a cube have integer coordinates.
LEMMA CubeCorners ==
  ASSUME NEW f \in 1 .. 12, NEW i \in 1 .. 3, NEW a \in 1 .. 3
  PROVE  CUBE_CORNERS[CUBE_INDICES[f][i] + 1][a] \in Int
<1>1. CUBE_INDICES[f] \in [1 .. 3 -> 0 .. 7]
  BY DEF CUBE_INDICES
<1>2. PICK j \in 1 .. 8 : CUBE_INDICES[f][i] + 1 = j
  BY <1>1
<1>3. CUBE_CORNERS[j] \in [1 .. 3 -> 0 .. 1]
  BY DEF CUBE_CORNERS
<1> QED BY <1>2, <1>3

\* Where a line of a tessellated triangle begins in the buffers.
LEMMA CubeLines ==
  ASSUME NEW d \in Nat, NEW line \in 0 .. d
  PROVE  /\ LinesVertices(line) \in Nat /\ LinesIndices(line) \in Nat
         /\ LinesVertices(line) + line + 1 = tesselated_vertices_count(line)
         /\ LinesVertices(line) + line + 1 <= tesselated_vertices_count(d)
         /\ LinesVertices(line + 1) = LinesVertices(line) + line + 1 /\ LinesVertices(line) >= line
         /\ LinesIndices(line + 1) = tesselated_indices_count(line)
         /\ tesselated_indices_count(line)
              = LinesIndices(line) + (IF line = 0 THEN 0 ELSE 6 * (line - 1) + 3)
<1>1. tesselated_vertices_count(line) <= tesselated_vertices_count(d)
  BY TessellatedGrows
<1>2. CASE line = 0
  <2>1. tesselated_vertices_count(0) = 1 /\ tesselated_indices_count(0) = 0
    BY TessellatedVertices, TessellatedIndices
  <2> QED BY <1>1, <1>2, <2>1 DEF LinesVertices, LinesIndices
<1>3. CASE line # 0
  <2>1. PICK j \in Nat : line = j + 1
    <3>1. line - 1 \in Nat /\ line = (line - 1) + 1
      BY <1>3
    <3> QED BY <3>1
  <2>2. PICK v \in Nat, i \in Nat : v = tesselated_vertices_count(j) /\ i = tesselated_indices_count(j)
    BY <2>1, TessellatedVertices, TessellatedIndices
  <2>3. v >= j + 1 /\ tesselated_vertices_count(line) = v + j + 2 /\ tesselated_indices_count(line) = i + 6 * j + 3
    BY <2>1, <2>2, TessellatedVertices, TessellatedIndices
  <2>4. line - 1 = j /\ (line + 1) - 1 = line /\ line + 1 # 0
    BY <2>1
  <2>5. /\ LinesVertices(line) = v /\ LinesIndices(line) = i
        /\ LinesVertices(line + 1) = tesselated_vertices_count(line)
        /\ LinesIndices(line + 1) = tesselated_indices_count(line)
    BY <1>3, <2>2, <2>4 DEF LinesVertices, LinesIndices
  <2>6. j \in Nat /\ v \in Nat /\ i \in Nat /\ line = j + 1
    BY <2>1, <2>2
  <2> QED BY <1>1, <1>3, <2>3, <2>4, <2>5, <2>6
<1> QED BY <1>2, <1>3

\* A turn of the tessellation of a cube keeps the counts.
LEMMA TessellateVertexKeeps ==
  ASSUME shape \in CubeShape, vertices \in Seq(Position), indices \in Seq(IndexOf(shape)),
         CubeAt(shape, loop, Len(vertices), Len(indices)), TessellateVertex
  PROVE  /\ vertices' \in Seq(Position) /\ indices' \in Seq(IndexOf(shape)) /\ shape' = shape
         /\ CubeAt(shape, loop', Len(vertices'), Len(indices'))
<1>1. PICK d \in Nat \ {0} : shape.degree = d /\ shape.name = "cube"
  BY DEF CubeShape
<1>2. PICK face \in 1 .. 12, line \in 0 .. d, column \in 0 .. d :
        loop = [face |-> face, line |-> line, column |-> column] /\ column <= line
  <2>1. Len(CUBE_INDICES) = 12
    BY DEF CUBE_INDICES
  <2>2. /\ loop \in [face : 1 .. 13, line : 0 .. d, column : 0 .. d] /\ loop.column <= loop.line
        /\ loop.face <= 12
    BY <1>1, <2>1 DEF CubeAt, TessellateVertex
  <2> QED BY <2>2
<1>3. /\ d \in Nat \ {0} /\ d \in Nat /\ face \in 1 .. 12 /\ face - 1 \in Nat /\ line \in 0 .. d
      /\ column \in 0 .. line /\ line \in Nat /\ column \in Nat
  BY <1>1, <1>2
<1>4. PICK tv \in Nat, ti \in Nat : tv = tesselated_vertices_count(d) /\ ti = tesselated_indices_count(d)
  BY <1>3, TessellatedVertices, TessellatedIndices
<1>5. PICK fv \in Nat, fi \in Nat : fv = Times(tv, face - 1) /\ fi = Times(ti, face - 1)
  BY <1>3, <1>4, TimesFacts
<1>6. Times(tv, (face + 1) - 1) = fv + tv /\ Times(ti, (face + 1) - 1) = fi + ti
  <2>1. (face + 1) - 1 = (face - 1) + 1
    BY <1>3
  <2>2. Times(tv, (face - 1) + 1) = fv + tv /\ Times(ti, (face - 1) + 1) = fi + ti
    BY <1>3, <1>4, <1>5, TimesFacts
  <2> QED BY <2>1, <2>2
<1>7. PICK lv \in Nat, li \in Nat : lv = LinesVertices(line) /\ li = LinesIndices(line)
  BY <1>3, CubeLines
<1>8. /\ lv + line + 1 <= tv /\ lv >= line /\ lv + line + 1 = tesselated_vertices_count(line)
      /\ LinesVertices(line + 1) = lv + line + 1
      /\ LinesIndices(line + 1) = tesselated_indices_count(line)
      /\ tesselated_indices_count(line) = li + (IF line = 0 THEN 0 ELSE 6 * (line - 1) + 3)
  BY <1>3, <1>4, <1>7, CubeLines
<1>9. tv \in Nat /\ ti \in Nat /\ fv \in Nat /\ fi \in Nat /\ lv \in Nat /\ li \in Nat
  BY <1>4, <1>5, <1>7
<1>10. PICK n \in Nat, m \in Nat : /\ Len(vertices) = n /\ vertex = n /\ Len(indices) = m
                                   /\ n = fv + lv + column
                                   /\ m = fi + li + (IF column = 0 THEN 0 ELSE 6 * (column - 1))
  <2>1. PICK n \in Nat, m \in Nat : Len(vertices) = n /\ vertex = n /\ Len(indices) = m
    BY DEF vertex
  <2>2. CubeAt(shape, [face |-> face, line |-> line, column |-> column], n, m)
    BY <1>2, <2>1
  <2>3. n = fv + lv + column /\ m = fi + li + (IF column = 0 THEN 0 ELSE 6 * (column - 1))
    BY <1>1, <1>4, <1>5, <1>7, <2>2 DEF CubeAt
  <2> QED BY <2>1, <2>3
<1>11. IndexOf(shape) = 0 .. 12 * tv - 1 /\ fv + tv <= 12 * tv
  <2>1. VerticesCount(shape) = 12 * tv
    BY <1>1, <1>4 DEF VerticesCount, CUBE_INDICES
  <2>2. tv * ((face - 1) + 1) <= tv * 12
    <3>1. (face - 1) + 1 \in Int /\ 12 \in Int /\ (face - 1) + 1 <= 12
      BY <1>3
    <3> QED BY <1>9, <3>1, Monotone
  <2>3. fv + tv <= tv * 12
    <3>1. Times(tv, (face - 1) + 1) = fv + tv
      BY <1>3, <1>9, <1>5, TimesFacts
    <3> QED BY <2>2, <3>1 DEF Times
  <2>4. tv * 12 = 12 * tv
    BY <1>9
  <2> QED BY <2>1, <2>3, <2>4 DEF IndexOf
<1>12. TessellatePosition \in Position
  <2> DEFINE corner(i) == CUBE_CORNERS[CUBE_INDICES[loop.face][i] + 1]
  <2>1. \A i \in 1 .. 3, a \in 1 .. 3 : corner(i)[a] \in Int
    BY <1>2, <1>3, CubeCorners
  <2>2. shape.degree \in Int /\ loop.line \in Int /\ loop.column \in Int
    BY <1>1, <1>2, <1>3
  <2> DEFINE value(a) == corner(2)[a] * shape.degree + loop.line * (corner(1)[a] - corner(2)[a])
                         + loop.column * (corner(3)[a] - corner(1)[a])
  <2>3. TessellatePosition = [a \in 1 .. 3 |-> value(a)]
    BY DEF TessellatePosition
  <2> HIDE DEF corner
  <2>4. \A a \in 1 .. 3 : value(a) \in Int
    <3>1. TAKE a \in 1 .. 3
    <3>2. PICK x \in Int, y \in Int, z \in Int : x = corner(1)[a] /\ y = corner(2)[a] /\ z = corner(3)[a]
      BY <2>1
    <3>3. \A i \in Int, j \in Int : i * j \in Int /\ i - j \in Int /\ i + j \in Int
      OBVIOUS
    <3>4. /\ y * shape.degree \in Int /\ loop.line * (x - y) \in Int /\ loop.column * (z - x) \in Int
      BY <2>2, <3>2, <3>3
    <3>5. y * shape.degree + loop.line * (x - y) + loop.column * (z - x) \in Int
      BY <3>3, <3>4
    <3> QED BY <3>2, <3>5
  <2> HIDE DEF value
  <2> QED BY <2>3, <2>4 DEF Position
<1> DEFINE above == vertex - loop.line
           triangles == (IF loop.column # 0 THEN <<vertex, vertex - 1, above - 1>> ELSE <<>>)
                        \o (IF loop.column \notin {0, loop.line} THEN <<vertex, above - 1, above>> ELSE <<>>)
           next == IF loop.column < loop.line THEN [loop EXCEPT !.column = @ + 1]
                   ELSE IF loop.line < shape.degree THEN [loop EXCEPT !.line = @ + 1, !.column = 0]
                   ELSE [face |-> loop.face + 1, line |-> 0, column |-> 0]
<1>13. PICK dm \in Nat : /\ triangles \in Seq(IndexOf(shape)) /\ Len(triangles) = dm
                         /\ dm = IF column = 0 THEN 0 ELSE IF column = line THEN 3 ELSE 6
  <2>1. triangles = (IF column # 0 THEN <<n, n - 1, n - line - 1>> ELSE <<>>)
                    \o (IF column \notin {0, line} THEN <<n, n - line - 1, n - line>> ELSE <<>>)
    BY <1>2, <1>10
  <2> HIDE DEF triangles
  <2>2. column # 0 => /\ n \in IndexOf(shape) /\ n - 1 \in IndexOf(shape)
                      /\ n - line - 1 \in IndexOf(shape) /\ n - line \in IndexOf(shape)
    <3>1. n = fv + lv + column
      BY <1>10
    <3> QED BY <1>3, <1>8, <1>9, <1>11, <3>1
  <2>3. CASE column = 0
    BY <2>1, <2>3
  <2>4. CASE column # 0 /\ column = line
    BY <2>1, <2>2, <2>4
  <2>5. CASE column # 0 /\ column # line
    BY <2>1, <2>2, <2>5
  <2> QED BY <2>3, <2>4, <2>5
<1>14. dm = (IF column = 0 THEN 0 ELSE IF column = line THEN 3 ELSE 6) /\ dm \in Nat
       /\ n = fv + lv + column /\ m = fi + li + (IF column = 0 THEN 0 ELSE 6 * (column - 1))
  BY <1>10, <1>13
<1>15. /\ vertices' \in Seq(Position) /\ Len(vertices') = n + 1
       /\ indices' \in Seq(IndexOf(shape)) /\ Len(indices') = m + dm
       /\ loop' = next /\ shape' = shape
  <2>1. Add(<<TessellatePosition>>, triangles, next)
    BY DEF TessellateVertex
  <2>2. <<TessellatePosition>> \in Seq(Position) /\ Len(<<TessellatePosition>>) = 1
    BY <1>12
  <2> HIDE DEF triangles, next
  <2>3. /\ vertices' \in Seq(Position) /\ Len(vertices') = Len(vertices) + Len(<<TessellatePosition>>)
        /\ indices' \in Seq(IndexOf(shape)) /\ Len(indices') = Len(indices) + Len(triangles)
        /\ loop' = next /\ shape' = shape
    BY <1>13, <2>1, <2>2, Appended
  <2> QED BY <1>10, <1>13, <2>2, <2>3
<1>16. CASE column < line
  <2>1. next = [face |-> face, line |-> line, column |-> column + 1]
    BY <1>2, <1>3, <1>16
  <2> HIDE DEF triangles, next
  <2>2. /\ n + 1 = fv + lv + (column + 1)
        /\ m + dm = fi + li + (IF column + 1 = 0 THEN 0 ELSE 6 * ((column + 1) - 1))
    BY <1>3, <1>9, <1>14, <1>16
  <2>3. CubeAt(shape, [face |-> face, line |-> line, column |-> column + 1], n + 1, m + dm)
    <3>1. face \in 1 .. 13 /\ face # 13 /\ column + 1 \in 0 .. d /\ column + 1 <= line
      BY <1>3, <1>16
    <3> QED BY <1>1, <1>3, <1>4, <1>5, <1>7, <2>2, <3>1 DEF CubeAt
  <2> QED BY <1>15, <2>1, <2>3
<1>17. CASE column = line /\ line < d
  <2>1. next = [face |-> face, line |-> line + 1, column |-> 0]
    <3>1. next = [loop EXCEPT !.line = @ + 1, !.column = 0]
      BY <1>1, <1>2, <1>3, <1>17
    <3> QED BY <1>2, <3>1
  <2> HIDE DEF triangles, next
  <2>2. /\ n + 1 = fv + (lv + line + 1) + 0
        /\ m + dm = fi + (li + (IF line = 0 THEN 0 ELSE 6 * (line - 1) + 3)) + 0
    BY <1>3, <1>9, <1>14, <1>17
  <2>3. CubeAt(shape, [face |-> face, line |-> line + 1, column |-> 0], n + 1, m + dm)
    <3>1. face \in 1 .. 13 /\ face # 13 /\ line + 1 \in 0 .. d /\ 0 <= line + 1 /\ 0 \in 0 .. d
      BY <1>3, <1>17
    <3>2. n + 1 = fv + LinesVertices(line + 1) + 0 /\ m + dm = fi + LinesIndices(line + 1) + 0
      BY <1>8, <2>2
    <3> QED BY <1>1, <1>3, <1>4, <1>5, <3>1, <3>2 DEF CubeAt
  <2> QED BY <1>15, <2>1, <2>3
<1>18. CASE column = line /\ line = d
  <2>1. next = [face |-> face + 1, line |-> 0, column |-> 0]
    BY <1>1, <1>2, <1>3, <1>18
  <2> HIDE DEF triangles, next
  <2>2. tv = lv + line + 1 /\ ti = li + (IF line = 0 THEN 0 ELSE 6 * (line - 1) + 3)
    BY <1>4, <1>8, <1>18
  <2>3. n + 1 = (fv + tv) + 0 + 0 /\ m + dm = (fi + ti) + 0 + 0
    BY <1>3, <1>9, <1>14, <1>18, <2>2
  <2>4. CubeAt(shape, [face |-> face + 1, line |-> 0, column |-> 0], n + 1, m + dm)
    <3>1. face + 1 \in 1 .. 13 /\ 0 \in 0 .. d /\ 0 <= 0
      BY <1>3
    <3>2. LinesVertices(0) = 0 /\ LinesIndices(0) = 0
      BY DEF LinesVertices, LinesIndices
    <3> QED BY <1>1, <1>3, <1>4, <1>6, <2>3, <3>1, <3>2 DEF CubeAt
  <2> QED BY <1>15, <2>1, <2>4
<1> QED BY <1>3, <1>16, <1>17, <1>18

\* Rows of vertices: behind each but the first, a row of cells of two triangles.
PlaneShape == [name : {"plane"}, half : Nat \ {0}]
RowsIndices(side, row) == IF row = 0 THEN 0 ELSE 6 * Times(side, row - 1)
PlaneAt(s, l, n, m) ==
  LET row == l.i + s.half
      column == l.j + s.half
      side == 2 * s.half
  IN  /\ l \in [i : Int, j : Int] /\ row \in 0 .. side + 1 /\ column \in 0 .. side
      /\ row = side + 1 => column = 0
      /\ n = Times(side + 1, row) + column
      /\ m = RowsIndices(side, row) + (IF row = 0 \/ column = 0 THEN 0 ELSE 6 * (column - 1))

\* How many indices the next row of a plane adds.
LEMMA RowsNext ==
  ASSUME NEW side \in Nat, NEW row \in Nat
  PROVE  /\ RowsIndices(side, row) \in Nat
         /\ RowsIndices(side, row + 1) = RowsIndices(side, row) + (IF row = 0 THEN 0 ELSE 6 * side)
<1>1. CASE row = 0
  <2>1. Times(side, 0) = 0 /\ (row + 1) - 1 = 0 /\ row + 1 # 0
    BY <1>1, TimesFacts
  <2> QED BY <1>1, <2>1 DEF RowsIndices
<1>2. CASE row # 0
  <2>1. row - 1 \in Nat /\ (row - 1) + 1 = row /\ (row + 1) - 1 = row /\ row + 1 # 0
    BY <1>2
  <2>t. Times(side, row - 1) \in Nat /\ Times(side, (row - 1) + 1) = Times(side, row - 1) + side
    BY <2>1, TimesFacts
  <2>2. PICK t \in Nat : t = Times(side, row - 1) /\ Times(side, row) = t + side
    BY <2>1, <2>t
  <2>3. RowsIndices(side, row) = 6 * t /\ RowsIndices(side, row + 1) = 6 * (t + side)
    BY <1>2, <2>1, <2>2 DEF RowsIndices
  <2> QED BY <1>2, <2>2, <2>3
<1> QED BY <1>1, <1>2

\* The counts of a plane, by rows.
LEMMA PlaneCounts ==
  ASSUME shape \in PlaneShape
  PROVE  LET side == 2 * shape.half
         IN  /\ VerticesCount(shape) = Times(side + 1, side + 1)
             /\ IndicesCount(shape) = RowsIndices(side, side + 1)
<1>1. PICK h \in Nat \ {0} : shape.half = h /\ shape.name = "plane"
  BY DEF PlaneShape
<1>2. VerticesCount(shape) = (2 * h + 1) * (2 * h + 1)
  BY <1>1 DEF VerticesCount, plane_vertices_count
<1>3. IndicesCount(shape) = 6 * ((2 * h) * (2 * h))
  <2>1. IndicesCount(shape) = 2 * 3 * (2 * h) * (2 * h)
    BY <1>1 DEF IndicesCount, plane_indices_count, VERTICES_PER_TRIANGLE
  <2> QED BY <1>1, <2>1
<1>4. (2 * h + 1) - 1 = 2 * h /\ 2 * h + 1 # 0
  BY <1>1
<1> QED BY <1>1, <1>2, <1>3, <1>4 DEF Times, RowsIndices

\* A turn of the loops over a plane keeps the counts.
LEMMA PlaneVertexKeeps ==
  ASSUME shape \in PlaneShape, vertices \in Seq(Position), indices \in Seq(IndexOf(shape)),
         PlaneAt(shape, loop, Len(vertices), Len(indices)), PlaneVertex
  PROVE  /\ vertices' \in Seq(Position) /\ indices' \in Seq(IndexOf(shape)) /\ shape' = shape
         /\ PlaneAt(shape, loop', Len(vertices'), Len(indices'))
<1>1. PICK h \in Nat \ {0} : shape.half = h /\ shape.name = "plane"
  BY DEF PlaneShape
<1>2. PICK side \in Nat : side = 2 * h /\ 2 * shape.half = side
  BY <1>1
<1>3. PICK i \in Int, j \in Int : loop = [i |-> i, j |-> j]
  BY DEF PlaneAt
<1>4. PICK row \in Nat, column \in Nat : row = i + h /\ column = j + h /\ row <= side /\ column <= side
  BY <1>1, <1>2, <1>3 DEF PlaneAt, PlaneVertex
<1>5. /\ h \in Nat \ {0} /\ side \in Nat /\ i \in Int /\ j \in Int /\ row \in Nat /\ column \in Nat
      /\ row <= side /\ column <= side /\ side = 2 * h /\ row = i + h /\ column = j + h
  BY <1>1, <1>2, <1>3, <1>4
<1>6. PICK tv \in Nat, ti \in Nat, count \in Nat :
        tv = Times(side + 1, row) /\ ti = RowsIndices(side, row) /\ count = Times(side + 1, side + 1)
  <2>1. side + 1 \in Nat
    BY <1>5
  <2> QED BY <1>5, <2>1, TimesFacts, RowsNext
<1>7. /\ Times(side + 1, row + 1) = tv + (side + 1) /\ tv + (side + 1) <= count
      /\ RowsIndices(side, row + 1) = ti + (IF row = 0 THEN 0 ELSE 6 * side)
      /\ (row # 0 => tv >= side + 1)
  <2>1. side + 1 \in Nat /\ row \in Nat /\ 0 \in Nat /\ row < side + 1 /\ (row # 0 => 0 < row)
    BY <1>5
  <2>2. /\ Times(side + 1, row + 1) = tv + (side + 1) /\ tv + (side + 1) <= count
        /\ (row # 0 => Times(side + 1, 0) + (side + 1) <= tv) /\ Times(side + 1, 0) = 0
    BY <1>6, <2>1, TimesFacts, TimesGrows
  <2>3. RowsIndices(side, row + 1) = ti + (IF row = 0 THEN 0 ELSE 6 * side)
    BY <1>5, <1>6, RowsNext
  <2>4. 0 + (side + 1) = side + 1
    BY <1>5
  <2> QED BY <2>2, <2>3, <2>4
<1>8. tv \in Nat /\ ti \in Nat /\ count \in Nat
  BY <1>6
<1>9. PICK n \in Nat, m \in Nat :
        /\ Len(vertices) = n /\ vertex = n /\ Len(indices) = m /\ n = tv + column
        /\ m = ti + (IF row = 0 \/ column = 0 THEN 0 ELSE 6 * (column - 1))
  <2>1. PICK n \in Nat, m \in Nat : Len(vertices) = n /\ vertex = n /\ Len(indices) = m
    BY DEF vertex
  <2>2. PlaneAt(shape, [i |-> i, j |-> j], n, m)
    BY <1>3, <2>1
  <2>3. n = tv + column /\ m = ti + (IF row = 0 \/ column = 0 THEN 0 ELSE 6 * (column - 1))
    BY <1>1, <1>2, <1>4, <1>6, <2>2 DEF PlaneAt
  <2> QED BY <2>1, <2>3
<1>10. IndexOf(shape) = 0 .. count - 1
  BY <1>2, <1>6, PlaneCounts DEF IndexOf
<1> DEFINE over == vertex - (2 * shape.half + 1)
           triangles == IF -shape.half \in {loop.i, loop.j} THEN <<>>
                        ELSE <<vertex, vertex - 1, over - 1, vertex, over - 1, over>>
           next == IF loop.j < shape.half THEN [loop EXCEPT !.j = @ + 1]
                   ELSE [i |-> loop.i + 1, j |-> -shape.half]
<1>11. PICK dm \in Nat : /\ triangles \in Seq(IndexOf(shape)) /\ Len(triangles) = dm
                         /\ dm = IF row = 0 \/ column = 0 THEN 0 ELSE 6
  <2>1. -shape.half \in {loop.i, loop.j} <=> (row = 0 \/ column = 0)
    BY <1>1, <1>3, <1>5
  <2>2. over = n - (side + 1)
    BY <1>2, <1>9
  <2>3. triangles = IF row = 0 \/ column = 0 THEN <<>>
                    ELSE <<n, n - 1, over - 1, n, over - 1, over>>
    BY <1>9, <2>1
  <2> HIDE DEF triangles, over
  <2>4. CASE row = 0 \/ column = 0
    BY <2>3, <2>4
  <2>5. CASE row # 0 /\ column # 0
    <3>1. /\ n \in IndexOf(shape) /\ n - 1 \in IndexOf(shape)
          /\ over \in IndexOf(shape) /\ over - 1 \in IndexOf(shape)
      <4>1. n = tv + column
        BY <1>9
      <4> QED BY <1>5, <1>7, <1>8, <1>10, <2>2, <2>5, <4>1
    <3> QED BY <2>3, <2>5, <3>1
  <2> QED BY <2>4, <2>5
<1>12. dm = (IF row = 0 \/ column = 0 THEN 0 ELSE 6) /\ n = tv + column
       /\ m = ti + (IF row = 0 \/ column = 0 THEN 0 ELSE 6 * (column - 1))
  BY <1>9, <1>11
<1>13. /\ vertices' \in Seq(Position) /\ Len(vertices') = n + 1
       /\ indices' \in Seq(IndexOf(shape)) /\ Len(indices') = m + dm
       /\ loop' = next /\ shape' = shape
  <2> DEFINE new == << <<loop.i, loop.j, 0>> >>
  <2>1. Add(new, triangles, next)
    BY DEF PlaneVertex
  <2>2. new \in Seq(Position) /\ Len(new) = 1
    <3>1. <<loop.i, loop.j, 0>> \in Position
      BY <1>3, PositionType
    <3> QED BY <3>1
  <2> HIDE DEF triangles, next, new
  <2>3. /\ vertices' \in Seq(Position) /\ Len(vertices') = Len(vertices) + Len(new)
        /\ indices' \in Seq(IndexOf(shape)) /\ Len(indices') = Len(indices) + Len(triangles)
        /\ loop' = next /\ shape' = shape
    BY <1>11, <2>1, <2>2, Appended
  <2> QED BY <1>9, <1>11, <2>2, <2>3
<1>14. CASE column < side
  <2>1. next = [i |-> i, j |-> j + 1]
    BY SMTT(30), <1>1, <1>3, <1>5, <1>14
  <2> HIDE DEF triangles, next
  <2>2. /\ n + 1 = tv + (column + 1)
        /\ m + dm = ti + (IF row = 0 \/ column + 1 = 0 THEN 0 ELSE 6 * ((column + 1) - 1))
    BY <1>5, <1>8, <1>12, <1>14
  <2>3. PlaneAt(shape, [i |-> i, j |-> j + 1], n + 1, m + dm)
    <3>1. /\ i + h = row /\ (j + 1) + h = column + 1 /\ row \in 0 .. side + 1 /\ column + 1 \in 0 .. side
          /\ row # side + 1 /\ j + 1 \in Int
      BY <1>5, <1>14
    <3> QED BY <1>1, <1>2, <1>5, <1>6, <2>2, <3>1 DEF PlaneAt
  <2> QED BY <1>13, <2>1, <2>3
<1>15. CASE column = side
  <2>1. next = [i |-> i + 1, j |-> -h]
    BY <1>1, <1>3, <1>5, <1>15
  <2> HIDE DEF triangles, next
  <2>2. /\ n + 1 = (tv + (side + 1)) + 0
        /\ m + dm = (ti + (IF row = 0 THEN 0 ELSE 6 * side)) + 0
    BY <1>5, <1>8, <1>12, <1>15
  <2>3. PlaneAt(shape, [i |-> i + 1, j |-> -h], n + 1, m + dm)
    <3>1. /\ (i + 1) + h = row + 1 /\ (-h) + h = 0 /\ row + 1 \in 0 .. side + 1 /\ 0 \in 0 .. side
          /\ i + 1 \in Int /\ -h \in Int
      BY <1>5, <1>15
    <3>2. n + 1 = Times(side + 1, row + 1) + 0 /\ m + dm = RowsIndices(side, row + 1) + 0
      BY <1>7, <2>2
    <3> QED BY <1>1, <1>2, <3>1, <3>2 DEF PlaneAt
  <2> QED BY <1>13, <2>1, <2>3
<1> QED BY <1>5, <1>14, <1>15

\* A lattice: the vertices of the layers, the rows and the columns behind, and the edges
\* along each axis that end at one of them.
CubicShape == [name : {"cubic"}, x : Nat \ {0}, y : Nat \ {0}, z : Nat \ {0}]
LatticeVertices(s, l) ==
  Times(Times(s.x + 1, s.y + 1), l.z) + Times(s.x + 1, l.y) + l.x
EdgesAlongX(s, l) ==
  Times(Times(s.x, s.y + 1), l.z) + Times(s.x, l.y) + (IF l.x = 0 THEN 0 ELSE l.x - 1)
EdgesAlongY(s, l) ==
  Times(Times(s.x + 1, s.y), l.z) + (IF l.y = 0 THEN 0 ELSE Times(s.x + 1, l.y - 1) + l.x)
EdgesAlongZ(s, l) ==
  IF l.z = 0 THEN 0 ELSE LatticeVertices(s, l) - Times(s.x + 1, s.y + 1)
CubicAt(s, l, n, m) ==
  /\ l \in [x : 0 .. s.x, y : 0 .. s.y, z : 0 .. s.z + 1]
  /\ l.z = s.z + 1 => l.x = 0 /\ l.y = 0
  /\ n = LatticeVertices(s, l)
  /\ m = 2 * (EdgesAlongX(s, l) + EdgesAlongY(s, l) + EdgesAlongZ(s, l))

\* A product by a positive counter, from the one before.
LEMMA TimesNext ==
  ASSUME NEW x \in Nat, NEW y \in Nat \ {0}
  PROVE  Times(x, y - 1) \in Nat /\ Times(x, y) = Times(x, y - 1) + x
<1>1. y - 1 \in Nat /\ (y - 1) + 1 = y
  OBVIOUS
<1> QED BY <1>1, TimesFacts

\* The counts of a cubic lattice, by layers.
LEMMA CubicCounts ==
  ASSUME shape \in CubicShape
  PROVE  LET layer == Times(shape.x + 1, shape.y + 1)
         IN  /\ VerticesCount(shape) = Times(layer, shape.z + 1)
             /\ IndicesCount(shape) = 2 * (Times(Times(shape.x, shape.y + 1), shape.z + 1)
                                           + Times(Times(shape.x + 1, shape.y), shape.z + 1)
                                           + Times(layer, shape.z))
<1>1. PICK x \in Nat \ {0}, y \in Nat \ {0}, z \in Nat \ {0} :
        shape.x = x /\ shape.y = y /\ shape.z = z /\ shape.name = "cubic"
  BY DEF CubicShape
<1>2. VerticesCount(shape) = (x + 1) * (y + 1) * (z + 1)
  BY <1>1 DEF VerticesCount, cubic_vertices_count
<1>3. IndicesCount(shape) = 2 * ((x * (y + 1) + y * (x + 1)) * (z + 1) + z * (x + 1) * (y + 1))
  BY <1>1 DEF IndicesCount, cubic_indices_count
<1>4. PICK g \in Int, f \in Int : g = x * (y + 1) /\ f = y * (x + 1)
  OBVIOUS
<1>5. (z + 1) * (g + f) = (z + 1) * g + (z + 1) * f
  <2>1. z + 1 \in Int
    BY <1>1
  <2> QED BY <1>4, <2>1, Distributes
<1>6. (g + f) * (z + 1) = g * (z + 1) + f * (z + 1)
  <2>1. \A u \in Int, v \in Int : u * v = v * u
    OBVIOUS
  <2>2. z + 1 \in Int /\ g + f \in Int
    BY <1>1, <1>4
  <2> QED BY <1>4, <1>5, <2>1, <2>2
<1>7. z * (x + 1) * (y + 1) = ((x + 1) * (y + 1)) * z
  BY <1>1
<1>8. y * (x + 1) = (x + 1) * y
  BY <1>1
<1>9. IndicesCount(shape) = 2 * ((g + f) * (z + 1) + ((x + 1) * (y + 1)) * z)
  BY <1>3, <1>4, <1>7
<1> QED BY <1>1, <1>2, <1>4, <1>6, <1>8, <1>9 DEF Times

\* A turn of the loops over a cubic lattice keeps the counts.
LEMMA CubicVertexKeeps ==
  ASSUME shape \in CubicShape, vertices \in Seq(Position), indices \in Seq(IndexOf(shape)),
         CubicAt(shape, loop, Len(vertices), Len(indices)), CubicVertex
  PROVE  /\ vertices' \in Seq(Position) /\ indices' \in Seq(IndexOf(shape)) /\ shape' = shape
         /\ CubicAt(shape, loop', Len(vertices'), Len(indices'))
<1>1. PICK sx \in Nat \ {0}, sy \in Nat \ {0}, sz \in Nat \ {0} :
        shape.x = sx /\ shape.y = sy /\ shape.z = sz /\ shape.name = "cubic"
  BY DEF CubicShape
<1>2. PICK x \in 0 .. sx, y \in 0 .. sy, z \in 0 .. sz : loop = [x |-> x, y |-> y, z |-> z]
  <2>1. loop \in [x : 0 .. sx, y : 0 .. sy, z : 0 .. sz + 1] /\ loop.z <= sz
    BY <1>1 DEF CubicAt, CubicVertex
  <2> QED BY <2>1
<1>3. /\ sx \in Nat /\ sx # 0 /\ sy \in Nat /\ sy # 0 /\ sz \in Nat
      /\ x \in Nat /\ y \in Nat /\ z \in Nat /\ x <= sx /\ y <= sy /\ z <= sz
      /\ sx + 1 \in Nat /\ sy + 1 \in Nat /\ sz + 1 \in Nat
  BY <1>1, <1>2
<1>4. PICK layer \in Nat, gx \in Nat, gy \in Nat :
        layer = Times(sx + 1, sy + 1) /\ gx = Times(sx, sy + 1) /\ gy = Times(sx + 1, sy)
  BY <1>3, TimesFacts
<1>5. PICK lz \in Nat, xz \in Nat, yz \in Nat, wy \in Nat, xy \in Nat, count \in Nat :
        /\ lz = Times(layer, z) /\ xz = Times(gx, z) /\ yz = Times(gy, z)
        /\ wy = Times(sx + 1, y) /\ xy = Times(sx, y) /\ count = Times(layer, sz + 1)
  BY <1>3, <1>4, TimesFacts
<1>6. PICK behind \in Nat : /\ behind = IF y = 0 THEN 0 ELSE Times(sx + 1, y - 1)
                            /\ y # 0 => wy = behind + (sx + 1)
  <2>1. CASE y = 0
    BY <2>1
  <2>2. CASE y # 0
    <3>1. y \in Nat \ {0}
      BY <1>3, <2>2
    <3>2. Times(sx + 1, y - 1) \in Nat /\ Times(sx + 1, y) = Times(sx + 1, y - 1) + (sx + 1)
      BY <1>3, <3>1, TimesNext
    <3> QED BY <1>5, <2>2, <3>2
  <2> QED BY <2>1, <2>2
<1>7. /\ layer \in Nat /\ gx \in Nat /\ gy \in Nat /\ lz \in Nat /\ xz \in Nat /\ yz \in Nat
      /\ wy \in Nat /\ xy \in Nat /\ count \in Nat /\ behind \in Nat
      /\ (y # 0 => wy = behind + (sx + 1))
  BY <1>4, <1>5, <1>6
<1>8. /\ Times(sx + 1, y + 1) = wy + (sx + 1) /\ Times(sx, y + 1) = xy + sx
      /\ Times(layer, z + 1) = lz + layer /\ Times(gx, z + 1) = xz + gx /\ Times(gy, z + 1) = yz + gy
  BY <1>3, <1>4, <1>5, TimesFacts
<1>9. y = sy => wy + (sx + 1) = layer /\ xy + sx = gx /\ wy = gy
  BY <1>4, <1>5, <1>8
<1>10. wy + (sx + 1) <= layer /\ lz + layer <= count
  <2>1. y < sy + 1 /\ z < sz + 1
    BY <1>3
  <2>2. Times(sx + 1, y) + (sx + 1) <= Times(sx + 1, sy + 1)
    BY <1>3, <2>1, TimesGrows
  <2>3. Times(layer, z) + layer <= Times(layer, sz + 1)
    BY <1>3, <1>7, <2>1, TimesGrows
  <2> QED BY <1>4, <1>5, <2>2, <2>3
<1>11. IF z = 0 THEN lz = 0 ELSE lz >= layer
  <2>1. CASE z = 0
    BY <1>5, <1>7, <2>1, TimesFacts
  <2>2. CASE z # 0
    <3>1. 0 \in Nat /\ 0 < z
      BY <1>3, <2>2
    <3>2. Times(layer, 0) = 0 /\ Times(layer, 0) + layer <= Times(layer, z)
      BY <1>3, <1>7, <3>1, TimesFacts, TimesGrows
    <3> QED BY <1>5, <1>7, <2>2, <3>2
  <2> QED BY <2>1, <2>2
<1>12. PICK n \in Nat, m \in Nat : Len(vertices) = n /\ vertex = n /\ Len(indices) = m
  BY DEF vertex
<1>13. /\ n = lz + wy + x
       /\ m = 2 * ((xz + xy + (IF x = 0 THEN 0 ELSE x - 1))
                   + (yz + (IF y = 0 THEN 0 ELSE behind + x)) + (IF z = 0 THEN 0 ELSE n - layer))
  <2>1. CubicAt(shape, [x |-> x, y |-> y, z |-> z], n, m)
    BY <1>2, <1>12
  <2>2. n = lz + wy + x
    BY <1>1, <1>4, <1>5, <2>1 DEF CubicAt, LatticeVertices
  <2>3. EdgesAlongX(shape, [x |-> x, y |-> y, z |-> z]) = xz + xy + (IF x = 0 THEN 0 ELSE x - 1)
    BY <1>1, <1>4, <1>5 DEF EdgesAlongX
  <2>4. EdgesAlongY(shape, [x |-> x, y |-> y, z |-> z]) = yz + (IF y = 0 THEN 0 ELSE behind + x)
    BY <1>1, <1>4, <1>5, <1>6 DEF EdgesAlongY
  <2>5. EdgesAlongZ(shape, [x |-> x, y |-> y, z |-> z]) = IF z = 0 THEN 0 ELSE n - layer
    BY <1>1, <1>4, <2>1 DEF EdgesAlongZ, CubicAt
  <2> QED BY <2>1, <2>2, <2>3, <2>4, <2>5 DEF CubicAt
<1>14. IndexOf(shape) = 0 .. count - 1
  BY <1>1, <1>4, <1>5, CubicCounts DEF IndexOf
<1> DEFINE edges == (IF loop.x # 0 THEN <<vertex - 1, vertex>> ELSE <<>>)
                    \o (IF loop.y # 0 THEN <<vertex - shape.x - 1, vertex>> ELSE <<>>)
                    \o (IF loop.z # 0 THEN <<vertex - (shape.x + 1) * (shape.y + 1), vertex>> ELSE <<>>)
           next == IF loop.x < shape.x THEN [loop EXCEPT !.x = @ + 1]
                   ELSE IF loop.y < shape.y THEN [loop EXCEPT !.x = 0, !.y = @ + 1]
                   ELSE [x |-> 0, y |-> 0, z |-> loop.z + 1]
<1>15. PICK dm \in Nat : /\ edges \in Seq(IndexOf(shape)) /\ Len(edges) = dm
                         /\ dm = (IF x = 0 THEN 0 ELSE 2) + (IF y = 0 THEN 0 ELSE 2) + (IF z = 0 THEN 0 ELSE 2)
  <2> DEFINE ex == IF x # 0 THEN <<n - 1, n>> ELSE <<>>
             ey == IF y # 0 THEN <<n - sx - 1, n>> ELSE <<>>
             ez == IF z # 0 THEN <<n - layer, n>> ELSE <<>>
  <2>1. edges = ex \o ey \o ez
    <3>1. (shape.x + 1) * (shape.y + 1) = layer
      BY <1>1, <1>4 DEF Times
    <3> QED BY <1>1, <1>2, <1>12, <3>1
  <2>2. n \in IndexOf(shape) /\ (x # 0 => n - 1 \in IndexOf(shape))
        /\ (y # 0 => n - sx - 1 \in IndexOf(shape)) /\ (z # 0 => n - layer \in IndexOf(shape))
    <3>1. n = lz + wy + x
      BY <1>13
    <3> QED BY <1>3, <1>7, <1>10, <1>11, <1>14, <3>1
  <2>3. ex \in Seq(IndexOf(shape)) /\ Len(ex) = IF x = 0 THEN 0 ELSE 2
    BY <2>2
  <2>4. ey \in Seq(IndexOf(shape)) /\ Len(ey) = IF y = 0 THEN 0 ELSE 2
    BY <2>2
  <2>5. ez \in Seq(IndexOf(shape)) /\ Len(ez) = IF z = 0 THEN 0 ELSE 2
    BY <2>2
  <2> HIDE DEF ex, ey, ez, edges
  <2>6. ASSUME NEW S, NEW s \in Seq(S), NEW t \in Seq(S)
        PROVE  s \o t \in Seq(S) /\ Len(s \o t) = Len(s) + Len(t)
    OBVIOUS
  <2>7. ex \o ey \in Seq(IndexOf(shape)) /\ Len(ex \o ey) = Len(ex) + Len(ey)
    BY <2>3, <2>4, <2>6
  <2>8. edges \in Seq(IndexOf(shape)) /\ Len(edges) = Len(ex) + Len(ey) + Len(ez)
    BY <2>1, <2>5, <2>6, <2>7
  <2>9. PICK dm \in Nat : dm = (IF x = 0 THEN 0 ELSE 2) + (IF y = 0 THEN 0 ELSE 2) + (IF z = 0 THEN 0 ELSE 2)
    OBVIOUS
  <2> QED BY <2>3, <2>4, <2>5, <2>8, <2>9
<1>16. dm = (IF x = 0 THEN 0 ELSE 2) + (IF y = 0 THEN 0 ELSE 2) + (IF z = 0 THEN 0 ELSE 2)
  BY <1>15
<1>17. /\ vertices' \in Seq(Position) /\ Len(vertices') = n + 1
       /\ indices' \in Seq(IndexOf(shape)) /\ Len(indices') = m + dm
       /\ loop' = next /\ shape' = shape
  <2> DEFINE new == << <<loop.x, loop.y, loop.z>> >>
  <2>1. Add(new, edges, next)
    BY DEF CubicVertex
  <2>2. new \in Seq(Position) /\ Len(new) = 1
    <3>1. loop.x \in Int /\ loop.y \in Int /\ loop.z \in Int
      BY <1>2, <1>3
    <3>2. <<loop.x, loop.y, loop.z>> \in Position
      BY <3>1, PositionType
    <3> QED BY <3>2
  <2> HIDE DEF edges, next, new
  <2>3. /\ vertices' \in Seq(Position) /\ Len(vertices') = Len(vertices) + Len(new)
        /\ indices' \in Seq(IndexOf(shape)) /\ Len(indices') = Len(indices) + Len(edges)
        /\ loop' = next /\ shape' = shape
    BY <1>15, <2>1, <2>2, Appended
  <2> QED BY <1>12, <1>15, <2>2, <2>3
\* What the next turn has to have for the numbers to be the lattice's.
<1>18. ASSUME NEW x2 \in 0 .. sx, NEW y2 \in 0 .. sy, NEW z2 \in 0 .. sz + 1,
              z2 = sz + 1 => x2 = 0 /\ y2 = 0, next = [x |-> x2, y |-> y2, z |-> z2],
              n + 1 = Times(layer, z2) + Times(sx + 1, y2) + x2,
              m + dm = 2 * ((Times(gx, z2) + Times(sx, y2) + (IF x2 = 0 THEN 0 ELSE x2 - 1))
                            + (Times(gy, z2) + (IF y2 = 0 THEN 0 ELSE Times(sx + 1, y2 - 1) + x2))
                            + (IF z2 = 0 THEN 0 ELSE n + 1 - layer))
       PROVE  CubicAt(shape, next, n + 1, m + dm)
  <2> HIDE DEF edges, next
  <2>1. LatticeVertices(shape, next) = n + 1
    BY <1>1, <1>4, <1>18 DEF LatticeVertices
  <2>2. EdgesAlongX(shape, next) = Times(gx, z2) + Times(sx, y2) + (IF x2 = 0 THEN 0 ELSE x2 - 1)
    BY <1>1, <1>4, <1>18 DEF EdgesAlongX
  <2>3. EdgesAlongY(shape, next)
          = Times(gy, z2) + (IF y2 = 0 THEN 0 ELSE Times(sx + 1, y2 - 1) + x2)
    BY <1>1, <1>4, <1>18 DEF EdgesAlongY
  <2>4. EdgesAlongZ(shape, next) = IF z2 = 0 THEN 0 ELSE n + 1 - layer
    BY <1>1, <1>4, <1>18, <2>1 DEF EdgesAlongZ
  <2>5. next \in [x : 0 .. sx, y : 0 .. sy, z : 0 .. sz + 1]
    BY <1>18
  <2> QED BY <1>1, <1>18, <2>1, <2>2, <2>3, <2>4, <2>5 DEF CubicAt
<1>19. PICK xm \in Nat, ym \in Nat, zm \in Int :
         /\ xm = (IF x = 0 THEN 0 ELSE x - 1) /\ ym = (IF y = 0 THEN 0 ELSE behind + x)
         /\ zm = (IF z = 0 THEN 0 ELSE n - layer)
  <2>1. (IF x = 0 THEN 0 ELSE x - 1) \in Nat /\ (IF y = 0 THEN 0 ELSE behind + x) \in Nat
        /\ (IF z = 0 THEN 0 ELSE n - layer) \in Int
    BY <1>3, <1>7, <1>12
  <2> QED BY <2>1
<1>20. m = 2 * ((xz + xy + xm) + (yz + ym) + zm) /\ n = lz + wy + x
  BY <1>13, <1>19
<1>21. CASE x < sx
  <2>1. next = [x |-> x + 1, y |-> y, z |-> z]
    BY <1>1, <1>2, <1>21
  <2>2. n + 1 = lz + wy + (x + 1)
    BY <1>3, <1>7, <1>20
  <2>3. PICK xn \in Nat, yn \in Nat, zn \in Int :
          /\ xn = (IF x + 1 = 0 THEN 0 ELSE (x + 1) - 1)
          /\ yn = (IF y = 0 THEN 0 ELSE behind + (x + 1))
          /\ zn = (IF z = 0 THEN 0 ELSE n + 1 - layer)
          /\ xn = xm + (IF x = 0 THEN 0 ELSE 1) /\ yn = ym + (IF y = 0 THEN 0 ELSE 1)
          /\ zn = zm + (IF z = 0 THEN 0 ELSE 1)
    <3>1. (IF x + 1 = 0 THEN 0 ELSE (x + 1) - 1) = xm + (IF x = 0 THEN 0 ELSE 1)
      BY <1>3, <1>19
    <3>2. (IF y = 0 THEN 0 ELSE behind + (x + 1)) = ym + (IF y = 0 THEN 0 ELSE 1)
      BY <1>3, <1>7, <1>19
    <3>3. (IF z = 0 THEN 0 ELSE n + 1 - layer) = zm + (IF z = 0 THEN 0 ELSE 1)
      BY <1>7, <1>12, <1>19
    <3>4. xm + (IF x = 0 THEN 0 ELSE 1) \in Nat /\ ym + (IF y = 0 THEN 0 ELSE 1) \in Nat
          /\ zm + (IF z = 0 THEN 0 ELSE 1) \in Int
      BY <1>19
    <3> QED BY <3>1, <3>2, <3>3, <3>4
  <2>4. xn = xm + (IF x = 0 THEN 0 ELSE 1) /\ yn = ym + (IF y = 0 THEN 0 ELSE 1)
        /\ zn = zm + (IF z = 0 THEN 0 ELSE 1)
        /\ xm \in Nat /\ ym \in Nat /\ zm \in Int
    BY <1>19, <2>3
  <2>5. m + dm = 2 * ((xz + xy + xn) + (yz + yn) + zn)
    BY <1>7, <1>16, <1>20, <2>4
  <2>6. x + 1 \in 0 .. sx /\ y \in 0 .. sy /\ z \in 0 .. sz + 1 /\ z # sz + 1
    BY <1>3, <1>21
  <2> HIDE DEF edges, next
  <2>7. CubicAt(shape, next, n + 1, m + dm)
    BY <1>5, <1>6, <1>18, <2>1, <2>2, <2>3, <2>5, <2>6
  <2> QED BY <1>17, <2>7
<1>22. CASE x = sx /\ y < sy
  <2>1. next = [x |-> 0, y |-> y + 1, z |-> z]
    <3>1. next = [loop EXCEPT !.x = 0, !.y = @ + 1]
      BY <1>1, <1>2, <1>22
    <3> QED BY <1>2, <3>1
  <2> HIDE DEF edges, next
  <2>2. n + 1 = lz + (wy + (sx + 1)) + 0
    BY <1>3, <1>7, <1>20, <1>22
  <2>3. (y + 1) - 1 = y /\ y + 1 # 0
    BY <1>3
  <2>4. PICK zn \in Int : zn = (IF z = 0 THEN 0 ELSE n + 1 - layer) /\ zn = zm + (IF z = 0 THEN 0 ELSE 1)
    <3>1. (IF z = 0 THEN 0 ELSE n + 1 - layer) = zm + (IF z = 0 THEN 0 ELSE 1)
      BY <1>7, <1>12, <1>19
    <3>2. zm + (IF z = 0 THEN 0 ELSE 1) \in Int
      BY <1>19
    <3> QED BY <3>1, <3>2
  <2>5. zn = zm + (IF z = 0 THEN 0 ELSE 1) /\ zn \in Int
    BY <2>4
  <2>6. xm + 1 = sx /\ x # 0 /\ xm \in Nat /\ ym \in Nat /\ zm \in Int
    BY <1>3, <1>19, <1>22
  <2>7. wy = ym + (IF y = 0 THEN 0 ELSE 1)
    <3>1. CASE y = 0
      <4>1. wy = 0
        BY <1>3, <1>5, <3>1, TimesFacts
      <4> QED BY <1>19, <3>1, <4>1
    <3>2. CASE y # 0
      <4>1. ym = behind + x /\ wy = behind + (sx + 1)
        BY <1>7, <1>19, <3>2
      <4> QED BY <1>3, <1>7, <1>22, <3>2, <4>1
    <3> QED BY <3>1, <3>2
  <2>8. m + dm = 2 * ((xz + (xy + sx) + 0) + (yz + (wy + 0)) + zn)
    BY <1>3, <1>7, <1>16, <1>20, <2>5, <2>6, <2>7
  <2>9. 0 \in 0 .. sx /\ y + 1 \in 0 .. sy /\ z \in 0 .. sz + 1 /\ z # sz + 1
    BY <1>3, <1>22
  <2>10. CubicAt(shape, next, n + 1, m + dm)
    <3>1. n + 1 = Times(layer, z) + Times(sx + 1, y + 1) + 0
      BY <1>5, <1>8, <2>2
    <3>2. m + dm = 2 * ((Times(gx, z) + Times(sx, y + 1) + (IF 0 = 0 THEN 0 ELSE 0 - 1))
                        + (Times(gy, z) + (IF y + 1 = 0 THEN 0 ELSE Times(sx + 1, (y + 1) - 1) + 0))
                        + (IF z = 0 THEN 0 ELSE n + 1 - layer))
      BY <1>5, <1>8, <2>3, <2>4, <2>8
    <3> QED BY <1>18, <2>1, <2>9, <3>1, <3>2
  <2> QED BY <1>17, <2>10
<1>23. CASE x = sx /\ y = sy
  <2>1. next = [x |-> 0, y |-> 0, z |-> z + 1]
    <3>1. ~ (loop.x < shape.x) /\ ~ (loop.y < shape.y)
      BY <1>1, <1>2, <1>3, <1>23
    <3> QED BY <1>2, <3>1
  <2> HIDE DEF edges, next
  <2>2. wy + (sx + 1) = layer /\ xy + sx = gx /\ wy = gy
    BY <1>9, <1>23
  <2>3. n + 1 = (lz + layer) + 0 + 0
    BY <1>3, <1>7, <1>20, <1>23, <2>2
  <2>4. PICK zn \in Int : zn = n + 1 - layer /\ zn = zm + (IF z = 0 THEN 0 ELSE 1)
    <3>1. CASE z = 0
      <4>1. lz = 0 /\ zm = 0
        BY <1>7, <1>11, <1>19, <3>1
      <4>2. n + 1 - layer = 0
        BY <1>7, <1>12, <2>3, <4>1
      <4> QED BY <3>1, <4>1, <4>2
    <3>2. CASE z # 0
      <4>1. zm = n - layer
        BY <1>19, <3>2
      <4>2. n + 1 - layer = zm + 1 /\ zm + 1 \in Int
        BY <1>7, <1>12, <1>19, <4>1
      <4> QED BY <3>2, <4>2
    <3> QED BY <3>1, <3>2
  <2>5. zn = zm + (IF z = 0 THEN 0 ELSE 1) /\ zn \in Int
    BY <2>4
  <2>6. xm + 1 = sx /\ x # 0 /\ xm \in Nat /\ ym \in Nat /\ zm \in Int
    BY <1>3, <1>19, <1>23
  <2>7. gy = ym + (IF y = 0 THEN 0 ELSE 1)
    <3>1. y # 0
      BY <1>3, <1>23
    <3>2. ym = behind + x /\ wy = behind + (sx + 1)
      BY <1>7, <1>19, <3>1
    <3> QED BY <1>3, <1>7, <1>23, <2>2, <3>1, <3>2
  <2>8. m + dm = 2 * (((xz + gx) + 0 + 0) + ((yz + gy) + 0) + zn)
    <3>1. xz + (xy + xm) + 1 = xz + gx
      BY <1>3, <1>7, <2>2, <2>6
    <3> QED BY <1>3, <1>7, <1>16, <1>20, <2>5, <2>6, <2>7, <3>1
  <2>9. 0 \in 0 .. sx /\ 0 \in 0 .. sy /\ z + 1 \in 0 .. sz + 1 /\ z + 1 # 0
    BY <1>3
  <2>10. CubicAt(shape, next, n + 1, m + dm)
    <3>1. Times(sx + 1, 0) = 0 /\ Times(sx, 0) = 0
      BY <1>3, TimesFacts
    <3>2. n + 1 = Times(layer, z + 1) + Times(sx + 1, 0) + 0
      BY <1>8, <2>3, <3>1
    <3>3. m + dm = 2 * ((Times(gx, z + 1) + Times(sx, 0) + (IF 0 = 0 THEN 0 ELSE 0 - 1))
                        + (Times(gy, z + 1) + (IF 0 = 0 THEN 0 ELSE Times(sx + 1, 0 - 1) + 0))
                        + (IF z + 1 = 0 THEN 0 ELSE n + 1 - layer))
      <4>1. (yz + gy) + 0 = (yz + gy)
        BY <1>7
      <4> QED BY <1>8, <2>4, <2>8, <2>9, <3>1, <4>1
    <3> QED BY <1>18, <2>1, <2>9, <3>2, <3>3
  <2> QED BY <1>17, <2>10
<1> QED BY <1>3, <1>21, <1>22, <1>23

-----------------------------------------------------------------------------
\* The numbers of a loop never pass the counts, and reach them at the end.
Fits(s, n, m) ==
  /\ VerticesCount(s) \in Nat \ {0} /\ n <= VerticesCount(s) /\ m <= IndicesCount(s)
  /\ Generated => n = VerticesCount(s) /\ m = IndicesCount(s)

\* An earlier place of the side has fewer vertices and indices before it.
LEMMA LevelGrows ==
  ASSUME NEW b \in Nat \ {0}, NEW level \in Nat, NEW turn \in 0 .. b - 1, NEW last \in Nat,
         level <= last, level = last => turn = 0
  PROVE  /\ Times(b, level) + turn <= Times(b, last)
         /\ Strip(b, level, turn) <= Strip(b, last, 0)
<1>1. CASE level = last
  <2>1. Times(b, level) \in Nat /\ Strip(b, level, 0) \in Nat
    <3>1. 0 \in 0 .. b - 1
      OBVIOUS
    <3> QED BY <3>1, TimesFacts, StripNext
  <2> QED BY <1>1, <2>1
<1>2. CASE level < last
  <2>1. Times(b, level) \in Nat /\ Times(b, last) \in Nat /\ Times(b, level) + b <= Times(b, last)
    BY <1>2, TimesFacts, TimesGrows
  <2>2. Strip(b, level, turn) <= Strip(b, last, 0)
    <3>1. CASE level = 0
      <4>1. Strip(b, last, 0) \in Nat
        <5>1. 0 \in 0 .. b - 1
          OBVIOUS
        <5> QED BY <5>1, StripNext
      <4> QED BY <3>1, <4>1 DEF Strip
    <3>2. CASE level # 0
      <4>1. level - 1 \in Nat /\ last - 1 \in Nat /\ b + 1 \in Nat /\ level - 1 < last - 1 /\ last # 0
        BY <1>2, <3>2
      <4>2. PICK i \in Nat, j \in Nat : /\ i = Times(b + 1, level - 1) /\ j = Times(b + 1, last - 1)
                                        /\ i + (b + 1) <= j
        <5>1. /\ Times(b + 1, level - 1) \in Nat /\ Times(b + 1, last - 1) \in Nat
              /\ Times(b + 1, level - 1) + (b + 1) <= Times(b + 1, last - 1)
          BY <4>1, TimesFacts, TimesGrows
        <5> QED BY <5>1
      <4>3. Strip(b, level, turn) = 2 * i + 2 * turn /\ Strip(b, last, 0) = 2 * j + 2 * 0
        BY <3>2, <4>1, <4>2 DEF Strip
      <4> QED BY <4>2, <4>3
    <3> QED BY <3>1, <3>2
  <2> QED BY <2>1, <2>2
<1> QED BY <1>1, <1>2

\* Wherever a cylinder's loops stand, the buffers hold what they have written.
LEMMA CylinderFits ==
  ASSUME shape \in CylinderShape, NEW n \in Nat, NEW m \in Nat, CylinderAt(shape, loop, n, m)
  PROVE  Fits(shape, n, m)
<1>1. PICK b \in Nat \ {0}, h \in Nat \ {0}, k \in Nat \ {0},
           bh \in Nat, bk \in Nat, sh \in Nat, sk \in Nat :
        CylinderNumbers(shape, b, h, k, bh, bk, sh, sk)
  BY CylinderCounts
<1>2. VerticesCount(shape) = bh + 2 * bk + 2 /\ IndicesCount(shape) = sh + 2 * sk + 4 * b + 4
  BY <1>1 DEF CylinderNumbers
<1>3. CASE loop.part = "bottom" /\ loop.level = shape.cap + 1
  <2>1. n = VerticesCount(shape) /\ m = IndicesCount(shape)
    <3>1. ~ (loop.level <= LevelsOf(shape, loop.part))
      BY <1>1, <1>3 DEF CylinderNumbers, LevelsOf
    <3> QED BY <3>1 DEF CylinderAt
  <2> QED BY <1>2, <2>1 DEF Fits
<1>4. CASE ~ (loop.part = "bottom" /\ loop.level = shape.cap + 1)
  <2>1. /\ loop.part \in {"side", "top", "jump", "bottom"} /\ loop.level \in Nat
        /\ loop.step \in 0 .. b - 1
        /\ loop.level <= LevelsOf(shape, loop.part) /\ (loop.level = LevelsOf(shape, loop.part) => loop.step = 0)
        /\ n = PartVertices(shape, loop.part) + Times(b, loop.level) + loop.step
        /\ m = PartIndices(shape, loop.part) + Strip(b, loop.level, loop.step)
    BY <1>1, <1>4 DEF CylinderAt, CylinderNumbers
  <2>2. ~ Generated
    <3>1. shape.name = "cylinder"
      BY <1>1 DEF CylinderNumbers
    <3> QED BY <1>1, <2>1, <3>1 DEF Generated, levels_count, LevelsOf, CylinderNumbers
  <2>3. PICK t \in Nat, i \in Nat, last \in Nat, tl \in Nat, il \in Nat :
          /\ t = Times(b, loop.level) + loop.step /\ i = Strip(b, loop.level, loop.step)
          /\ last = LevelsOf(shape, loop.part)
          /\ tl = Times(b, last) /\ il = Strip(b, last, 0) /\ t <= tl /\ i <= il
    <3>1. LevelsOf(shape, loop.part) \in Nat
      BY <1>1 DEF CylinderNumbers, LevelsOf
    <3>2. Times(b, loop.level) + loop.step \in Nat /\ Times(b, LevelsOf(shape, loop.part)) \in Nat
      <4>1. loop.level \in Nat /\ loop.step \in Nat /\ b \in Nat
        BY <2>1
      <4>2. Times(b, loop.level) \in Nat /\ Times(b, LevelsOf(shape, loop.part)) \in Nat
        BY <3>1, <4>1, TimesFacts
      <4> QED BY <4>1, <4>2
    <3>3. 0 \in 0 .. b - 1
      OBVIOUS
    <3>4. Strip(b, loop.level, loop.step) \in Nat /\ Strip(b, LevelsOf(shape, loop.part), 0) \in Nat
      BY <2>1, <3>1, <3>3, StripNext
    <3>5. /\ Times(b, loop.level) + loop.step <= Times(b, LevelsOf(shape, loop.part))
          /\ Strip(b, loop.level, loop.step) <= Strip(b, LevelsOf(shape, loop.part), 0)
      BY <2>1, <3>1, LevelGrows
    <3> QED BY <3>1, <3>2, <3>4, <3>5
  <2>4. n = PartVertices(shape, loop.part) + t /\ m = PartIndices(shape, loop.part) + i
    <3>1. PartVertices(shape, loop.part) \in Nat
      BY <1>1, <2>1 DEF PartVertices, CylinderNumbers
    <3>2. Times(b, loop.level) \in Nat /\ loop.step \in Nat
      <4>1. loop.level \in Nat /\ loop.step \in Nat /\ b \in Nat
        BY <2>1
      <4> QED BY <4>1, TimesFacts
    <3>3. n = PartVertices(shape, loop.part) + (Times(b, loop.level) + loop.step)
      BY <2>1, <3>1, <3>2
    <3> QED BY <2>1, <2>3, <3>3
  <2>5. t \in Nat /\ i \in Nat /\ t <= tl /\ i <= il
    BY <2>3
  <2>6. CASE loop.part = "side"
    <3>1. PartVertices(shape, "side") = 0 /\ PartIndices(shape, "side") = 0 /\ tl = bh /\ il = sh
      BY <1>1, <2>3, <2>6 DEF PartVertices, PartIndices, CylinderNumbers, LevelsOf
    <3>2. n = t /\ m = i /\ t <= bh /\ i <= sh
      BY <2>4, <2>5, <2>6, <3>1
    <3> QED BY <1>2, <2>2, <3>2 DEF Fits
  <2>7. CASE loop.part = "top"
    <3>1. PartVertices(shape, "top") = bh /\ PartIndices(shape, "top") = sh /\ tl = bk /\ il = sk
      BY <1>1, <2>3, <2>7 DEF PartVertices, PartIndices, CylinderNumbers, LevelsOf
    <3>2. n = bh + t /\ m = sh + i /\ t <= bk /\ i <= sk
      BY <2>4, <2>5, <2>7, <3>1
    <3> QED BY <1>2, <2>2, <2>5, <3>2 DEF Fits
  <2>8. CASE loop.part = "jump"
    <3>1. /\ PartVertices(shape, "jump") = bh + bk + 1 /\ PartIndices(shape, "jump") = sh + sk + 2 * b + 1
          /\ tl = bk /\ il = sk
      BY <1>1, <2>3, <2>8 DEF PartVertices, PartIndices, CylinderNumbers, LevelsOf
    <3>2. n = bh + bk + 1 + t /\ m = sh + sk + 2 * b + 1 + i /\ t <= bk /\ i <= sk
      BY <2>4, <2>5, <2>8, <3>1
    <3> QED BY <1>2, <2>2, <2>5, <3>2 DEF Fits
  <2>9. CASE loop.part = "bottom"
    <3>1. /\ PartVertices(shape, "bottom") = bh + bk + 1 /\ PartIndices(shape, "bottom") = sh + sk + 2 * b + 3
          /\ tl = bk /\ il = sk
      BY <1>1, <2>3, <2>9 DEF PartVertices, PartIndices, CylinderNumbers, LevelsOf
    <3>2. n = bh + bk + 1 + t /\ m = sh + sk + 2 * b + 3 + i /\ t <= bk /\ i <= sk
      BY <2>4, <2>5, <2>9, <3>1
    <3> QED BY <1>2, <2>2, <2>5, <3>2 DEF Fits
  <2> QED BY <2>1, <2>6, <2>7, <2>8, <2>9
<1> QED BY <1>3, <1>4

\* The same for a sphere.
LEMMA SphereFits ==
  ASSUME shape \in SphereShape, NEW n \in Nat, NEW m \in Nat, SphereAt(shape, loop, n, m)
  PROVE  Fits(shape, n, m)
<1>1. PICK k \in Nat, around \in Nat, v \in Nat, i \in Nat : SphereNumbers(shape, k, around, v, i)
  BY SphereCounts
<1>2. VerticesCount(shape) = 2 + v /\ IndicesCount(shape) = 6 * around + 6 * i /\ v = i + around
  BY <1>1 DEF SphereNumbers
<1>3. PICK theta \in 0 .. k + 1, phi \in 0 .. around - 1 : loop.theta = theta /\ loop.phi = phi
  BY <1>1 DEF SphereAt, SphereNumbers
<1>4. Generated => theta = k + 1
  <2>1. shape.name = "sphere" /\ shape.meridian = k
    BY <1>1 DEF SphereNumbers
  <2>2. Generated => theta > k
    BY <1>3, <2>1 DEF Generated
  <2> QED BY <1>3, <2>2
<1>5. CASE theta = 0 /\ n = 0 /\ m = 0
  BY <1>1, <1>2, <1>4, <1>5 DEF Fits
<1>6. CASE /\ theta \in 1 .. k - 1 /\ n = 1 + Times(around, theta - 1) + phi
           /\ m = IF theta = 1 THEN 3 * phi ELSE 3 * around + 6 * (Times(around, theta - 2) + phi)
  <2>1. PICK t \in Nat : t = Times(around, theta - 1) /\ t + around <= v
    <3>1. theta - 1 \in Nat /\ theta - 1 < k - 1 /\ k - 1 \in Nat
      BY <1>6
    <3>2. Times(around, k - 1) = v
      BY <1>1 DEF SphereNumbers
    <3>3. Times(around, theta - 1) \in Nat /\ Times(around, theta - 1) + around <= v
      BY <3>1, <3>2, TimesFacts, TimesGrows
    <3> QED BY <3>3
  <2>2. m <= 6 * around + 6 * i
    <3>1. CASE theta = 1
      BY <1>3, <1>6, <3>1
    <3>2. CASE theta # 1
      <4>1. theta - 2 \in Nat /\ theta - 2 < k - 2 /\ k - 2 \in Nat
        BY <1>6, <3>2
      <4>2. Times(around, k - 2) = i
        BY <1>1 DEF SphereNumbers
      <4>3. PICK j \in Nat : j = Times(around, theta - 2) /\ j + around <= i
        <5>1. Times(around, theta - 2) \in Nat /\ Times(around, theta - 2) + around <= i
          BY <4>1, <4>2, TimesFacts, TimesGrows
        <5> QED BY <5>1
      <4>4. m = 3 * around + 6 * (j + phi)
        BY <1>6, <3>2, <4>3
      <4> QED BY <1>3, <4>3, <4>4
    <3> QED BY <3>1, <3>2
  <2>3. n <= 2 + v
    BY <1>3, <1>6, <2>1
  <2>4. theta # k + 1
    BY <1>6
  <2> QED BY <1>2, <1>4, <2>2, <2>3, <2>4 DEF Fits
<1>7. CASE /\ theta = k /\ n = 1 + Times(around, k - 1) + (IF phi = 0 THEN 0 ELSE 1)
           /\ m = 3 * around + 6 * Times(around, k - 2) + 3 * phi
  <2>1. Times(around, k - 1) = v /\ Times(around, k - 2) = i
    BY <1>1 DEF SphereNumbers
  <2>2. n <= 2 + v /\ m <= 6 * around + 6 * i
    BY <1>3, <1>7, <2>1
  <2> QED BY <1>2, <1>4, <1>7, <2>2 DEF Fits
<1>8. CASE n = VerticesCount(shape) /\ m = IndicesCount(shape)
  BY <1>2, <1>8 DEF Fits
<1> QED
  <2>1. shape.meridian = k /\ 2 * k = around
    BY <1>1 DEF SphereNumbers
  <2> QED BY <1>3, <1>5, <1>6, <1>7, <1>8, <2>1 DEF SphereAt

\* The same for a cube.
LEMMA CubeFits ==
  ASSUME shape \in CubeShape, NEW n \in Nat, NEW m \in Nat, CubeAt(shape, loop, n, m)
  PROVE  Fits(shape, n, m)
<1>1. PICK d \in Nat \ {0} : shape.degree = d /\ shape.name = "cube"
  BY DEF CubeShape
<1>2. PICK tv \in Nat, ti \in Nat : /\ tv = tesselated_vertices_count(d) /\ ti = tesselated_indices_count(d)
                                    /\ tv >= d + 1
  BY TessellatedVertices, TessellatedIndices
<1>3. VerticesCount(shape) = 12 * tv /\ IndicesCount(shape) = 12 * ti
  BY <1>1, <1>2 DEF VerticesCount, IndicesCount, CUBE_INDICES
<1>4. PICK face \in 1 .. 13, line \in 0 .. d, column \in 0 .. d :
        /\ loop.face = face /\ loop.line = line /\ loop.column = column
        /\ column <= line /\ (face = 13 => line = 0)
  BY <1>1 DEF CubeAt
<1>5. PICK fv \in Nat, fi \in Nat : fv = Times(tv, face - 1) /\ fi = Times(ti, face - 1)
  <2>1. face - 1 \in Nat
    BY <1>4
  <2> QED BY <2>1, TimesFacts
<1>6. PICK lv \in Nat, li \in Nat, ci \in Nat :
        /\ lv = LinesVertices(line) /\ li = LinesIndices(line)
        /\ ci = (IF column = 0 THEN 0 ELSE 6 * (column - 1))
        /\ lv + column <= tv /\ li + ci <= ti
  <2>1. CASE line = 0
    <3>1. LinesVertices(line) = 0 /\ LinesIndices(line) = 0 /\ column = 0
      BY <1>4, <2>1 DEF LinesVertices, LinesIndices
    <3> QED BY <1>2, <3>1
  <2>2. CASE line # 0
    <3>1. PICK j \in Nat, r \in Nat : line = j + 1 /\ d = line + r
      <4>1. line - 1 \in Nat /\ line = (line - 1) + 1 /\ d - line \in Nat /\ d = line + (d - line)
        BY <1>4, <2>2
      <4> QED BY <4>1
    <3>2. line - 1 = j
      BY <3>1
    <3>3. PICK lv \in Nat, li \in Nat : lv = LinesVertices(line) /\ li = LinesIndices(line)
                                        /\ lv = tesselated_vertices_count(j) /\ li = tesselated_indices_count(j)
      BY <2>2, <3>2, TessellatedVertices, TessellatedIndices DEF LinesVertices, LinesIndices
    <3>4. lv + j + 2 <= tv
      <4>1. tesselated_vertices_count(j + 1) = tesselated_vertices_count(j) + j + 2
        BY TessellatedVertices
      <4>2. tesselated_vertices_count(j + 1) <= tesselated_vertices_count(d)
        BY <3>1, TessellatedGrows
      <4> QED BY <1>2, <3>3, <4>1, <4>2
    <3>5. li + 6 * j + 3 <= ti
      <4>1. tesselated_indices_count(j + 1) = li + 6 * j + 3
        BY <3>3, TessellatedIndices
      <4>2. tesselated_indices_count(j + 1) <= ti
        <5>1. /\ (j + 1) * (j + 1) <= (j + 1) * d /\ d * (j + 1) <= d * d
          <6>1. j + 1 \in Nat /\ j + 1 <= d /\ d \in Nat
            BY <3>1
          <6> QED BY <6>1, Monotone
        <5>2. PICK x \in Int, y \in Int, z \in Int : x = (j + 1) * (j + 1) /\ y = (j + 1) * d /\ z = d * d
          OBVIOUS
        <5>3. d * (j + 1) = y
          BY <5>2
        <5>4. 3 * (j + 1) * (j + 1) = 3 * x /\ 3 * d * d = 3 * z
          BY <5>2
        <5>5. x <= z
          BY <5>1, <5>2, <5>3
        <5> QED BY <1>2, <5>2, <5>4, <5>5 DEF tesselated_indices_count
      <4> QED BY <4>1, <4>2
    <3>6. PICK ci \in Nat : ci = (IF column = 0 THEN 0 ELSE 6 * (column - 1)) /\ ci <= 6 * j
      <4>1. column <= j + 1
        BY <1>4, <3>1
      <4> QED BY <4>1
    <3>7. column <= j + 1
      BY <1>4, <3>1
    <3>8. lv + column <= tv /\ li + ci <= ti
      BY <1>2, <3>3, <3>4, <3>5, <3>6, <3>7
    <3> QED BY <3>3, <3>6, <3>8
  <2> QED BY <2>1, <2>2
<1>7. n = fv + lv + column /\ m = fi + li + ci
  BY <1>1, <1>2, <1>4, <1>5, <1>6 DEF CubeAt
<1>8. Times(tv, 12) = 12 * tv /\ Times(ti, 12) = 12 * ti
  BY <1>2 DEF Times
<1>9. CASE face = 13
  <2>1. fv = 12 * tv /\ fi = 12 * ti
    <3>1. face - 1 = 12
      BY <1>9
    <3> QED BY <1>5, <1>8, <3>1
  <2>2. lv = 0 /\ li = 0 /\ column = 0 /\ ci = 0
    BY <1>4, <1>6, <1>9 DEF LinesVertices, LinesIndices
  <2>3. n = 12 * tv /\ m = 12 * ti
    BY <1>2, <1>7, <2>1, <2>2
  <2>4. 12 * tv \in Nat \ {0} /\ 12 * ti \in Nat
    BY <1>2
  <2> QED BY <1>3, <2>3, <2>4 DEF Fits
<1>10. CASE face # 13
  <2>1. fv + tv <= 12 * tv /\ fi + ti <= 12 * ti
    <3>1. face - 1 \in Nat /\ 12 \in Nat /\ face - 1 < 12
      BY <1>4, <1>10
    <3>2. Times(tv, face - 1) + tv <= Times(tv, 12) /\ Times(ti, face - 1) + ti <= Times(ti, 12)
      BY <3>1, TimesGrows
    <3> QED BY <1>5, <1>8, <3>2
  <2>2. n <= 12 * tv /\ m <= 12 * ti /\ 12 * tv \in Nat \ {0}
    BY <1>2, <1>4, <1>5, <1>6, <1>7, <2>1
  <2>3. ~ Generated
    BY <1>1, <1>4, <1>10 DEF Generated, CUBE_INDICES
  <2> QED BY <1>3, <2>2, <2>3 DEF Fits
<1> QED BY <1>9, <1>10

\* The same for a plane.
LEMMA PlaneFits ==
  ASSUME shape \in PlaneShape, NEW n \in Nat, NEW m \in Nat, PlaneAt(shape, loop, n, m)
  PROVE  Fits(shape, n, m)
<1>1. PICK side \in Nat : side = 2 * shape.half /\ side > 0 /\ shape.name = "plane" /\ shape.half \in Nat
  BY DEF PlaneShape
<1>2. VerticesCount(shape) = Times(side + 1, side + 1) /\ IndicesCount(shape) = RowsIndices(side, side + 1)
  BY <1>1, PlaneCounts
<1>3. PICK row \in 0 .. side + 1, column \in 0 .. side :
        /\ row = loop.i + shape.half /\ column = loop.j + shape.half /\ loop.i \in Int
        /\ row = side + 1 => column = 0
        /\ n = Times(side + 1, row) + column
        /\ m = RowsIndices(side, row) + (IF row = 0 \/ column = 0 THEN 0 ELSE 6 * (column - 1))
  BY <1>1 DEF PlaneAt
<1>4. Generated <=> row = side + 1
  <2>1. Generated <=> loop.i > shape.half
    BY <1>1 DEF Generated
  <2> QED BY <1>1, <1>3, <2>1
<1>5. PICK v \in Nat, i \in Nat : v = Times(side + 1, side + 1) /\ i = RowsIndices(side, side + 1)
  <2>1. side + 1 \in Nat
    BY <1>1
  <2>2. Times(side + 1, side + 1) \in Nat /\ RowsIndices(side, side + 1) \in Nat
    BY <1>1, <2>1, TimesFacts, RowsNext
  <2> QED BY <2>2
<1>6. v > 0
  <2>1. 0 \in Nat /\ side + 1 \in Nat /\ 0 < side + 1
    BY <1>1
  <2>2. Times(side + 1, 0) = 0 /\ Times(side + 1, 0) + (side + 1) <= v
    BY <1>5, <2>1, TimesFacts, TimesGrows
  <2> QED BY <1>1, <1>5, <2>2
<1>7. CASE row = side + 1
  <2>1. column = 0 /\ n = v + 0 /\ m = i + 0
    BY <1>3, <1>5, <1>7
  <2> QED BY <1>2, <1>5, <1>6, <2>1 DEF Fits
<1>8. CASE row # side + 1
  <2>1. row \in Nat /\ row < side + 1 /\ side + 1 \in Nat
    BY <1>3, <1>8
  <2>2. PICK t \in Nat : t = Times(side + 1, row) /\ t + (side + 1) <= v
    <3>1. Times(side + 1, row) \in Nat /\ Times(side + 1, row) + (side + 1) <= Times(side + 1, side + 1)
      BY <2>1, TimesFacts, TimesGrows
    <3> QED BY <1>5, <3>1
  <2>3. n <= v
    BY <1>3, <2>2
  <2>4. m <= i
    <3>1. CASE row = 0
      <4>1. m = 0
        BY <1>3, <3>1 DEF RowsIndices
      <4> QED BY <1>5, <4>1
    <3>2. CASE row # 0
      <4>1. row - 1 \in Nat /\ row - 1 < side /\ side \in Nat /\ (side + 1) - 1 = side /\ side + 1 # 0
        BY <2>1, <3>2
      <4>2. PICK j \in Nat, z \in Nat : j = Times(side, row - 1) /\ z = Times(side, side) /\ j + side <= z
        <5>1. /\ Times(side, row - 1) \in Nat /\ Times(side, side) \in Nat
              /\ Times(side, row - 1) + side <= Times(side, side)
          BY <4>1, TimesFacts, TimesGrows
        <5> QED BY <5>1
      <4>3. RowsIndices(side, row) = 6 * j /\ i = 6 * z
        BY <1>5, <3>2, <4>1, <4>2 DEF RowsIndices
      <4>4. m = 6 * j + (IF column = 0 THEN 0 ELSE 6 * (column - 1))
        BY <1>3, <3>2, <4>3
      <4>5. column \in Int /\ column <= side
        BY <1>3
      <4> QED BY <4>2, <4>3, <4>4, <4>5
    <3> QED BY <3>1, <3>2
  <2> QED BY <1>2, <1>4, <1>5, <1>6, <1>8, <2>3, <2>4 DEF Fits
<1> QED BY <1>7, <1>8

\* The same for a cubic lattice.
LEMMA CubicFits ==
  ASSUME shape \in CubicShape, NEW n \in Nat, NEW m \in Nat, CubicAt(shape, loop, n, m)
  PROVE  Fits(shape, n, m)
<1>1. PICK sx \in Nat \ {0}, sy \in Nat \ {0}, sz \in Nat \ {0} :
        shape.x = sx /\ shape.y = sy /\ shape.z = sz /\ shape.name = "cubic"
  BY DEF CubicShape
<1>2. PICK x \in 0 .. sx, y \in 0 .. sy, z \in 0 .. sz + 1 :
        loop = [x |-> x, y |-> y, z |-> z] /\ (z = sz + 1 => x = 0 /\ y = 0)
  <2>1. loop \in [x : 0 .. sx, y : 0 .. sy, z : 0 .. sz + 1] /\ (loop.z = sz + 1 => loop.x = 0 /\ loop.y = 0)
    BY <1>1 DEF CubicAt
  <2> QED BY <2>1
<1>3. /\ sx \in Nat /\ sx # 0 /\ sy \in Nat /\ sy # 0 /\ sz \in Nat
      /\ x \in Nat /\ y \in Nat /\ z \in Nat /\ x <= sx /\ y <= sy /\ z <= sz + 1
      /\ sx + 1 \in Nat /\ sy + 1 \in Nat /\ sz + 1 \in Nat
  BY <1>1, <1>2
<1>4. PICK layer \in Nat, gx \in Nat, gy \in Nat :
        layer = Times(sx + 1, sy + 1) /\ gx = Times(sx, sy + 1) /\ gy = Times(sx + 1, sy)
  BY <1>3, TimesFacts
<1>5. PICK lz \in Nat, xz \in Nat, yz \in Nat, wy \in Nat, xy \in Nat :
        /\ lz = Times(layer, z) /\ xz = Times(gx, z) /\ yz = Times(gy, z)
        /\ wy = Times(sx + 1, y) /\ xy = Times(sx, y)
  BY <1>3, <1>4, TimesFacts
<1>6. PICK all \in Nat, allx \in Nat, ally \in Nat, allz \in Nat :
        /\ all = Times(layer, sz + 1) /\ allx = Times(gx, sz + 1) /\ ally = Times(gy, sz + 1)
        /\ allz = Times(layer, sz) /\ all = allz + layer
  <2>1. /\ Times(layer, sz + 1) \in Nat /\ Times(gx, sz + 1) \in Nat /\ Times(gy, sz + 1) \in Nat
        /\ Times(layer, sz) \in Nat /\ Times(layer, sz + 1) = Times(layer, sz) + layer
    BY <1>3, <1>4, TimesFacts
  <2> QED BY <2>1
<1>7. VerticesCount(shape) = all /\ IndicesCount(shape) = 2 * (allx + ally + allz)
  BY <1>1, <1>4, <1>6, CubicCounts
<1>8. all > 0
  <2>1. layer >= 1
    <3>1. Times(sx + 1, sy + 1) = Times(sx + 1, sy) + (sx + 1)
      BY <1>3, TimesFacts
    <3> QED BY <1>3, <1>4, <3>1
  <2> QED BY <1>6, <2>1
<1>9. /\ n = lz + wy + x
      /\ m = 2 * ((xz + xy + (IF x = 0 THEN 0 ELSE x - 1))
                  + (yz + (IF y = 0 THEN 0 ELSE Times(sx + 1, y - 1) + x)) + (IF z = 0 THEN 0 ELSE n - layer))
  <2>1. CubicAt(shape, [x |-> x, y |-> y, z |-> z], n, m)
    BY <1>2
  <2>2. n = lz + wy + x
    BY <1>1, <1>4, <1>5, <2>1 DEF CubicAt, LatticeVertices
  <2>3. EdgesAlongX(shape, [x |-> x, y |-> y, z |-> z]) = xz + xy + (IF x = 0 THEN 0 ELSE x - 1)
    BY <1>1, <1>4, <1>5 DEF EdgesAlongX
  <2>4. EdgesAlongY(shape, [x |-> x, y |-> y, z |-> z])
          = yz + (IF y = 0 THEN 0 ELSE Times(sx + 1, y - 1) + x)
    BY <1>1, <1>4, <1>5 DEF EdgesAlongY
  <2>5. EdgesAlongZ(shape, [x |-> x, y |-> y, z |-> z]) = IF z = 0 THEN 0 ELSE n - layer
    BY <1>1, <1>4, <2>1 DEF EdgesAlongZ, CubicAt
  <2> QED BY <2>1, <2>2, <2>3, <2>4, <2>5 DEF CubicAt
<1>10. Generated <=> z = sz + 1
  <2>1. Generated <=> z > sz
    BY <1>1, <1>2 DEF Generated
  <2> QED BY <1>3, <2>1
<1>11. CASE z = sz + 1
  <2>1. x = 0 /\ y = 0 /\ z # 0 /\ wy = 0 /\ xy = 0 /\ lz = all /\ xz = allx /\ yz = ally
    BY <1>2, <1>3, <1>5, <1>6, <1>11, TimesFacts
  <2>2. n = all
    BY <1>6, <1>9, <2>1
  <2>3. m = 2 * ((allx + 0 + 0) + (ally + 0) + (n - layer))
    BY <1>9, <2>1
  <2>4. m = 2 * (allx + ally + allz)
    BY <1>4, <1>6, <2>2, <2>3
  <2> QED BY <1>6, <1>7, <1>8, <2>2, <2>4 DEF Fits
<1>12. CASE z # sz + 1
  <2>1. y < sy + 1 /\ z < sz + 1
    BY <1>3, <1>12
  <2>2. wy + (sx + 1) <= layer /\ xy + sx <= gx
    <3>1. Times(sx + 1, y) + (sx + 1) <= Times(sx + 1, sy + 1) /\ Times(sx, y) + sx <= Times(sx, sy + 1)
      BY <1>3, <2>1, TimesGrows
    <3> QED BY <1>4, <1>5, <3>1
  <2>3. lz + layer <= all /\ xz + gx <= allx /\ yz + gy <= ally
    <3>1. /\ Times(layer, z) + layer <= Times(layer, sz + 1) /\ Times(gx, z) + gx <= Times(gx, sz + 1)
          /\ Times(gy, z) + gy <= Times(gy, sz + 1)
      BY <1>3, <1>4, <2>1, TimesGrows
    <3> QED BY <1>5, <1>6, <3>1
  <2>4. PICK xm \in Nat, ym \in Nat, zm \in Int :
          /\ xm = (IF x = 0 THEN 0 ELSE x - 1) /\ ym = (IF y = 0 THEN 0 ELSE Times(sx + 1, y - 1) + x)
          /\ zm = (IF z = 0 THEN 0 ELSE n - layer)
          /\ xm <= sx /\ ym <= gy /\ zm <= allz
    <3>1. PICK xm \in Nat : xm = (IF x = 0 THEN 0 ELSE x - 1) /\ xm <= sx
      BY <1>3
    <3>2. PICK ym \in Nat : ym = (IF y = 0 THEN 0 ELSE Times(sx + 1, y - 1) + x) /\ ym <= gy
      <4>1. CASE y = 0
        BY <1>4, <4>1
      <4>2. CASE y # 0
        <5>1. y - 1 \in Nat /\ y - 1 < sy
          BY <1>3, <4>2
        <5>2. PICK t \in Nat : t = Times(sx + 1, y - 1) /\ t + (sx + 1) <= gy
          <6>1. Times(sx + 1, y - 1) \in Nat /\ Times(sx + 1, y - 1) + (sx + 1) <= Times(sx + 1, sy)
            BY <1>3, <5>1, TimesFacts, TimesGrows
          <6> QED BY <1>4, <6>1
        <5>3. t + x \in Nat /\ t + x <= gy
          BY <1>3, <1>4, <5>2
        <5> QED BY <4>2, <5>2, <5>3
      <4> QED BY <4>1, <4>2
    <3>3. PICK zm \in Int : zm = (IF z = 0 THEN 0 ELSE n - layer) /\ zm <= allz
      <4>1. n - layer <= allz
        BY <1>3, <1>4, <1>5, <1>6, <1>9, <2>2, <2>3
      <4> QED BY <1>4, <1>6, <4>1
    <3> QED BY <3>1, <3>2, <3>3
  <2>5. xm \in Nat /\ ym \in Nat /\ zm \in Int /\ xm <= sx /\ ym <= gy /\ zm <= allz
    BY <2>4
  <2>6. m = 2 * ((xz + xy + xm) + (yz + ym) + zm)
    BY <1>9, <2>4
  <2>7. m <= 2 * (allx + ally + allz)
    BY <1>3, <1>4, <1>5, <1>6, <2>2, <2>3, <2>5, <2>6
  <2>8. n <= all
    BY <1>3, <1>4, <1>5, <1>6, <1>9, <2>2, <2>3
  <2>9. ~ Generated
    BY <1>10, <1>12
  <2> QED BY <1>6, <1>7, <1>8, <2>7, <2>8, <2>9 DEF Fits
<1> QED BY <1>11, <1>12

-----------------------------------------------------------------------------
\* The inductive invariant of the generators: the loop stands where its numbers say.
Stands(s, l, n, m) ==
  \/ s \in CylinderShape /\ CylinderAt(s, l, n, m)
  \/ s \in SphereShape /\ SphereAt(s, l, n, m)
  \/ s \in CubeShape /\ CubeAt(s, l, n, m)
  \/ s \in PlaneShape /\ PlaneAt(s, l, n, m)
  \/ s \in CubicShape /\ CubicAt(s, l, n, m)

MeshInv ==
  shape \in GeneratedMeshes =>
    /\ vertices \in Seq(Position) /\ indices \in Seq(IndexOf(shape))
    /\ Stands(shape, loop, Len(vertices), Len(indices))

\* The same for every generated mesh.
LEMMA MeshFits ==
  ASSUME NEW n \in Nat, NEW m \in Nat, Stands(shape, loop, n, m)
  PROVE  Fits(shape, n, m)
BY CylinderFits, SphereFits, CubeFits, PlaneFits, CubicFits DEF Stands

\* A generator starts with nothing written.
LEMMA FirstTurnStands ==
  ASSUME NEW s \in GeneratedMeshes
  PROVE  Stands(s, FirstTurn(s), 0, 0)
<1>1. CASE s \in CylinderShape
  <2>1. PICK b \in Nat \ {0}, h \in Nat \ {0} : s.base = b /\ s.height = h /\ s.name = "cylinder"
    BY <1>1, CircleAssumption DEF CylinderShape
  <2>2. FirstTurn(s) = [part |-> "side", level |-> 0, step |-> 0]
    BY <2>1 DEF FirstTurn
  <2>3. PartVertices(s, "side") + Times(b, 0) + 0 = 0 /\ PartIndices(s, "side") + Strip(b, 0, 0) = 0
    BY <2>1, TimesFacts DEF PartVertices, PartIndices, Strip
  <2>4. 0 <= LevelsOf(s, "side") /\ 0 # LevelsOf(s, "side")
    BY <2>1 DEF LevelsOf
  <2> QED BY <1>1, <2>1, <2>2, <2>3, <2>4 DEF Stands, CylinderAt
<1>2. CASE s \in SphereShape
  <2>1. PICK k \in Nat : s.meridian = k /\ s.name = "sphere" /\ k >= 2
    BY <1>2 DEF SphereShape
  <2>2. FirstTurn(s) = [theta |-> 0, phi |-> 0]
    BY <2>1 DEF FirstTurn
  <2>3. 0 \in 0 .. k + 1 /\ 0 \in 0 .. 2 * k - 1
    BY <2>1
  <2> QED BY <1>2, <2>1, <2>2, <2>3 DEF Stands, SphereAt
<1>3. CASE s \in CubeShape
  <2>1. PICK d \in Nat \ {0} : s.degree = d /\ s.name = "cube"
    BY <1>3 DEF CubeShape
  <2>2. FirstTurn(s) = [face |-> 1, line |-> 0, column |-> 0]
    BY <2>1 DEF FirstTurn
  <2>3. /\ Times(tesselated_vertices_count(d), 0) = 0 /\ Times(tesselated_indices_count(d), 0) = 0
        /\ LinesVertices(0) = 0 /\ LinesIndices(0) = 0 /\ 1 - 1 = 0
    BY TessellatedVertices, TessellatedIndices, TimesFacts DEF LinesVertices, LinesIndices
  <2> QED BY <1>3, <2>1, <2>2, <2>3 DEF Stands, CubeAt
<1>4. CASE s \in PlaneShape
  <2>1. PICK h \in Nat \ {0} : s.half = h /\ s.name = "plane"
    BY <1>4 DEF PlaneShape
  <2>2. FirstTurn(s) = [i |-> -h, j |-> -h]
    BY <2>1 DEF FirstTurn
  <2>3. -h + h = 0 /\ Times(2 * h + 1, 0) = 0 /\ RowsIndices(2 * h, 0) = 0
    BY TimesFacts DEF RowsIndices
  <2>4. 0 \in 0 .. 2 * h + 1 /\ 0 \in 0 .. 2 * h /\ 0 # 2 * h + 1
    BY <2>1
  <2>5. PlaneAt(s, FirstTurn(s), 0, 0)
    BY <2>1, <2>2, <2>3, <2>4 DEF PlaneAt
  <2> QED BY <1>4, <2>5 DEF Stands
<1>5. CASE s \in CubicShape
  <2>1. PICK x \in Nat \ {0}, y \in Nat \ {0}, z \in Nat \ {0} :
          s.x = x /\ s.y = y /\ s.z = z /\ s.name = "cubic"
    BY <1>5 DEF CubicShape
  <2>2. FirstTurn(s) = [x |-> 0, y |-> 0, z |-> 0]
    BY <2>1 DEF FirstTurn
  <2>3. /\ Times(x + 1, y + 1) \in Nat /\ Times(x, y + 1) \in Nat /\ Times(x + 1, y) \in Nat
        /\ Times(x + 1, 0) = 0 /\ Times(x, 0) = 0
    <3>1. x \in Nat /\ y \in Nat /\ x + 1 \in Nat /\ y + 1 \in Nat
      OBVIOUS
    <3> QED BY <3>1, TimesFacts
  <2>4. /\ Times(Times(x + 1, y + 1), 0) = 0 /\ Times(Times(x, y + 1), 0) = 0
        /\ Times(Times(x + 1, y), 0) = 0
    BY <2>3, TimesFacts
  <2>5. CubicAt(s, FirstTurn(s), 0, 0)
    BY <2>1, <2>2, <2>3, <2>4 DEF CubicAt, LatticeVertices, EdgesAlongX, EdgesAlongY, EdgesAlongZ
  <2> QED BY <1>5, <2>5 DEF Stands
<1> QED BY <1>1, <1>2, <1>3, <1>4, <1>5
     DEF GeneratedMeshes, CylinderShape, SphereShape, CubeShape, PlaneShape, CubicShape

\* A turn of whichever generator keeps it.
LEMMA GenerateStands ==
  ASSUME shape \in GeneratedMeshes, MeshInv, Generate
  PROVE  MeshInv' /\ shape' = shape
<1>1. /\ vertices \in Seq(Position) /\ indices \in Seq(IndexOf(shape))
      /\ Stands(shape, loop, Len(vertices), Len(indices))
  BY DEF MeshInv
<1> SUFFICES /\ vertices' \in Seq(Position) /\ indices' \in Seq(IndexOf(shape)) /\ shape' = shape
             /\ Stands(shape, loop', Len(vertices'), Len(indices'))
  BY DEF MeshInv, Stands, CylinderAt
<1>2. CASE shape \in CylinderShape
  <2>1. shape.name = "cylinder"
    BY <1>2 DEF CylinderShape
  <2>2. CylinderAt(shape, loop, Len(vertices), Len(indices))
    BY <1>1, <2>1 DEF Stands, SphereShape, CubeShape, PlaneShape, CubicShape
  <2>3. CylinderLevel \/ CylinderSideEnd \/ CylinderCenter \/ CylinderJump
    BY <2>1 DEF Generate, SphereVertex, TessellateVertex, PlaneVertex, CubicVertex,
                LoadPosition, LoadNormal, LoadFace, IgnoreLine, LoadsCommand
  <2> QED BY <1>1, <1>2, <2>2, <2>3, CylinderLevelKeeps, CylinderSideEndKeeps, CylinderCenterKeeps,
             CylinderJumpKeeps DEF Stands
<1>3. CASE shape \in SphereShape
  <2>1. shape.name = "sphere"
    BY <1>3 DEF SphereShape
  <2>2. SphereAt(shape, loop, Len(vertices), Len(indices))
    BY <1>1, <2>1 DEF Stands, CylinderShape, CubeShape, PlaneShape, CubicShape
  <2>3. SphereVertex
    BY <2>1 DEF Generate, CylinderLevel, CylinderSideEnd, CylinderCenter, CylinderJump,
                TessellateVertex, PlaneVertex, CubicVertex,
                LoadPosition, LoadNormal, LoadFace, IgnoreLine, LoadsCommand
  <2> QED BY <1>1, <1>3, <2>2, <2>3, SphereVertexKeeps DEF Stands
<1>4. CASE shape \in CubeShape
  <2>1. shape.name = "cube"
    BY <1>4 DEF CubeShape
  <2>2. CubeAt(shape, loop, Len(vertices), Len(indices))
    BY <1>1, <2>1 DEF Stands, CylinderShape, SphereShape, PlaneShape, CubicShape
  <2>3. TessellateVertex
    BY <2>1 DEF Generate, CylinderLevel, CylinderSideEnd, CylinderCenter, CylinderJump,
                SphereVertex, PlaneVertex, CubicVertex,
                LoadPosition, LoadNormal, LoadFace, IgnoreLine, LoadsCommand
  <2> QED BY <1>1, <1>4, <2>2, <2>3, TessellateVertexKeeps DEF Stands
<1>5. CASE shape \in PlaneShape
  <2>1. shape.name = "plane"
    BY <1>5 DEF PlaneShape
  <2>2. PlaneAt(shape, loop, Len(vertices), Len(indices))
    BY <1>1, <2>1 DEF Stands, CylinderShape, SphereShape, CubeShape, CubicShape
  <2>3. PlaneVertex
    BY <2>1 DEF Generate, CylinderLevel, CylinderSideEnd, CylinderCenter, CylinderJump,
                SphereVertex, TessellateVertex, CubicVertex,
                LoadPosition, LoadNormal, LoadFace, IgnoreLine, LoadsCommand
  <2> QED BY <1>1, <1>5, <2>2, <2>3, PlaneVertexKeeps DEF Stands
<1>6. CASE shape \in CubicShape
  <2>1. shape.name = "cubic"
    BY <1>6 DEF CubicShape
  <2>2. CubicAt(shape, loop, Len(vertices), Len(indices))
    BY <1>1, <2>1 DEF Stands, CylinderShape, SphereShape, CubeShape, PlaneShape
  <2>3. CubicVertex
    BY <2>1 DEF Generate, CylinderLevel, CylinderSideEnd, CylinderCenter, CylinderJump,
                SphereVertex, TessellateVertex, PlaneVertex,
                LoadPosition, LoadNormal, LoadFace, IgnoreLine, LoadsCommand
  <2> QED BY <1>1, <1>6, <2>2, <2>3, CubicVertexKeeps DEF Stands
<1> QED BY <1>2, <1>3, <1>4, <1>5, <1>6
     DEF GeneratedMeshes, CylinderShape, SphereShape, CubeShape, PlaneShape, CubicShape

-----------------------------------------------------------------------------
(* The loader of mesh files.                                               *)

NormalsOf(s) ==
  {DefaultNormal} \cup {s.commands[l].value : l \in {l \in DOMAIN s.commands : s.commands[l].cmd = "vn"}}

\* What the loader knows, of the positions read so far: every vertex is in its cache once,
\* under the number of its position.
IsConsistent(s, positions, normals) ==
  /\ s.vertices \in Seq(Position) /\ s.vertex_normals \in Seq(normals)
  /\ Len(s.vertex_normals) = Len(s.vertices)
  /\ s.indices \in Seq(0 .. Len(s.vertices) - 1)
  /\ s.cache \subseteq (DOMAIN positions) \X (0 .. Len(s.vertices) - 1)
  /\ \A i \in DOMAIN s.vertices : \E e \in s.cache : e[2] = i - 1
  /\ \A e \in s.cache : /\ s.vertices[e[2] + 1] = positions[e[1]]
                        /\ \A f \in s.cache : e[2] = f[2] => e = f
                        /\ \A f \in s.cache :
                             /\ e[1] = f[1]
                             /\ s.vertex_normals[e[2] + 1] = s.vertex_normals[f[2] + 1]
                             => e = f

Loading(normals) ==
  [vertices : Seq(Position), vertex_normals : Seq(normals), indices : Seq(Nat), cache : SUBSET (Nat \X Nat),
   normal : normals, failed : BOOLEAN]

\* The state t follows s by a corner with this number of a position, which has the vertex x.
Took(s, t, hash, x) ==
  /\ Len(s.vertices) <= Len(t.vertices) /\ s.cache \subseteq t.cache
  /\ \A i \in DOMAIN s.vertices : t.vertex_normals[i] = s.vertex_normals[i]
  /\ \A i \in DOMAIN t.vertices : i \in DOMAIN s.vertices \/ i = x + 1
  /\ t.indices = Append(s.indices, x) /\ <<hash, x>> \in t.cache

\* A vertex that is found or added keeps the cache consistent
\* (ObjMeshLoader.cpp:144-180).
LEMMA FindOrAddKeeps ==
  ASSUME NEW N, NEW P \in Seq(Position), NEW s \in Loading(N), IsConsistent(s, P, N), NEW hash \in DOMAIN P
  PROVE  LET t == find_or_add_vertex(s, P[hash], hash)
         IN  /\ t \in Loading(N) /\ IsConsistent(t, P, N) /\ t.normal = s.normal /\ t.failed = s.failed
             /\ \E x \in Nat : Took(s, t, hash, x) /\ t.vertex_normals[x + 1] = s.normal
<1> DEFINE same == {i \in Cached(s, hash) : /\ s.vertices[i + 1] = P[hash]
                                            /\ s.vertex_normals[i + 1] = s.normal}
           t == find_or_add_vertex(s, P[hash], hash)
<1>1. t = FirstOrNew(s, same, P[hash], hash)
  BY DEF find_or_add_vertex
<1>2. P[hash] \in Position /\ hash \in Nat /\ DOMAIN P \subseteq Nat
  OBVIOUS
<1>3. PICK n \in Nat : Len(s.vertices) = n /\ Len(s.vertex_normals) = n /\ DOMAIN s.vertices = 1 .. n
  BY DEF IsConsistent
<1>4. s.cache \subseteq (DOMAIN P) \X (0 .. n - 1)
  BY <1>3 DEF IsConsistent
<1>5. CASE same # {}
  <2>1. same \subseteq Nat
    BY <1>4 DEF Cached
  <2>2. PICK x \in same : \A y \in same : x <= y
    BY <1>5, <2>1, Least
  <2>3. Min(same) = x
    <3>1. same \subseteq Int
      BY <2>1
    <3> QED BY <2>2, <3>1, MinOf
  <2>4. <<hash, x>> \in s.cache /\ x \in 0 .. n - 1 /\ s.vertex_normals[x + 1] = s.normal
    <3>1. PICK e \in s.cache : e[1] = hash /\ e[2] = x
      BY DEF Cached
    <3>2. e = <<e[1], e[2]>> /\ e[2] \in 0 .. n - 1
      BY <1>4
    <3> QED BY <3>1, <3>2
  <2>5. t = [s EXCEPT !.indices = Append(@, x)]
    BY <1>1, <1>5, <2>3 DEF FirstOrNew
  <2>6. /\ t \in Loading(N) /\ t.normal = s.normal /\ t.failed = s.failed /\ t.vertices = s.vertices
        /\ t.vertex_normals = s.vertex_normals /\ t.cache = s.cache /\ t.indices = Append(s.indices, x)
    <3>1. x \in Nat /\ Append(s.indices, x) \in Seq(Nat)
      BY <2>4 DEF Loading
    <3> QED BY <2>5, <3>1 DEF Loading
  <2>7. t.indices \in Seq(0 .. Len(t.vertices) - 1)
    BY <1>3, <2>4, <2>6 DEF IsConsistent
  <2> HIDE DEF t, same
  <2>8. IsConsistent(t, P, N)
    BY <2>6, <2>7 DEF IsConsistent
  <2>9. Took(s, t, hash, x)
    BY <1>3, <2>4, <2>6 DEF Took
  <2>10. x \in Nat /\ t.vertex_normals[x + 1] = s.normal
    BY <2>4, <2>6
  <2> QED BY <2>6, <2>8, <2>9, <2>10 DEF t
<1>6. CASE same = {}
  <2>1. t = [s EXCEPT !.vertices = Append(@, P[hash]), !.vertex_normals = Append(@, s.normal),
                      !.indices = Append(@, n), !.cache = @ \cup {<<hash, n>>}]
    BY <1>1, <1>3, <1>6 DEF FirstOrNew
  <2> HIDE DEF t
  <2>2. /\ t \in Loading(N) /\ t.normal = s.normal /\ t.failed = s.failed
        /\ t.vertices = Append(s.vertices, P[hash]) /\ t.vertex_normals = Append(s.vertex_normals, s.normal)
        /\ t.cache = s.cache \cup {<<hash, n>>} /\ t.indices = Append(s.indices, n)
    <3>1. /\ Append(s.vertices, P[hash]) \in Seq(Position) /\ Append(s.vertex_normals, s.normal) \in Seq(N)
          /\ Append(s.indices, n) \in Seq(Nat) /\ s.cache \cup {<<hash, n>>} \in SUBSET (Nat \X Nat)
      BY <1>2, <1>3 DEF Loading
    <3> QED BY <2>1, <3>1 DEF Loading
  <2>3. /\ s.vertices \in Seq(Position) /\ s.vertex_normals \in Seq(N) /\ s.normal \in N
        /\ s.indices \in Seq(0 .. n - 1)
    BY <1>3 DEF Loading, IsConsistent
  <2>4. /\ t.vertices \in Seq(Position) /\ t.vertex_normals \in Seq(N)
        /\ Len(t.vertices) = n + 1 /\ Len(t.vertex_normals) = n + 1
        /\ DOMAIN t.vertices = 1 .. n + 1 /\ t.vertices[n + 1] = P[hash] /\ t.vertex_normals[n + 1] = s.normal
        /\ \A i \in 1 .. n : t.vertices[i] = s.vertices[i] /\ t.vertex_normals[i] = s.vertex_normals[i]
    <3>1. /\ t.vertices = Append(s.vertices, P[hash]) /\ P[hash] \in Position
          /\ t.vertex_normals = Append(s.vertex_normals, s.normal)
          /\ Len(s.vertices) = n /\ Len(s.vertex_normals) = n /\ n \in Nat
      BY <1>2, <1>3, <2>2, <2>3
    <3>2. /\ t.vertices \in Seq(Position) /\ Len(t.vertices) = n + 1 /\ DOMAIN t.vertices = 1 .. n + 1
          /\ t.vertices[n + 1] = P[hash] /\ \A i \in 1 .. n : t.vertices[i] = s.vertices[i]
      BY <2>3, <3>1
    <3>3. /\ t.vertex_normals \in Seq(N) /\ Len(t.vertex_normals) = n + 1
          /\ t.vertex_normals[n + 1] = s.normal
          /\ \A i \in 1 .. n : t.vertex_normals[i] = s.vertex_normals[i]
      BY <2>3, <3>1
    <3> QED BY <3>2, <3>3
  <2>5. t.indices \in Seq(0 .. Len(t.vertices) - 1)
    <3>1. s.indices \in Seq(0 .. n)
      <4>1. s.indices \in [1 .. Len(s.indices) -> 0 .. n] /\ Len(s.indices) \in Nat
        BY <2>3
      <4> QED BY <4>1
    <3> QED BY <2>2, <2>4, <3>1
  <2>6. t.cache \subseteq (DOMAIN P) \X (0 .. Len(t.vertices) - 1)
    BY <1>4, <2>2, <2>4
  <2>7. \A i \in DOMAIN t.vertices : \E e \in t.cache : e[2] = i - 1
    <3> TAKE i \in DOMAIN t.vertices
    <3>1. CASE i \in 1 .. n
      BY <1>3, <2>2, <3>1 DEF IsConsistent
    <3>2. CASE i = n + 1
      <4>1. <<hash, n>> \in t.cache /\ <<hash, n>>[2] = i - 1
        BY <2>2, <3>2
      <4> QED BY <4>1
    <3> QED BY <2>4, <3>1, <3>2
  <2>8. ASSUME NEW e \in t.cache
        PROVE  \/ /\ e \in s.cache /\ e[2] \in 0 .. n - 1 /\ t.vertices[e[2] + 1] = P[e[1]]
                  /\ t.vertex_normals[e[2] + 1] = s.vertex_normals[e[2] + 1]
               \/ /\ e = <<hash, n>> /\ e[1] = hash /\ e[2] = n /\ t.vertices[e[2] + 1] = P[e[1]]
                  /\ t.vertex_normals[e[2] + 1] = s.normal
    <3>1. CASE e \in s.cache
      <4>1. e[2] \in 0 .. n - 1
        BY <1>4, <3>1
      <4>2. e[2] + 1 \in 1 .. n
        BY <4>1
      <4>3. s.vertices[e[2] + 1] = P[e[1]]
        BY <3>1 DEF IsConsistent
      <4> QED BY <2>4, <3>1, <4>1, <4>2, <4>3
    <3>2. CASE e = <<hash, n>>
      BY <2>4, <3>2
    <3> QED BY <2>2, <3>1, <3>2
  \* The normal of the new vertex differs from those that share its position.
  <2>9. ASSUME NEW e \in s.cache, e[1] = hash
        PROVE  s.vertex_normals[e[2] + 1] # s.normal
    <3>1. e[2] \in Cached(s, hash)
      BY <2>9 DEF Cached
    <3>2. s.vertices[e[2] + 1] = P[hash]
      BY <2>9 DEF IsConsistent
    <3> QED BY <1>6, <3>1, <3>2
  <2>10. ASSUME NEW e \in t.cache, NEW f \in t.cache,
                e[2] = f[2] \/ (e[1] = f[1] /\ t.vertex_normals[e[2] + 1] = t.vertex_normals[f[2] + 1])
         PROVE  e = f
    <3>1. CASE e \in s.cache /\ f \in s.cache
      <4>1. e[2] \in 0 .. n - 1 /\ f[2] \in 0 .. n - 1
        BY <1>4, <3>1
      <4>2. e[2] + 1 \in 1 .. n /\ f[2] + 1 \in 1 .. n
        BY <4>1
      <4>3. /\ t.vertex_normals[e[2] + 1] = s.vertex_normals[e[2] + 1]
            /\ t.vertex_normals[f[2] + 1] = s.vertex_normals[f[2] + 1]
        BY <2>4, <4>2
      <4> QED BY <2>10, <3>1, <4>3 DEF IsConsistent
    <3>2. CASE e \in s.cache /\ f = <<hash, n>>
      BY <2>4, <2>8, <2>9, <2>10, <3>2, <1>3, <1>4
    <3>3. CASE e = <<hash, n>> /\ f \in s.cache
      BY <2>4, <2>8, <2>9, <2>10, <3>3, <1>3, <1>4
    <3> QED BY <2>2, <3>1, <3>2, <3>3
  <2>11. IsConsistent(t, P, N)
    BY <2>4, <2>5, <2>6, <2>7, <2>8, <2>10 DEF IsConsistent
  <2>12. Took(s, t, hash, n)
    BY <1>3, <2>2, <2>4 DEF Took
  <2> QED BY <2>2, <2>4, <2>11, <2>12 DEF t
<1> QED BY <1>5, <1>6

\* A corner that is read takes a vertex at its position, with its normal if it names one.
LEMMA AddCornerKeeps ==
  ASSUME NEW N, loop.positions \in Seq(Position), loop.normals \in Seq(N),
         NEW s \in Loading(N), IsConsistent(s, loop.positions, N), NEW corner \in [1 .. 3 -> Int]
  PROVE  LET t == AddCorner(s, corner)
         IN  /\ t \in Loading(N) /\ IsConsistent(t, loop.positions, N)
             /\ ~ t.failed =>
                  /\ ~ s.failed /\ corner[1] \in DOMAIN loop.positions
                  /\ \E x \in Nat :
                       /\ Took(s, t, corner[1], x)
                       /\ (\A k \in 1 .. 3 : corner[k] # Empty) =>
                            /\ corner[3] \in DOMAIN loop.normals
                            /\ t.vertex_normals[x + 1] = loop.normals[corner[3]]
<1> DEFINE t == AddCorner(s, corner)
           names_normal == \A k \in 1 .. 3 : corner[k] # Empty
           wrong == \/ s.failed
                    \/ corner[1] \notin DOMAIN loop.positions
                    \/ names_normal /\ corner[3] \notin DOMAIN loop.normals
           n == IF names_normal THEN loop.normals[corner[3]] ELSE s.normal
           r == [s EXCEPT !.normal = n]
<1>1. CASE wrong
  <2>1. t = [s EXCEPT !.failed = TRUE]
    BY <1>1 DEF AddCorner
  <2> HIDE DEF t
  <2>2. t \in Loading(N) /\ t.failed
    BY <2>1 DEF Loading
  <2>3. /\ t.vertices = s.vertices /\ t.vertex_normals = s.vertex_normals /\ t.indices = s.indices
        /\ t.cache = s.cache
    BY <2>1 DEF Loading
  <2>4. IsConsistent(t, loop.positions, N)
    BY <2>3 DEF IsConsistent
  <2> QED BY <2>2, <2>4 DEF t
<1>2. CASE ~ wrong
  <2>1. t = find_or_add_vertex(r, loop.positions[corner[1]], corner[1])
    <3>1. r = [s EXCEPT !.normal = IF names_normal THEN loop.normals[corner[3]] ELSE @]
      BY DEF Loading
    <3> HIDE DEF r
    <3>2. AddCorner(s, corner) = find_or_add_vertex([s EXCEPT !.normal = IF names_normal THEN loop.normals[corner[3]] ELSE @], loop.positions[corner[1]], corner[1])
      BY <1>2 DEF AddCorner
    <3> QED BY <3>1, <3>2
  <2>2. n \in N
    BY <1>2 DEF Loading
  <2>3. /\ r \in Loading(N) /\ r.normal = n /\ r.failed = s.failed /\ r.vertices = s.vertices
        /\ r.vertex_normals = s.vertex_normals /\ r.indices = s.indices /\ r.cache = s.cache
    <3> HIDE DEF n
    <3> QED BY <2>2 DEF Loading
  <2> HIDE DEF r, t
  <2>4. IsConsistent(r, loop.positions, N)
    BY <2>3 DEF IsConsistent
  <2>5. corner[1] \in DOMAIN loop.positions /\ ~ s.failed
    BY <1>2
  <2>6. /\ t \in Loading(N) /\ IsConsistent(t, loop.positions, N)
        /\ \E x \in Nat : Took(r, t, corner[1], x) /\ t.vertex_normals[x + 1] = n
    <3> DEFINE u == find_or_add_vertex(r, loop.positions[corner[1]], corner[1])
    <3>1. /\ u \in Loading(N) /\ IsConsistent(u, loop.positions, N) /\ u.normal = r.normal /\ u.failed = r.failed
          /\ \E x \in Nat : Took(r, u, corner[1], x) /\ u.vertex_normals[x + 1] = r.normal
      <4>1. r \in Loading(N)
        BY <2>3
      <4> QED BY <2>4, <2>5, <4>1, FindOrAddKeeps
    <3> HIDE DEF n
    <3> QED BY <2>1, <2>3, <3>1
  <2>7. PICK x \in Nat : Took(s, t, corner[1], x) /\ t.vertex_normals[x + 1] = n
    BY <2>3, <2>6 DEF Took
  <2>8. names_normal => corner[3] \in DOMAIN loop.normals /\ t.vertex_normals[x + 1] = loop.normals[corner[3]]
    BY <1>2, <2>7
  <2> QED BY <2>5, <2>6, <2>7, <2>8 DEF t
<1> QED BY <1>1, <1>2

-----------------------------------------------------------------------------
Before(line) == {l \in FaceLines : l < line}

\* The face lines that have been read: one more after a face line, as before after
\* another.
LEMMA BeforeFacts ==
  ASSUME IsMeshFile(shape), NEW line \in 1 .. Len(shape.commands) + 1
  PROVE  /\ FaceLines \subseteq 1 .. Len(shape.commands) /\ Len(shape.commands) \in Nat
         /\ IsFiniteSet(Before(line)) /\ Cardinality(Before(line)) \in Nat
         /\ Before(1) = {} /\ Before(Len(shape.commands) + 1) = FaceLines
         /\ line \in FaceLines => /\ Before(line + 1) = Before(line) \cup {line}
                                  /\ Cardinality(Before(line + 1)) = Cardinality(Before(line)) + 1
         /\ line \notin FaceLines => Before(line + 1) = Before(line)
         /\ \A l \in Before(line) : Cardinality(Before(l)) < Cardinality(Before(line))
<1>1. PICK n \in Nat : Len(shape.commands) = n /\ DOMAIN shape.commands = 1 .. n
  BY DEF IsMeshFile
<1>2. FaceLines \subseteq 1 .. n
  BY <1>1 DEF FaceLines
<1> DEFINE F == FaceLines
<1>a. \A l \in F : l \in Int /\ 1 <= l /\ l <= n
  BY <1>2
<1>b. \A l : Before(l) = {e \in F : e < l}
  BY DEF Before
<1> HIDE DEF F
<1>3. IsFiniteSet(1 .. n)
  <2>1. 1 \in Int /\ n \in Int
    OBVIOUS
  <2> QED BY <2>1, FS_Interval
<1>4. \A l \in Int : IsFiniteSet(Before(l)) /\ Cardinality(Before(l)) \in Nat
  <2> TAKE l \in Int
  <2>1. Before(l) \subseteq 1 .. n
    BY <1>2 DEF Before
  <2> QED BY <1>3, <2>1, FS_Subset, FS_CardinalityType
<1>5. Before(1) = {} /\ Before(n + 1) = F
  <2>1. \A e \in F : ~ (e < 1) /\ e < n + 1
    BY <1>a
  <2>2. {e \in F : e < 1} = {} /\ {e \in F : e < n + 1} = F
    BY <2>1
  <2> QED BY <1>b, <2>2
<1>6. \A l \in Int : l \notin F => Before(l + 1) = Before(l)
  <2> TAKE l \in Int
  <2>1. l \notin F => \A e \in F : e < l + 1 <=> e < l
    BY <1>a
  <2>2. l \notin F => {e \in F : e < l + 1} = {e \in F : e < l}
    BY <2>1
  <2> QED BY <1>b, <2>2
<1>7. ASSUME NEW l \in FaceLines
      PROVE  /\ Before(l + 1) = Before(l) \cup {l}
             /\ Cardinality(Before(l + 1)) = Cardinality(Before(l)) + 1
  <2>1. l \in Int
    BY <1>2
  <2>2. Before(l + 1) = Before(l) \cup {l} /\ l \notin Before(l)
    <3>1. l \in F
      BY DEF F
    <3>2. ~ (l < l) /\ l < l + 1 /\ \A e \in F : e < l + 1 <=> (e < l \/ e = l)
      BY <1>a, <2>1
    <3>3. {e \in F : e < l + 1} = {e \in F : e < l} \cup {l} /\ l \notin {e \in F : e < l}
      BY <3>1, <3>2
    <3> QED BY <1>b, <3>3
  <2> QED BY <1>4, <2>1, <2>2, FS_AddElement
<1>8. \A l \in Before(line) : Cardinality(Before(l)) < Cardinality(Before(line))
  <2> TAKE l \in Before(line)
  <2>1. l \in FaceLines /\ l \in Int /\ l < line
    BY <1>2 DEF Before
  <2>2. Before(l + 1) \subseteq Before(line)
    <3>1. line \in Int
      BY <1>1
    <3>2. \A e \in F : e < l + 1 => e < line
      BY <1>a, <2>1, <3>1
    <3>3. {e \in F : e < l + 1} \subseteq {e \in F : e < line}
      BY <3>2
    <3> QED BY <1>b, <3>3
  <2>3. /\ Cardinality(Before(l + 1)) <= Cardinality(Before(line)) /\ Cardinality(Before(l)) \in Nat
        /\ Cardinality(Before(line)) \in Nat
    BY <1>4, <2>1, <2>2, <1>1, FS_Subset
  <2>4. Cardinality(Before(l + 1)) = Cardinality(Before(l)) + 1
    BY <1>7, <2>1
  <2> QED BY <2>3, <2>4
<1>9. line \in Int
  BY <1>1
<1> QED BY <1>1, <1>2, <1>4, <1>5, <1>6, <1>7, <1>8, <1>9 DEF F

\* What the buffers have for a corner.
HasCorner(corner, index) ==
  /\ <<corner[1], index>> \in loop.cache
  /\ corner[2] # Empty /\ corner[3] # Empty =>
       /\ corner[3] \in DOMAIN loop.normals
       /\ loop.vertex_normals[index + 1] = loop.normals[corner[3]]

\* The buffers while nothing has failed, with this many faces and these positions of corners.
LoaderInv ==
  /\ loop \in [line : 1 .. Len(shape.commands) + 1, positions : Seq(Position),
               normals : Seq(NormalsOf(shape)), cache : SUBSET (Nat \X Nat),
               vertex_normals : Seq(NormalsOf(shape)), failed : BOOLEAN]
  /\ IsConsistent([vertices |-> vertices, indices |-> indices, cache |-> loop.cache,
                   vertex_normals |-> loop.vertex_normals], loop.positions, NormalsOf(shape))
  /\ ~ loop.failed =>
       /\ Len(indices) = VERTICES_PER_TRIANGLE * Cardinality(Before(loop.line))
       /\ \A l \in Before(loop.line), k \in Corners :
            HasCorner(shape.commands[l].corners[k], IndexOfCorner(l, k))
       /\ \A i \in DOMAIN vertices :
            \E l \in Before(loop.line), k \in Corners : IndexOfCorner(l, k) = i - 1

\* The loader starts with an empty cache.
LEMMA FirstLine ==
  ASSUME IsMeshFile(shape), loop = FirstTurn(shape), vertices = <<>>, indices = <<>>
  PROVE  LoaderInv /\ vertices \in Seq(Position)
<1>1. shape.name = "file"
  BY DEF IsMeshFile
<1>2. loop = [line |-> 1, positions |-> <<>>, normals |-> <<>>, cache |-> {},
              vertex_normals |-> <<>>, failed |-> FALSE]
  BY <1>1 DEF FirstTurn
<1>3. Len(shape.commands) \in Nat /\ Before(1) = {} /\ Cardinality(Before(1)) = 0
  <2>1. 1 \in 1 .. Len(shape.commands) + 1 /\ Len(shape.commands) \in Nat
    BY DEF IsMeshFile
  <2> QED BY <2>1, BeforeFacts, FS_EmptySet
<1>4. IsConsistent([vertices |-> vertices, indices |-> indices, cache |-> loop.cache,
                    vertex_normals |-> loop.vertex_normals], loop.positions, NormalsOf(shape))
  BY <1>2 DEF IsConsistent
<1>5. loop \in [line : 1 .. Len(shape.commands) + 1, positions : Seq(Position),
                normals : Seq(NormalsOf(shape)), cache : SUBSET (Nat \X Nat),
                vertex_normals : Seq(NormalsOf(shape)), failed : BOOLEAN]
  BY <1>2, <1>3
<1>6. /\ Len(indices) = VERTICES_PER_TRIANGLE * Cardinality(Before(loop.line))
      /\ Before(loop.line) = {} /\ DOMAIN vertices = {}
  BY <1>2, <1>3 DEF VERTICES_PER_TRIANGLE
<1> QED BY <1>4, <1>5, <1>6 DEF LoaderInv

\* Appending to a sequence changes no element of it.
LEMMA AppendFacts ==
  ASSUME NEW S, NEW s \in Seq(S), NEW x \in S
  PROVE  /\ Append(s, x) \in Seq(S) /\ Len(Append(s, x)) = Len(s) + 1 /\ Append(s, x)[Len(s) + 1] = x
         /\ \A i \in DOMAIN s : i \in DOMAIN Append(s, x) /\ Append(s, x)[i] = s[i]
OBVIOUS

\* More positions do not disturb what the cache knows.
LEMMA MorePositions ==
  ASSUME NEW s, NEW N, NEW P \in Seq(Position), NEW p \in Position, IsConsistent(s, P, N)
  PROVE  IsConsistent(s, Append(P, p), N)
<1>1. /\ DOMAIN P \subseteq DOMAIN Append(P, p)
      /\ \A i \in DOMAIN P : Append(P, p)[i] = P[i]
  OBVIOUS
<1>2. s.cache \subseteq (DOMAIN P) \X (0 .. Len(s.vertices) - 1)
  BY DEF IsConsistent
<1>3. s.cache \subseteq (DOMAIN Append(P, p)) \X (0 .. Len(s.vertices) - 1)
  BY <1>1, <1>2
<1>4. \A e \in s.cache : s.vertices[e[2] + 1] = Append(P, p)[e[1]]
  <2> TAKE e \in s.cache
  <2>1. e[1] \in DOMAIN P /\ s.vertices[e[2] + 1] = P[e[1]]
    BY <1>2 DEF IsConsistent
  <2> QED BY <1>1, <2>1
<1> HIDE <1>1
<1> QED BY <1>3, <1>4 DEF IsConsistent

\* A line that is not a face adds nothing to the buffers.
LEMMA OtherLineKeeps ==
  ASSUME IsMeshFile(shape), LoaderInv, vertices \in Seq(Position),
         LoadPosition \/ LoadNormal \/ IgnoreLine
  PROVE  LoaderInv' /\ vertices' \in Seq(Position) /\ shape' = shape
<1> DEFINE N == NormalsOf(shape)
           buffers == [vertices |-> vertices, indices |-> indices, cache |-> loop.cache,
                       vertex_normals |-> loop.vertex_normals]
<1>1. PICK last \in Nat : Len(shape.commands) = last /\ DOMAIN shape.commands = 1 .. last
  BY DEF IsMeshFile
<1>2. /\ loop \in [line : 1 .. last + 1, positions : Seq(Position), normals : Seq(N),
                   cache : SUBSET (Nat \X Nat), vertex_normals : Seq(N), failed : BOOLEAN]
      /\ IsConsistent(buffers, loop.positions, N)
  BY <1>1 DEF LoaderInv
<1>3. /\ ~ loop.failed /\ loop.line \in 1 .. last /\ command = shape.commands[loop.line]
      /\ command.cmd \in {"v", "vn", "other"}
  BY <1>1, <1>2 DEF LoadPosition, LoadNormal, IgnoreLine, LoadsCommand, command
<1>4. /\ vertices' = vertices /\ indices' = indices /\ shape' = shape
      /\ \/ /\ command.cmd = "v"
            /\ loop' = [loop EXCEPT !.line = @ + 1, !.positions = Append(@, command.value)]
         \/ /\ command.cmd = "vn"
            /\ loop' = [loop EXCEPT !.line = @ + 1, !.normals = Append(@, command.value)]
         \/ loop' = [loop EXCEPT !.line = @ + 1]
  <2>1. vertices \o <<>> = vertices /\ indices \o <<>> = indices
    <3>1. vertices \in Seq(Position) /\ indices \in Seq(0 .. Len(vertices) - 1)
      BY <1>2 DEF IsConsistent
    <3> QED BY <3>1
  <2> QED BY <2>1 DEF LoadPosition, LoadNormal, IgnoreLine, LoadsCommand, Add
<1>5. /\ loop'.line = loop.line + 1 /\ loop'.cache = loop.cache /\ loop'.vertex_normals = loop.vertex_normals
      /\ loop'.failed = FALSE
      /\ \/ loop'.positions = loop.positions
         \/ \E p \in Position : loop'.positions = Append(loop.positions, p)
      /\ loop'.normals = loop.normals \/ \E n \in N : loop'.normals = Append(loop.normals, n)
      /\ DOMAIN loop' = DOMAIN loop /\ loop' = [x \in DOMAIN loop |-> loop'[x]]
  <2>1. CASE command.cmd = "v" /\ loop' = [loop EXCEPT !.line = @ + 1, !.positions = Append(@, command.value)]
    <3>1. command.value \in Position
      BY <1>1, <1>3, <2>1 DEF IsMeshFile, Position
    <3> QED BY <1>2, <1>3, <2>1, <3>1
  <2>2. CASE command.cmd = "vn" /\ loop' = [loop EXCEPT !.line = @ + 1, !.normals = Append(@, command.value)]
    <3>1. command.value \in N
      BY <1>1, <1>3, <2>2 DEF NormalsOf
    <3> HIDE DEF N
    <3> QED BY <1>2, <1>3, <2>2, <3>1
  <2>3. CASE loop' = [loop EXCEPT !.line = @ + 1]
    <3> HIDE DEF N
    <3> QED BY <1>2, <1>3, <2>3
  <2> QED BY <1>4, <2>1, <2>2, <2>3
<1> HIDE DEF N
<1>6. loop' \in [line : 1 .. last + 1, positions : Seq(Position), normals : Seq(N),
                 cache : SUBSET (Nat \X Nat), vertex_normals : Seq(N), failed : BOOLEAN]
  <2>1. loop'.line \in 1 .. last + 1
    BY <1>2, <1>3, <1>5
  <2>2. loop'.positions \in Seq(Position)
    <3>1. loop.positions \in Seq(Position)
      BY <1>2
    <3>2. \A p \in Position : Append(loop.positions, p) \in Seq(Position)
      BY <3>1, AppendFacts
    <3> QED BY <1>5, <3>1, <3>2
  <2>3. loop'.normals \in Seq(N)
    <3>1. loop.normals \in Seq(N)
      BY <1>2
    <3>2. \A n \in N : Append(loop.normals, n) \in Seq(N)
      BY <3>1, AppendFacts
    <3> QED BY <1>5, <3>1, <3>2
  <2>4. DOMAIN loop = {"line", "positions", "normals", "cache", "vertex_normals", "failed"}
    BY <1>2
  <2> QED BY <1>2, <1>5, <2>1, <2>2, <2>3, <2>4
<1>7. IsConsistent(buffers', loop'.positions, N)
  <2>1. buffers' = buffers
    BY <1>4, <1>5
  <2> HIDE DEF buffers
  <2>2. CASE loop'.positions = loop.positions
    BY <1>2, <2>1, <2>2
  <2>3. CASE \E p \in Position : loop'.positions = Append(loop.positions, p)
    BY <1>2, <2>1, <2>3, MorePositions
  <2> QED BY <1>5, <2>2, <2>3
<1>8. Before(loop.line + 1) = Before(loop.line)
  <2>1. loop.line \notin FaceLines
    BY <1>3 DEF FaceLines
  <2>2. loop.line \in 1 .. Len(shape.commands) + 1
    BY <1>1, <1>3
  <2> QED BY <2>1, <2>2, BeforeFacts
<1>9. Before(loop.line)' = Before(loop.line)
  <2>1. Before(loop.line)' = Before(loop'.line)
    BY <1>4 DEF Before, FaceLines
  <2> QED BY <1>5, <1>8, <2>1
<1>10. \A l, k : IndexOfCorner(l, k)' = IndexOfCorner(l, k)
  BY <1>4 DEF IndexOfCorner, FaceLines
<1>11. \A corner, index : HasCorner(corner, index) => HasCorner(corner, index)'
  <2>1. \A i \in DOMAIN loop.normals : i \in DOMAIN loop'.normals /\ loop'.normals[i] = loop.normals[i]
    <3>1. loop.normals \in Seq(N)
      BY <1>2
    <3> QED BY <1>5, <3>1, AppendFacts
  <2> QED BY <1>5, <2>1 DEF HasCorner
<1>12. /\ Len(indices) = VERTICES_PER_TRIANGLE * Cardinality(Before(loop.line))
       /\ \A l \in Before(loop.line), k \in Corners :
            HasCorner(shape.commands[l].corners[k], IndexOfCorner(l, k))
       /\ \A i \in DOMAIN vertices :
            \E l \in Before(loop.line), k \in Corners : IndexOfCorner(l, k) = i - 1
  BY <1>3 DEF LoaderInv
<1>13. /\ Len(indices)' = VERTICES_PER_TRIANGLE * Cardinality(Before(loop.line)')
       /\ \A l \in Before(loop.line)', k \in Corners :
            HasCorner(shape.commands[l].corners[k], IndexOfCorner(l, k))'
       /\ \A i \in (DOMAIN vertices)' :
            \E l \in Before(loop.line)', k \in Corners : IndexOfCorner(l, k)' = i - 1
  <2>2. \A l, k : HasCorner(shape.commands[l].corners[k], IndexOfCorner(l, k))
                    => HasCorner(shape.commands[l].corners[k], IndexOfCorner(l, k))'
    BY <1>4, <1>5, <1>10, <1>11 DEF HasCorner
  <2>3. Len(indices)' = Len(indices) /\ (DOMAIN vertices)' = DOMAIN vertices
    BY <1>4
  <2> QED BY <1>9, <1>10, <1>12, <2>2, <2>3
<1>14. N' = N
  BY <1>4 DEF N, NormalsOf
<1> QED
  <2>1. LoaderInv'
    BY <1>1, <1>4, <1>6, <1>7, <1>13, <1>14 DEF LoaderInv, N, buffers
  <2> QED BY <1>4, <2>1

\* A face adds the indices of its three corners, and at most as many vertices.
TookThree(s, t, corners, x) ==
  /\ s.cache \subseteq t.cache
  /\ \A i \in DOMAIN s.vertices : t.vertex_normals[i] = s.vertex_normals[i]
  /\ t.indices = Append(Append(Append(s.indices, x[1]), x[2]), x[3])
  /\ \A i \in DOMAIN t.vertices : i \in DOMAIN s.vertices \/ \E k \in Corners : i = x[k] + 1
  /\ \A k \in Corners :
       /\ <<corners[k][1], x[k]>> \in t.cache
       /\ (\A j \in 1 .. 3 : corners[k][j] # Empty) =>
            /\ corners[k][3] \in DOMAIN loop.normals
            /\ t.vertex_normals[x[k] + 1] = loop.normals[corners[k][3]]

\* The three corners of a face take one vertex each, and disturb the vertices before them
\* only at those.
LEMMA ThreeCorners ==
  ASSUME NEW N, loop.positions \in Seq(Position), loop.normals \in Seq(N),
         NEW s \in Loading(N), IsConsistent(s, loop.positions, N),
         NEW corners \in [Corners -> [1 .. 3 -> Int]],
         NEW t, t = AddCorner(AddCorner(AddCorner(s, corners[1]), corners[2]), corners[3])
  PROVE  /\ t \in Loading(N) /\ IsConsistent(t, loop.positions, N)
         /\ ~ t.failed => \E x \in [Corners -> Nat] : TookThree(s, t, corners, x)
<1> DEFINE s1 == AddCorner(s, corners[1])
           s2 == AddCorner(s1, corners[2])
           Names(k) == \A j \in 1 .. 3 : corners[k][j] # Empty
           Has(k, r, x) == /\ <<corners[k][1], x>> \in r.cache
                           /\ Names(k) => /\ corners[k][3] \in DOMAIN loop.normals
                                          /\ r.vertex_normals[x + 1] = loop.normals[corners[k][3]]
<1>1. Corners = {1, 2, 3} /\ t = AddCorner(s2, corners[3])
  BY DEF Corners, VERTICES_PER_TRIANGLE
<1>2. corners[1] \in [1 .. 3 -> Int] /\ corners[2] \in [1 .. 3 -> Int] /\ corners[3] \in [1 .. 3 -> Int]
  BY <1>1
<1>c. ASSUME NEW r \in Loading(N), IsConsistent(r, loop.positions, N), NEW k \in Corners,
             NEW u, u = AddCorner(r, corners[k])
      PROVE  /\ u \in Loading(N) /\ IsConsistent(u, loop.positions, N)
             /\ ~ u.failed => ~ r.failed /\ \E x \in Nat : Took(r, u, corners[k][1], x) /\ Has(k, u, x)
  <2> DEFINE corner == corners[k]
  <2>1. corner \in [1 .. 3 -> Int]
    BY <1>1, <1>2
  <2> HIDE DEF corner
  <2>2. u = AddCorner(r, corner)
    BY <1>c DEF corner
  <2>3. /\ u \in Loading(N) /\ IsConsistent(u, loop.positions, N)
        /\ ~ u.failed =>
                  /\ ~ r.failed /\ corner[1] \in DOMAIN loop.positions
                  /\ \E x \in Nat :
                       /\ Took(r, u, corner[1], x)
                       /\ (\A j \in 1 .. 3 : corner[j] # Empty) =>
                            /\ corner[3] \in DOMAIN loop.normals
                            /\ u.vertex_normals[x + 1] = loop.normals[corner[3]]
    <3>1. LET v == AddCorner(r, corner)
          IN  /\ v \in Loading(N) /\ IsConsistent(v, loop.positions, N)
              /\ ~ v.failed =>
                  /\ ~ r.failed /\ corner[1] \in DOMAIN loop.positions
                  /\ \E x \in Nat :
                       /\ Took(r, v, corner[1], x)
                       /\ (\A j \in 1 .. 3 : corner[j] # Empty) =>
                            /\ corner[3] \in DOMAIN loop.normals
                            /\ v.vertex_normals[x + 1] = loop.normals[corner[3]]
      BY <1>c, <2>1, AddCornerKeeps
    <3> QED BY <2>2, <3>1
  <2>4. ASSUME NEW x \in Nat, Took(r, u, corner[1], x)
        PROVE  <<corner[1], x>> \in u.cache
    BY <2>4 DEF Took
  <2> QED BY <2>3, <2>4 DEF corner
<1>d. s1 = AddCorner(s, corners[1]) /\ s2 = AddCorner(s1, corners[2])
  OBVIOUS
<1> HIDE DEF s1, s2, Has
<1>3. s1 \in Loading(N) /\ IsConsistent(s1, loop.positions, N)
  BY <1>1, <1>c, <1>d
<1>4. ~ s1.failed => \E x \in Nat : Took(s, s1, corners[1][1], x) /\ Has(1, s1, x)
  BY <1>1, <1>c, <1>d
<1>5. s2 \in Loading(N) /\ IsConsistent(s2, loop.positions, N)
  BY <1>1, <1>3, <1>c, <1>d
<1>6. ~ s2.failed => /\ ~ s1.failed
                     /\ \E x \in Nat : Took(s1, s2, corners[2][1], x) /\ Has(2, s2, x)
  BY <1>1, <1>3, <1>c, <1>d
<1>7. t \in Loading(N) /\ IsConsistent(t, loop.positions, N)
  BY <1>1, <1>5, <1>c
<1>8. ~ t.failed => /\ ~ s2.failed
                    /\ \E x \in Nat : Took(s2, t, corners[3][1], x) /\ Has(3, t, x)
  BY <1>1, <1>5, <1>c
<1> USE DEF Has
<1> SUFFICES ASSUME ~ t.failed
             PROVE  \E x \in [Corners -> Nat] : TookThree(s, t, corners, x)
  BY <1>7
<1>9. PICK x1 \in Nat : Took(s, s1, corners[1][1], x1) /\ Has(1, s1, x1)
  BY <1>4, <1>6, <1>8
<1>10. PICK x2 \in Nat : Took(s1, s2, corners[2][1], x2) /\ Has(2, s2, x2)
  BY <1>6, <1>8
<1>11. PICK x3 \in Nat : Took(s2, t, corners[3][1], x3) /\ Has(3, t, x3)
  BY <1>8
\* What one corner has is kept by the next.
<1>12. ASSUME NEW r, NEW u, NEW hash, NEW x, Took(r, u, hash, x),
              IsConsistent(r, loop.positions, N), IsConsistent(u, loop.positions, N)
       PROVE  /\ r.cache \subseteq u.cache
              /\ \A i \in DOMAIN r.vertices : i \in DOMAIN u.vertices /\ u.vertex_normals[i] = r.vertex_normals[i]
              /\ \A k, y : Has(k, r, y) => Has(k, u, y)
  <2>1. /\ \A i \in DOMAIN r.vertices : i \in DOMAIN u.vertices /\ u.vertex_normals[i] = r.vertex_normals[i]
        /\ r.cache \subseteq u.cache
    <3>1. r.vertices \in Seq(Position) /\ u.vertices \in Seq(Position)
      BY <1>12 DEF IsConsistent
    <3>2. DOMAIN r.vertices = 1 .. Len(r.vertices) /\ DOMAIN u.vertices = 1 .. Len(u.vertices)
          /\ Len(r.vertices) \in Nat /\ Len(u.vertices) \in Nat
      BY <3>1
    <3> QED BY <1>12, <3>2 DEF Took
  <2>2. \A k, y : <<corners[k][1], y>> \in r.cache => y + 1 \in DOMAIN r.vertices
    <3>1. r.cache \subseteq (DOMAIN loop.positions) \X (0 .. Len(r.vertices) - 1)
          /\ r.vertices \in Seq(Position)
      BY <1>12 DEF IsConsistent
    <3>2. DOMAIN r.vertices = 1 .. Len(r.vertices) /\ Len(r.vertices) \in Nat
      BY <3>1
    <3>3. ASSUME NEW k, NEW y, <<corners[k][1], y>> \in r.cache PROVE y + 1 \in DOMAIN r.vertices
      <4>1. y \in 0 .. Len(r.vertices) - 1
        BY <3>1, <3>3
      <4> QED BY <3>2, <4>1
    <3> QED BY <3>3
  <2> QED BY <2>1, <2>2
<1>13. /\ s.cache \subseteq s1.cache /\ s1.cache \subseteq s2.cache /\ s2.cache \subseteq t.cache
       /\ \A i \in DOMAIN s.vertices : i \in DOMAIN s1.vertices /\ s1.vertex_normals[i] = s.vertex_normals[i]
       /\ \A i \in DOMAIN s1.vertices : i \in DOMAIN s2.vertices /\ s2.vertex_normals[i] = s1.vertex_normals[i]
       /\ \A i \in DOMAIN s2.vertices : i \in DOMAIN t.vertices /\ t.vertex_normals[i] = s2.vertex_normals[i]
  <2>1. /\ s.cache \subseteq s1.cache
        /\ \A i \in DOMAIN s.vertices : i \in DOMAIN s1.vertices /\ s1.vertex_normals[i] = s.vertex_normals[i]
    BY <1>3, <1>9, <1>12
  <2>2. /\ s1.cache \subseteq s2.cache
        /\ \A i \in DOMAIN s1.vertices : i \in DOMAIN s2.vertices /\ s2.vertex_normals[i] = s1.vertex_normals[i]
    BY <1>3, <1>5, <1>10, <1>12
  <2>3. /\ s2.cache \subseteq t.cache
        /\ \A i \in DOMAIN s2.vertices : i \in DOMAIN t.vertices /\ t.vertex_normals[i] = s2.vertex_normals[i]
    BY <1>5, <1>7, <1>11, <1>12
  <2> QED BY <2>1, <2>2, <2>3
<1>14. Has(1, t, x1) /\ Has(2, t, x2) /\ Has(3, t, x3)
  <2>1. Has(1, s2, x1)
    BY <1>3, <1>5, <1>9, <1>10, <1>12
  <2> QED BY SMTT(30), <1>5, <1>7, <1>10, <1>11, <1>12, <2>1
<1>15. \A i \in DOMAIN t.vertices : i \in DOMAIN s.vertices \/ i = x1 + 1 \/ i = x2 + 1 \/ i = x3 + 1
  BY <1>9, <1>10, <1>11 DEF Took
<1>16. t.indices = Append(Append(Append(s.indices, x1), x2), x3)
  BY <1>9, <1>10, <1>11 DEF Took
<1> DEFINE x == [k \in Corners |-> IF k = 1 THEN x1 ELSE IF k = 2 THEN x2 ELSE x3]
<1>17. x \in [Corners -> Nat] /\ x[1] = x1 /\ x[2] = x2 /\ x[3] = x3
  BY <1>1
<1> HIDE DEF x, Has
<1>18. \A k \in Corners : Has(k, t, x[k])
  BY <1>1, <1>14, <1>17
<1>19. \A i \in DOMAIN t.vertices : i \in DOMAIN s.vertices \/ \E k \in Corners : i = x[k] + 1
  BY <1>1, <1>15, <1>17
<1>20. s.cache \subseteq t.cache /\ \A i \in DOMAIN s.vertices : t.vertex_normals[i] = s.vertex_normals[i]
  BY <1>13
<1>21. TookThree(s, t, corners, x)
  BY <1>16, <1>17, <1>18, <1>19, <1>20 DEF TookThree, Has
<1> QED BY <1>17, <1>21

\* Reading a face keeps the loader's invariant.
LEMMA FaceKeeps ==
  ASSUME IsMeshFile(shape), LoaderInv, vertices \in Seq(Position), LoadFace
  PROVE  LoaderInv' /\ vertices' \in Seq(Position) /\ shape' = shape
<1> DEFINE N == NormalsOf(shape)
           buffers == [vertices |-> vertices, indices |-> indices, cache |-> loop.cache,
                       vertex_normals |-> loop.vertex_normals]
           s == [vertices |-> vertices, indices |-> indices, cache |-> loop.cache,
                 vertex_normals |-> loop.vertex_normals, normal |-> DefaultNormal, failed |-> FALSE]
           corners == [k \in Corners |-> command.corners[k]]
           t == AddCorner(AddCorner(AddCorner(s, corners[1]), corners[2]), corners[3])
<1>1. PICK last \in Nat : Len(shape.commands) = last /\ DOMAIN shape.commands = 1 .. last
  BY DEF IsMeshFile
<1>2. /\ loop \in [line : 1 .. last + 1, positions : Seq(Position), normals : Seq(N),
                   cache : SUBSET (Nat \X Nat), vertex_normals : Seq(N), failed : BOOLEAN]
      /\ IsConsistent(buffers, loop.positions, N)
  BY <1>1 DEF LoaderInv
<1>3. PICK line \in 1 .. last :
        /\ loop.line = line /\ ~ loop.failed /\ command = shape.commands[line] /\ command.cmd = "f"
        /\ line \in FaceLines
  <2>1. /\ loop.line \in 1 .. last /\ command = shape.commands[loop.line] /\ command.cmd = "f"
        /\ ~ loop.failed
    <3>1. /\ ~ loop.failed /\ loop.line <= Len(shape.commands) /\ shape.commands[loop.line].cmd = "f"
      BY DEF LoadFace, LoadsCommand, command
    <3>2. loop.line \in 1 .. last + 1
      BY <1>2
    <3>3. loop.line \in 1 .. last
      BY <1>1, <3>1, <3>2
    <3> QED BY <3>1, <3>3 DEF command
  <2> QED BY <1>1, <2>1 DEF FaceLines
<1>4. corners \in [Corners -> [1 .. 3 -> Int]] /\ \A k \in Corners : corners[k] = command.corners[k]
                                               /\ corners[k][1] # Empty
  <2>1. /\ command.corners \in Seq([1 .. 3 -> Int]) /\ Len(command.corners) >= VERTICES_PER_TRIANGLE
        /\ \A k \in DOMAIN command.corners : command.corners[k][1] # Empty
    BY <1>1, <1>3 DEF IsMeshFile
  <2>2. Corners \subseteq DOMAIN command.corners
    BY SMTT(30), <2>1 DEF Corners, VERTICES_PER_TRIANGLE
  <2> QED BY <2>1, <2>2
<1>5. /\ vertices' = t.vertices /\ indices' = t.indices /\ shape' = shape
      /\ loop' = [loop EXCEPT !.line = @ + 1, !.cache = t.cache, !.failed = t.failed,
                              !.vertex_normals = t.vertex_normals]
  <2>1. command.corners[1] = corners[1] /\ command.corners[2] = corners[2] /\ command.corners[3] = corners[3]
    BY <1>4 DEF Corners, VERTICES_PER_TRIANGLE
  <2> HIDE DEF corners
  <2>2. t = AddCorner(AddCorner(AddCorner(s, command.corners[1]), command.corners[2]), command.corners[3])
    BY <2>1
  <2> QED BY <2>2 DEF LoadFace
<1>6. IsConsistent(s, loop.positions, N) /\ s \in Loading(N)
  <2>1. IsConsistent(s, loop.positions, N)
    BY <1>2 DEF IsConsistent
  <2>2. indices \in Seq(Nat)
    <3>1. indices \in Seq(0 .. Len(vertices) - 1)
      BY <1>2 DEF IsConsistent
    <3>2. indices \in [1 .. Len(indices) -> 0 .. Len(vertices) - 1] /\ Len(indices) \in Nat
      BY <3>1
    <3>3. 0 .. Len(vertices) - 1 \subseteq Nat
      OBVIOUS
    <3>4. indices \in [1 .. Len(indices) -> Nat]
      BY <3>2, <3>3
    <3> QED BY <3>2, <3>4
  <2>3. DefaultNormal \in N
    BY DEF NormalsOf
  <2> HIDE DEF N
  <2> QED BY <1>2, <2>1, <2>2, <2>3 DEF Loading
<1> HIDE DEF N, s, t, corners
<1>7. /\ t \in Loading(N) /\ IsConsistent(t, loop.positions, N)
      /\ ~ t.failed => \E x \in [Corners -> Nat] : TookThree(s, t, corners, x)
  <2>1. t = AddCorner(AddCorner(AddCorner(s, corners[1]), corners[2]), corners[3])
    BY DEF t
  <2>2. loop.positions \in Seq(Position) /\ loop.normals \in Seq(N)
    BY <1>2
  <2> QED BY <1>4, <1>6, <2>1, <2>2, ThreeCorners
<1>8. /\ loop'.line = line + 1 /\ loop'.positions = loop.positions /\ loop'.normals = loop.normals
      /\ loop'.cache = t.cache /\ loop'.failed = t.failed /\ loop'.vertex_normals = t.vertex_normals
      /\ loop' \in [line : 1 .. last + 1, positions : Seq(Position), normals : Seq(N),
                    cache : SUBSET (Nat \X Nat), vertex_normals : Seq(N), failed : BOOLEAN]
  <2>1. /\ t.cache \in SUBSET (Nat \X Nat) /\ t.failed \in BOOLEAN /\ t.vertex_normals \in Seq(N)
    BY <1>7 DEF Loading
  <2>2. line + 1 \in 1 .. last + 1
    BY <1>3
  <2>3. /\ loop'.line = line + 1 /\ loop'.positions = loop.positions /\ loop'.normals = loop.normals
        /\ loop'.cache = t.cache /\ loop'.failed = t.failed /\ loop'.vertex_normals = t.vertex_normals
    BY <1>2, <1>3, <1>5
  <2>4. loop' = [line |-> loop'.line, positions |-> loop'.positions, normals |-> loop'.normals,
                 cache |-> loop'.cache, vertex_normals |-> loop'.vertex_normals, failed |-> loop'.failed]
    BY <1>2, <1>5
  <2>5. loop.positions \in Seq(Position) /\ loop.normals \in Seq(N)
    BY <1>2
  <2> QED BY <2>1, <2>2, <2>3, <2>4, <2>5
<1>9. IsConsistent(buffers', loop'.positions, N) /\ vertices' \in Seq(Position)
  BY <1>5, <1>7, <1>8 DEF IsConsistent
<1>10. N' = N
  BY <1>5 DEF N, NormalsOf
<1>11. ASSUME ~ t.failed
       PROVE  /\ Len(indices)' = VERTICES_PER_TRIANGLE * Cardinality(Before(loop.line)')
              /\ \A l \in Before(loop.line)', k \in Corners :
                   HasCorner(shape.commands[l].corners[k], IndexOfCorner(l, k))'
              /\ \A i \in (DOMAIN vertices)' :
                   \E l \in Before(loop.line)', k \in Corners : IndexOfCorner(l, k)' = i - 1
  <2>1. PICK x \in [Corners -> Nat] : TookThree(s, t, corners, x)
    BY <1>7, <1>11
  <2>2. /\ Len(indices) = VERTICES_PER_TRIANGLE * Cardinality(Before(line))
        /\ \A l \in Before(line), k \in Corners :
             HasCorner(shape.commands[l].corners[k], IndexOfCorner(l, k))
        /\ \A i \in DOMAIN vertices :
             \E l \in Before(line), k \in Corners : IndexOfCorner(l, k) = i - 1
    BY <1>3 DEF LoaderInv
  <2>3. PICK b \in Nat : b = Cardinality(Before(line)) /\ Len(indices) = 3 * b
    <3>1. line \in 1 .. Len(shape.commands) + 1
      BY <1>1, <1>3
    <3> QED BY <2>2, <3>1, BeforeFacts DEF VERTICES_PER_TRIANGLE
  <2>4. /\ Before(line + 1) = Before(line) \cup {line} /\ Cardinality(Before(line + 1)) = b + 1
        /\ \A l \in Before(line) : Cardinality(Before(l)) < b
        /\ \A l \in Before(line) \cup {line} : Cardinality(Before(l)) \in Nat
    <3>1. line \in 1 .. Len(shape.commands) + 1
      BY <1>1, <1>3
    <3>2. \A l \in Before(line) : l \in 1 .. Len(shape.commands) + 1
      <4>1. FaceLines \subseteq 1 .. Len(shape.commands) /\ Len(shape.commands) \in Nat
        BY <3>1, BeforeFacts
      <4> QED BY <4>1 DEF Before
    <3>3. \A l \in Before(line) \cup {line} : Cardinality(Before(l)) \in Nat
      BY <3>1, <3>2, BeforeFacts
    <3> QED BY <1>3, <2>3, <3>1, <3>3, BeforeFacts
  <2>5. Before(loop.line)' = Before(line + 1)
    BY <1>5, <1>8 DEF Before, FaceLines
  <2>6. /\ Len(indices') = 3 * b + 3
        /\ \A i \in 1 .. 3 * b : indices'[i] = indices[i]
        /\ \A k \in Corners : indices'[3 * b + k] = x[k]
    <3>1. s.indices = indices /\ indices' = t.indices
      BY <1>5 DEF s
    <3>2. indices \in Seq(Nat) /\ x[1] \in Nat /\ x[2] \in Nat /\ x[3] \in Nat /\ Corners = {1, 2, 3}
      BY <1>6, <2>1, <3>1 DEF Loading, Corners, VERTICES_PER_TRIANGLE
    <3>3. PICK m \in Nat : m = 3 * b
      OBVIOUS
    <3>4. Len(indices) = m
      BY <2>3, <3>3
    <3>5. indices' = Append(Append(Append(indices, x[1]), x[2]), x[3])
      BY <2>1, <3>1 DEF TookThree
    <3>6. ASSUME NEW q \in Seq(Nat), Len(q) = m, NEW y1 \in Nat, NEW y2 \in Nat, NEW y3 \in Nat,
                 NEW r, r = Append(Append(Append(q, y1), y2), y3)
          PROVE  /\ Len(r) = m + 3 /\ r[m + 1] = y1 /\ r[m + 2] = y2 /\ r[m + 3] = y3
                 /\ \A i \in 1 .. m : r[i] = q[i]
      BY <3>6
    <3>7. /\ Len(indices') = m + 3
          /\ indices'[m + 1] = x[1] /\ indices'[m + 2] = x[2] /\ indices'[m + 3] = x[3]
          /\ \A i \in 1 .. m : indices'[i] = indices[i]
      BY SMTT(30), <3>2, <3>4, <3>5, <3>6
    <3> QED BY <3>2, <3>3, <3>7
  <2>7. \A l \in Before(line), k \in Corners : IndexOfCorner(l, k)' = IndexOfCorner(l, k)
    <3> TAKE l \in Before(line), k \in Corners
    <3>1. PICK c \in Nat : c = Cardinality(Before(l)) /\ c < b
      BY <2>4
    <3>2. IndexOfCorner(l, k) = indices[3 * c + k] /\ IndexOfCorner(l, k)' = indices'[3 * c + k]
      BY <1>5, <3>1 DEF IndexOfCorner, Before, FaceLines, VERTICES_PER_TRIANGLE
    <3>3. 3 * c + k \in 1 .. 3 * b
      BY <3>1 DEF Corners, VERTICES_PER_TRIANGLE
    <3> QED BY <2>6, <3>2, <3>3
  <2>8. \A k \in Corners : IndexOfCorner(line, k)' = x[k]
    <3> TAKE k \in Corners
    <3>1. IndexOfCorner(line, k)' = indices'[3 * b + k]
      <4>1. Cardinality({e \in FaceLines : e < line})' = b
        <5>1. ({e \in FaceLines : e < line})' = {e \in FaceLines : e < line}
          BY <1>5 DEF FaceLines
        <5> QED BY <2>3, <5>1 DEF Before
      <4> QED BY <4>1 DEF IndexOfCorner, VERTICES_PER_TRIANGLE
    <3> QED BY <2>6, <3>1
  <2>10. ASSUME NEW l \in Before(line), NEW k \in Corners
         PROVE  HasCorner(shape.commands[l].corners[k], IndexOfCorner(l, k))'
    <3> DEFINE corner == shape.commands[l].corners[k]
               index == IndexOfCorner(l, k)
    <3>1. HasCorner(corner, index)
      BY <2>2, <2>10
    <3> HIDE DEF corner, index
    <3>2. <<corner[1], index>> \in loop.cache
      BY <3>1 DEF HasCorner
    <3>3. index + 1 \in DOMAIN vertices
      <4>1. loop.cache \subseteq (DOMAIN loop.positions) \X (0 .. Len(vertices) - 1)
        BY <1>2 DEF IsConsistent
      <4>2. index \in 0 .. Len(vertices) - 1
        BY <3>2, <4>1
      <4> QED BY <4>2
    <3>4. /\ <<corner[1], index>> \in t.cache
          /\ t.vertex_normals[index + 1] = loop.vertex_normals[index + 1]
      <4>1. s.cache = loop.cache /\ s.vertices = vertices /\ s.vertex_normals = loop.vertex_normals
        BY DEF s
      <4> QED BY <2>1, <3>2, <3>3, <4>1 DEF TookThree
    <3>5. /\ <<corner[1], index>> \in loop'.cache
          /\ corner[2] # Empty /\ corner[3] # Empty =>
               /\ corner[3] \in DOMAIN loop'.normals
               /\ loop'.vertex_normals[index + 1] = loop'.normals[corner[3]]
      BY <1>8, <3>1, <3>4 DEF HasCorner
    <3>6. corner' = corner /\ index' = index
      BY <1>5, <2>7 DEF corner, index
    <3>7. HasCorner(corner, index)'
      BY <3>5, <3>6 DEF HasCorner
    <3> QED BY <3>7 DEF corner, index
  <2>11. ASSUME NEW k \in Corners
         PROVE  HasCorner(shape.commands[line].corners[k], IndexOfCorner(line, k))'
    <3> DEFINE corner == corners[k]
    <3>1. corner = shape.commands[line].corners[k]
      BY <1>3, <1>4
    <3>2. corner[2] # Empty /\ corner[3] # Empty => \A j \in 1 .. 3 : corner[j] # Empty
      BY <1>4
    <3>3. /\ <<corner[1], x[k]>> \in loop'.cache
          /\ corner[2] # Empty /\ corner[3] # Empty =>
               /\ corner[3] \in DOMAIN loop'.normals
               /\ loop'.vertex_normals[x[k] + 1] = loop'.normals[corner[3]]
      BY <1>8, <2>1, <3>2 DEF TookThree
    <3> HIDE DEF corner
    <3>4. (shape.commands[line].corners[k])' = corner /\ IndexOfCorner(line, k)' = x[k]
      BY <1>5, <2>8, <3>1
    <3> QED BY <3>3, <3>4 DEF HasCorner
  <2>12. ASSUME NEW i \in DOMAIN vertices'
         PROVE  \E l \in Before(line + 1), k \in Corners : IndexOfCorner(l, k)' = i - 1
    <3>1. CASE i \in DOMAIN vertices
      <4>1. PICK l \in Before(line), k \in Corners : IndexOfCorner(l, k) = i - 1
        BY <2>2, <3>1
      <4> QED BY <2>4, <2>7, <4>1
    <3>2. CASE \E k \in Corners : i = x[k] + 1
      <4>1. PICK k \in Corners : i = x[k] + 1
        BY <3>2
      <4>2. x[k] = i - 1
        BY <4>1
      <4> QED BY <2>4, <2>8, <4>1, <4>2
    <3>3. i \in DOMAIN t.vertices /\ s.vertices = vertices
      BY <1>5, <2>12 DEF s
    <3> QED BY <2>1, <3>1, <3>2, <3>3 DEF TookThree
  <2>13. Len(indices)' = VERTICES_PER_TRIANGLE * Cardinality(Before(loop.line)')
    BY <2>4, <2>5, <2>6 DEF VERTICES_PER_TRIANGLE
  <2> QED BY <2>4, <2>5, <2>10, <2>11, <2>12, <2>13
<1> QED
  <2>1. LoaderInv'
    <3>1. Len(shape.commands)' = last
      BY <1>1, <1>5
    <3> QED BY <1>8, <1>9, <1>10, <1>11, <3>1 DEF LoaderInv, N, buffers
  <2> QED BY <1>5, <1>9, <2>1

\* The corners of the faces that have a normal have a texture as well.
NamesTextures(s) ==
  \A l \in FaceLines, k \in Corners :
    LET corner == s.commands[l].corners[k] IN corner[3] # Empty => corner[2] # Empty

\* At the end of the file the invariant says that the mesh is what the file says.
LEMMA LoadedMesh ==
  ASSUME IsMeshFile(shape), LoaderInv, NamesTextures(shape)
  PROVE  LoadedAsWritten
<1> SUFFICES ASSUME Generated, shape.name = "file"
             PROVE  LoadedAsWritten
  BY DEF LoadedAsWritten
<1> DEFINE cache == loop.cache
           normals == loop.vertex_normals
           buffers == [vertices |-> vertices, indices |-> indices, cache |-> cache, vertex_normals |-> normals]
           position(l, k) == shape.commands[l].corners[k][1]
<1>1. Before(loop.line) = FaceLines /\ ~ loop.failed
  <2>1. ~ loop.failed /\ loop.line > Len(shape.commands)
    BY DEF Generated
  <2>2. loop.line \in 1 .. Len(shape.commands) + 1
    BY DEF LoaderInv
  <2>3. Len(shape.commands) \in Nat
    BY DEF IsMeshFile
  <2>4. loop.line = Len(shape.commands) + 1
    BY <2>1, <2>2, <2>3
  <2> QED BY <2>1, <2>2, <2>4, BeforeFacts
<1>2. /\ Len(indices) = VERTICES_PER_TRIANGLE * Cardinality(FaceLines)
      /\ \A l \in FaceLines, k \in Corners : HasCorner(shape.commands[l].corners[k], IndexOfCorner(l, k))
      /\ \A i \in DOMAIN vertices : \E l \in FaceLines, k \in Corners : IndexOfCorner(l, k) = i - 1
  BY <1>1 DEF LoaderInv
<1>3. IsConsistent(buffers, loop.positions, NormalsOf(shape))
  BY DEF LoaderInv
<1>4. PICK n \in Nat : Len(vertices) = n /\ DOMAIN vertices = 1 .. n
  BY <1>3 DEF IsConsistent
<1>5. /\ \A e \in cache : e[2] + 1 \in 1 .. n /\ e[2] \in Int /\ vertices[e[2] + 1] = loop.positions[e[1]]
      /\ \A i \in 1 .. n : \E e \in cache : e[2] = i - 1
      /\ \A e \in cache, f \in cache : e[2] = f[2] => e = f
      /\ \A e \in cache, f \in cache :
           e[1] = f[1] /\ normals[e[2] + 1] = normals[f[2] + 1] => e = f
  <2>1. cache \subseteq (DOMAIN loop.positions) \X (0 .. n - 1)
    BY <1>3, <1>4 DEF IsConsistent
  <2>2. \A e \in cache : e[2] \in 0 .. n - 1
    BY <2>1
  <2>3. \A e \in cache : e[2] + 1 \in 1 .. n /\ e[2] \in Int
    BY <2>2
  <2> QED BY <1>3, <1>4, <2>3 DEF IsConsistent
<1>6. \A l \in FaceLines, k \in Corners : <<position(l, k), IndexOfCorner(l, k)>> \in cache
  BY <1>2 DEF HasCorner
<1>7. ASSUME NEW l \in FaceLines, NEW k \in Corners
      PROVE  CornerIsLoaded(l, k)
  <2> DEFINE corner == shape.commands[l].corners[k]
  <2>1. vertices[IndexOfCorner(l, k) + 1] = loop.positions[corner[1]]
    <3>1. <<corner[1], IndexOfCorner(l, k)>> \in cache
      BY <1>6
    <3> QED BY <1>5, <3>1
  <2>2. corner[3] # Empty => corner[2] # Empty
    BY DEF NamesTextures
  <2> QED BY <1>2, <2>1, <2>2 DEF HasCorner, CornerIsLoaded
\* A vertex for each position with a normal, and none twice.
<1>8. Len(vertices) = Cardinality(NamedVertices)
  <2> DEFINE e(i) == CHOOSE e \in cache : e[2] = i - 1
             h == [i \in 1 .. n |-> <<e(i)[1], normals[i]>>]
  <2>1. \A i \in 1 .. n : e(i) \in cache /\ e(i)[2] = i - 1 /\ e(i)[2] + 1 = i
    <3> TAKE i \in 1 .. n
    <3>1. e(i) \in cache /\ e(i)[2] = i - 1
      BY <1>5
    <3> QED BY <3>1
  <2> HIDE DEF e
  <2>2. ASSUME NEW l \in FaceLines, NEW k \in Corners
        PROVE  \E i \in 1 .. n : i = IndexOfCorner(l, k) + 1 /\ h[i] = <<position(l, k), normals[i]>>
    <3>1. PICK f \in cache : f = <<position(l, k), IndexOfCorner(l, k)>>
      BY <1>6
    <3>2. f[2] + 1 \in 1 .. n /\ f[2] \in Int /\ f[1] = position(l, k) /\ f[2] = IndexOfCorner(l, k)
      BY <1>5, <3>1
    <3>3. PICK i \in 1 .. n : i = f[2] + 1
      BY <3>2
    <3>4. e(i)[2] = f[2]
      BY <2>1, <3>2, <3>3
    <3>5. e(i) = f
      BY <1>5, <2>1, <3>4
    <3> QED BY <3>2, <3>3, <3>5
  <2>3. h \in [1 .. n -> NamedVertices]
    <3>1. ASSUME NEW i \in 1 .. n
          PROVE  <<e(i)[1], normals[i]>> \in NamedVertices
      <4>1. PICK l \in FaceLines, k \in Corners : IndexOfCorner(l, k) = i - 1
        BY <1>2, <1>4
      <4>2. PICK j \in 1 .. n : j = IndexOfCorner(l, k) + 1 /\ h[j] = <<position(l, k), normals[j]>>
        BY <2>2
      <4>3. j = i
        BY <4>1, <4>2
      <4> QED BY <4>2, <4>3 DEF NamedVertices
    <3> QED BY <3>1
  <2>4. ASSUME NEW i \in 1 .. n, NEW j \in 1 .. n, h[i] = h[j]
        PROVE  i = j
    <3>1. e(i)[1] = e(j)[1] /\ normals[i] = normals[j]
      BY <2>4
    <3>2. e(i) = e(j)
      BY <1>5, <2>1, <3>1
    <3>3. i - 1 = j - 1
      BY <2>1, <3>2
    <3> QED BY <3>3
  <2>5. \A u \in NamedVertices : \E i \in 1 .. n : h[i] = u
    <3> TAKE u \in NamedVertices
    <3>1. PICK l \in FaceLines, k \in Corners : u = <<position(l, k), normals[IndexOfCorner(l, k) + 1]>>
      BY DEF NamedVertices
    <3>2. PICK i \in 1 .. n : i = IndexOfCorner(l, k) + 1 /\ h[i] = <<position(l, k), normals[i]>>
      BY <2>2
    <3>3. h[i] = u
      BY <3>1, <3>2
    <3> QED BY <3>3
  <2> HIDE DEF h
  <2>6. h \in Bijection(1 .. n, NamedVertices)
    <3>1. h \in Injection(1 .. n, NamedVertices)
      BY <2>3, <2>4 DEF Injection, IsInjective
    <3>2. h \in Surjection(1 .. n, NamedVertices)
      BY <2>3, <2>5 DEF Surjection
    <3> QED BY <3>1, <3>2 DEF Bijection
  <2>7. IsFiniteSet(1 .. n) /\ Cardinality(1 .. n) = n
    <3>1. 1 \in Int /\ n \in Int /\ n - 1 + 1 = n /\ (1 > n <=> n = 0)
      OBVIOUS
    <3> QED BY <3>1, FS_Interval
  <2>8. ExistsBijection(1 .. n, NamedVertices)
    BY <2>6 DEF ExistsBijection
  <2> QED BY <1>4, <2>7, <2>8, FS_Bijection
<1> QED BY <1>2, <1>7, <1>8 DEF LoadedAsWritten

-----------------------------------------------------------------------------
(* The scene: its phases.                                                  *)

Clustering == {"physical", "graphical", "ready", "step"}

\* Which mesh is being made, and what the phases before have left.
PhaseInv ==
  /\ scene \in Scenes /\ shape \in {scene.high, scene.low}
  /\ phase \in {"high mesh", "low mesh", "refused"} \cup Clustering
  /\ phase = "high mesh" => shape = scene.high
  /\ phase \in {"low mesh"} \cup Clustering => shape = scene.low
  /\ vertices \in Seq(Position) /\ high.vertices \in Seq(Position)
  /\ phase \in Clustering \/ shape.name = "points" => vertices # <<>>
  /\ MeshInv /\ (shape.name = "file" => LoaderInv)

\* The name of a shape tells its kind.
LEMMA Names ==
  /\ \A s \in GeneratedMeshes : s.name \in {"cylinder", "sphere", "cube", "plane", "cubic"}
  /\ \A s \in PointModels : s.name = "points" /\ s.by \in Nat \ {0}
  /\ \A s : IsMeshFile(s) => s.name = "file"
<1>1. \A s \in GeneratedMeshes : s.name \in {"cylinder", "sphere", "cube", "plane", "cubic"}
  BY DEF GeneratedMeshes
<1>2. \A s : IsMeshFile(s) => s.name = "file"
  BY DEF IsMeshFile
<1> QED BY <1>1, <1>2 DEF PointModels

\* What the scenes are made of.
LEMMA ScenesAre ==
  ASSUME NEW s \in Scenes
  PROVE  /\ s.by_axes \in [Axis -> Nat \ {0}] /\ s.padding \in [num : Int, den : Nat \ {0}]
         /\ s.steps \in Nat
         /\ s.high.name # "file" => s.high \in GeneratedMeshes /\ s.low \in GeneratedMeshes
         /\ s.high.name = "file" => IsMeshFile(s.high) /\ s.low \in PointModels
         /\ s.high.name # "points" /\ s.low.name # "file"
BY ScenesAssumption, Names

\* The invariant of the phases holds initially.
LEMMA PhaseInit ==
  ASSUME Init
  PROVE  PhaseInv
<1>1. scene \in Scenes /\ phase = "high mesh" /\ shape = scene.high /\ loop = FirstTurn(scene.high)
      /\ vertices = <<>> /\ indices = <<>> /\ high = [vertices |-> <<>>, indices |-> <<>>]
  BY DEF Init
<1>2. vertices \in Seq(Position) /\ high.vertices \in Seq(Position)
  <2>1. <<>> \in Seq(Position)
    OBVIOUS
  <2>2. high.vertices = <<>>
    BY <1>1, Zenon
  <2> QED BY <1>1, <2>1, <2>2
<1>3. MeshInv
  <2>1. \A s \in GeneratedMeshes : <<>> \in Seq(IndexOf(s)) /\ Len(<<>>) = 0
    OBVIOUS
  <2> QED BY <1>1, <1>2, <2>1, FirstTurnStands DEF MeshInv
<1>4. shape.name = "file" => LoaderInv
  BY <1>1, ScenesAre, FirstLine
<1>5. shape.name # "points"
  BY <1>1, ScenesAre
<1> QED BY <1>1, <1>2, <1>3, <1>4, <1>5 DEF PhaseInv, Clustering

\* A turn of a generator's loop keeps it.
LEMMA GenerateKeepsPhase ==
  ASSUME PhaseInv, GenerateMesh
  PROVE  PhaseInv'
<1>1. /\ phase \in {"high mesh", "low mesh"} /\ Generate
      /\ phase' = phase /\ scene' = scene /\ high' = high
  BY DEF GenerateMesh
<1>2. CASE shape \in GeneratedMeshes
  <2>1. MeshInv' /\ shape' = shape
    BY <1>1, <1>2, GenerateStands DEF PhaseInv
  <2>2. vertices' \in Seq(Position)
    BY <1>2, <2>1 DEF MeshInv
  <2>3. shape.name \notin {"file", "points"}
    BY <1>2, Names
  <2>4. phase \notin Clustering
    BY <1>1 DEF Clustering
  <2> QED BY <1>1, <2>1, <2>2, <2>3, <2>4 DEF PhaseInv
<1>3. CASE shape.name = "file"
  <2>1. IsMeshFile(shape) /\ LoaderInv /\ vertices \in Seq(Position) /\ shape \notin GeneratedMeshes
    BY <1>3, ScenesAre, Names DEF PhaseInv
  <2>2. LoadPosition \/ LoadNormal \/ IgnoreLine \/ LoadFace
    BY <1>1, <1>3 DEF Generate, CylinderLevel, CylinderSideEnd, CylinderCenter, CylinderJump,
                      SphereVertex, TessellateVertex, PlaneVertex, CubicVertex
  <2>3. LoaderInv' /\ vertices' \in Seq(Position) /\ shape' = shape
    BY <2>1, <2>2, OtherLineKeeps, FaceKeeps
  <2>4. MeshInv'
    BY <2>1, <2>3 DEF MeshInv
  <2>5. phase \notin Clustering
    BY <1>1 DEF Clustering
  <2> QED BY <1>1, <1>3, <2>3, <2>4, <2>5 DEF PhaseInv
<1>4. CASE shape \in PointModels
  <2>1. shape.name = "points"
    BY <1>4, Names
  <2> QED BY <1>1, <2>1 DEF Generate, CylinderLevel, CylinderSideEnd, CylinderCenter, CylinderJump,
                  SphereVertex, TessellateVertex, PlaneVertex, CubicVertex,
                  LoadPosition, LoadNormal, LoadFace, IgnoreLine, LoadsCommand
<1> QED BY <1>2, <1>3, <1>4, ScenesAre DEF PhaseInv

\* The end of the high mesh, from which the low one starts, keeps it.
LEMMA HighMeshKeepsPhase ==
  ASSUME PhaseInv, FinishHighMesh
  PROVE  PhaseInv'
<1>1. /\ phase = "high mesh" /\ shape = scene.high /\ shape.name # "file" /\ scene \in Scenes
      /\ phase' = "low mesh" /\ high' = [vertices |-> vertices, indices |-> indices]
      /\ shape' = scene.low /\ loop' = FirstTurn(scene.low)
      /\ vertices' = <<>> /\ indices' = <<>> /\ scene' = scene
  BY DEF PhaseInv, FinishHighMesh
<1>2. vertices' \in Seq(Position) /\ high'.vertices \in Seq(Position)
  <2>1. <<>> \in Seq(Position)
    OBVIOUS
  <2>2. high'.vertices = vertices
    BY <1>1, Zenon
  <2> QED BY <1>1, <2>1, <2>2 DEF PhaseInv
<1>3. shape' \in GeneratedMeshes
  BY <1>1, ScenesAre
<1>4. MeshInv'
  <2>1. <<>> \in Seq(IndexOf(scene.low)) /\ Len(<<>>) = 0
    OBVIOUS
  <2>2. Stands(scene.low, FirstTurn(scene.low), 0, 0)
    BY <1>1, <1>3, FirstTurnStands
  <2> QED BY <1>1, <1>2, <2>1, <2>2 DEF MeshInv
<1>5. shape'.name \notin {"file", "points"}
  BY <1>3, Names
<1> QED BY <1>1, <1>2, <1>4, <1>5 DEF PhaseInv, Clustering

\* The points that are picked from a mesh are positions (Renderer/Model.cpp:198-227).
LEMMA PointsOfType ==
  ASSUME NEW source \in Seq(Position), NEW by \in Nat \ {0}
  PROVE  PointsOf(source, by) \in Seq(Position)
<1>1. PICK n \in Nat : Len(source) = n /\ DOMAIN source = 1 .. n
  OBVIOUS
<1>2. PICK q \in Int : q = n \div by
  BY Quotient
<1>3. by * q <= n /\ q \in Nat
  <2>1. PICK r \in 0 .. by - 1 : n = by * q + r
    <3>1. n % by \in 0 .. by - 1 /\ n = by * (n \div by) + (n % by)
      BY Quotient
    <3> QED BY <1>2, <3>1, Zenon
  <2>2. q >= 0
    BY <1>2
  <2>3. PICK m \in Int : m = by * q
    OBVIOUS
  <2> QED BY <2>1, <2>2, <2>3
<1>4. ASSUME NEW i \in 1 .. q
      PROVE  source[by * (i - 1) + 1] \in Position
  <2>1. by * i <= by * q /\ by * i = by * (i - 1) + by
    <3>1. i \in Int /\ q \in Int /\ i <= q /\ i - 1 \in Int /\ by \in Int /\ i - 1 + 1 = i
      BY <1>3
    <3>2. by * (i - 1 + 1) = by * (i - 1) + by * 1
      BY <3>1, Distributes
    <3> QED BY <3>1, <3>2, Monotone
  <2>2. by * (i - 1) \in Nat
    OBVIOUS
  <2>3. by * i \in Int /\ by * q \in Int /\ by \in Nat \ {0}
    OBVIOUS
  <2>4. by * (i - 1) + 1 \in 1 .. n
    BY <1>3, <2>1, <2>2, <2>3
  <2> QED BY <1>1, <2>4
<1> QED BY <1>1, <1>2, <1>3, <1>4 DEF PointsOf

\* The end of a mesh file keeps it.
LEMMA MeshFileKeepsPhase ==
  ASSUME PhaseInv, FinishMeshFile
  PROVE  PhaseInv'
<1>1. /\ phase = "high mesh" /\ shape = scene.high /\ shape.name = "file" /\ scene \in Scenes
      /\ vertices \in Seq(Position) /\ PointsOf(vertices, scene.low.by) # <<>>
      /\ phase' = "low mesh" /\ high' = [vertices |-> vertices, indices |-> indices]
      /\ shape' = scene.low /\ vertices' = PointsOf(vertices, scene.low.by) /\ scene' = scene
  BY DEF PhaseInv, FinishMeshFile, IsUsable
<1>2. scene.low \in PointModels
  BY <1>1, ScenesAre
<1>3. vertices' \in Seq(Position) /\ vertices' # <<>>
  BY <1>1, <1>2, Names, PointsOfType
<1>4. shape'.name = "points" /\ MeshInv'
  BY <1>1, <1>2, Names DEF MeshInv
<1>5. high'.vertices \in Seq(Position)
  BY <1>1
<1> QED BY <1>1, <1>3, <1>4, <1>5 DEF PhaseInv, Clustering

\* The end of the low mesh, from which the model is made, keeps it.
LEMMA LowMeshKeepsPhase ==
  ASSUME PhaseInv, FinishLowMesh
  PROVE  PhaseInv' /\ UNCHANGED <<meshVars, scene, high, modelVars, stepVars>> /\ phase' = "physical"
<1>1. /\ phase = "low mesh" /\ Generated /\ phase' = "physical" /\ shape = scene.low /\ scene \in Scenes
      /\ UNCHANGED <<meshVars, scene, high, modelVars, stepVars>>
  BY DEF PhaseInv, FinishLowMesh
<1>2. UNCHANGED <<shape, loop, vertices, indices, scene, high>>
  BY <1>1 DEF meshVars
<1>3. vertices # <<>>
  <2>1. CASE shape \in GeneratedMeshes
    <3>1. vertices \in Seq(Position) /\ indices \in Seq(IndexOf(shape))
          /\ Stands(shape, loop, Len(vertices), Len(indices))
      BY <2>1 DEF PhaseInv, MeshInv
    <3>2. Len(vertices) \in Nat /\ Len(indices) \in Nat
      BY <3>1
    <3>3. Fits(shape, Len(vertices), Len(indices))
      BY <3>1, <3>2, MeshFits
    <3>4. Len(vertices) # 0
      BY <1>1, <3>3 DEF Fits
    <3> QED BY <3>4
  <2>2. CASE shape \in PointModels
    BY <2>2, Names DEF PhaseInv
  <2> QED BY <1>1, <2>1, <2>2, ScenesAre
<1>4. MeshInv' /\ (shape'.name = "file" => LoaderInv')
  <2>1. MeshInv'
    BY <1>2 DEF PhaseInv, MeshInv
  <2>2. shape'.name # "file"
    BY <1>1, <1>2, ScenesAre
  <2> QED BY <2>1, <2>2
<1> QED BY <1>1, <1>2, <1>3, <1>4 DEF PhaseInv, Clustering

\* Whatever leaves the meshes alone may go on to a later phase, or refuse.
LEMMA PhaseKept ==
  ASSUME PhaseInv, UNCHANGED <<meshVars, scene, high>>,
         phase' = phase \/ phase' = "refused" \/ (phase \in Clustering /\ phase' \in Clustering)
  PROVE  PhaseInv'
<1>1. UNCHANGED <<shape, loop, vertices, indices, scene, high>>
  BY DEF meshVars
<1>2. MeshInv'
  BY <1>1 DEF PhaseInv, MeshInv
<1>3. shape.name = "file" => LoaderInv'
  <2>1. FaceLines' = FaceLines
    BY <1>1 DEF FaceLines
  <2>2. \A l : Before(l)' = Before(l)
    BY <2>1 DEF Before
  <2>3. \A l, k : IndexOfCorner(l, k)' = IndexOfCorner(l, k)
    BY <1>1, <2>1 DEF IndexOfCorner
  <2>4. \A corner, index : HasCorner(corner, index)' <=> HasCorner(corner, index)
    BY <1>1 DEF HasCorner
  <2> QED BY <1>1, <2>2, <2>3, <2>4 DEF PhaseInv, LoaderInv
<1> QED BY <1>1, <1>2, <1>3 DEF PhaseInv, Clustering

-----------------------------------------------------------------------------
(* The model: what its construction knows of every vertex.                 *)

Place == 0 .. CLUSTER_INDICES_NUM - 1
PhysicalVertices ==
  [including : Nat, next : Nat, additions : [Place -> {<<>>} \cup (Cluster \X Nat)],
   equilibrium : [Cluster -> Nat]]
Infos == [vertex : Nat, addition_index : Nat, moves : Nat]

Found(v) == find_clusters_for_vertex(grid, vertices[v])
Assigned(p) == [clusters |-> find_clusters_for_vertex(grid, p), weights |-> WeightsOf(grid, p)]

\* The infos of a cluster name the vertices for which it was found, each of them, with
\* the place that the vertex keeps for it.
InfosInv ==
  /\ infos \in [Cluster -> Seq(Infos)]
  /\ \A c \in Cluster : \A i \in DOMAIN infos[c] :
       /\ infos[c][i].vertex \in DOMAIN physical /\ c \in ToSet(Found(infos[c][i].vertex))
       /\ infos[c][i].addition_index = AdditionIndex(Found(infos[c][i].vertex), c)
  /\ \A v \in DOMAIN physical : \A c \in ToSet(Found(v)) :
       \E i \in DOMAIN infos[c] : infos[c][i].vertex = v

PhysicalInv ==
  /\ physical \in Seq(PhysicalVertices) /\ Len(physical) <= Len(vertices)
  /\ phase # "physical" => Len(physical) = Len(vertices)
  /\ \A v \in DOMAIN physical : physical[v].including = Len(Found(v))

GraphicalInv ==
  /\ graphical \in Seq({Assigned(p) : p \in Position}) /\ Len(graphical) <= Len(high.vertices)
  /\ \A g \in DOMAIN graphical : /\ graphical[g] = Assigned(high.vertices[g])
                                 /\ Len(graphical[g].clusters) <= CLUSTER_INDICES_NUM

ModelInv ==
  /\ phase \in {"high mesh", "low mesh"} => physical = <<>> /\ infos = [c \in Cluster |-> <<>>]
  /\ phase \in {"high mesh", "low mesh", "physical"} => graphical = <<>>
  /\ phase \in Clustering => InfosInv /\ PhysicalInv /\ GraphicalInv

\* The clusters of the scene are the cells of its grid.
LEMMA SceneGrid ==
  ASSUME PhaseInv, phase \in Clustering
  PROVE  /\ IsGrid(grid) /\ grid.by_axes = scene.by_axes /\ grid.padding = scene.padding
         /\ Cells(grid) = Cluster /\ Cluster \subseteq Nat /\ AllClusters(grid) \in Seq(Cluster)
         /\ ToSet(AllClusters(grid)) = Cluster
<1>1. vertices \in Seq([Axis -> Int]) /\ vertices # <<>>
  BY DEF PhaseInv, Position, Axis
<1>2. scene.by_axes \in [Axis -> Nat \ {0}] /\ scene.padding \in [num : Int, den : Nat \ {0}]
  BY ScenesAre DEF PhaseInv
<1>3. IsGrid(grid) /\ grid.by_axes = scene.by_axes /\ grid.padding = scene.padding
  BY <1>1, <1>2, GridFacts DEF grid
<1>4. Cells(grid) = Cluster
  BY <1>3 DEF Cells, Cluster
<1>5. Cluster \subseteq Nat
  BY DEF Cluster
<1> HIDE DEF grid
<1> QED BY <1>3, <1>4, <1>5, AllClustersAre

\* What a vertex is assigned: some clusters, each once, with an addition of its own.
LEMMA FoundClusters ==
  ASSUME PhaseInv, phase \in Clustering, NEW p \in Position
  PROVE  LET found == find_clusters_for_vertex(grid, p)
         IN  /\ found \in Seq(Cluster) /\ Len(found) \in Nat \ {0} /\ IsInjective(found)
             /\ \A c \in ToSet(found) : /\ AdditionIndex(found, c) \in 0 .. Len(found) - 1
                                        /\ found[AdditionIndex(found, c) + 1] = c
<1> DEFINE found == find_clusters_for_vertex(grid, p)
<1>1. found \in Seq(Cells(grid)) /\ Len(found) >= 1 /\ IsInjective(found)
  BY SceneGrid, FoundFacts DEF Position, Axis
<1> HIDE DEF found
<1>2. found \in Seq(Cluster) /\ Len(found) \in Nat \ {0}
  BY <1>1, SceneGrid
<1>3. ASSUME NEW c \in ToSet(found)
      PROVE  /\ AdditionIndex(found, c) \in 0 .. Len(found) - 1
             /\ found[AdditionIndex(found, c) + 1] = c
  <2>1. PICK n \in Nat \ {0} : Len(found) = n /\ DOMAIN found = 1 .. n
    BY <1>2
  <2>2. PICK j \in 1 .. n : found[j] = c
    BY <2>1 DEF ToSet
  <2>3. j - 1 \in 0 .. n - 1 /\ found[(j - 1) + 1] = c
    BY <2>2
  <2>4. \E i \in 0 .. n - 1 : found[i + 1] = c
    BY <2>3
  <2> QED BY <2>1, <2>4, Zenon DEF AdditionIndex
<1> QED BY <1>1, <1>2, <1>3 DEF found

\* The same for the vertices of the model.
LEMMA FoundOfVertex ==
  ASSUME PhaseInv, phase \in Clustering, NEW v \in DOMAIN vertices
  PROVE  /\ Found(v) \in Seq(Cluster) /\ Len(Found(v)) \in Nat \ {0} /\ IsInjective(Found(v))
         /\ \A c \in ToSet(Found(v)) : /\ AdditionIndex(Found(v), c) \in 0 .. Len(Found(v)) - 1
                                       /\ Found(v)[AdditionIndex(Found(v), c) + 1] = c
<1>1. vertices \in Seq(Position)
  BY DEF PhaseInv
<1>2. vertices[v] \in Position
  BY <1>1
<1> QED BY <1>2, FoundClusters DEF Found

\* What depends only on the meshes and the scene does not change with the vertices.
LEMMA SameGrid ==
  ASSUME UNCHANGED <<meshVars, scene>>
  PROVE  /\ grid' = grid /\ Cluster' = Cluster /\ PhysicalVertices' = PhysicalVertices
         /\ \A v : Found(v)' = Found(v)
         /\ \A p : Assigned(p)' = Assigned(p)
<1>1. vertices' = vertices /\ scene' = scene
  BY DEF meshVars
<1>2. grid' = grid /\ Cluster' = Cluster
  BY <1>1 DEF grid, Cluster
<1>3. PhysicalVertices' = PhysicalVertices
  BY <1>2 DEF PhysicalVertices
<1>4. \A v : Found(v)' = Found(v)
  BY <1>1, <1>2 DEF Found
<1>5. \A p : Assigned(p)' = Assigned(p)
  BY <1>2 DEF Assigned
<1> QED BY <1>2, <1>3, <1>4, <1>5

\* The invariant of the model holds initially.
LEMMA ModelInit ==
  ASSUME Init
  PROVE  ModelInv
BY DEF Init, ModelInv, Clustering, Cluster

\* A model starts with no vertex assigned.
LEMMA LowMeshKeepsModel ==
  ASSUME PhaseInv, ModelInv, FinishLowMesh
  PROVE  ModelInv'
<1>1. /\ PhaseInv' /\ phase = "low mesh" /\ phase' = "physical"
      /\ UNCHANGED <<meshVars, scene, high, modelVars, stepVars>>
  BY LowMeshKeepsPhase DEF FinishLowMesh
<1>2. /\ physical' = <<>> /\ infos' = [c \in Cluster |-> <<>>] /\ graphical' = <<>> /\ Cluster' = Cluster
  BY <1>1, SameGrid DEF ModelInv, modelVars
<1>3. vertices' \in Seq(Position) /\ high'.vertices \in Seq(Position)
  BY <1>1 DEF PhaseInv
<1>4. Len(vertices') \in Nat /\ Len(high'.vertices) \in Nat
  BY <1>3
<1>5. InfosInv'
  <2>1. <<>> \in Seq(Infos) /\ DOMAIN <<>> = {}
    OBVIOUS
  <2> QED BY <1>2, <2>1 DEF InfosInv
<1>6. PhysicalInv'
  <2>1. physical' \in Seq(PhysicalVertices') /\ DOMAIN physical' = {} /\ Len(physical') = 0
    BY <1>2
  <2>2. physical' \in Seq(PhysicalVertices')
    BY <2>1
  <2>3. (Len(physical) <= Len(vertices))'
    BY <1>4, <2>1
  <2>4. (phase # "physical" => Len(physical) = Len(vertices))'
    BY <1>1
  <2>5. (\A v \in DOMAIN physical : physical[v].including = Len(Found(v)))'
    BY <2>1
  <2> QED BY <2>2, <2>3, <2>4, <2>5 DEF PhysicalInv
<1>7. GraphicalInv'
  <2>1. graphical' \in Seq({Assigned(p)' : p \in Position}) /\ DOMAIN graphical' = {} /\ Len(graphical') = 0
    BY <1>2
  <2>2. (graphical \in Seq({Assigned(p) : p \in Position}))'
    BY <2>1
  <2>3. (Len(graphical) <= Len(high.vertices))'
    BY <1>4, <2>1
  <2>4. (\A g \in DOMAIN graphical : /\ graphical[g] = Assigned(high.vertices[g])
                                    /\ Len(graphical[g].clusters) <= CLUSTER_INDICES_NUM)'
    BY <2>1
  <2> QED BY <2>2, <2>3, <2>4 DEF GraphicalInv
<1> QED BY <1>1, <1>2, <1>5, <1>6, <1>7 DEF ModelInv

\* Whatever leaves the model alone keeps what is known of it, in any phase that asks no more.
LEMMA ModelKept ==
  ASSUME PhaseInv, ModelInv, UNCHANGED <<meshVars, scene, high, modelVars>>,
         \/ phase' = phase \/ phase' = "refused"
         \/ /\ phase \in Clustering /\ phase' \in Clustering /\ phase' # "physical"
            /\ Len(physical) = Len(vertices)
  PROVE  ModelInv'
<1>1. /\ scene' = scene /\ high' = high /\ physical' = physical /\ graphical' = graphical /\ infos' = infos
      /\ vertices' = vertices
  BY DEF modelVars, meshVars
<1>2. /\ Cluster' = Cluster /\ PhysicalVertices' = PhysicalVertices
      /\ \A v : Found(v)' = Found(v)
      /\ \A p : Assigned(p)' = Assigned(p)
  BY SameGrid
<1>3. InfosInv => InfosInv'
  BY <1>1, <1>2 DEF InfosInv
<1>4. PhysicalInv /\ (phase' # "physical" => Len(physical) = Len(vertices)) => PhysicalInv'
  BY <1>1, <1>2 DEF PhysicalInv
<1>5. GraphicalInv => GraphicalInv'
  <2>1. {Assigned(p)' : p \in Position} = {Assigned(p) : p \in Position}
    BY <1>2
  <2> QED BY <1>1, <1>2, <2>1 DEF GraphicalInv
<1>6. phase' \in Clustering => phase \in Clustering /\ (phase' # "physical" => Len(physical) = Len(vertices))
  BY DEF ModelInv, PhysicalInv, Clustering
<1>7. phase' \in {"high mesh", "low mesh"} => phase' = phase
  BY DEF Clustering
<1>8. phase' \in {"high mesh", "low mesh", "physical"} => phase' = phase
  BY DEF Clustering
<1> QED BY <1>1, <1>2, <1>3, <1>4, <1>5, <1>6, <1>7, <1>8 DEF ModelInv

\* A new physical vertex.
LEMMA VertexType ==
  ASSUME NEW found \in Seq(Cluster)
  PROVE  /\ PhysicalVertex(found) \in PhysicalVertices /\ PhysicalVertex(found).including = Len(found)
<1>1. Len(found) \in Nat
  OBVIOUS
<1>2. [i \in 0 .. CLUSTER_INDICES_NUM - 1 |-> <<>>] \in [Place -> {<<>>} \cup (Cluster \X Nat)]
  BY DEF Place
<1>3. [c \in Cluster |-> 0] \in [Cluster -> Nat]
  OBVIOUS
<1> QED BY <1>1, <1>2, <1>3 DEF PhysicalVertex, PhysicalVertices

\* Assigning a physical vertex to its clusters keeps the invariant (model.cpp:371-381).
LEMMA AssignPhysicalKeepsModel ==
  ASSUME PhaseInv, ModelInv, AssignPhysical
  PROVE  ModelInv'
<1> DEFINE n == Len(physical)
           found == Found(n + 1)
<1>1. /\ phase = "physical" /\ phase \in Clustering /\ n < Len(vertices)
      /\ phase' = phase /\ UNCHANGED <<meshVars, scene, high, graphical>>
      /\ physical' = Append(physical, PhysicalVertex(found))
      /\ infos' = [c \in Cluster |->
                     IF c \in ToSet(found)
                     THEN Append(infos[c], [vertex |-> n + 1, addition_index |-> AdditionIndex(found, c),
                                            moves |-> 0])
                     ELSE infos[c]]
  BY DEF AssignPhysical, AddPhysicalVertex, Found, Clustering
<1>2. /\ physical \in Seq(PhysicalVertices) /\ n \in Nat /\ DOMAIN physical = 1 .. n
      /\ InfosInv /\ PhysicalInv /\ GraphicalInv
  BY <1>1 DEF ModelInv, PhysicalInv
<1>3. vertices \in Seq(Position) /\ n + 1 \in DOMAIN vertices
  <2>1. vertices \in Seq(Position)
    BY DEF PhaseInv
  <2> QED BY <1>1, <1>2, <2>1
<1>4. /\ found \in Seq(Cluster) /\ Len(found) \in Nat \ {0}
      /\ \A c \in ToSet(found) : AdditionIndex(found, c) \in Nat
  BY <1>1, <1>3, FoundOfVertex
<1>5. Cluster' = Cluster /\ PhysicalVertices' = PhysicalVertices /\ \A v : Found(v)' = Found(v)
  BY <1>1, SameGrid
<1> HIDE DEF found, n
<1>6. /\ physical' \in Seq(PhysicalVertices) /\ Len(physical') = n + 1 /\ DOMAIN physical' = 1 .. n + 1
      /\ physical'[n + 1].including = Len(found)
      /\ \A v \in 1 .. n : physical'[v] = physical[v]
  <2>1. /\ PhysicalVertex(found) \in PhysicalVertices /\ PhysicalVertex(found).including = Len(found)
    BY <1>4, VertexType
  <2> QED BY <1>1, <1>2, <2>1 DEF n
<1>7. PhysicalInv'
  <2>1. \A v \in 1 .. n : physical[v].including = Len(Found(v))
    BY <1>2 DEF PhysicalInv
  <2>2. \A v \in 1 .. n + 1 : physical'[v].including = Len(Found(v))
    <3>1. \A v \in 1 .. n + 1 : v \in 1 .. n \/ v = n + 1
      BY <1>2
    <3> QED BY <1>6, <2>1, <3>1 DEF found
  <2>3. Len(vertices') \in Nat /\ n + 1 <= Len(vertices') /\ vertices' = vertices
    BY <1>1, <1>2, <1>3 DEF meshVars
  <2>4. (physical \in Seq(PhysicalVertices) /\ Len(physical) <= Len(vertices))'
    BY <1>5, <1>6, <2>3
  <2>5. (phase # "physical" => Len(physical) = Len(vertices))'
    BY <1>1
  <2>6. (\A v \in DOMAIN physical : physical[v].including = Len(Found(v)))'
    BY <1>5, <1>6, <2>2
  <2> QED BY <2>4, <2>5, <2>6 DEF PhysicalInv
<1>8. ASSUME NEW c \in Cluster, c \in ToSet(found)
      PROVE  \E m \in Nat :
               /\ Len(infos[c]) = m /\ DOMAIN infos[c] = 1 .. m
               /\ infos'[c] \in Seq(Infos) /\ DOMAIN infos'[c] = 1 .. m + 1
               /\ infos'[c][m + 1].vertex = n + 1
               /\ infos'[c][m + 1].addition_index = AdditionIndex(found, c)
               /\ \A i \in 1 .. m : infos'[c][i] = infos[c][i]
  <2> DEFINE x == [vertex |-> n + 1, addition_index |-> AdditionIndex(found, c), moves |-> 0]
  <2>1. x \in Infos /\ x.vertex = n + 1 /\ x.addition_index = AdditionIndex(found, c)
    BY <1>2, <1>4, <1>8 DEF Infos
  <2>2. infos[c] \in Seq(Infos) /\ infos'[c] = Append(infos[c], x)
    BY <1>1, <1>2, <1>8 DEF InfosInv
  <2> HIDE DEF x
  <2>3. PICK m \in Nat : Len(infos[c]) = m /\ DOMAIN infos[c] = 1 .. m
    BY <2>2
  <2> QED BY <2>1, <2>2, <2>3
<1>9. \A c \in Cluster : c \notin ToSet(found) => infos'[c] = infos[c] /\ infos[c] \in Seq(Infos)
  BY <1>1, <1>2 DEF InfosInv
<1>10. InfosInv'
  <2>1. infos' \in [Cluster -> Seq(Infos)]
    BY <1>1, <1>8, <1>9
  <2>2. ASSUME NEW c \in Cluster, NEW i \in DOMAIN infos'[c]
        PROVE  /\ infos'[c][i].vertex \in DOMAIN physical' /\ c \in ToSet(Found(infos'[c][i].vertex))
               /\ infos'[c][i].addition_index = AdditionIndex(Found(infos'[c][i].vertex), c)
    <3>1. \A j \in DOMAIN infos[c] :
            /\ infos[c][j].vertex \in DOMAIN physical /\ c \in ToSet(Found(infos[c][j].vertex))
            /\ infos[c][j].addition_index = AdditionIndex(Found(infos[c][j].vertex), c)
      BY <1>2 DEF InfosInv
    <3>2. DOMAIN physical \subseteq DOMAIN physical' /\ n + 1 \in DOMAIN physical'
      BY <1>2, <1>6
    <3>3. CASE c \in ToSet(found)
      <4>1. PICK m \in Nat :
               /\ DOMAIN infos[c] = 1 .. m /\ DOMAIN infos'[c] = 1 .. m + 1
               /\ infos'[c][m + 1].vertex = n + 1
               /\ infos'[c][m + 1].addition_index = AdditionIndex(found, c)
               /\ \A j \in 1 .. m : infos'[c][j] = infos[c][j]
        BY <1>8, <3>3
      <4>2. CASE i \in 1 .. m
        BY <3>1, <3>2, <4>1, <4>2
      <4>3. CASE i = m + 1
        BY <3>2, <3>3, <4>1, <4>3 DEF found
      <4> QED BY <4>1, <4>2, <4>3
    <3>4. CASE c \notin ToSet(found)
      BY <1>9, <3>1, <3>2, <3>4
    <3> QED BY <3>3, <3>4
  <2>3. ASSUME NEW v \in DOMAIN physical', NEW c \in ToSet(Found(v))
        PROVE  \E i \in DOMAIN infos'[c] : infos'[c][i].vertex = v
    <3>1. CASE v \in 1 .. n
      <4>1. PICK i \in DOMAIN infos[c] : infos[c][i].vertex = v
        BY <1>2, <3>1 DEF InfosInv
      <4>2. v \in DOMAIN vertices
        BY <1>1, <1>2, <1>3, <3>1
      <4>3. c \in Cluster
        <5>1. Found(v) \in Seq(Cluster)
          BY <1>1, <4>2, FoundOfVertex
        <5> QED BY <5>1 DEF ToSet
      <4>4. i \in DOMAIN infos'[c] /\ infos'[c][i] = infos[c][i]
        <5>1. CASE c \in ToSet(found)
          <6>1. PICK m \in Nat : /\ DOMAIN infos[c] = 1 .. m /\ DOMAIN infos'[c] = 1 .. m + 1
                                 /\ \A j \in 1 .. m : infos'[c][j] = infos[c][j]
            BY <1>8, <4>3, <5>1
          <6> QED BY <6>1
        <5>2. CASE c \notin ToSet(found)
          BY <1>9, <4>3, <5>2
        <5> QED BY <5>1, <5>2
      <4> QED BY <4>1, <4>4
    <3>2. CASE v = n + 1
      <4>1. c \in ToSet(found) /\ c \in Cluster
        BY <1>4, <3>2 DEF found, ToSet
      <4>2. PICK m \in Nat : /\ DOMAIN infos'[c] = 1 .. m + 1 /\ infos'[c][m + 1].vertex = n + 1
        BY <1>8, <4>1
      <4> QED BY <3>2, <4>2
    <3> QED BY <1>2, <1>6, <3>1, <3>2
  <2> QED BY <1>5, <2>1, <2>2, <2>3 DEF InfosInv
<1>11. GraphicalInv'
  <2>1. \A p : Assigned(p)' = Assigned(p)
    BY <1>1, SameGrid
  <2>2. {Assigned(p)' : p \in Position} = {Assigned(p) : p \in Position}
    BY <2>1
  <2> QED BY <1>1, <1>2, <2>1, <2>2 DEF GraphicalInv
<1> QED BY <1>1, <1>7, <1>10, <1>11 DEF ModelInv

\* Assigning a graphical vertex keeps it.
LEMMA AssignGraphicalKeepsModel ==
  ASSUME PhaseInv, ModelInv, AssignGraphical
  PROVE  ModelInv'
<1> DEFINE n == Len(graphical)
           p == high.vertices[n + 1]
<1>1. /\ phase = "graphical" /\ phase \in Clustering /\ n < Len(high.vertices)
      /\ phase' = phase /\ UNCHANGED <<meshVars, scene, high, physical, infos>>
      /\ Len(Assigned(p).clusters) <= CLUSTER_INDICES_NUM
      /\ graphical' = Append(graphical, Assigned(p))
  BY DEF AssignGraphical, Assigned, Clustering
<1>2. /\ graphical \in Seq({Assigned(q) : q \in Position}) /\ n \in Nat /\ DOMAIN graphical = 1 .. n
      /\ InfosInv /\ PhysicalInv /\ GraphicalInv
  BY <1>1 DEF ModelInv, GraphicalInv
<1>3. high.vertices \in Seq(Position) /\ p \in Position /\ Len(high.vertices) \in Nat
  <2>1. high.vertices \in Seq(Position)
    BY DEF PhaseInv
  <2> QED BY <1>1, <1>2, <2>1
<1>4. /\ Cluster' = Cluster /\ PhysicalVertices' = PhysicalVertices
      /\ \A v : Found(v)' = Found(v)
      /\ \A q : Assigned(q)' = Assigned(q)
  BY <1>1, SameGrid
<1> HIDE DEF n, p
<1>5. /\ graphical' \in Seq({Assigned(q) : q \in Position}) /\ Len(graphical') = n + 1
      /\ DOMAIN graphical' = 1 .. n + 1 /\ graphical'[n + 1] = Assigned(p)
      /\ \A g \in 1 .. n : graphical'[g] = graphical[g]
  <2>1. Assigned(p) \in {Assigned(q) : q \in Position}
    BY <1>3
  <2> QED BY <1>1, <1>2, <2>1 DEF n
<1>6. GraphicalInv'
  <2>1. \A g \in 1 .. n : /\ graphical[g] = Assigned(high.vertices[g])
                          /\ Len(graphical[g].clusters) <= CLUSTER_INDICES_NUM
    BY <1>2 DEF GraphicalInv
  <2>2. \A g \in 1 .. n + 1 : /\ graphical'[g] = Assigned(high.vertices[g])
                              /\ Len(graphical'[g].clusters) <= CLUSTER_INDICES_NUM
    <3>1. \A g \in 1 .. n + 1 : g \in 1 .. n \/ g = n + 1
      BY <1>2
    <3> QED BY <1>1, <1>5, <2>1, <3>1 DEF p
  <2>3. n + 1 <= Len(high.vertices)
    BY <1>1, <1>2, <1>3
  <2>4. {Assigned(q)' : q \in Position} = {Assigned(q) : q \in Position}
    BY <1>4
  <2>5. (graphical \in Seq({Assigned(q) : q \in Position}))'
    BY <1>5, <2>4
  <2>6. (Len(graphical) <= Len(high.vertices))'
    BY <1>1, <1>5, <2>3
  <2>7. (\A g \in DOMAIN graphical : /\ graphical[g] = Assigned(high.vertices[g])
                                    /\ Len(graphical[g].clusters) <= CLUSTER_INDICES_NUM)'
    BY <1>1, <1>4, <1>5, <2>2
  <2> QED BY <2>5, <2>6, <2>7 DEF GraphicalInv
<1>7. InfosInv'
  BY <1>1, <1>2, <1>4 DEF InfosInv
<1>8. PhysicalInv'
  BY <1>1, <1>2, <1>4 DEF PhysicalInv, meshVars
<1> QED BY <1>1, <1>6, <1>7, <1>8 DEF ModelInv

\* What the steps write is neither the assignment of the vertices nor the places they have
\* for the clusters.
LEMMA SameAssignment ==
  ASSUME PhaseInv, ModelInv, phase = "step", UNCHANGED <<meshVars, phase, scene, high, graphical>>,
         physical' \in Seq(PhysicalVertices), DOMAIN physical' = DOMAIN physical,
         Len(physical') = Len(physical),
         \A v \in DOMAIN physical : physical'[v].including = physical[v].including,
         infos' \in [Cluster -> Seq(Infos)],
         \A c \in Cluster :
           /\ DOMAIN infos'[c] = DOMAIN infos[c]
           /\ \A i \in DOMAIN infos[c] : /\ infos'[c][i].vertex = infos[c][i].vertex
                                         /\ infos'[c][i].addition_index = infos[c][i].addition_index
  PROVE  ModelInv'
<1>1. /\ Cluster' = Cluster /\ PhysicalVertices' = PhysicalVertices
      /\ \A v : Found(v)' = Found(v)
      /\ \A p : Assigned(p)' = Assigned(p)
  BY SameGrid
<1>2. phase \in Clustering /\ InfosInv /\ PhysicalInv /\ GraphicalInv
  BY DEF ModelInv, Clustering
<1>3. GraphicalInv'
  <2>1. {Assigned(p)' : p \in Position} = {Assigned(p) : p \in Position}
    BY <1>1
  <2> QED BY <1>1, <1>2, <2>1 DEF GraphicalInv
<1>4. PhysicalInv'
  BY <1>1, <1>2 DEF PhysicalInv, meshVars
<1>5. InfosInv'
  <2>1. ASSUME NEW c \in Cluster, NEW i \in DOMAIN infos'[c]
        PROVE  /\ infos'[c][i].vertex \in DOMAIN physical' /\ c \in ToSet(Found(infos'[c][i].vertex))
               /\ infos'[c][i].addition_index = AdditionIndex(Found(infos'[c][i].vertex), c)
    BY <1>2 DEF InfosInv
  <2>2. ASSUME NEW v \in DOMAIN physical', NEW c \in ToSet(Found(v))
        PROVE  \E i \in DOMAIN infos'[c] : infos'[c][i].vertex = v
    <3>1. PICK i \in DOMAIN infos[c] : infos[c][i].vertex = v
      BY <1>2 DEF InfosInv
    <3>2. c \in Cluster
      <4>1. v \in DOMAIN vertices
        <5>1. vertices \in Seq(Position) /\ physical \in Seq(PhysicalVertices) /\ Len(physical) <= Len(vertices)
          BY <1>2 DEF PhaseInv, PhysicalInv
        <5> QED BY <5>1
      <4>2. Found(v) \in Seq(Cluster)
        BY <1>2, <4>1, FoundOfVertex
      <4> QED BY <4>2 DEF ToSet
    <3> QED BY <3>1, <3>2
  <2> QED BY <1>1, <2>1, <2>2 DEF InfosInv
<1> QED BY <1>2, <1>3, <1>4, <1>5 DEF ModelInv

-----------------------------------------------------------------------------
(* The steps: what a vertex has collected while clusters are still to come. *)

Tasks ==
  [cluster : Cluster \cup {-1}, doing : {"nothing", "read", "write", "goals", "plasticity"},
   at : Nat, read : {<<>>} \cup [Cluster -> Nat], again : BOOLEAN]

\* The cluster of a task has vertices, and the task is at one of them.
TaskInv(t) ==
  /\ t.doing # "nothing" => t.cluster \in Cluster /\ 1 \in DOMAIN infos[t.cluster]
  /\ t.doing \in {"read", "write"} => t.at \in DOMAIN infos[t.cluster]
  /\ t.doing = "write" => t.read \in [Cluster -> Nat]

\* A task that has not added the goals of its cluster.
IsBefore(t) == (t.doing \in {"read", "write"} /\ ~ t.again) \/ t.doing = "goals"
IsPending(c) == c \in ToSet(unmatched) \/ \E w \in Worker : task[w].cluster = c /\ IsBefore(task[w])

IsAdded(v, c) ==
  AdditionIndex(Found(v), c) \in Place =>
    physical[v].additions[AdditionIndex(Found(v), c)] = <<c, step>>

QueueInv ==
  /\ step \in Nat /\ unmatched \in Seq(Cluster) /\ task \in [Worker -> Tasks]
  /\ \A w \in Worker : TaskInv(task[w])
  /\ phase # "step" => unmatched = <<>> /\ task = [w \in Worker |-> Idle]

AdditionsInv ==
  phase = "step" =>
    \A v \in DOMAIN physical : \A c \in ToSet(Found(v)) : IsPending(c) \/ IsAdded(v, c)

AveragedInv ==
  /\ phase \notin {"ready", "step"} => averaged = <<>>
  /\ phase = "ready" /\ averaged # <<>> =>
       /\ DOMAIN averaged = DOMAIN physical
       /\ \A v \in DOMAIN physical : physical[v].including <= CLUSTER_INDICES_NUM =>
            averaged[v] = [i \in 1 .. physical[v].including |-> <<Found(v)[i], step>>]

StepInv == QueueInv /\ AdditionsInv /\ AveragedInv

\* The tasks that the actions leave behind.
LEMMA TasksAre ==
  /\ Idle \in Tasks /\ TaskInv(Idle) /\ ~ IsBefore(Idle)
  /\ \A c \in Cluster :
       LET t == [Idle EXCEPT !.cluster = c, !.doing = "read", !.at = 1]
       IN  1 \in DOMAIN infos[c] => t \in Tasks /\ TaskInv(t) /\ t.cluster = c /\ IsBefore(t)
<1>1. Idle = [cluster |-> -1, doing |-> "nothing", at |-> 0, read |-> <<>>, again |-> FALSE]
  BY DEF Idle
<1>2. Idle \in Tasks
  BY <1>1 DEF Tasks
<1>3. TaskInv(Idle) /\ ~ IsBefore(Idle)
  BY <1>1 DEF TaskInv, IsBefore
<1>4. ASSUME NEW c \in Cluster, 1 \in DOMAIN infos[c]
      PROVE  LET t == [Idle EXCEPT !.cluster = c, !.doing = "read", !.at = 1]
             IN  t \in Tasks /\ TaskInv(t) /\ t.cluster = c /\ IsBefore(t)
  <2> DEFINE t == [Idle EXCEPT !.cluster = c, !.doing = "read", !.at = 1]
  <2>1. PICK s \in Tasks : s = Idle /\ ~ s.again
    BY <1>1, <1>2
  <2>2. t = [s EXCEPT !.cluster = c, !.doing = "read", !.at = 1]
    BY <2>1
  <2> HIDE DEF t
  <2>3. t \in Tasks /\ t.cluster = c /\ t.doing = "read" /\ t.at = 1 /\ ~ t.again
    BY <2>1, <2>2 DEF Tasks
  <2>4. TaskInv(t) /\ IsBefore(t)
    BY <1>4, <2>3 DEF TaskInv, IsBefore
  <2> QED BY <2>3, <2>4 DEF t
<1> QED BY <1>2, <1>3, <1>4

\* The invariant of the steps holds initially.
LEMMA StepInit ==
  ASSUME Init
  PROVE  StepInv
<1>1. /\ phase = "high mesh" /\ step = 0 /\ unmatched = <<>> /\ averaged = <<>>
      /\ task = [w \in Worker |-> Idle]
  BY DEF Init
<1>2. Idle \in Tasks /\ TaskInv(Idle)
  BY TasksAre
<1>3. unmatched \in Seq(Cluster)
  <2>1. <<>> \in Seq(Cluster)
    OBVIOUS
  <2> QED BY <1>1, <2>1
<1>4. QueueInv
  BY <1>1, <1>2, <1>3 DEF QueueInv
<1> QED BY <1>1, <1>4 DEF StepInv, AdditionsInv, AveragedInv

\* Outside of a step, whatever leaves the tasks alone keeps this.
LEMMA StepKept ==
  ASSUME PhaseInv, ModelInv, StepInv, UNCHANGED <<scene, stepVars>>, phase # "step", phase' # "step",
         \/ phase' # "ready"
         \/ /\ phase' = "ready" /\ UNCHANGED <<meshVars, modelVars>>,
         phase \in {"ready", "step"} => phase' = phase
  PROVE  StepInv'
<1>1. /\ step' = step /\ unmatched' = unmatched /\ averaged' = averaged /\ task' = task
      /\ unmatched = <<>> /\ task = [w \in Worker |-> Idle] /\ Idle' = Idle
      /\ Cluster' = Cluster /\ step \in Nat
  BY DEF stepVars, StepInv, QueueInv, Cluster, Idle
<1>2. Idle \in Tasks' /\ TaskInv(Idle)'
  BY DEF Idle, Tasks, TaskInv
<1>3. (unmatched \in Seq(Cluster))'
  BY <1>1
<1>4. QueueInv'
  BY <1>1, <1>2, <1>3 DEF QueueInv
<1>5. AveragedInv'
  <2>1. CASE phase' # "ready"
    BY <1>1, <2>1 DEF StepInv, AveragedInv
  <2>2. CASE phase' = "ready" /\ phase # "ready"
    BY <1>1, <2>2 DEF StepInv, AveragedInv
  <2>3. CASE phase' = "ready" /\ phase = "ready"
    <3>1. \A v : Found(v)' = Found(v)
      BY <2>3, SameGrid
    <3>2. physical' = physical
      BY <2>3 DEF modelVars
    <3> QED BY <1>1, <2>3, <3>1, <3>2 DEF StepInv, AveragedInv
  <2> QED BY <2>1, <2>2, <2>3
<1> QED BY <1>4, <1>5 DEF StepInv, AdditionsInv

\* The start of a step, which queues every cluster, keeps the invariants.
LEMMA StartKeepsStep ==
  ASSUME PhaseInv, ModelInv, StepInv, StartStep
  PROVE  StepInv' /\ ModelInv' /\ PhaseInv'
<1>1. /\ phase = "ready" /\ phase' = "step" /\ step' = step + 1 /\ unmatched' = AllClusters(grid)
      /\ phase \in Clustering /\ phase' \in Clustering /\ step \in Nat
      /\ UNCHANGED <<meshVars, scene, high, modelVars, task, averaged>>
  BY DEF StartStep, Clustering, StepInv, QueueInv
<1>2. PhaseInv'
  BY <1>1, PhaseKept
<1>3. Len(physical) = Len(vertices)
  BY <1>1 DEF ModelInv, PhysicalInv
<1>4. ModelInv'
  BY <1>1, <1>3, ModelKept
<1>5. /\ Cluster' = Cluster /\ unmatched' \in Seq(Cluster) /\ ToSet(unmatched') = Cluster
      /\ \A v : Found(v)' = Found(v)
  BY <1>1, SceneGrid, SameGrid
<1>6. QueueInv'
  <2>1. Tasks' = Tasks
    BY <1>5 DEF Tasks
  <2>2. infos' = infos
    BY <1>1 DEF modelVars
  <2>3. \A w \in Worker : TaskInv(task[w])'
    BY <1>1, <1>5, <2>2 DEF StepInv, QueueInv, TaskInv
  <2> QED BY <1>1, <1>5, <2>1, <2>3 DEF StepInv, QueueInv
<1>7. AdditionsInv'
  <2>1. ASSUME NEW v \in DOMAIN physical', NEW c \in ToSet(Found(v))
        PROVE  c \in ToSet(unmatched')
    <3>1. v \in DOMAIN vertices
      <4>1. vertices \in Seq(Position) /\ physical \in Seq(PhysicalVertices) /\ physical' = physical
        BY <1>1 DEF PhaseInv, ModelInv, PhysicalInv, modelVars
      <4> QED BY <1>3, <4>1
    <3>2. Found(v) \in Seq(Cluster)
      BY <1>1, <3>1, FoundOfVertex
    <3> QED BY <1>5, <3>2 DEF ToSet
  <2> QED BY <1>5, <2>1 DEF AdditionsInv, IsPending
<1>8. AveragedInv'
  BY <1>1 DEF AveragedInv
<1> QED BY <1>2, <1>4, <1>6, <1>7, <1>8 DEF StepInv

\* A worker that goes on with its cluster leaves the queue as it is.
LEMMA QueueStep ==
  ASSUME StepInv, phase = "step", UNCHANGED <<phase, scene, step>>, NEW w \in Worker,
         NEW t \in Tasks, TaskInv(t), task' = [task EXCEPT ![w] = t], unmatched' \in Seq(Cluster),
         \A c \in Cluster : DOMAIN infos'[c] = DOMAIN infos[c]
  PROVE  QueueInv'
<1>1. Cluster' = Cluster /\ Tasks' = Tasks
  BY DEF Cluster, Tasks
<1>2. task \in [Worker -> Tasks] /\ step \in Nat /\ \A u \in Worker : TaskInv(task[u])
  BY DEF StepInv, QueueInv
<1>3. task' \in [Worker -> Tasks] /\ \A u \in Worker : task'[u] = IF u = w THEN t ELSE task[u]
  BY <1>2
<1>4. ASSUME NEW u \in Worker
      PROVE  TaskInv(task[u])'
  <2>1. PICK s \in Tasks : s = task'[u] /\ TaskInv(s)
    BY <1>2, <1>3
  <2>2. TaskInv(s)'
    BY <1>1, <2>1 DEF TaskInv
  <2> QED BY <2>1, <2>2 DEF TaskInv
<1> QED BY <1>1, <1>2, <1>3, <1>4 DEF QueueInv

\* A worker's action that writes nothing: what was pending is, or has no vertices.
LEMMA MoveKeepsStep ==
  ASSUME PhaseInv, ModelInv, StepInv, phase = "step",
         UNCHANGED <<meshVars, phase, scene, high, modelVars, step, averaged>>, NEW w \in Worker,
         NEW t \in Tasks, TaskInv(t), task' = [task EXCEPT ![w] = t], unmatched' \in Seq(Cluster),
         \A c \in Cluster : IsPending(c) => IsPending(c)' \/ DOMAIN infos[c] = {}
  PROVE  PhaseInv' /\ ModelInv' /\ StepInv'
<1>1. PhaseInv'
  BY PhaseKept
<1>2. ModelInv'
  BY ModelKept
<1>3. /\ physical' = physical /\ infos' = infos /\ phase \in Clustering
      /\ \A v : Found(v)' = Found(v)
  BY SameGrid DEF modelVars, Clustering
<1>4. QueueInv'
  BY <1>3, QueueStep
<1>5. AdditionsInv'
  <2>1. ASSUME NEW v \in DOMAIN physical, NEW c \in ToSet(Found(v))
        PROVE  IsPending(c)' \/ IsAdded(v, c)'
    <3>1. PICK i \in DOMAIN infos[c] : infos[c][i].vertex = v
      BY <1>3 DEF ModelInv, InfosInv
    <3>2. c \in Cluster
      <4>1. v \in DOMAIN vertices
        <5>1. vertices \in Seq(Position) /\ physical \in Seq(PhysicalVertices) /\ Len(physical) <= Len(vertices)
          BY <1>3 DEF PhaseInv, ModelInv, PhysicalInv
        <5> QED BY <5>1
      <4>2. Found(v) \in Seq(Cluster)
        BY <1>3, <4>1, FoundOfVertex
      <4> QED BY <4>2 DEF ToSet
    <3>3. IsPending(c) \/ IsAdded(v, c)
      BY DEF StepInv, AdditionsInv
    <3>4. IsAdded(v, c)' <=> IsAdded(v, c)
      BY <1>3 DEF IsAdded
    <3> QED BY <3>1, <3>2, <3>3, <3>4
  <2> QED BY <1>3, <2>1 DEF AdditionsInv
<1>6. AveragedInv'
  BY DEF AveragedInv
<1> QED BY <1>1, <1>2, <1>4, <1>5, <1>6 DEF StepInv

\* The elements of a sequence are its head and the elements of its tail.
LEMMA HeadAndTail ==
  ASSUME NEW S, NEW s \in Seq(S), s # <<>>
  PROVE  /\ Head(s) \in S /\ Tail(s) \in Seq(S)
         /\ \A x \in ToSet(s) : x = Head(s) \/ x \in ToSet(Tail(s))
<1>1. PICK n \in Nat : Len(s) = n + 1 /\ DOMAIN s = 1 .. n + 1
  <2>1. Len(s) \in Nat \ {0} /\ DOMAIN s = 1 .. Len(s)
    OBVIOUS
  <2>2. Len(s) - 1 \in Nat /\ Len(s) - 1 + 1 = Len(s)
    BY <2>1
  <2> QED BY <2>1, <2>2
<1>2. /\ Head(s) = s[1] /\ Head(s) \in S /\ Tail(s) \in Seq(S) /\ DOMAIN Tail(s) = 1 .. n
      /\ \A i \in 1 .. n : Tail(s)[i] = s[i + 1]
  BY <1>1
<1>3. ASSUME NEW j \in 1 .. n + 1
      PROVE  s[j] = Head(s) \/ \E i \in 1 .. n : Tail(s)[i] = s[j]
  <2>1. j = 1 \/ (j - 1 \in 1 .. n /\ j - 1 + 1 = j)
    OBVIOUS
  <2> QED BY <1>2, <2>1
<1>4. ASSUME NEW x \in ToSet(s)
      PROVE  x = Head(s) \/ x \in ToSet(Tail(s))
  <2>1. PICK j \in 1 .. n + 1 : s[j] = x
    BY <1>1 DEF ToSet
  <2>2. \A i \in 1 .. n : Tail(s)[i] \in ToSet(Tail(s))
    BY <1>2 DEF ToSet
  <2> QED BY <1>3, <2>1, <2>2
<1> QED BY <1>2, <1>4

\* A worker that takes a cluster keeps the invariants.
LEMMA PopKeepsStep ==
  ASSUME PhaseInv, ModelInv, StepInv, NEW w \in Worker, PopCluster(w)
  PROVE  PhaseInv' /\ ModelInv' /\ StepInv'
<1>1. /\ phase = "step" /\ task[w].doing = "nothing" /\ unmatched # <<>>
      /\ unmatched' = Tail(unmatched)
      /\ UNCHANGED <<meshVars, phase, scene, high, modelVars, step, averaged>>
  BY DEF PopCluster, Worker_step
<1>2. PICK c0 \in Cluster : c0 = Head(unmatched)
  BY <1>1, HeadAndTail DEF StepInv, QueueInv
<1>3. /\ unmatched' \in Seq(Cluster)
      /\ \A x \in ToSet(unmatched) : x = c0 \/ x \in ToSet(unmatched')
  BY <1>1, <1>2, HeadAndTail DEF StepInv, QueueInv
<1>4. infos[c0] \in Seq(Infos) /\ task \in [Worker -> Tasks] /\ ~ IsBefore(task[w])
  BY <1>1 DEF ModelInv, Clustering, InfosInv, StepInv, QueueInv, IsBefore
<1>5. CASE infos[c0] = <<>>
  <2>1. PICK t \in Tasks : t = Idle /\ TaskInv(t)
    BY TasksAre
  <2>2. task' = [task EXCEPT ![w] = t]
    BY <1>2, <1>5, <2>1 DEF PopCluster
  <2>3. DOMAIN infos[c0] = {}
    BY <1>5
  <2>4. ASSUME NEW c \in Cluster, IsPending(c), c # c0
        PROVE  IsPending(c)'
    BY <1>3, <1>4, <2>2, <2>4 DEF IsPending, IsBefore
  <2> QED BY <1>1, <1>3, <2>1, <2>2, <2>3, <2>4, MoveKeepsStep
<1>6. CASE infos[c0] # <<>>
  <2>1. 1 \in DOMAIN infos[c0]
    BY <1>4, <1>6
  <2>2. PICK t \in Tasks : /\ t = [Idle EXCEPT !.cluster = c0, !.doing = "read", !.at = 1]
                           /\ TaskInv(t) /\ t.cluster = c0 /\ IsBefore(t)
    BY <2>1, TasksAre
  <2>3. task' = [task EXCEPT ![w] = t]
    BY <1>2, <1>6, <2>2 DEF PopCluster
  <2>4. ASSUME NEW c \in Cluster, IsPending(c)
        PROVE  IsPending(c)'
    BY <1>3, <1>4, <2>2, <2>3, <2>4 DEF IsPending, IsBefore
  <2> QED BY <1>1, <1>3, <2>2, <2>3, <2>4, MoveKeepsStep
<1> QED BY <1>5, <1>6

\* Reading the equilibrium position of a vertex keeps them.
LEMMA ReadKeepsStep ==
  ASSUME PhaseInv, ModelInv, StepInv, NEW w \in Worker, ReadEquilibrium(w)
  PROVE  PhaseInv' /\ ModelInv' /\ StepInv'
<1>1. /\ phase = "step" /\ task[w].doing = "read" /\ unmatched' = unmatched
      /\ task' = [task EXCEPT ![w].doing = "write", ![w].read = physical[info(w).vertex].equilibrium]
      /\ UNCHANGED <<meshVars, phase, scene, high, modelVars, step, averaged>>
  BY DEF ReadEquilibrium, Worker_step
<1>2. PICK s \in Tasks : s = task[w] /\ TaskInv(s) /\ s.doing = "read" /\ task \in [Worker -> Tasks]
  BY <1>1 DEF StepInv, QueueInv
<1>3. PICK e \in [Cluster -> Nat] : e = physical[info(w).vertex].equilibrium
  <2>1. s.cluster \in Cluster /\ s.at \in DOMAIN infos[s.cluster] /\ info(w) = infos[s.cluster][s.at]
    BY <1>2 DEF TaskInv, info
  <2>2. info(w).vertex \in DOMAIN physical /\ physical \in Seq(PhysicalVertices)
    BY <1>1, <2>1 DEF ModelInv, Clustering, InfosInv, PhysicalInv
  <2>3. physical[info(w).vertex] \in PhysicalVertices
    BY <2>2
  <2> QED BY <2>3 DEF PhysicalVertices
<1>4. PICK t \in Tasks : /\ t = [s EXCEPT !.doing = "write", !.read = e]
                         /\ TaskInv(t) /\ t.cluster = s.cluster /\ (IsBefore(s) => IsBefore(t))
  <2> DEFINE t == [s EXCEPT !.doing = "write", !.read = e]
  <2>1. /\ t.doing = "write" /\ t.read = e /\ t.cluster = s.cluster /\ t.at = s.at /\ t.again = s.again
        /\ t \in Tasks
    BY DEF Tasks
  <2> HIDE DEF t
  <2>2. TaskInv(t) /\ (IsBefore(s) => IsBefore(t))
    BY <1>2, <2>1 DEF TaskInv, IsBefore
  <2> QED BY <2>1, <2>2 DEF t
<1>5. task' = [task EXCEPT ![w] = t]
  BY <1>1, <1>2, <1>3, <1>4
<1>6. ASSUME NEW c \in Cluster, IsPending(c)
      PROVE  IsPending(c)'
  BY <1>1, <1>2, <1>4, <1>5, <1>6 DEF IsPending, IsBefore
<1> QED BY <1>1, <1>4, <1>5, <1>6, MoveKeepsStep DEF StepInv, QueueInv

\* Updating a cluster's plasticity keeps them.
LEMMA PlasticityKeepsStep ==
  ASSUME PhaseInv, ModelInv, StepInv, NEW w \in Worker, UpdatePlasticity(w)
  PROVE  PhaseInv' /\ ModelInv' /\ StepInv'
<1>1. /\ phase = "step" /\ task[w].doing = "plasticity" /\ unmatched' = unmatched
      /\ task' \in {[task EXCEPT ![w] = Idle],
                    [task EXCEPT ![w].doing = "read", ![w].at = 1, ![w].again = TRUE]}
      /\ UNCHANGED <<meshVars, phase, scene, high, modelVars, step, averaged>>
  BY DEF UpdatePlasticity, Worker_step
<1>2. PICK s \in Tasks : /\ s = task[w] /\ TaskInv(s) /\ s.doing = "plasticity" /\ ~ IsBefore(s)
                         /\ task \in [Worker -> Tasks]
  BY <1>1 DEF StepInv, QueueInv, IsBefore
<1>3. PICK t \in Tasks : task' = [task EXCEPT ![w] = t] /\ TaskInv(t)
  <2>1. CASE task' = [task EXCEPT ![w] = Idle]
    <3>1. Idle \in Tasks /\ TaskInv(Idle)
      BY TasksAre
    <3> QED BY <2>1, <3>1
  <2>2. CASE task' = [task EXCEPT ![w].doing = "read", ![w].at = 1, ![w].again = TRUE]
    <3>1. PICK t \in Tasks : t = [s EXCEPT !.doing = "read", !.at = 1, !.again = TRUE] /\ TaskInv(t)
      <4> DEFINE t == [s EXCEPT !.doing = "read", !.at = 1, !.again = TRUE]
      <4>1. t.doing = "read" /\ t.at = 1 /\ t.cluster = s.cluster /\ t \in Tasks
        BY DEF Tasks
      <4> HIDE DEF t
      <4>2. TaskInv(t)
        BY <1>2, <4>1 DEF TaskInv
      <4> QED BY <4>1, <4>2 DEF t
    <3>2. task' = [task EXCEPT ![w] = t]
      BY <1>2, <2>2, <3>1
    <3> QED BY <3>1, <3>2
  <2> QED BY <1>1, <2>1, <2>2
<1>4. ASSUME NEW c \in Cluster, IsPending(c)
      PROVE  IsPending(c)'
  BY <1>1, <1>2, <1>3, <1>4 DEF IsPending, IsBefore
<1> QED BY <1>1, <1>3, <1>4, MoveKeepsStep DEF StepInv, QueueInv

\* Who a worker's info is about.
LEMMA InfoOfTask ==
  ASSUME PhaseInv, ModelInv, StepInv, phase = "step", NEW w \in Worker,
         task[w].doing \in {"read", "write"}
  PROVE  \E s \in Tasks : \E c \in Cluster : \E at \in Nat \ {0} : \E v \in DOMAIN physical :
           /\ s = task[w] /\ TaskInv(s) /\ s.cluster = c /\ s.at = at /\ at \in DOMAIN infos[c]
           /\ infos[c][at] \in Infos /\ info(w) = infos[c][at] /\ infos[c][at].vertex = v
           /\ physical[v] \in PhysicalVertices
<1>1. PICK s \in Tasks : /\ s = task[w] /\ TaskInv(s) /\ s.doing \in {"read", "write"}
  BY DEF StepInv, QueueInv
<1>2. PICK c \in Cluster : s.cluster = c /\ s.at \in DOMAIN infos[c]
  BY <1>1 DEF TaskInv
<1>3. infos[c] \in Seq(Infos) /\ physical \in Seq(PhysicalVertices)
  BY DEF ModelInv, Clustering, InfosInv, PhysicalInv
<1>4. PICK at \in Nat \ {0} : s.at = at /\ at \in DOMAIN infos[c] /\ infos[c][at] \in Infos
  BY <1>2, <1>3
<1>5. info(w) = infos[c][at]
  BY <1>1, <1>2, <1>4 DEF info
<1>6. infos[c][at].vertex \in DOMAIN physical
  BY <1>4 DEF ModelInv, Clustering, InfosInv
<1>7. physical[infos[c][at].vertex] \in PhysicalVertices
  BY <1>3, <1>6
<1> QED BY <1>1, <1>2, <1>4, <1>5, <1>6, <1>7

\* What is written to a record leaves its other fields as they are.
LEMMA Written ==
  /\ \A p \in PhysicalVertices : \A e \in [Cluster -> Nat] :
       LET q == [p EXCEPT !.equilibrium = e]
       IN  q \in PhysicalVertices /\ q.including = p.including /\ q.additions = p.additions
  /\ \A x \in Infos :
       LET y == [x EXCEPT !.moves = @ + 1]
       IN  y \in Infos /\ y.vertex = x.vertex /\ y.addition_index = x.addition_index
  /\ \A r \in [Cluster -> Nat] : \A c \in Cluster : [r EXCEPT ![c] = @ + 1] \in [Cluster -> Nat]
<1>1. ASSUME NEW p \in PhysicalVertices, NEW e \in [Cluster -> Nat]
      PROVE  LET q == [p EXCEPT !.equilibrium = e]
             IN  q \in PhysicalVertices /\ q.including = p.including /\ q.additions = p.additions
  BY DEF PhysicalVertices
<1>2. ASSUME NEW x \in Infos
      PROVE  LET y == [x EXCEPT !.moves = @ + 1]
             IN  y \in Infos /\ y.vertex = x.vertex /\ y.addition_index = x.addition_index
  <2>1. PICK m \in Nat : m = x.moves + 1
    BY DEF Infos
  <2> DEFINE y == [x EXCEPT !.moves = m]
  <2>2. y \in Infos /\ y.vertex = x.vertex /\ y.addition_index = x.addition_index
    BY DEF Infos
  <2> QED BY <2>1, <2>2
<1>3. ASSUME NEW r \in [Cluster -> Nat], NEW c \in Cluster
      PROVE  [r EXCEPT ![c] = @ + 1] \in [Cluster -> Nat]
  <2>1. PICK m \in Nat : m = r[c] + 1
    OBVIOUS
  <2>2. [r EXCEPT ![c] = m] \in [Cluster -> Nat]
    OBVIOUS
  <2> QED BY <2>1, <2>2
<1> QED BY <1>1, <1>2, <1>3

\* Writing the equilibrium position of a vertex keeps the invariants.
LEMMA WriteKeepsStep ==
  ASSUME PhaseInv, ModelInv, StepInv, NEW w \in Worker, WriteEquilibrium(w)
  PROVE  PhaseInv' /\ ModelInv' /\ StepInv'
<1>1. /\ phase = "step" /\ task[w].doing = "write" /\ unmatched' = unmatched
      /\ UNCHANGED <<meshVars, phase, scene, high, graphical, step, averaged>>
  BY DEF WriteEquilibrium, Worker_step
<1>2. PICK s \in Tasks, c \in Cluster, at \in Nat \ {0}, v \in DOMAIN physical :
        /\ s = task[w] /\ TaskInv(s) /\ s.cluster = c /\ s.at = at /\ at \in DOMAIN infos[c]
        /\ infos[c][at] \in Infos /\ info(w) = infos[c][at] /\ infos[c][at].vertex = v
        /\ physical[v] \in PhysicalVertices
  BY <1>1, InfoOfTask
<1>3. /\ s.doing = "write" /\ s.read \in [Cluster -> Nat] /\ 1 \in DOMAIN infos[c]
      /\ task \in [Worker -> Tasks]
  BY <1>1, <1>2 DEF TaskInv, StepInv, QueueInv
<1>4. /\ infos \in [Cluster -> Seq(Infos)] /\ physical \in Seq(PhysicalVertices)
      /\ infos[c] \in Seq(Infos)
  BY <1>1 DEF ModelInv, Clustering, InfosInv, PhysicalInv
<1>5. PICK e \in [Cluster -> Nat] : e = [s.read EXCEPT ![c] = @ + 1]
  <2>1. [s.read EXCEPT ![c] = @ + 1] \in [Cluster -> Nat]
    BY <1>3, Written
  <2> QED BY <2>1
<1>6. PICK p \in PhysicalVertices : /\ p = [physical[v] EXCEPT !.equilibrium = e]
                                    /\ p.including = physical[v].including
                                    /\ p.additions = physical[v].additions
  <2>1. PICK q \in PhysicalVertices : q = physical[v]
    BY <1>2
  <2> DEFINE d == [q EXCEPT !.equilibrium = e]
  <2>2. d \in PhysicalVertices /\ d.including = q.including /\ d.additions = q.additions
    BY Written
  <2>3. d = [physical[v] EXCEPT !.equilibrium = e]
    BY <2>1
  <2> QED BY <2>1, <2>2, <2>3
<1>7. physical' = [physical EXCEPT ![v] = p]
  BY <1>2, <1>5, <1>6 DEF WriteEquilibrium
<1>8. PICK x \in Infos : /\ x = [infos[c][at] EXCEPT !.moves = @ + 1] /\ x.vertex = infos[c][at].vertex
                         /\ x.addition_index = infos[c][at].addition_index
  BY <1>2, Written
<1>9. infos' = [infos EXCEPT ![c] = [infos[c] EXCEPT ![at] = x]]
  BY <1>2, <1>4, <1>8 DEF WriteEquilibrium
<1>10. /\ physical' \in Seq(PhysicalVertices) /\ DOMAIN physical' = DOMAIN physical
       /\ Len(physical') = Len(physical)
       /\ \A u \in DOMAIN physical : /\ physical'[u].including = physical[u].including
                                     /\ physical'[u].additions = physical[u].additions
  BY <1>4, <1>6, <1>7
<1>11. /\ infos' \in [Cluster -> Seq(Infos)]
       /\ \A d \in Cluster :
            /\ DOMAIN infos'[d] = DOMAIN infos[d]
            /\ \A i \in DOMAIN infos[d] : /\ infos'[d][i].vertex = infos[d][i].vertex
                                          /\ infos'[d][i].addition_index = infos[d][i].addition_index
  <2> DEFINE changed == [infos[c] EXCEPT ![at] = x]
  <2>1. /\ changed \in Seq(Infos) /\ DOMAIN changed = DOMAIN infos[c]
        /\ \A i \in DOMAIN infos[c] : /\ changed[i].vertex = infos[c][i].vertex
                                      /\ changed[i].addition_index = infos[c][i].addition_index
    BY <1>2, <1>4, <1>8
  <2>2. \A d \in Cluster : infos'[d] = IF d = c THEN changed ELSE infos[d]
    BY <1>4, <1>9
  <2>3. infos' \in [Cluster -> Seq(Infos)]
    BY <1>4, <1>9, <2>1
  <2> HIDE DEF changed
  <2> QED BY <2>1, <2>2, <2>3
<1>12. PhaseInv' /\ ModelInv'
  BY <1>1, <1>10, <1>11, PhaseKept, SameAssignment
<1>13. PICK t \in Tasks : /\ task' = [task EXCEPT ![w] = t] /\ TaskInv(t)
                          /\ IsBefore(s) => t.cluster = c /\ IsBefore(t)
  <2>1. CASE at < Len(infos[c])
    <3> DEFINE t == [s EXCEPT !.doing = "read", !.at = at + 1, !.read = <<>>]
    <3>1. task' = [task EXCEPT ![w] = t]
      BY <1>2, <2>1 DEF WriteEquilibrium
    <3>2. t \in Tasks /\ t.doing = "read" /\ t.at = at + 1 /\ t.cluster = c /\ t.again = s.again
      <4>1. PICK next \in Nat : next = at + 1
        OBVIOUS
      <4>2. t = [s EXCEPT !.doing = "read", !.at = next, !.read = <<>>]
        BY <4>1
      <4> HIDE DEF t
      <4>3. t \in Tasks /\ t.doing = "read" /\ t.at = next /\ t.cluster = s.cluster /\ t.again = s.again
        BY <4>2 DEF Tasks
      <4> QED BY <1>2, <4>1, <4>3
    <3> HIDE DEF t
    <3>3. at + 1 \in DOMAIN infos[c]
      BY <1>4, <2>1
    <3>4. TaskInv(t) /\ (IsBefore(s) => IsBefore(t))
      BY <1>3, <3>2, <3>3 DEF TaskInv, IsBefore
    <3> QED BY <3>1, <3>2, <3>4
  <2>2. CASE ~ (at < Len(infos[c])) /\ s.again
    <3>1. task' = [task EXCEPT ![w] = Idle]
      BY <1>2, <2>2 DEF WriteEquilibrium
    <3>2. ~ IsBefore(s)
      BY <1>3, <2>2 DEF IsBefore
    <3> QED BY <3>1, <3>2, TasksAre
  <2>3. CASE ~ (at < Len(infos[c])) /\ ~ s.again
    <3> DEFINE t == [s EXCEPT !.doing = "goals", !.at = 0, !.read = <<>>]
    <3>1. task' = [task EXCEPT ![w] = t]
      BY <1>2, <2>3 DEF WriteEquilibrium
    <3>2. t \in Tasks /\ t.doing = "goals" /\ t.cluster = c
      BY <1>2 DEF Tasks
    <3> HIDE DEF t
    <3>3. TaskInv(t) /\ IsBefore(t)
      BY <1>3, <3>2 DEF TaskInv, IsBefore
    <3> QED BY <3>1, <3>2, <3>3
  <2> QED BY <2>1, <2>2, <2>3
<1>14. \A d : IsPending(d) => IsPending(d)'
  BY <1>1, <1>2, <1>3, <1>13 DEF IsPending
<1>15. QueueInv'
  BY <1>1, <1>11, <1>13, QueueStep DEF StepInv, QueueInv
<1>16. AdditionsInv'
  <2>1. \A u : Found(u)' = Found(u)
    BY <1>1, SameGrid
  <2>2. \A u \in DOMAIN physical : \A d : IsAdded(u, d) => IsAdded(u, d)'
    BY <1>1, <1>10, <2>1 DEF IsAdded
  <2> QED BY <1>1, <1>10, <1>14, <2>1, <2>2 DEF StepInv, AdditionsInv
<1>17. AveragedInv'
  BY <1>1 DEF AveragedInv
<1> QED BY <1>12, <1>15, <1>16, <1>17 DEF StepInv

\* A cluster that applies its goals adds one to each of its vertices, at its own place.
LEMMA AdditionsFacts ==
  ASSUME PhaseInv, ModelInv, phase = "step", NEW c \in Cluster, step \in Nat
  PROVE  /\ Additions(c) \in Seq(PhysicalVertices) /\ Len(Additions(c)) = Len(physical)
         /\ DOMAIN Additions(c) = DOMAIN physical
         /\ \A v \in DOMAIN physical :
              /\ Additions(c)[v].including = physical[v].including
              /\ \A i \in Place :
                   Additions(c)[v].additions[i] =
                     IF c \in ToSet(Found(v)) /\ i = AdditionIndex(Found(v), c) THEN <<c, step>>
                     ELSE physical[v].additions[i]
<1> DEFINE mine(v) == {i \in DOMAIN infos[c] : infos[c][i].vertex = v}
           added(v) == IF mine(v) = {} THEN physical[v]
                       ELSE [physical[v] EXCEPT !.additions[infos[c][Min(mine(v))].addition_index] = <<c, step>>]
<1>1. Additions(c) = [v \in DOMAIN physical |-> added(v)]
  BY DEF Additions
<1>2. InfosInv /\ PhysicalInv /\ infos[c] \in Seq(Infos) /\ physical \in Seq(PhysicalVertices)
  BY DEF ModelInv, Clustering, InfosInv, PhysicalInv
<1>3. PICK n \in Nat : Len(physical) = n /\ DOMAIN physical = 1 .. n
  BY <1>2
<1>4. \A v \in DOMAIN physical : mine(v) # {} <=> c \in ToSet(Found(v))
  BY <1>2 DEF InfosInv
<1>5. ASSUME NEW v \in DOMAIN physical, mine(v) # {}
      PROVE  infos[c][Min(mine(v))].addition_index = AdditionIndex(Found(v), c)
  <2>1. DOMAIN infos[c] \subseteq Nat
    BY <1>2
  <2>2. mine(v) \subseteq Nat
    BY <2>1
  <2>3. PICK x \in mine(v) : \A y \in mine(v) : x <= y
    BY <1>5, <2>2, Least
  <2>4. Min(mine(v)) = x
    <3>1. mine(v) \subseteq Int
      BY <2>2
    <3> QED BY <2>3, <3>1, MinOf
  <2>5. x \in DOMAIN infos[c] /\ infos[c][x].vertex = v
    BY <2>3
  <2> HIDE DEF mine
  <2> QED BY <1>2, <2>4, <2>5 DEF InfosInv
<1> HIDE DEF mine
<1>6. ASSUME NEW v \in DOMAIN physical
      PROVE  /\ added(v) \in PhysicalVertices /\ added(v).including = physical[v].including
             /\ \A i \in Place :
                  added(v).additions[i] =
                    IF c \in ToSet(Found(v)) /\ i = AdditionIndex(Found(v), c) THEN <<c, step>>
                    ELSE physical[v].additions[i]
  <2>1. PICK p \in PhysicalVertices : p = physical[v]
    BY <1>2
  <2>2. CASE mine(v) = {}
    BY <1>4, <2>1, <2>2
  <2>3. CASE mine(v) # {}
    <3>1. PICK x : x = AdditionIndex(Found(v), c)
      OBVIOUS
    <3>2. added(v) = [p EXCEPT !.additions[x] = <<c, step>>]
      BY <1>5, <2>1, <2>3, <3>1
    <3> HIDE DEF added
    <3>3. PICK a \in [Place -> {<<>>} \cup (Cluster \X Nat)] : p.additions = a
      BY DEF PhysicalVertices
    <3>4. PICK b \in [Place -> {<<>>} \cup (Cluster \X Nat)] : b = [a EXCEPT ![x] = <<c, step>>]
      OBVIOUS
    <3>5. added(v) = [p EXCEPT !.additions = b]
      BY <3>2, <3>3, <3>4
    <3>6. added(v) \in PhysicalVertices /\ added(v).including = p.including /\ added(v).additions = b
      BY <3>5 DEF PhysicalVertices
    <3>7. \A i \in Place : b[i] = IF i = x THEN <<c, step>> ELSE a[i]
      BY <3>4
    <3> QED BY <1>4, <2>1, <2>3, <3>1, <3>3, <3>6, <3>7
  <2> QED BY <2>2, <2>3
<1> HIDE DEF added
<1> QED BY <1>1, <1>3, <1>6

\* Adding a cluster's velocities to its vertices keeps them.
LEMMA GoalsKeepStep ==
  ASSUME PhaseInv, ModelInv, StepInv, NEW w \in Worker, ApplyGoals(w)
  PROVE  PhaseInv' /\ ModelInv' /\ StepInv'
<1>1. /\ phase = "step" /\ task[w].doing = "goals" /\ unmatched' = unmatched
      /\ physical' = Additions(task[w].cluster)
      /\ task' = [task EXCEPT ![w].doing = "plasticity"]
      /\ UNCHANGED <<meshVars, phase, scene, high, graphical, infos, step, averaged>>
  BY DEF ApplyGoals, Worker_step
<1>2. PICK s \in Tasks, c \in Cluster :
        /\ s = task[w] /\ TaskInv(s) /\ s.cluster = c /\ s.doing = "goals" /\ 1 \in DOMAIN infos[c]
        /\ task \in [Worker -> Tasks] /\ step \in Nat
  BY <1>1 DEF StepInv, QueueInv, TaskInv
<1>3. /\ physical' \in Seq(PhysicalVertices) /\ Len(physical') = Len(physical)
      /\ DOMAIN physical' = DOMAIN physical
      /\ \A v \in DOMAIN physical :
           /\ physical'[v].including = physical[v].including
           /\ \A i \in Place :
                physical'[v].additions[i] =
                  IF c \in ToSet(Found(v)) /\ i = AdditionIndex(Found(v), c) THEN <<c, step>>
                  ELSE physical[v].additions[i]
  BY <1>1, <1>2, AdditionsFacts
<1>4. PhaseInv' /\ ModelInv'
  <2>1. infos' \in [Cluster -> Seq(Infos)]
    BY <1>1 DEF ModelInv, Clustering, InfosInv
  <2> QED BY <1>1, <1>3, <2>1, PhaseKept, SameAssignment
<1>5. PICK t \in Tasks : task' = [task EXCEPT ![w] = t] /\ TaskInv(t)
  <2> DEFINE t == [s EXCEPT !.doing = "plasticity"]
  <2>1. task' = [task EXCEPT ![w] = t]
    BY <1>1, <1>2
  <2>2. t \in Tasks /\ t.doing = "plasticity" /\ t.cluster = c
    BY <1>2 DEF Tasks
  <2> HIDE DEF t
  <2>3. TaskInv(t)
    BY <1>2, <2>2 DEF TaskInv
  <2> QED BY <2>1, <2>2, <2>3
<1>6. QueueInv'
  BY <1>1, <1>5, QueueStep DEF StepInv, QueueInv
<1>7. \A d : d # c /\ IsPending(d) => IsPending(d)'
  BY <1>1, <1>2, <1>5 DEF IsPending
<1>8. AdditionsInv'
  <2>1. \A v : Found(v)' = Found(v)
    BY <1>1, SameGrid
  <2>2. ASSUME NEW v \in DOMAIN physical, NEW d \in ToSet(Found(v))
        PROVE  IsPending(d)' \/ IsAdded(v, d)'
    <3>1. CASE d = c
      <4>1. IsAdded(v, d)'
        BY <1>1, <1>3, <2>1, <3>1 DEF IsAdded
      <4> QED BY <4>1
    <3>2. CASE d # c
      <4>1. IsPending(d) \/ IsAdded(v, d)
        BY <1>1 DEF StepInv, AdditionsInv
      <4>2. c \in ToSet(Found(v)) => AdditionIndex(Found(v), c) # AdditionIndex(Found(v), d)
        <5>1. v \in DOMAIN vertices
          <6>1. /\ vertices \in Seq(Position) /\ physical \in Seq(PhysicalVertices)
                /\ Len(physical) <= Len(vertices)
            BY <1>1 DEF PhaseInv, ModelInv, PhysicalInv, Clustering
          <6> QED BY <6>1
        <5> QED BY <1>1, <3>2, <5>1, FoundOfVertex DEF Clustering
      <4>3. IsAdded(v, d) => IsAdded(v, d)'
        BY <1>1, <1>3, <2>1, <4>2 DEF IsAdded
      <4> QED BY <1>7, <3>2, <4>1, <4>3
    <3> QED BY <3>1, <3>2
  <2> QED BY <1>3, <2>1, <2>2 DEF AdditionsInv
<1>9. AveragedInv'
  BY <1>1 DEF AveragedInv
<1> QED BY <1>4, <1>6, <1>8, <1>9 DEF StepInv

\* Nothing is pending any more: every vertex averages what this step has added to it.
LEMMA IntegrateKeepsStep ==
  ASSUME PhaseInv, ModelInv, StepInv, Integrate
  PROVE  PhaseInv' /\ ModelInv' /\ StepInv'
<1>1. /\ phase = "step" /\ phase' = "ready" /\ phase \in Clustering /\ phase' \in Clustering
      /\ unmatched = <<>> /\ \A w \in Worker : task[w] = Idle
      /\ averaged' = [v \in DOMAIN physical |->
                        [i \in 1 .. physical[v].including |-> physical[v].additions[i - 1]]]
      /\ UNCHANGED <<meshVars, scene, high, modelVars, step, unmatched, task>>
  BY DEF Integrate, Clustering
<1>2. /\ PhysicalInv /\ physical \in Seq(PhysicalVertices) /\ vertices \in Seq(Position)
      /\ Len(physical) = Len(vertices)
      /\ \A v \in DOMAIN physical : physical[v].including = Len(Found(v))
  BY <1>1 DEF PhaseInv, ModelInv, PhysicalInv
<1>3. PhaseInv' /\ ModelInv'
  BY <1>1, <1>2, PhaseKept, ModelKept
<1>4. physical' = physical /\ \A v : Found(v)' = Found(v)
  BY <1>1, SameGrid DEF modelVars
<1>5. QueueInv'
  <2>1. task \in [Worker -> Tasks] /\ step \in Nat /\ unmatched \in Seq(Cluster)
    BY DEF StepInv, QueueInv
  <2>2. task = [w \in Worker |-> Idle]
    BY <1>1, <2>1
  <2>3. Cluster' = Cluster /\ Tasks' = Tasks /\ Idle' = Idle /\ infos' = infos
    BY <1>1 DEF Cluster, Tasks, Idle, modelVars
  <2>4. \A w \in Worker : TaskInv(task[w])'
    BY <1>1, <2>3 DEF TaskInv, Idle
  <2> QED BY <1>1, <2>1, <2>2, <2>3, <2>4 DEF QueueInv
<1>6. \A c : ~ IsPending(c)
  <2>1. ~ IsBefore(Idle)
    BY TasksAre
  <2>2. ToSet(unmatched) = {}
    BY <1>1 DEF ToSet
  <2> QED BY <1>1, <2>1, <2>2 DEF IsPending
<1>7. ASSUME NEW v \in DOMAIN physical, physical[v].including <= CLUSTER_INDICES_NUM
      PROVE  averaged'[v] = [i \in 1 .. physical[v].including |-> <<Found(v)[i], step>>]
  <2>1. v \in DOMAIN vertices
    BY <1>2
  <2>2. PICK n \in Nat \ {0} : /\ Len(Found(v)) = n /\ DOMAIN Found(v) = 1 .. n /\ IsInjective(Found(v))
                               /\ physical[v].including = n /\ n <= CLUSTER_INDICES_NUM
                               /\ Found(v) \in Seq(Cluster)
    BY <1>1, <1>2, <1>7, <2>1, FoundOfVertex
  <2>3. ASSUME NEW i \in 1 .. n
        PROVE  physical[v].additions[i - 1] = <<Found(v)[i], step>>
    <3>1. PICK c : c = Found(v)[i]
      OBVIOUS
    <3>2. c \in ToSet(Found(v))
      BY <2>2, <3>1 DEF ToSet
    <3>3. PICK k \in 0 .. n - 1 : k = AdditionIndex(Found(v), c) /\ Found(v)[k + 1] = c
      BY <1>1, <2>1, <2>2, <3>2, FoundOfVertex
    <3>4. k + 1 \in 1 .. n
      OBVIOUS
    <3>5. k + 1 = i
      BY <2>2, <3>1, <3>3, <3>4 DEF IsInjective
    <3>6. k = i - 1 /\ k \in Place
      BY <2>2, <3>5 DEF Place, CLUSTER_INDICES_NUM
    <3>7. IsAdded(v, c)
      BY <1>1, <1>6, <3>2 DEF StepInv, AdditionsInv
    <3> QED BY <3>1, <3>3, <3>6, <3>7 DEF IsAdded
  <2>4. averaged'[v] = [i \in 1 .. n |-> physical[v].additions[i - 1]]
    BY <1>1, <2>2
  <2> QED BY <2>2, <2>3, <2>4
<1>8. AveragedInv'
  <2>1. DOMAIN averaged' = DOMAIN physical
    BY <1>1
  <2> QED BY <1>1, <1>4, <1>7, <2>1 DEF AveragedInv
<1>9. AdditionsInv'
  BY <1>1 DEF AdditionsInv
<1> QED BY <1>3, <1>5, <1>8, <1>9 DEF StepInv

-----------------------------------------------------------------------------
(* The theorems.                                                           *)

SceneInv == PhaseInv /\ ModelInv /\ StepInv

\* Every step keeps the invariant.
LEMMA SceneStep ==
  ASSUME SceneInv, [Next]_vars
  PROVE  SceneInv'
<1> USE DEF SceneInv
<1>1. CASE GenerateMesh
  <2>1. /\ phase \in {"high mesh", "low mesh"} /\ phase' = phase
        /\ UNCHANGED <<scene, modelVars, stepVars>>
    BY <1>1 DEF GenerateMesh
  <2>2. ModelInv'
    <3>1. Cluster' = Cluster
      BY <2>1 DEF Cluster
    <3> QED BY <2>1, <3>1 DEF ModelInv, Clustering, modelVars
  <2> QED BY <1>1, <2>1, <2>2, GenerateKeepsPhase, StepKept
<1>2. CASE FinishHighMesh \/ FinishMeshFile
  <2>1. /\ phase = "high mesh" /\ phase' = "low mesh"
        /\ UNCHANGED <<scene, modelVars, stepVars>>
    BY <1>2 DEF FinishHighMesh, FinishMeshFile
  <2>2. ModelInv'
    <3>1. Cluster' = Cluster
      BY <2>1 DEF Cluster
    <3> QED BY <2>1, <3>1 DEF ModelInv, Clustering, modelVars
  <2> QED BY <1>2, <2>1, <2>2, HighMeshKeepsPhase, MeshFileKeepsPhase, StepKept
<1>3. CASE FinishLowMesh
  <2>1. phase = "low mesh" /\ phase' = "physical" /\ UNCHANGED <<scene, stepVars>>
    BY <1>3 DEF FinishLowMesh
  <2> QED BY <1>3, <2>1, LowMeshKeepsPhase, LowMeshKeepsModel, StepKept
<1>4. CASE RefuseMeshFile \/ ExceedLimit
  <2>1. /\ phase \in {"high mesh", "graphical"} /\ phase' = "refused"
        /\ UNCHANGED <<meshVars, scene, high, modelVars, stepVars>>
    BY <1>4 DEF RefuseMeshFile, ExceedLimit
  <2> QED BY <2>1, PhaseKept, ModelKept, StepKept
<1>5. CASE AssignPhysical
  <2>1. phase = "physical" /\ phase' = phase /\ UNCHANGED <<meshVars, scene, high, stepVars>>
    BY <1>5 DEF AssignPhysical
  <2> QED BY <1>5, <2>1, PhaseKept, AssignPhysicalKeepsModel, StepKept
<1>6. CASE AssignGraphical
  <2>1. phase = "graphical" /\ phase' = phase /\ UNCHANGED <<meshVars, scene, high, stepVars>>
    BY <1>6 DEF AssignGraphical
  <2> QED BY <1>6, <2>1, PhaseKept, AssignGraphicalKeepsModel, StepKept
<1>7. CASE FinishPhysical \/ FinishModel
  <2>1. /\ phase \in {"physical", "graphical"} /\ phase' \in {"graphical", "ready"}
        /\ phase \in Clustering /\ phase' \in Clustering
        /\ UNCHANGED <<meshVars, scene, high, modelVars, stepVars>>
    BY <1>7 DEF FinishPhysical, FinishModel, Clustering
  <2>2. Len(physical) = Len(vertices)
    BY <1>7, <2>1 DEF FinishPhysical, FinishModel, ModelInv, PhysicalInv
  <2> QED BY <2>1, <2>2, PhaseKept, ModelKept, StepKept
<1>8. CASE StartStep
  BY <1>8, StartKeepsStep
<1>9. CASE Integrate
  BY <1>9, IntegrateKeepsStep
<1>10. ASSUME NEW w \in Worker,
              PopCluster(w) \/ ReadEquilibrium(w) \/ WriteEquilibrium(w) \/ ApplyGoals(w) \/ UpdatePlasticity(w)
       PROVE  SceneInv'
  BY <1>10, PopKeepsStep, ReadKeepsStep, WriteKeepsStep, GoalsKeepStep, PlasticityKeepsStep
<1>11. CASE UNCHANGED vars
  <2>1. UNCHANGED <<meshVars, phase, scene, high, modelVars, stepVars>>
    BY <1>11 DEF vars
  <2>2. PhaseInv' /\ ModelInv'
    BY <2>1, PhaseKept, ModelKept
  <2>3. CASE phase # "step"
    BY <2>1, <2>2, <2>3, StepKept
  <2>4. CASE phase = "step"
    <3>1. \A v : Found(v)' = Found(v)
      BY <2>1, SameGrid
    <3>2. /\ physical' = physical /\ infos' = infos /\ unmatched' = unmatched /\ task' = task /\ step' = step
          /\ averaged' = averaged /\ phase' = phase /\ scene' = scene
      BY <2>1 DEF modelVars, stepVars
    <3>3. QueueInv'
      BY <2>4, <3>2 DEF StepInv, QueueInv, TaskInv, Tasks, Cluster
    <3>4. AdditionsInv'
      BY <3>1, <3>2 DEF StepInv, AdditionsInv, IsPending, IsBefore, IsAdded
    <3>5. AveragedInv'
      BY <2>4, <3>2 DEF AveragedInv
    <3> QED BY <2>2, <3>3, <3>4, <3>5 DEF StepInv
  <2> QED BY <2>3, <2>4
<1> QED BY <1>1, <1>2, <1>3, <1>4, <1>5, <1>6, <1>7, <1>8, <1>9, <1>10, <1>11 DEF Next, Done

\* The invariant of the scene: where the generators' loops and the loader stand, what the
\* vertices of the model have been assigned, and which additions the clusters of the step
\* still owe.
THEOREM SceneInvariant == Spec => []SceneInv
<1>1. Init => SceneInv
  BY PhaseInit, ModelInit, StepInit DEF SceneInv
<1>2. SceneInv /\ [Next]_vars => SceneInv'
  BY SceneStep
<1> QED BY <1>1, <1>2, PTL DEF Spec

\* The buffers of the generators are big enough for every dimension, and full at the end.
THEOREM BuffersFitCorrect == Spec => []BuffersFit
<1>1. SceneInv => BuffersFit
  <2> SUFFICES ASSUME SceneInv, shape.name \notin {"file", "points"}
               PROVE  BuffersFit
    BY DEF BuffersFit
  <2>1. shape \in GeneratedMeshes
    BY ScenesAre, Names DEF SceneInv, PhaseInv
  <2>2. /\ vertices \in Seq(Position) /\ indices \in Seq(IndexOf(shape))
        /\ Stands(shape, loop, Len(vertices), Len(indices))
    BY <2>1 DEF SceneInv, PhaseInv, MeshInv
  <2>3. Len(vertices) \in Nat /\ Len(indices) \in Nat
    BY <2>2
  <2>4. Fits(shape, Len(vertices), Len(indices))
    BY <2>2, <2>3, MeshFits
  <2>5. \A i \in DOMAIN indices : indices[i] \in 0 .. VerticesCount(shape) - 1
    <3>1. \A i \in DOMAIN indices : indices[i] \in IndexOf(shape)
      BY <2>2
    <3> QED BY <3>1 DEF IndexOf
  <2> QED BY <2>4, <2>5 DEF Fits, BuffersFit
<1> QED BY <1>1, SceneInvariant, PTL

\* Every corner of the mesh file that names a normal names a texture.
TexturesNamed == shape.name = "file" => NamesTextures(shape)

\* Whatever a mesh comes from, it is complete: a generator fills its buffers exactly, and
\* what is loaded from such a file is what the file says (ObjMeshLoader.cpp:86-180).
THEOREM MeshIsCompleteCorrect == Spec => [](TexturesNamed => MeshIsComplete)
<1>1. SceneInv /\ TexturesNamed => LoadedAsWritten
  <2>1. CASE shape.name # "file"
    BY <2>1 DEF LoadedAsWritten
  <2>2. ASSUME SceneInv, TexturesNamed, shape.name = "file"
        PROVE  LoadedAsWritten
    <3>1. IsMeshFile(shape) /\ LoaderInv
      BY <2>2, ScenesAre DEF SceneInv, PhaseInv
    <3> QED BY <2>2, <3>1, LoadedMesh DEF TexturesNamed
  <2> QED BY <2>1, <2>2
<1> QED BY <1>1, SceneInvariant, BuffersFitCorrect, PTL DEF MeshIsComplete

\* Every vertex has between one cluster and as many as its arrays hold, and the shader is
\* told which.
THEOREM VerticesHaveClustersCorrect == Spec => []VerticesHaveClusters
<1>1. SceneInv => VerticesHaveClusters
  <2> SUFFICES ASSUME SceneInv, phase = "ready", 2 * scene.padding.num < scene.padding.den,
                      ClustersNum(scene.by_axes) < 2^ClusterIndexBits,
                      \A a \in Axis : scene.by_axes[a] > 1 => grid.dimensions[a] > 0
               PROVE  /\ \A v \in DOMAIN physical : physical[v].including \in 1 .. CLUSTER_INDICES_NUM
                      /\ \A g \in DOMAIN graphical :
                           LET written == ClusterIndices(grid, graphical[g].clusters)
                           IN  {written[i] : i \in DOMAIN written} \cap Cluster = ToSet(graphical[g].clusters)
                               /\ graphical[g].clusters # <<>>
    BY DEF VerticesHaveClusters
  <2>1. PhaseInv /\ phase \in Clustering /\ PhysicalInv /\ GraphicalInv
    BY DEF SceneInv, ModelInv, Clustering
  <2>2. /\ IsGrid(grid) /\ grid.by_axes = scene.by_axes /\ grid.padding = scene.padding
        /\ Cells(grid) = Cluster
    BY <2>1, SceneGrid
  <2>3. IsNarrow(grid) /\ IsSolid(grid)
    BY <2>2 DEF IsNarrow, IsSolid
  <2>4. ASSUME NEW v \in DOMAIN physical
        PROVE  physical[v].including \in 1 .. CLUSTER_INDICES_NUM
    <3>1. v \in DOMAIN vertices /\ vertices \in Seq(Position)
      <4>1. vertices \in Seq(Position) /\ physical \in Seq(PhysicalVertices) /\ Len(physical) <= Len(vertices)
        BY <2>1 DEF PhaseInv, PhysicalInv
      <4> QED BY <4>1
    <3>2. vertices[v] \in Position
      BY <3>1
    <3>3. vertices[v] \in [Axis -> Int]
      BY <3>2 DEF Position, Axis
    <3>4. /\ Len(find_clusters_for_vertex(grid, vertices[v])) \in Nat \ {0}
          /\ Len(find_clusters_for_vertex(grid, vertices[v])) <= CLUSTER_INDICES_NUM
      BY <2>1, <2>2, <2>3, <3>2, <3>3, FoundClusters, FoundFacts
    <3>5. physical[v].including = Len(find_clusters_for_vertex(grid, vertices[v]))
      BY <2>1 DEF PhysicalInv, Found
    <3>6. PICK n \in Nat \ {0} : physical[v].including = n /\ n <= CLUSTER_INDICES_NUM
      BY <3>4, <3>5
    <3> QED BY <3>6 DEF CLUSTER_INDICES_NUM
  <2>5. ASSUME NEW g \in DOMAIN graphical
        PROVE  LET written == ClusterIndices(grid, graphical[g].clusters)
               IN  {written[i] : i \in DOMAIN written} \cap Cluster = ToSet(graphical[g].clusters)
                   /\ graphical[g].clusters # <<>>
    <3>1. g \in DOMAIN high.vertices /\ high.vertices \in Seq(Position)
      <4>1. /\ high.vertices \in Seq(Position) /\ graphical \in Seq({Assigned(p) : p \in Position})
            /\ Len(graphical) <= Len(high.vertices)
        BY <2>1 DEF PhaseInv, GraphicalInv
      <4> QED BY <4>1
    <3>2. high.vertices[g] \in Position
      BY <3>1
    <3>3. /\ graphical[g].clusters = find_clusters_for_vertex(grid, high.vertices[g])
          /\ Len(graphical[g].clusters) <= CLUSTER_INDICES_NUM
      BY <2>1 DEF GraphicalInv, Assigned
    <3>4. graphical[g].clusters \in Seq(Cells(grid)) /\ graphical[g].clusters # <<>>
      <4>1. /\ graphical[g].clusters \in Seq(Cluster) /\ Len(graphical[g].clusters) \in Nat \ {0}
        BY <2>1, <3>2, <3>3, FoundClusters
      <4> QED BY <2>2, <4>1
    <3> QED BY <2>2, <3>3, <3>4, WrittenIndices
  <2> QED BY <2>4, <2>5
<1> QED BY <1>1, SceneInvariant, PTL

\* A vertex inside a padded model has a positive weight, and none that is not a number.
THEOREM WeightsAreUsableCorrect == Spec => []WeightsAreUsable
<1>1. SceneInv => WeightsAreUsable
  <2> SUFFICES ASSUME SceneInv, phase = "ready", \A a \in Axis : Padding(grid, a) > 0,
                      NEW g \in DOMAIN graphical,
                      \A a \in Axis : high.vertices[g][a] - grid.min_pos[a] \in 0 .. grid.dimensions[a]
               PROVE  /\ "positive" \in ToSet(graphical[g].weights)
                      /\ "undefined" \notin ToSet(graphical[g].weights)
    BY DEF WeightsAreUsable
  <2>1. PhaseInv /\ phase \in Clustering /\ GraphicalInv
    BY DEF SceneInv, ModelInv, Clustering
  <2>2. IsGrid(grid) /\ IsPadded(grid)
    BY <2>1, SceneGrid DEF IsPadded
  <2>3. high.vertices[g] \in [Axis -> Int]
    <3>1. /\ high.vertices \in Seq(Position) /\ graphical \in Seq({Assigned(p) : p \in Position})
          /\ Len(graphical) <= Len(high.vertices)
      BY <2>1 DEF PhaseInv, GraphicalInv
    <3>2. high.vertices[g] \in Position
      BY <3>1
    <3> QED BY <3>2 DEF Position, Axis
  <2>4. Inside(grid, high.vertices[g])
    BY DEF Inside
  <2>5. graphical[g].weights = WeightsOf(grid, high.vertices[g])
    BY <2>1 DEF GraphicalInv, Assigned
  <2> QED BY <2>2, <2>3, <2>4, <2>5, WeightsFacts
<1> QED BY <1>1, SceneInvariant, PTL

\* No physical vertex has more clusters than places for their additions.
PlacesSuffice == \A v \in DOMAIN physical : physical[v].including <= CLUSTER_INDICES_NUM

\* Then a vertex averages the addition of each of its clusters once, and all of them are of
\* this step, in whichever order the workers matched the clusters.
THEOREM AdditionsAreAveragedCorrect == Spec => [](PlacesSuffice => AdditionsAreAveraged)
<1>1. SceneInv /\ PlacesSuffice => AdditionsAreAveraged
  <2> SUFFICES ASSUME SceneInv, PlacesSuffice, averaged # <<>>, phase = "ready", NEW v \in DOMAIN averaged
               PROVE  /\ ToSet(averaged[v]) =
                           {<<c, step>> : c \in {d \in Cluster : \E i \in DOMAIN infos[d] : infos[d][i].vertex = v}}
                      /\ IsInjective(averaged[v])
    BY DEF AdditionsAreAveraged
  <2>1. PhaseInv /\ phase \in Clustering /\ PhysicalInv /\ InfosInv
    BY DEF SceneInv, ModelInv, Clustering
  <2>2. /\ v \in DOMAIN physical
        /\ averaged[v] = [i \in 1 .. physical[v].including |-> <<Found(v)[i], step>>]
    BY DEF SceneInv, StepInv, AveragedInv, PlacesSuffice
  <2>3. v \in DOMAIN vertices
    <3>1. vertices \in Seq(Position) /\ physical \in Seq(PhysicalVertices) /\ Len(physical) <= Len(vertices)
      BY <2>1 DEF PhaseInv, PhysicalInv
    <3> QED BY <2>2, <3>1
  <2>4. PICK n \in Nat \ {0} : /\ Len(Found(v)) = n /\ DOMAIN Found(v) = 1 .. n /\ IsInjective(Found(v))
                               /\ Found(v) \in Seq(Cluster) /\ physical[v].including = n
    BY <2>1, <2>2, <2>3, FoundOfVertex DEF PhysicalInv
  <2>5. averaged[v] = [i \in 1 .. n |-> <<Found(v)[i], step>>]
    BY <2>2, <2>4
  <2>6. IsInjective(averaged[v])
    BY <2>4, <2>5 DEF IsInjective
  <2>7. \A c : c \in ToSet(Found(v)) <=> c \in Cluster /\ \E i \in DOMAIN infos[c] : infos[c][i].vertex = v
    <3>1. \A c \in ToSet(Found(v)) : c \in Cluster /\ \E i \in DOMAIN infos[c] : infos[c][i].vertex = v
      <4>1. \A c \in ToSet(Found(v)) : c \in Cluster
        BY <2>4 DEF ToSet
      <4> QED BY <2>1, <2>2, <4>1 DEF InfosInv
    <3>2. \A c \in Cluster : (\E i \in DOMAIN infos[c] : infos[c][i].vertex = v) => c \in ToSet(Found(v))
      BY <2>1 DEF InfosInv
    <3> QED BY <3>1, <3>2
  <2>8. ToSet(averaged[v]) = {<<c, step>> : c \in ToSet(Found(v))}
    BY <2>4, <2>5 DEF ToSet
  <2>9. {d \in Cluster : \E i \in DOMAIN infos[d] : infos[d][i].vertex = v} = ToSet(Found(v))
    BY <2>7
  <2> QED BY <2>6, <2>8, <2>9
<1> QED BY <1>1, SceneInvariant, PTL
=============================================================================
