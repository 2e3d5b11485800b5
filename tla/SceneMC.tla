------------------------------- MODULE SceneMC --------------------------------
(***************************************************************************)
(* Scenes for TLC.  Circle is exact for four steps; six points stand for a *)
(* hexagon.  Small versions of the demo's scenes, and grids chosen so that *)
(* vertices lie inside boxes, between them, on their borders, outside of   *)
(* all of them, and in as many of them as there is room for or more.       *)
(***************************************************************************)
EXTENDS Scene, TLC

Polygons ==
  4 :> << <<2, 0>>, <<0, 2>>, <<-2, 0>>, <<0, -2>> >> @@
  6 :> << <<2, 0>>, <<1, 2>>, <<-1, 2>>, <<-2, 0>>, <<-1, -2>>, <<1, -2>> >>

Cylinder(base, height, cap) == [name |-> "cylinder", base |-> base, height |-> height, cap |-> cap]
Sphere(n) == [name |-> "sphere", meridian |-> n]
Cube(degree) == [name |-> "cube", degree |-> degree]
Plane(half) == [name |-> "plane", half |-> half]
Cubic(x, y, z) == [name |-> "cubic", x |-> x, y |-> y, z |-> z]
Points(by) == [name |-> "points", by |-> by]
v(x, y, z) == [cmd |-> "v", value |-> <<x, y, z>>]
vn(n) == [cmd |-> "vn", value |-> n]
f(corner1, corner2, corner3) == [cmd |-> "f", corners |-> <<corner1, corner2, corner3>>]
comment == [cmd |-> "other"]
pos(p) == <<p, Empty, Empty>>
normal(p, n) == <<p, 1, n>>
File(commands) == [name |-> "file", commands |-> commands]

Tetrahedron == <<comment, v(0, 0, 0), v(2, 0, 0), v(0, 2, 0), v(0, 0, 2)>>
Normals == <<vn("down"), vn("up")>>
NewScene(high_shape, low_shape, by_axes, num, den, steps) ==
  [high |-> high_shape, low |-> low_shape, by_axes |-> by_axes,
   padding |-> [num |-> num, den |-> den], steps |-> steps]

\* Scenes that share vertices between clusters, emulated for some steps.
SteppedScenes ==
  {NewScene(Sphere(3), Sphere(2), <<1, 1, 2>>, 1, 5, 1),
   NewScene(Plane(1), Plane(1), <<3, 1, 1>>, 1, 2, 1),
   NewScene(Plane(1), Plane(1), <<2, 1, 1>>, 1, 5, 2)}

Symmetry == Permutations(Worker)

\* Mesh files: smooth and flat normals, none, some, positions behind faces, and five files
\* that are refused.
FileScenes ==
  {NewScene(File(file), Points(by), <<2, 1, 1>>, 1, 5, 1) : <<file, by>> \in
    {<<Tetrahedron \o Normals \o
         <<f(normal(1, 1), normal(3, 1), normal(2, 1)), f(normal(1, 1), normal(2, 1), normal(4, 2)),
           f(normal(1, 1), normal(4, 2), normal(3, 1)), f(normal(2, 1), normal(3, 1), normal(4, 2))>>, 1>>,
     <<Tetrahedron \o Normals \o
         <<f(normal(1, 1), normal(3, 1), normal(2, 1)), f(normal(1, 2), normal(2, 2), normal(4, 2)),
           f(pos(1), pos(4), pos(3)), f(normal(2, 1), pos(3), normal(4, 2))>>, 3>>,
     <<SubSeq(Tetrahedron, 1, 4) \o
         <<f(pos(1), pos(3), pos(2)), v(0, 0, 2), f(pos(1), pos(2), pos(4)),
           f(pos(1), pos(4), pos(3)), f(pos(2), pos(3), pos(4))>>, 2>>,
     <<SubSeq(Tetrahedron, 1, 4) \o <<f(pos(1), pos(3), pos(4)), v(0, 0, 2)>>, 1>>,
     <<Tetrahedron \o <<vn("down"), f(normal(1, 1), normal(3, 2), normal(2, 1))>>, 1>>,
     <<Tetrahedron \o <<f(pos(1), pos(1), pos(1))>>, 1>>,
     <<Tetrahedron \o <<f(pos(1), pos(2), pos(1)), f(pos(2), pos(1), pos(2))>>, 10>>,
     <<Tetrahedron, 1>>}}

\* A file whose corners name a normal but no texture.
NoTextureScenes ==
  {NewScene(File(Tetrahedron \o Normals \o <<f(<<1, Empty, 1>>, <<3, Empty, 1>>, <<4, Empty, 2>>)>>),
            Points(1), <<2, 1, 1>>, 1, 5, 0)}

MCScenes ==
  FileScenes \cup
  SteppedScenes \cup
  {NewScene(Cylinder(4, 3, 2), Cylinder(4, 2, 1), <<1, 2, 2>>, 1, 5, 0),
   NewScene(Cylinder(6, 1, 3), Cylinder(4, 1, 1), <<2, 2, 1>>, 2, 5, 0),
   NewScene(Cube(3), Cube(2), <<2, 2, 2>>, 1, 5, 0),
   NewScene(Plane(2), Plane(1), <<2, 2, 1>>, 1, 5, 0),
   NewScene(Sphere(2), Sphere(3), <<3, 1, 3>>, 0, 1, 0),
   NewScene(Cubic(2, 2, 2), Cubic(2, 2, 2), <<2, 2, 2>>, 1, 5, 0),
   NewScene(Cubic(2, 2, 1), Cubic(2, 2, 1), <<3, 3, 1>>, 1, 2, 0),
   NewScene(Cubic(4, 1, 1), Cubic(2, 1, 1), <<2, 1, 1>>, 3, 5, 0),
   NewScene(Cubic(2, 1, 1), Cubic(2, 1, 1), <<2, 1, 1>>, -1, 4, 0),
   NewScene(Cubic(4, 2, 2), Cubic(2, 2, 2), <<5, 3, 1>>, 1, 5, 0),
   NewScene(Cubic(4, 2, 2), Cubic(4, 4, 2), <<4, 4, 1>>, 1, 5, 0)}
=============================================================================
