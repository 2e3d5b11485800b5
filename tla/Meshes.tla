-------------------------------- MODULE Meshes --------------------------------
(***************************************************************************)
(* The generators of the demo's meshes (cylinder.cpp, sphere.cpp,          *)
(* tessellate.cpp with the cube of cubic.cpp, plane.cpp, cubic.cpp), the   *)
(* loader of mesh files (ObjMeshLoader.cpp) and the triangles that         *)
(* IndexedSurface makes of their indices.                                  *)
(*                                                                         *)
(* Every turn of a generator's inner loop is an action.  Colours, normals  *)
(* (but for those of a file) and the random radius are left out; positions are integers, for which   *)
(* the floating-point cosines and sines of a circle become the points of   *)
(* an integer polygon, given as a constant.                                *)
(***************************************************************************)
EXTENDS Integers, FiniteSets, SequencesExt

CONSTANT Circle      \* of a number of steps, the points <<cos, sin>> of its polygon

ASSUME CircleAssumption ==
  \A n \in DOMAIN Circle : n \in Nat \ {0} /\ Circle[n] \in [1 .. n -> Int \X Int]

VARIABLES
  shape,      \* the mesh under construction: its name and its dimensions
  loop,       \* the counters of the generator's loops
  vertices,   \* res_vertices: the positions written so far
  indices     \* res_indices

meshVars == <<shape, loop, vertices, indices>>

VERTICES_PER_TRIANGLE == 3
vertex == Len(vertices)            \* the index of the next vertex
Cos(steps, step) == Circle[steps][step + 1][1]
Sin(steps, step) == Circle[steps][step + 1][2]

Add(new_vertices, new_indices, next) ==
  /\ vertices' = vertices \o new_vertices
  /\ indices' = indices \o new_indices
  /\ loop' = next
  /\ UNCHANGED shape

-----------------------------------------------------------------------------
(* cylinder(): the side, the top cap, a jump, and the bottom cap.          *)

cylinder_vertices_count(base, height, cap) == base * ((height + 1) + 2 + 2 * (cap - 1)) + 2
cylinder_indices_count(base, height, cap) ==
  2 * (base + 1) * (height + 2 * (cap - 1)) + 2 * (2 * base + 1) + 2

levels_count == IF loop.part = "side" THEN shape.height + 1 ELSE shape.cap
CapHeight == IF loop.part = "top" THEN shape.height ELSE 0

NextLevelStep ==
  IF loop.step + 1 < shape.base THEN [loop EXCEPT !.step = @ + 1]
  ELSE [loop EXCEPT !.step = 0, !.level = @ + 1]

\* The indices that connect a level with the previous one, which the last step closes.
LevelIndices ==
  IF loop.level = 0 THEN <<>>
  ELSE <<vertex, vertex - shape.base>>
       \o (IF loop.step = shape.base - 1
           THEN <<vertex - shape.base + 1, vertex - 2 * shape.base + 1>> ELSE <<>>)

LevelPosition ==
  LET radius == IF loop.part = "side" THEN shape.cap ELSE shape.cap - loop.level
      z == IF loop.part = "side" THEN loop.level ELSE CapHeight
  IN  <<radius * Cos(shape.base, loop.step), radius * Sin(shape.base, loop.step), z>>

\* The first level of a cap copies the last one of the side, or its first one.
CopiedPosition ==
  vertices[(IF loop.part = "top" THEN vertex - shape.base ELSE loop.step) + 1]

CylinderLevel ==
  /\ shape.name = "cylinder" /\ loop.part # "jump" /\ loop.level < levels_count
  /\ Add(<<IF loop.level = 0 /\ loop.part # "side" THEN CopiedPosition ELSE LevelPosition>>,
         LevelIndices, NextLevelStep)

CylinderSideEnd ==
  /\ shape.name = "cylinder" /\ loop.part = "side" /\ loop.level = levels_count
  /\ Add(<<>>, <<>>, [part |-> "top", level |-> 0, step |-> 0])

\* The center of a cap and the triangles around it.
CylinderCenter ==
  /\ shape.name = "cylinder" /\ loop.part \in {"top", "bottom"} /\ loop.level = levels_count
  /\ LET fan == [i \in 1 .. 2 * shape.base |->
                   IF i % 2 = 1 THEN vertex ELSE vertex - shape.base + (i \div 2) - 1]
     IN  Add(<< <<0, 0, CapHeight>> >>, Append(fan, vertex - shape.base),
             IF loop.part = "top" THEN [part |-> "jump", level |-> 0, step |-> 0]
             ELSE [loop EXCEPT !.level = @ + 1])

CylinderJumpTooLong ==
  /\ shape.name = "cylinder" /\ loop.part = "jump"
  /\ Add(<<>>, [i \in 1 .. VERTICES_PER_TRIANGLE |-> vertex],
         [part |-> "bottom", level |-> 0, step |-> 0])

\* "making degenerate triangle": the first vertex of the bottom cap, repeated.
CylinderJump ==
  /\ shape.name = "cylinder" /\ loop.part = "jump"
  /\ Add(<<>>, [i \in 1 .. VERTICES_PER_TRIANGLE - 1 |-> vertex],
         [part |-> "bottom", level |-> 0, step |-> 0])

-----------------------------------------------------------------------------
(* sphere(): layers of vertices between the poles.                         *)

sphere_vertices_count(n) == 2 + (n - 1) * 2 * n
sphere_indices_count(n) == 3 * (4 * n + 2 * (n - 2) * 2 * n)

SphereVertex ==
  /\ shape.name = "sphere" /\ loop.theta <= shape.meridian
  /\ LET n == shape.meridian
         around == 2 * n
         first == loop.phi = 0
         add_vertex == loop.theta # n \/ first
         last == IF add_vertex THEN vertex ELSE vertex - 1
         over == last - around + (IF add_vertex THEN 0 ELSE loop.phi)
         back == last - 1 + (IF first THEN around ELSE 0)
         over_back == over - 1 + (IF first THEN around ELSE 0)
         position == <<Sin(around, loop.theta) * Cos(around, loop.phi),
                       Sin(around, loop.theta) * Sin(around, loop.phi),
                       Cos(around, loop.theta) * Cos(around, 0)>>
     IN  Add(IF add_vertex THEN <<position>> ELSE <<>>,
             CASE loop.theta = 0 -> <<>>
               [] loop.theta = 1 -> <<back, last, 0>>
               [] loop.theta = n /\ n # 1 -> <<over_back, last, over>>
               [] OTHER -> <<back, last, over, back, over, over_back>>,
             IF loop.theta = 0 \/ loop.phi + 1 = around
             THEN [theta |-> loop.theta + 1, phi |-> 0] ELSE [loop EXCEPT !.phi = @ + 1])

-----------------------------------------------------------------------------
(* The demo's cube: each triangle of a SimpleCube, tessellated.            *)

CUBE_CORNERS == << <<0,0,0>>, <<0,1,0>>, <<1,1,0>>, <<1,0,0>>,
                   <<0,0,1>>, <<0,1,1>>, <<1,1,1>>, <<1,0,1>> >>
CUBE_INDICES == << <<0,1,2>>, <<0,2,3>>, <<6,4,7>>, <<6,5,4>>, <<0,7,4>>, <<0,3,7>>,
                   <<6,1,5>>, <<6,2,1>>, <<6,7,3>>, <<6,3,2>>, <<0,4,5>>, <<0,5,1>> >>

tesselated_vertices_count(degree) == ((degree + 1) * (degree + 2)) \div 2
tesselated_indices_count(degree) == 3 * degree * degree

TessellatePosition ==
  LET corner(i) == CUBE_CORNERS[CUBE_INDICES[loop.face][i] + 1]
  IN  [a \in 1 .. 3 |-> corner(2)[a] * shape.degree
                        + loop.line * (corner(1)[a] - corner(2)[a])
                        + loop.column * (corner(3)[a] - corner(1)[a])]

TessellateVertex ==
  /\ shape.name = "cube" /\ loop.face <= Len(CUBE_INDICES)
  /\ LET above == vertex - loop.line
     IN  Add(<<TessellatePosition>>,
             (IF loop.column # 0 THEN <<vertex, vertex - 1, above - 1>> ELSE <<>>)
             \o (IF loop.column \notin {0, loop.line} THEN <<vertex, above - 1, above>> ELSE <<>>),
             IF loop.column < loop.line THEN [loop EXCEPT !.column = @ + 1]
             ELSE IF loop.line < shape.degree THEN [loop EXCEPT !.line = @ + 1, !.column = 0]
             ELSE [face |-> loop.face + 1, line |-> 0, column |-> 0])

-----------------------------------------------------------------------------
(* plane(): a square grid of cells of two triangles.                       *)

plane_vertices_count(half) == (2 * half + 1) * (2 * half + 1)
plane_indices_count(half) == 2 * VERTICES_PER_TRIANGLE * (2 * half) * (2 * half)

PlaneVertex ==
  /\ shape.name = "plane" /\ loop.i <= shape.half
  /\ LET over == vertex - (2 * shape.half + 1)
     IN  Add(<< <<loop.i, loop.j, 0>> >>,
             IF -shape.half \in {loop.i, loop.j} THEN <<>>
             ELSE <<vertex, vertex - 1, over - 1, vertex, over - 1, over>>,
             IF loop.j < shape.half THEN [loop EXCEPT !.j = @ + 1]
             ELSE [i |-> loop.i + 1, j |-> -shape.half])

-----------------------------------------------------------------------------
(* cubic(): a lattice of lines, its edges along x made vertex by vertex.   *)

cubic_vertices_count(x, y, z) == (x + 1) * (y + 1) * (z + 1)
cubic_indices_count(x, y, z) ==
  2 * ((x * (y + 1) + y * (x + 1)) * (z + 1) + z * (x + 1) * (y + 1))

CubicVertex ==
  /\ shape.name = "cubic" /\ loop.z <= shape.z
  /\ Add(<< <<loop.x, loop.y, loop.z>> >>,
         (IF loop.x # 0 THEN <<vertex - 1, vertex>> ELSE <<>>)
         \o (IF loop.y # 0 THEN <<vertex - shape.x - 1, vertex>> ELSE <<>>)
         \o (IF loop.z # 0 THEN <<vertex - (shape.x + 1) * (shape.y + 1), vertex>> ELSE <<>>),
         IF loop.x < shape.x THEN [loop EXCEPT !.x = @ + 1]
         ELSE IF loop.y < shape.y THEN [loop EXCEPT !.x = 0, !.y = @ + 1]
         ELSE [x |-> 0, y |-> 0, z |-> loop.z + 1])

-----------------------------------------------------------------------------
(* ObjMeshLoader::load(): the commands of a file.  A corner of a face has  *)
(* three fields, of its position, texture and normal, which may be empty.  *)

Empty == -1
DefaultNormal == "x axis"

\* The cache has an entry <<hash, index>> for each vertex.
Cached(s, hash) == {e[2] : e \in {e \in s.cache : e[1] = hash}}
FirstOrNew(s, same, pos, hash) ==
  IF same # {} THEN [s EXCEPT !.indices = Append(@, Min(same))]
  ELSE [s EXCEPT !.vertices = Append(@, pos), !.vertex_normals = Append(@, s.normal),
                 !.indices = Append(@, Len(s.vertices)), !.cache = @ \cup {<<hash, Len(s.vertices)>>}]

\* Variant that compares only the positions.
find_position(s, pos, hash) ==
  FirstOrNew(s, {i \in Cached(s, hash) : s.vertices[i + 1] = pos}, pos, hash)

find_or_add_vertex(s, pos, hash) ==
  FirstOrNew(s, {i \in Cached(s, hash) : /\ s.vertices[i + 1] = pos
                                         /\ s.vertex_normals[i + 1] = s.normal}, pos, hash)

\* strtok_s() passes over empty fields: without a texture, no third one is left.
AddCorner(s, corner) ==
  LET names_normal == \A k \in 1 .. 3 : corner[k] # Empty
  IN  IF \/ s.failed
         \/ corner[1] \notin DOMAIN loop.positions
         \/ names_normal /\ corner[3] \notin DOMAIN loop.normals
      THEN [s EXCEPT !.failed = TRUE]      \* MeshError
      ELSE find_or_add_vertex([s EXCEPT !.normal = IF names_normal THEN loop.normals[corner[3]] ELSE @],
                              loop.positions[corner[1]], corner[1])

command == shape.commands[loop.line]
LoadsCommand(name) ==
  /\ shape.name = "file" /\ ~ loop.failed
  /\ loop.line <= Len(shape.commands) /\ command.cmd = name

LoadPosition ==
  /\ LoadsCommand("v")
  /\ Add(<<>>, <<>>, [loop EXCEPT !.line = @ + 1, !.positions = Append(@, command.value)])

LoadNormal ==
  /\ LoadsCommand("vn")
  /\ Add(<<>>, <<>>, [loop EXCEPT !.line = @ + 1, !.normals = Append(@, command.value)])

\* The corners of a face share one Vertex: one without a normal has that of the one before.
LoadFace ==
  /\ LoadsCommand("f")
  /\ LET before == [vertices |-> vertices, indices |-> indices, cache |-> loop.cache,
                    vertex_normals |-> loop.vertex_normals, normal |-> DefaultNormal,
                    failed |-> FALSE]
         corner(k) == command.corners[k]
         after == AddCorner(AddCorner(AddCorner(before, corner(1)), corner(2)), corner(3))
     IN  /\ vertices' = after.vertices /\ indices' = after.indices
         /\ loop' = [loop EXCEPT !.line = @ + 1, !.cache = after.cache, !.failed = after.failed,
                                 !.vertex_normals = after.vertex_normals]
         /\ UNCHANGED shape

\* A comment, or a command that is not supported.
IgnoreLine ==
  /\ LoadsCommand("other")
  /\ Add(<<>>, <<>>, [loop EXCEPT !.line = @ + 1])

\* get_dimensions(), largest extent along an axis
MaxDimension(points) ==
  LET extent(a) == Max({v[a] : v \in points}) - Min({v[a] : v \in points})
  IN  Max({extent(a) : a \in 1 .. 3})

\* PointModel: every step'th vertex of another model.
PointsOf(source, by) == [i \in 1 .. Len(source) \div by |-> source[by * (i - 1) + 1]]

-----------------------------------------------------------------------------
\* What the callers ask for: every dimension is positive, and a sphere has a layer between
\* its poles.
GeneratedMeshes ==
  [name : {"cylinder"}, base : DOMAIN Circle, height : Nat \ {0}, cap : Nat \ {0}]
  \cup [name : {"sphere"}, meridian : {n \in Nat \ {0, 1} : 2 * n \in DOMAIN Circle}]
  \cup [name : {"cube"}, degree : Nat \ {0}] \cup [name : {"plane"}, half : Nat \ {0}]
  \cup [name : {"cubic"}, x : Nat \ {0}, y : Nat \ {0}, z : Nat \ {0}]
PointModels == [name : {"points"}, by : Nat \ {0}]

\* A file of commands, with the position of every corner.
IsMeshFile(s) ==
  /\ s = [name |-> "file", commands |-> s.commands] /\ Len(s.commands) \in Nat
  /\ s.commands = [l \in 1 .. Len(s.commands) |-> s.commands[l]]
  /\ \A l \in DOMAIN s.commands :
       LET c == s.commands[l]
       IN  /\ c.cmd = "v" => c.value \in [1 .. 3 -> Int]
           /\ c.cmd = "f" => /\ c.corners \in Seq([1 .. 3 -> Int])
                             /\ Len(c.corners) >= VERTICES_PER_TRIANGLE
                             /\ \A k \in DOMAIN c.corners : c.corners[k][1] # Empty

VerticesCount(s) ==
  CASE s.name = "cylinder" -> cylinder_vertices_count(s.base, s.height, s.cap)
    [] s.name = "sphere" -> sphere_vertices_count(s.meridian)
    [] s.name = "cube" -> Len(CUBE_INDICES) * tesselated_vertices_count(s.degree)
    [] s.name = "plane" -> plane_vertices_count(s.half)
    [] s.name = "cubic" -> cubic_vertices_count(s.x, s.y, s.z)

IndicesCount(s) ==
  CASE s.name = "cylinder" -> cylinder_indices_count(s.base, s.height, s.cap)
    [] s.name = "sphere" -> sphere_indices_count(s.meridian)
    [] s.name = "cube" -> Len(CUBE_INDICES) * tesselated_indices_count(s.degree)
    [] s.name = "plane" -> plane_indices_count(s.half)
    [] s.name = "cubic" -> cubic_indices_count(s.x, s.y, s.z)

FirstTurn(s) ==
  CASE s.name = "cylinder" -> [part |-> "side", level |-> 0, step |-> 0]
    [] s.name = "sphere" -> [theta |-> 0, phi |-> 0]
    [] s.name = "cube" -> [face |-> 1, line |-> 0, column |-> 0]
    [] s.name = "plane" -> [i |-> -s.half, j |-> -s.half]
    [] s.name = "cubic" -> [x |-> 0, y |-> 0, z |-> 0]
    [] s.name = "file" -> [line |-> 1, positions |-> <<>>, normals |-> <<>>, cache |-> {},
                           vertex_normals |-> <<>>, failed |-> FALSE]
    [] s.name = "points" -> [line |-> 1]

Generate ==
  \/ CylinderLevel \/ CylinderSideEnd \/ CylinderCenter \/ CylinderJump
  \/ SphereVertex \/ TessellateVertex \/ PlaneVertex \/ CubicVertex
  \/ LoadPosition \/ LoadNormal \/ LoadFace \/ IgnoreLine

\* The loops have run to their ends.
Generated ==
  CASE shape.name = "cylinder" -> loop.part = "bottom" /\ loop.level > levels_count
    [] shape.name = "sphere" -> loop.theta > shape.meridian
    [] shape.name = "cube" -> loop.face > Len(CUBE_INDICES)
    [] shape.name = "plane" -> loop.i > shape.half
    [] shape.name = "cubic" -> loop.z > shape.z
    [] shape.name = "file" -> ~ loop.failed /\ loop.line > Len(shape.commands)
    [] shape.name = "points" -> TRUE

-----------------------------------------------------------------------------
(* IndexedSurface: the triangles of a strip, of which every other one is   *)
(* turned round, or of a list.                                             *)

is_strip == shape.name = "cylinder"

StripTriangleUnturned(i) == <<indices[i], indices[i + 1], indices[i + 2]>>

StripTriangle(i) ==
  IF i % 2 = 1 THEN <<indices[i], indices[i + 1], indices[i + 2]>>
  ELSE <<indices[i + 1], indices[i], indices[i + 2]>>

ListTriangle(i) == [k \in 1 .. VERTICES_PER_TRIANGLE |-> indices[VERTICES_PER_TRIANGLE * (i - 1) + k]]

Triangles ==
  IF shape.name = "cubic" THEN <<>>        \* lines
  ELSE IF is_strip THEN [i \in 1 .. Len(indices) - VERTICES_PER_TRIANGLE + 1 |-> StripTriangle(i)]
  ELSE [i \in 1 .. Len(indices) \div VERTICES_PER_TRIANGLE |-> ListTriangle(i)]
=============================================================================
