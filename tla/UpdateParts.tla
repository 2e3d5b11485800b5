------------------------------ MODULE UpdateParts ------------------------------
(***************************************************************************)
(* How Core/model.cpp cuts an update of the graphical vertices into parts: *)
(* the check of the arguments, which the caller makes for the whole range  *)
(* and every task again for its part, and the range of each part.          *)
(***************************************************************************)
EXTENDS Integers

CONSTANTS
  UpdateTasksNum,   \* update_tasks_num, the number of parts
  VerticesNum       \* graphical_vertices.size()

ASSUME UpdateTasksAssumption == UpdateTasksNum \in Nat \ {0}
ASSUME VerticesAssumption == VerticesNum \in Nat \ {0}

Part == 0 .. UpdateTasksNum - 1
Vertex == 0 .. VerticesNum - 1
ALL_VERTICES == -1

\* What process_update_vertices_args() makes of a range, and whether it
\* accepts it; `compatible' is the verdict on the layout of the vertices.
ArgsStart(start, num) == IF num = ALL_VERTICES THEN 0 ELSE start

ArgsNum(start, num) ==
  IF num = ALL_VERTICES THEN VerticesNum
  ELSE IF num > VerticesNum - start THEN VerticesNum - start ELSE num

ArgsAccepted(start, num, compatible) ==
  ArgsStart(start, num) \in Vertex /\ compatible

part_size(num) == num \div UpdateTasksNum

\* Variant that forgets the remainder.
last_part_truncated(num) == part_size(num)

last_part_size(num) == num - part_size(num) * (UpdateTasksNum - 1)

\* The range that task i gets, and the vertices it goes through.
my_start_vertex(start, num, i) == start + i * part_size(num)
my_vertices_num(num, i) ==
  IF i < UpdateTasksNum - 1 THEN part_size(num) ELSE last_part_size(num)

VerticesFrom(start, num) == start .. start + num - 1

\* A task checks its own range again before it goes through it.
PartVertices(start, num, i) ==
  LET s == my_start_vertex(start, num, i)
      n == my_vertices_num(num, i)
  IN  VerticesFrom(ArgsStart(s, n), ArgsNum(s, n))
=============================================================================
