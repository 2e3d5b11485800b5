\* Three steps, all messages that change what is drawn.
\* The number of steps is bounded, and a failure ends the program.
CONSTANTS
  MaxSteps = 3
  Inputs = {"show", "apply", "defaults", "pause", "step"}
SPECIFICATION Spec
INVARIANTS PictureIsConsistent LocksAreBalanced
CHECK_DEADLOCK FALSE
