\* The button "Defaults" switches to the update on the GPU.
CONSTANTS
  MaxSteps = 2
  Inputs = {"defaults"}
SPECIFICATION Spec
INVARIANTS PictureIsCurrent
CHECK_DEADLOCK FALSE
