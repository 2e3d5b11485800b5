\* reset() after the last task was popped hands nothing back.
CONSTANTS
  Task = {t1, t2}
  Size = 1
  Garbage = Garbage
  NULL = NULL
  Worker = {w1}
SPECIFICATION Spec
PROPERTIES ResetReturnsPopped
