\* A pop that empties the queue during a push: not a FIFO any more.
CONSTANTS
  Task = {t1, t2}
  Size = 3
  Garbage = Garbage
  NULL = NULL
  Worker = {w1}
SPECIFICATION Spec
PROPERTIES QueueIsFifo
