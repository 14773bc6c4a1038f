SPECIFICATION Spec
CONSTANTS
  Procs = {p1, p2}
  MaxSecond = 2
  MaxStops = 0
INVARIANT InconclusiveStaysPrivate
CHECK_DEADLOCK FALSE
