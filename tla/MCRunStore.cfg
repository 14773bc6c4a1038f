SPECIFICATION Spec
CONSTANTS
  Procs = {p1, p2, p3}
  MaxSecond = 2
  MaxStops = 1
SYMMETRY Symmetric
INVARIANTS
  TypeOK
  SyntheticStaysPrivate
  HistoryKeepsEveryRun
  SnapshotIsTheLastRun
  HistoryIsBacked
PROPERTIES
  LatestNeverGoesBack
CHECK_DEADLOCK FALSE
