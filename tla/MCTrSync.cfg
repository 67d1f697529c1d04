SPECIFICATION FairSpec
CONSTANTS
  N = 2
  Timeout = 6
  Report = 2
  MinExtend = 2
  Latency = 1
  MoveEnd = 2
  MaxTime = 12
  MaxFaults = 1
INVARIANTS TypeOK StopsInTime NoFalseTimeout HomedIsTrue
PROPERTY HomingEnds
CHECK_DEADLOCK FALSE
