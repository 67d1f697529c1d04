SPECIFICATION Spec
CONSTANTS
  MaxJobs = 2
  Configs <- MCConfigs
  MaxCalls = 3
  MaxChanges = 3
  MaxFaults = 1
INVARIANTS TypeOK NeverStranded NoJobTwice
PROPERTIES CallsReturn PauseHolds
CHECK_DEADLOCK FALSE
