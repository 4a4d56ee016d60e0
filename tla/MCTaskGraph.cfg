CONSTANTS
  Names <- MCNames
  MaxEdges = 5
  MaxIssues = 3
  MaxBytes = 4
  MaxCycleNodes = 2
SPECIFICATION GraphSpec
CHECK_DEADLOCK FALSE
INVARIANTS
  CycleIsReal
  NoCycleMissed
  CycleIsTold
