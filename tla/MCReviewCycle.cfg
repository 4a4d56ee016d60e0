SPECIFICATION FairCycleSpec
CONSTANTS
  Cap = 2
  MaxExtra = 1
  MaxFindings = 2
INVARIANTS
  CheckAccepted
  DisputesReachHuman
  NothingForgotten
PROPERTIES KeepsContract CycleEnds
CHECK_DEADLOCK FALSE
