CONSTANTS
  f1 = f1
  f2 = f2
  N = 3
  Findings <- MCFindings
  Lanes <- MCLanes
  MaxAttempts = 1
  SpoilAfter = 1
SYMMETRY Symmetry
SPECIFICATION ReconSpec
CHECK_DEADLOCK FALSE
INVARIANTS
  NeverRefused
  HumanNotOverruled
  OrderIndependent
  OwnerReportedFirst
  GatesPass
  WorkIsWhatIsOpen
