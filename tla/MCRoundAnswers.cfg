CONSTANTS
  f1 = f1
  f2 = f2
  l1 = l1
  l2 = l2
  Findings <- MCFindings
  Lanes <- MCLanes
  Severities <- MCSeverities
  Owners <- MCOwners
  AuthorSays <- MCAuthorSays
  MaxRounds = 2
  MaxMoves = 2
SPECIFICATION AnswersSpec
CHECK_DEADLOCK FALSE
INVARIANTS
  AcceptedIsWritable
  OnlyOwnersAreWaitedFor
  InheritedWithinPeriod
