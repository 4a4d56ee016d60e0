\* Safety: every interleaving of three calls, their cancellations, one close,
\* a cancelled open and one crash with restart.
SPECIFICATION Spec
CONSTANTS
  w1 = w1
  w2 = w2
  r1 = r1
  Jobs <- AllJobs
  Reads <- OneRead
  Opener = opener
  Closers = {c1}
  STOP = STOP
  NoJob = NoJob
  MaxCrashes = 1
SYMMETRY Writers
INVARIANTS
  AckedIsDurable
  FailureNeverHidden
  OpenLeavesNoWorker
PROPERTIES
  NoWriteAfterReply
  ImplementsSerialStore
\* A program whose calls have all ended stops.
CHECK_DEADLOCK FALSE
