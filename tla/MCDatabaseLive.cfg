\* Liveness: two calls, two callers of close that race each other and the
\* opener.  (A crash ends every call at once, so there is none here.)
SPECIFICATION FairSpec
CONSTANTS
  w1 = w1
  w2 = w2
  r1 = r1
  Jobs = {w1, r1}
  Reads = {r1}
  Opener = opener
  Closers = {c1, c2}
  STOP = STOP
  NoJob = NoJob
  MaxCrashes = 0
PROPERTIES
  CallsEnd
  LifecycleEnds
CHECK_DEADLOCK FALSE
