\* What the task plan says of a failed open, against what the worker does: one
\* call, one closer, no crash.
SPECIFICATION FairSpec
CONSTANTS
  w1 = w1
  w2 = w2
  r1 = r1
  Jobs = {w1}
  Reads = {}
  Opener = opener
  Closers = {c1}
  STOP = STOP
  NoJob = NoJob
  MaxCrashes = 0
PROPERTIES
  OpenEnds
CHECK_DEADLOCK FALSE
