\* The discovery round and a fix check, of the same or of different revisions:
\* up to three attempts, two answers to spend on replacements and waivers.
SPECIFICATION RosterSpec
CONSTANTS
  l1 = l1  l2 = l2
  p1 = p1  p2 = p2
  m1 = m1  m2 = m2
  a1 = a1  a2 = a2  a3 = a3
  Lanes = {l1, l2}
  Profiles = {p1, p2}
  Pairs = {m1, m2}
  PairOf <- MCPairOf
  Rounds = {1, 2}
  Revisions = {v1, v2}
  Answers = {a1, a2, a3}
  LaneFailureAnswers = {a1, a2}
  NoAnswer = NoAnswer
  NoLane = NoLane
  Outcomes = {"succeeded", "transient", "failed"}
  MaxGen = 3
  MaxAttempts = 3
SYMMETRY Symmetric
CONSTRAINT StillRunning
INVARIANTS
  DisplacedHasNoOpinion
  QuorumStaysMet
  Independence
  RetriesOnlyFailures
\* A cancelled campaign with every bound reached has nothing left to do.
CHECK_DEADLOCK FALSE
