SPECIFICATION Spec
CONSTANTS
  Workers = {w1, w2}
  Proposals = {p1, p2}
  Signatures = {s1, s2}
  Branches = {main, topic}
  MaxCommits = 1
  MaxEvents = 2
  MaxFaults = 2
  NONE = NONE
SYMMETRY WorkerSymmetry
INVARIANTS
  OneActivePerSignature
  OnlyApprovedRuns
  
CHECK_DEADLOCK FALSE
