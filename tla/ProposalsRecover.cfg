SPECIFICATION Spec
CONSTANTS
  Workers = {w1}
  Proposals = {p1}
  Signatures = {s1}
  Branches = {main, topic}
  MaxCommits = 1
  MaxEvents = 1
  MaxFaults = 1
  NONE = NONE
PROPERTIES
  RecoverCleansUp
CHECK_DEADLOCK FALSE
