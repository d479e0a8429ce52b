SPECIFICATION FairSpec
CONSTANTS
  Ingesters = {i1}
  Records = {r1, r2}
  Projects = {outer, inner}
  r1 = r1
  r2 = r2
  outer = outer
  inner = inner
  Paths <- FlatPaths
  Targets <- OwnTarget
  BatchSize = 1
  MaxDeferred = 4
  MaxGeneration = 0
  MaxMoves = 0
  MaxFailures = 0
  Runners = {u1}
  Reconciled = {p1}
  Scopes = {s1}
  Identities = {1}
  MaxEvents = 0
  MaxUpgrades = 0
  MaxFaults = 0
  Workers = {w1}
  Proposals = {p1}
  Signatures = {s1}
  Branches = {main, topic}
  MaxCommits = 1
  MaxOwnerEvents = 0
  MaxGitFaults = 1
  NONE = NONE
PROPERTIES RemainsRecoverable
CHECK_DEADLOCK FALSE
