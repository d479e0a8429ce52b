SPECIFICATION FairSpec
CONSTANTS
  Ingesters = {i1}
  Records = {r1, r2}
  Projects = {outer, inner}
  r1 = r1
  r2 = r2
  outer = outer
  inner = inner
  Paths <- FlatPaths
  Targets <- OwnTarget
  BatchSize = 1
  MaxDeferred = 4
  MaxGeneration = 1
  MaxMoves = 1
  MaxFailures = 1
  Runners = {u1}
  Reconciled = {p1}
  Scopes = {s1}
  Identities = {1}
  MaxEvents = 1
  MaxUpgrades = 1
  MaxFaults = 1
  Workers = {w1, w2}
  Proposals = {p1}
  Signatures = {s1}
  Branches = {main, topic}
  MaxCommits = 1
  MaxOwnerEvents = 2
  MaxGitFaults = 2
  NONE = NONE
PROPERTIES
  IngestionProgress
  ReconcileProgress
  ProposalProgress
CHECK_DEADLOCK FALSE
