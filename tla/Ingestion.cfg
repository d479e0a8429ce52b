SPECIFICATION Spec
CONSTANTS
  Ingesters = {i1, i2}
  Records = {r1, r2}
  Projects = {outer, inner}
  r1 = r1
  r2 = r2
  outer = outer
  inner = inner
  Paths <- NestedPaths
  Targets <- AnyTarget
  BatchSize = 2
  MaxDeferred = 1
  MaxGeneration = 1
  MaxMoves = 2
  MaxFailures = 1
  NONE = NONE
SYMMETRY IngesterSymmetry
CONSTRAINT MovesBesideOnePass
INVARIANTS
  Handled
PROPERTIES
  CheckpointForward
  DecidedByCurrentRegistry
  NothingUndone
  ImplementsLedger
