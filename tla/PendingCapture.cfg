SPECIFICATION Spec
CONSTANTS
  Projects = {p1}
  Agents = {codex, chatgpt}
  Codex = codex
  Models = {m1}
  RecordIds = {c1, c2, c3}
  SourceIds = {s1, s2}
  Hashes = {h1}
  Times <- MCTimes
  Window = 0
  Ttl = 1
  MaxPerProject = 2
  MaxGlobal = 2
  MaxHistory = 1
  CleanupBatch = 2
  ExpiryBatch = 1
  MaxMappings = 2
  NONE = NONE
SYMMETRY NameSymmetry
INVARIANTS
  QuarantineSafe
PROPERTIES
  BindingIsForever
  FinalizedWithReason
