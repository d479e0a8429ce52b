SPECIFICATION Spec
CONSTANTS
  old = old
  new = new
  v1 = v1
  v2 = v2
  a = a
  b = b
  Processes = {old, new}
  Known <- MCKnown
  Readers = {r1}
  Pages = {p1, p2}
  MaxWrites = 1
  MaxCrashes = 1
  Writers = {w1, w2}
  Installers = {a, b}
  Launcher <- MCLauncher
  Texts = {t}
  MaxChanges = 3
  MaxLine = 1
  Items = {"x"}
  MaxLines = 3
  Servers = {main, other}
  Main = main
  Requests = {q1, q2}
  MaxSessions = 1
  MaxChunks = 1
  MaxMade = 2
  Timeout = 2
  MaxOutput = 2
  MaxInput = 2
  PipeSize = 1
  Builders = {b1, b2}
  MaxFaults = 1
  MaxSwaps = 2
  Strays = {d, f}
  Worktrees = {m}
  Directories = {d, m}
  MaxMeddling = 2
  NONE = NONE
SYMMETRY MCSymmetry
INVARIANTS
  MigratedOnce ReportedSurvives OneAnswerPerLine
  BoundaryHolds ProcessIsBounded SnapshotAllOrNothing CleanupHolds
PROPERTIES AcceptsCommitted SavesKeepOthers OwnerTextKept 
CHECK_DEADLOCK FALSE
