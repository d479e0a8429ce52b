SPECIFICATION Spec
CONSTANTS
  Lines <- MCLines
  Scripts <- MCScripts
  Threads <- MCThreads
  Cwds = {"a"}
  Weight <- MCWeight
  MaxContext = 4
  MaxRecord = 1
  MaxNonsemantic = 2
  MaxRead = 3
  MaxRecords = 2
  MaxUnits = 6
  MaxDisturbances = 1
  Importers = {i1, i2}
  Projects = {"inner", "outer"}
  Archives <- MCArchives
  Within <- MCWithin
  MaxGeneration = 1
  MaxMoves = 1
  Inside = {d1, d2, d3, d4}
  Outside = o
  Marked = {o, d1, d2, d3}
  MaxDepth = 2
  IsWorkspace = TRUE
  MaxTreeChanges = 2
  MaxScans = 1
  LinkIn = LinkIn
  LinkOut = LinkOut
  Requests = {r1, r2}
  Files = {f1, f2}
  Nested = {f2}
  MaxCount = 3
  Counts = {1, 2}
  MaxChanges = 1
  NONE = NONE
SYMMETRY MCSymmetry
INVARIANTS ParserIsExact ReceiptsAccount ProbesAreExact
PROPERTIES DecidedByCurrentRegistry FingerprintOfItsPath
CHECK_DEADLOCK FALSE
