SPECIFICATION Spec
CONSTANTS
  Projects = {"p"}
  Namespaces = {"n"}
  Sources <- MCSources
  Compactors = {c1, c2}
  Size <- MCSize
  Signature <- MCSignature
  InactiveDays = 1
  SourceLimit = 3
  MaxEntry = 2
  MaxText = 4
  MaxClock = 2
  MaxGap = 0
  MaxPrepared = 1
  MaxOwner = 1
  Scanners = {s1, s2}
  Directories = {d1, d2}
  Promotions = {p1}
  MaxFactClock = 2
  MaxChanges = 1
  Rows = {1, 2, 3}
  Kinds = {"current", "method", "background"}
  Lengths = {1, 4}
  Tasks <- MCTasks
  SourceOf <- MCSourceOf
  Budget = 6
  CandidateLimit = 2
  Wide = 2
  MaxShortened = 3
  MaxEvents = 1
  Items = {i1, i2, i3}
  MaxItems = 2
  MaxRetryClock = 6
  NONE = NONE
SYMMETRY MCSymmetry
INVARIANTS MemoriesAreKept CurrentIsLatest BriefAsCounted
PROPERTIES ReadWhereRegistered  QueueDiscipline
CHECK_DEADLOCK FALSE
