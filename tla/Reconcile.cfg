SPECIFICATION Spec
CONSTANTS
  Runners = {r1, r2}
  Projects = {p1}
  Scopes = {s1}
  Identities = {1, 2}
  MaxEvents = 2
  MaxUpgrades = 2
  MaxFaults = 1
  NONE = NONE
SYMMETRY RunnerSymmetry
INVARIANTS
  MarkersKept
PROPERTIES
  
  LateMarkerKept
CHECK_DEADLOCK TRUE
