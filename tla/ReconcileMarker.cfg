SPECIFICATION Spec
CONSTANTS
  Runners = {r1}
  Projects = {p1}
  Scopes = {s1}
  Identities = {1, 2}
  MaxEvents = 2
  MaxUpgrades = 0
  MaxFaults = 0
  NONE = NONE
PROPERTIES
  NewMarkerKept
CHECK_DEADLOCK TRUE
