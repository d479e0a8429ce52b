SPECIFICATION Spec
CONSTANTS
  Writers = {w1, w2}
  MaxChanges = 2
  NONE = NONE
PROPERTIES
  NoLastWriteWins
CHECK_DEADLOCK FALSE
