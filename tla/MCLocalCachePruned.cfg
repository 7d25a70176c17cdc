CONSTANTS
  Paths = {p1, p2}
  Contents = {x, y}
  NoFile = NoFile
  MaxRevision = 4
  MaxEvents = 1
  MaxOfAKind = 1
SPECIFICATION MCSpec
PROPERTY PrunedStaysInCloud
SYMMETRY Symmetry
CHECK_DEADLOCK FALSE
