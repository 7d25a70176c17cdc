CONSTANTS
  Paths = {p1, p2}
  Contents = {x, y}
  NoFile = NoFile
  MaxRevision = 4
  MaxEvents = 3
  MaxOfAKind = 1
SPECIFICATION MCSpec
INVARIANT HistoryKeepsObjects
PROPERTY EvictionIsNoDeletion
PROPERTY PruneKeepsEdits
SYMMETRY Symmetry
CHECK_DEADLOCK FALSE
