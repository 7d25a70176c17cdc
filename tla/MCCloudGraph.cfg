CONSTANTS
  Paths = {p1, p2}
  Contents = {x, y}
  NoFile = NoFile
  MaxRevision = 3
  Agents = {a1, a2}
  Browsers = {b1}
  NoIntent = NoIntent
  MaxAttempts = 2
SPECIFICATION Spec
INVARIANT HistoryMatchesFiles
INVARIANT RevisionNamesOneChange
INVARIANT CopyIsCurrentOrRefused
PROPERTY PastIsImmutable
PROPERTY NoBlindSave
PROPERTY ImplementsStore
SYMMETRY Symmetry
CHECK_DEADLOCK FALSE
