CONSTANTS
  Paths = {x, y}
  Contents = {A}
  NoFile = NoFile
  Clients = {a, b}
  Requesters = {a, b}
  Shared = {x}
  MaxRevision = 3
  MaxProposals = 2
  MaxDecisions = 1
  MaxWork = 4
SPECIFICATION MCSpec
CONSTRAINT UpToDate
SYMMETRY Symmetry
INVARIANT MergedWasLanded
PROPERTY OnlyApprovedPinsLand
PROPERTY NoneIsTakenUpAgain
CHECK_DEADLOCK FALSE
