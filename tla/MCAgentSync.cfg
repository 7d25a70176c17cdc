CONSTANTS
  Paths = {p1, p2}
  Contents = {x, y}
  NoFile = NoFile
  MaxRevision = 4
  BuildsOn = {}
  MaxJournal = 2
  NoGraph = NoGraph
  MaxEdits = 3
  MaxEvents = 4
SPECIFICATION MCSyncSpec
INVARIANT ManifestTellsHistory
INVARIANT AcknowledgedIsRecorded
PROPERTY ReplayKeepsNewerVersions
PROPERTY RefreshKeepsLocalEdits
PROPERTY DroppedOnlyBehindOpenEntry
PROPERTY SyncImplementsStore
SYMMETRY Symmetry
CHECK_DEADLOCK FALSE
