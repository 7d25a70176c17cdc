CONSTANTS
  MaxRevision = 2
  MaxRotations = 1
  MaxDrops = 2
  MaxDeaths = 1
  MaxEdits = 1
SPECIFICATION MCSpec
INVARIANT UpToDateAtRest
INVARIANT AppliedIsHeld
PROPERTY HeadIsReached
CHECK_DEADLOCK FALSE
