CONSTANTS
  Procs = {p1, p2, p3}
  NoLock = NoLock
SPECIFICATION MCLockSpec
INVARIANT LiveExclusion
INVARIANT TakeoverExcludes
PROPERTY FolderStaysUsable
CHECK_DEADLOCK FALSE
