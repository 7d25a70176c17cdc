CONSTANTS
  u = u
  v = v
  Tabs <- MCTabs
  MaxProjects = 2
  Nobody = Nobody
  MaxApprovals = 2
SPECIFICATION MCSpec
INVARIANT HandedTokensWork
INVARIANT HandedWhole
PROPERTY ApprovingEnds
CHECK_DEADLOCK FALSE
