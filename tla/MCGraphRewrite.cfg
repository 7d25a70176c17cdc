CONSTANTS
  Paths = {p1, p2}
  Contents = {x}
  NoFile = NoFile
  MaxRevision = 2
  Agents = {a1, a2}
  Browsers = {}
  Maintainers = {a1}
  NoIntent = NoIntent
  NoRewrite = NoRewrite
  MaxAttempts = 1
  MaxCalls = 2
SPECIFICATION MCSpec
INVARIANT DamageIsConfined
CHECK_DEADLOCK FALSE
CONSTRAINT Bounded
SYMMETRY PathSymmetry
