CONSTANTS
  MaxJobs = 2
  MaxRequeues = 1
  Runners = {r1, r2}
  Nobody = Nobody
SPECIFICATION MCSpec
INVARIANT CheckStaysTrue
PROPERTY ImplementsQueue
PROPERTY QueuedIsServed
CHECK_DEADLOCK FALSE
