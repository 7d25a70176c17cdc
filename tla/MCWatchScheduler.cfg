CONSTANTS
  Wait = 2
  MaxDelay = 3
  Cooldown = 2
  Off = Off
SPECIFICATION MCSpec
INVARIANT IdleMeansTaken
INVARIANT TriggerWillRun
INVARIANT HeldAtMostCap
PROPERTY EveryChangeIsTaken
PROPERTY HeadIsFollowed
