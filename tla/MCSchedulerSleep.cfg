SPECIFICATION FairSpec
CONSTANTS
  Idle = Idle
  A = A
  B = B
  C = C
  Tasks = {Idle, A, B, C}
  PoolSize = 1
  Rotation = 3
  MaxDue = 1
  StallLimit = 1
  EarlyTicks = 1
  Loads <- SleepLoads
PROPERTIES SleepEnds
CHECK_DEADLOCK FALSE
