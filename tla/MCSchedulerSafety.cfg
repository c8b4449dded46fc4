SPECIFICATION Spec
CONSTANTS
  Idle = Idle
  A = A
  B = B
  C = C
  Tasks = {Idle, A, B, C}
  PoolSize = 1
  Rotation = 3
  MaxDue = 1
  StallLimit = 1
  EarlyTicks = 0
  Loads <- SafetyLoads
INVARIANTS OneRunning ListExact  LagBounded
PROPERTIES OthersStayDown
CHECK_DEADLOCK FALSE
