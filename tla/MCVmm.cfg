SPECIFICATION Spec
CONSTANTS
  NFrames = 5
  Reserved = {0}
  a = a
  b = b
  d = d
  t1 = t1
  t2 = t2
  None = None
  VAs = {a, b, d}
  Demand = {d}
  Tables = {t1, t2}
  Path <- Paths
  RefMax = 9
  NSlots = 1
  Values = {0, 1}
  Evictors = {1}
  EvictShared = FALSE
  Budgets <- Mixed
INVARIANTS RefsExact WritableAlone StoresKept OneFault
PROPERTY PanicsOnlyWhenFull
CHECK_DEADLOCK FALSE
