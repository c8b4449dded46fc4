SPECIFICATION FairSpec
CONSTANTS
  MaxOps = 2
  Capacity = 4
  MaxTxn = 4
  MaxCrash = 2
  MaxRot = 1
INVARIANTS Atomicity AppliedUndamaged
  
CHECK_DEADLOCK FALSE
