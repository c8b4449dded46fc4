SPECIFICATION WheelSpec
CONSTANTS
  TW_LEVELS = 3
  TW_SLOTS = 2
  TW_MAX_ENTRIES = 3
  MaxDue = 1
  Deltas = {0, 1, 3, 4, 8, 9}
  MaxNow = 9
  MaxInside = 2
  Windows = {"tested", "placed"}
 
PROPERTIES ImplementsQueue
CHECK_DEADLOCK FALSE
