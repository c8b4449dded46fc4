SPECIFICATION FairReaderSpec
CONSTANTS
  NumReplicas = 3
  PerChunk = 1
  RepStep = 4
  SlotCount = 2
  Values = {0, 1}
  Zero = 0
  Failures = {"spawn"}
  MaxTickets = 3
INVARIANTS QuietBetweenReads
PROPERTIES ReadReturnsStored ReadsEnd
CHECK_DEADLOCK FALSE
