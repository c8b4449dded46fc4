SPECIFICATION FairSpec
CONSTANTS
  Capacity = 2
  MaxSent = 20
  UartDepth = 2
  Writers = {"console", "other"}
  Poller = "console"
  TxSize = 3
  DrainLimit = 2
  Loads <- MixedLoads
INVARIANTS InputIntact OverfullByOne SentInOrder
PROPERTIES InputEnds Flushes
