SPECIFICATION Spec
CONSTANTS
  TotalClusters = 6
  EntriesPerSector = 4
  a = a
  b = b
  Names = {a, b}
  NoName = NoName
  LfnEntries <- ShortNames
  ClusterSize = 2
  SlotsPerCluster = 1
  WriteSizes = {1, 2}
  MaxSize = 3
  MaxCalls = 4
  Modes = {"r", "rw", "w", "a"}
INVARIANT WritesLand
CHECK_DEADLOCK FALSE
