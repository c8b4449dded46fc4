SPECIFICATION FairHSpec
CONSTANTS
  Capacity = 4
  CascadeMax = 2
  HandleInitial = 2
  HandleMax = 4
  MaxIssued = 3
  SharedObjects = 2
  p = p
  q = q
  Threads = {p, q}
  Anyone = Anyone
  Rights = {"derive", "use"}
  Requests <- SomeRequests
  RootRequests <- SomeRoots
INVARIANTS AuthorityNarrows CascadeComplete HandlesExact
PROPERTY CallsEnd
CHECK_DEADLOCK FALSE
