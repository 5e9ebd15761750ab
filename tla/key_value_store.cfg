SPECIFICATION FairSpec
CONSTANTS
  p1 = p1  p2 = p2  Nobody = Nobody
  Procs = {p1, p2}
  Keys = {1, 2}
  Capacity = 2
  Depth = 2
  MaxFiles = 2
  MaxCalls = 4
  Mappers = {p2}
  Calls <- Mixed
  MaxCrashes = 1
  OpenSerially = TRUE
CHECK_DEADLOCK FALSE
INVARIANTS Serialised UpdatesBased RecordsIntact
PROPERTY CommitReturns
