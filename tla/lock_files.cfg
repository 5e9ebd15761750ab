SPECIFICATION FairSpec
CONSTANTS
  i1 = i1  i2 = i2  a = a  b = b
  Nobody = Nobody  Stale = Stale
  Insts = {i1, i2}
  Entities = {a, b}
  Requests <- Crossing
  Crashes = TRUE
INVARIANTS FilesOwned
PROPERTIES Refines TimedLockReturns
