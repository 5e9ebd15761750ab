SPECIFICATION FairSpec
CONSTANTS
  i1 = i1  i2 = i2  i3 = i3  a = a  b = b
  Nobody = Nobody  Dead = Dead
  Insts = {i1, i2}
  Entities = {a, b}
  Requests <- Overlapping
  Deadlines = {"none", "steady"}
  Spins = {TRUE, FALSE}
  SkipHashing = FALSE
  BumpEvery = 2
  BufRecords = 2
  MaxRecords = 3
  OpenFirst = TRUE
  MayFail = {i1, i2}
CHECK_DEADLOCK FALSE
INVARIANTS NoOvertaking KnownGood NoOrphan
PROPERTIES Refines LockReturns
