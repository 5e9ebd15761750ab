SPECIFICATION FairSpec
CONSTANTS
  t1 = t1  t2 = t2  h1 = h1  h2 = h2  a = a  b = b  c = c
  Threads = {t1, t2}
  Handles = {h1, h2}
  HandleOf <- OwnHandles
  Entities = {a, b, c}
  Requests <- Mixed
  Deadlines = {"none", "steady", "utc"}
  TimePasses = TRUE
INVARIANTS NoResidue NeverSleepsHolding
PROPERTIES Refines UtcLockReturns
