\* Up to two threads of the pool, two clients and four submissions.
CONSTANTS
  PoolThreads = {t1, t2}
  Clients = {c1, c2}
  MaxItems = 4
  Faults = TRUE
SPECIFICATION PoolSpec
INVARIANTS Accounted
PROPERTIES WorkIsDone
CHECK_DEADLOCK FALSE
