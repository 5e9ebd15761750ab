\* Two users, of whom one submits, two items and two threads.
CONSTANTS
  Items = {i1, i2}
  Users = {u1, u2}
  Submitters = {u1}
  Threads = {t1, t2}
  Nobody = Nobody
  MaxSubmits = 2
  MaxNext = 1
SPECIFICATION Spec
INVARIANTS NeverConcurrent WaitMeansComplete
PROPERTIES Completes
