SPECIFICATION FileSpec
CONSTANTS
  h1 = h1  h2 = h2  mh = mh
  Free = Free  Anon = Anon  Null = Null
  Handles = {h1, mh}
  File = mh
  StartAt = 0
  Reservations = {0, 4}
  Space = {0, 1, 2, 3}
  PageSize = 2
  CacheLimit = 6
  Requests <- Asked
  Sizes = {0, 4}
  Offsets = {2}
  Lengths = {0, 3, 6}
  Faults = TRUE
INVARIANTS Accounted Within
