SPECIFICATION Spec
CONSTANTS
  i1 = i1  i2 = i2  x1 = x1  x2 = x2  a = a  b = b  c = c
  None = None
  Insts = {i1, i2}
  Indices = {x1, x2}
  Entities = {a, b, c}
  Requests <- CollidingLast
  Slots = {0, 1}
  Hash <- MCHash
  Crashes = TRUE
SYMMETRY Symmetry
INVARIANTS IndexExclusion OneIndex Accounted
