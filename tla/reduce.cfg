SPECIFICATION FairSpec
CONSTANTS
  top = top  a = a  b = b  f = f  g = g  n = n
  t1 = t1  t2 = t2
  Threads = {t1, t2}
  Dirs = {top, a, b}
  Files = {f, g, n}
  Top = top
  None = none
  Layouts <- Trees
  StuckSets <- Stuck
  Held = {top, b}
  Faults = TRUE
  MaxMoves = 2
INVARIANTS FailsForAReason Tally
PROPERTIES Progress Terminates
