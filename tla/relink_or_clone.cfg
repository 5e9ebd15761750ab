SPECIFICATION FairSpec
CONSTANTS
  Src = src  Temp = temp  Temp2 = temp2  user = user  None = none  Blank = blank
  d1 = d1  d2 = d2  a = a  r = r  s = s  f = f  g = g  t = t
  Handles = {src, temp, temp2, user}
  Users = {user}
  Dirs = {d1, d2}
  Labels = {1, 2, 3}
  Leaves = {a, r, s}
  Randoms = {r, s}
  Inodes = {f, g, t}
  Volume <- Volumes
  Home <- Homes
  Originals <- Layouts
  NoReplace = {1}
  MaxMoves = 2
  Restless = FALSE
  Deadlines = {TRUE}
  MaxJobs = 1
CHECK_DEADLOCK FALSE
INVARIANTS NoLoss
PROPERTIES MovedOnce NeverReplaces CallsReturn
