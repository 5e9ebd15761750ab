\* Two threads and a tree of six directories, any of which may be passed over.
CONSTANTS
  WorkerThreads = {T1, T2}
  Main = Main
  Nobody = Nobody
  r = r  a = a  b = b  c = c  d = d  e = e
  Root = r
  Directories <- MCDirs
  Subdirs <- MCSubdirs
  FirstRuns = 1
  MayFail = TRUE
SPECIFICATION TraverseSpec
INVARIANTS Complete Quiescent
PROPERTIES TraverseReturns
