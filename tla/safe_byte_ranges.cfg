SPECIFICATION Spec
CONSTANTS
  g1 = g1  g2 = g2  g3 = g3  g4 = g4  h1 = h1  h4 = h4
  t1 = t1  t2 = t2  t3 = t3  t4 = t4  p1 = p1  p2 = p2  a = a  b = b
  Nobody = Nobody
  Guards = {g1, g2, g3, g4, h1, h4}
  Threads = {t1, t2, t3, t4}
  Processes = {p1, p2}
  ThreadOf <- MCThreadOf
  ProcessOf <- MCProcessOf
  Entities = {a, b}
  Workloads <- All
  Deadlines <- SomeDeadlines
  TimePasses = TRUE
INVARIANTS Exclusion Backed Accounted
