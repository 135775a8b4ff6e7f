CONSTANTS
  None = None
  a1 = a1
  a2 = a2
  i1 = i1
  i2 = i2
  Threads = {t1, t2}
  Pool = 1
  Assignments = {a1, a2}
  Invocations = {i1, i2}
  Sessions = {"s1", "s2"}
  SessionOf <- SessionsApart
  MaxSeq = 1
  ReleaseWaits = TRUE
  MaxRequests = 4
  MaxRuns = 1
  Operations = {"assign", "release", "invoke"}
  Faults = {"slow"}
SPECIFICATION Spec
INVARIANT FreshChild
CHECK_DEADLOCK FALSE
