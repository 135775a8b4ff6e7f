SPECIFICATION Spec
CONSTANTS
  k1 = k1
  k2 = k2
  f1 = f1
  j1 = j1
  j2 = j2
  r1 = r1
  r2 = r2
  i1 = i1
  i2 = i2
  i3 = i3
  None = None
  Keys <- TwoRunsAndFallback
  LiveKeys <- TwoLive
  Jobs <- TwoJobs
  JobOf <- JobsOfKeys
  Runs <- TwoRuns
  Items <- TwoItems
  SpendCap = 3
  DailyLimit = 3
  Ceiling = 1
  Faults = {"ceiling", "uncancelled"}
SYMMETRY Symmetric
INVARIANTS InFlightWithinCeiling
CHECK_DEADLOCK FALSE
