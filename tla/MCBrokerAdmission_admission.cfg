SPECIFICATION Spec
CONSTANTS
  k1 = k1
  k2 = k2
  f1 = f1
  j1 = j1
  j2 = j2
  r1 = r1
  r2 = r2
  i1 = i1
  i2 = i2
  i3 = i3
  None = None
  Keys <- TwoRunKeys
  LiveKeys <- TwoLive
  Jobs <- TwoJobs
  JobOf <- JobsOfKeys
  Runs <- TwoRuns
  Items <- TwoItems
  SpendCap = 1
  DailyLimit = 1
  Ceiling = 1
  Faults = {"crash", "ceiling", "uncancelled", "lost", "degraded", "outlive", "operator", "unsaved"}
SYMMETRY SymmetricRequests
INVARIANTS StartsOnce SlotsCountExecutions QuotasHold TerminalIsAccounted AnswersAreTrue RunningIsAddressable
CHECK_DEADLOCK FALSE
