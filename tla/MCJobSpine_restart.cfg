SPECIFICATION Spec
CONSTANTS
  j1 = j1
  w1 = w1
  w2 = w2
  None = None
  Jobs <- OneJob
  Workers <- TwoWorkers
  MaxAttempts = 2
  MaxInflight = 1
  MaxReaps = 2
  MaxCrashes = 2
  Faults = {"close", "crash", "stall", "unreachable", "callback"}
INVARIANTS RestartKeepsCancel
CHECK_DEADLOCK FALSE
