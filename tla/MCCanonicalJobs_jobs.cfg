SPECIFICATION FairSpec
CONSTANTS
  j1 = j1
  j2 = j2
  w1 = w1
  w2 = w2
  None = None
  Editor = Editor
  Jobs <- TwoJobs
  KindsOf <- AnyThenCommit
  Workers <- TwoWorkers
  MaxAttempts = 2
  MaxPolls = 1
  MaxVersions = 2
  MaxFence = 2
  Async = TRUE
  Faults = {"heartbeat", "stall", "crash", "database", "cloud", "grant", "age", "downgrade", "delete"}
INVARIANTS AskedOnce OutputIffSucceeded HistoryIsLinear CommitsItsProposal
PROPERTIES JobsSettle
CHECK_DEADLOCK FALSE
