SPECIFICATION Spec
CONSTANTS
  j1 = j1
  j2 = j2
  w1 = w1
  w2 = w2
  None = None
  Editor = Editor
  Jobs <- TwoJobs
  KindsOf <- OnlyProposal
  Workers <- TwoWorkers
  MaxAttempts = 2
  MaxPolls = 1
  MaxVersions = 1
  MaxFence = 1
  Async = TRUE
  Faults = {"grant"}
PROPERTIES CustodyResumes
CHECK_DEADLOCK FALSE
