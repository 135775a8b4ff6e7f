SPECIFICATION FairSpec
CONSTANTS
  t1 = t1
  None = None
  Devices <- OneDevice
  Commands <- OneCommand
  Tokens <- OneToken
  MaxDevices = 1
  MaxEnrollments = 1
  MaxQueued = 1
  Limit = 1
  MaxCrashes = 1
  MaxLosses = 0
  Faults = {"revoke"}
PROPERTY RevokedIsForgotten
CHECK_DEADLOCK FALSE
