SPECIFICATION FairSpec
CONSTANTS
  t1 = t1
  None = None
  Devices <- OneDevice
  Commands <- TwoCommands
  Tokens <- OneToken
  MaxDevices = 1
  MaxEnrollments = 1
  MaxQueued = 2
  Limit = 2
  MaxCrashes = 0
  MaxLosses = 0
  Faults = {}
PROPERTY PollsContinue
CHECK_DEADLOCK FALSE
