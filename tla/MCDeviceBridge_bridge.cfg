SPECIFICATION FairSpec
CONSTANTS
  t1 = t1
  None = None
  Devices <- TwoDevices
  Commands <- TwoCommands
  Tokens <- OneToken
  MaxDevices = 1
  MaxEnrollments = 1
  MaxQueued = 2
  Limit = 2
  MaxCrashes = 1
  MaxLosses = 1
  Faults = {"revoke", "uninstall"}
INVARIANTS RevokedIsQuiet OwnResults DeliveredIsNew
PROPERTIES PollsUnlessBlocked RevokedIsWiped
CHECK_DEADLOCK FALSE
