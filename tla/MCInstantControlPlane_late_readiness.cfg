SPECIFICATION Spec
CONSTANTS
  h1 = h1  h2 = h2  t1 = t1  t2 = t2  s1 = s1  s2 = s2  w1 = w1  w2 = w2  c1 = c1  c2 = c2  c3 = c3
  None = None
  Hosts <- OneHost
  Slots <- TwoSlots
  HostOf <- OnOneHost
  Sessions <- OneSession
  Workers <- OneWorker
  Claims <- TwoClaims
  Requests = {"assign"}
  Faults = {"late_readiness"}
  SingleFlight = TRUE
  MaxEpoch = 2
  MaxSeq = 2
  MaxHostEpoch = 2
SYMMETRY Interchangeable
INVARIANT ReadyIsUnclaimed
CHECK_DEADLOCK FALSE
