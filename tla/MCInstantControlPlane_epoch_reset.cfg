SPECIFICATION Spec
CONSTANTS
  h1 = h1  h2 = h2  t1 = t1  t2 = t2  s1 = s1  s2 = s2  w1 = w1  w2 = w2  c1 = c1  c2 = c2  c3 = c3
  None = None
  Hosts <- OneHost
  Slots <- TwoSlots
  HostOf <- OnOneHost
  Sessions <- OneSession
  Workers <- OneWorker
  Claims <- ThreeClaims
  Requests = {"assign", "rebind", "release"}
  Faults = {}
  SingleFlight = TRUE
  MaxEpoch = 2
  MaxSeq = 2
  MaxHostEpoch = 1
SYMMETRY Interchangeable
PROPERTY BindingEpochGrows
CHECK_DEADLOCK FALSE
