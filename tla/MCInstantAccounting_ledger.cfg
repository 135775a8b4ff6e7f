SPECIFICATION FairSpec
CONSTANTS
  i1 = i1  i2 = i2  l1 = l1  l2 = l2  c1 = c1  c2 = c2  k1 = k1  k2 = k2  u1 = u1
  None = None
  ZeroUsage = ZeroUsage
  Invocations <- OneInvocation
  Leases <- TwoLeases
  Codes <- SameCode
  CodeOf <- RenewedCode
  Calls <- TwoCalls
  Usages <- OneUsage
  Lifetime = 1
  StaleAfter = 1
  DeliveryWindow = 1
  Horizon = 2
  HostLoss = TRUE
INVARIANTS ChargeIsProven
PROPERTIES ClosedUnlessStuck ImplementsChargeOnce
CHECK_DEADLOCK FALSE
