SPECIFICATION FairSpec
CONSTANTS
  p1 = p1  p2 = p2  p3 = p3  q1 = q1
  None = None
  Threads <- AllThreads
  Legacy <- OneLegacy
  Tenants = {"a", "b", "c"}
  Ceilings = {1, 2}
INVARIANTS PermitsBalance TicketsMatchWaiters NoIdlePermit
PROPERTIES TurnsRotate TicketsAnswered
