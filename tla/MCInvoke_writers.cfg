SPECIFICATION FairSpec
CONSTANTS
  None = None
  t1 = t1
  t2 = t2
  t3 = t3
  k1 = k1
  k2 = k2
  Thread <- ThreeThreads
  Key = {k1, k2}
  Requests <- WritersOnly
  MaxRequests = 2
  Successor = TRUE
  Interrupts = TRUE
  Garbage = {0}
CHECK_DEADLOCK FALSE
INVARIANTS TypeOK SleeperHasWaker WriterExclusion WriteStable ForwardOrder NumOpsExact
PROPERTIES InvokeReturns WritesAtomic
