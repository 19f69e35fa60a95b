SPECIFICATION Spec
CONSTANTS
  None = None
  t1 = t1
  t2 = t2
  t3 = t3
  k1 = k1
  k2 = k2
  Thread <- TwoThreads
  Key = {k1, k2}
  Requests <- PutCopy
  MaxRequests = 2
  Successor = FALSE
  Interrupts = FALSE
  Garbage = {0}
CHECK_DEADLOCK FALSE
INVARIANT InvokeCompletes
