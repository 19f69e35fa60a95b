SPECIFICATION Spec
CONSTANTS
  Null = Null
  Freed = Freed
  c1 = c1
  N = 2
  Client <- OneClient
  MaxWrites = 1
  MaxFaults = 0
  Lossy = {}
  LowestId = 3
CHECK_DEADLOCK FALSE
INVARIANT AckedVisible
