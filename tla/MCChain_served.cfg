SPECIFICATION FairSpec
CONSTANTS
  Null = Null
  Freed = Freed
  c1 = c1
  N = 3
  Client <- OneClient
  MaxWrites = 1
  MaxFaults = 1
  Lossy = {3}
  LowestId = 3
CHECK_DEADLOCK FALSE
PROPERTY ClientServed
