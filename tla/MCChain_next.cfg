SPECIFICATION Spec
CONSTANTS
  Null = Null
  Freed = Freed
  c1 = c1
  N = 3
  Client <- NoClient
  MaxWrites = 0
  MaxFaults = 0
  Lossy = {}
  LowestId = 4
CHECK_DEADLOCK FALSE
INVARIANT SuccessorIsNext
