SPECIFICATION Spec
CONSTANTS
  Null = Null
  Freed = Freed
  c1 = c1
  N = 3
  Client <- OneClient
  MaxWrites = 2
  MaxFaults = 1
  Lossy = {3}
  LowestId = 4
CHECK_DEADLOCK FALSE
INVARIANTS TypeOK ForwardUp DoneMeansPeer NoDeadSuccessor FollowsHead NoMissedChange
