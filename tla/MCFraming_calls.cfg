SPECIFICATION FairSpec
CONSTANTS
  Op = {"put", "get", "size", "gettable"}
  RequestLens = {1, 3}
  ReplyLens = {2, 5, 8, 10}
  Half = 4
  MaxCalls = 2
INVARIANTS
  TypeOK
  InventedLast
PROPERTIES
  CallsInStep
  CallEnds
  ThreadEnds
CHECK_DEADLOCK FALSE
