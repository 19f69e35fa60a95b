SPECIFICATION FairSpec
CONSTANTS
  c1 = c1
  c2 = c2
  c3 = c3
  Conn <- Conns
  MaxFd = 2
  MaxFails = 1
  Garbage <- MCGarbage
  None = None
INVARIANTS
  TypeOK
  OwnThread
  ClientsCounted
PROPERTIES
  CutsNobody
  Admitted
  DescriptorsReturn
CHECK_DEADLOCK FALSE
