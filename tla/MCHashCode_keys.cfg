SPECIFICATION Spec
CONSTANTS
  Digit = {1, 9}
  MaxLen = 5
  HalfInt = 128
  HalfLong = 1024
  NLists = 3
INVARIANTS
  TypeOK
  SumsNumbers
  ListFound
CHECK_DEADLOCK FALSE
