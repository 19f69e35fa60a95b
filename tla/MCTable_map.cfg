SPECIFICATION Spec
CONSTANTS
  Key = {1, 2, 3, 4}
  v1 = v1
  v2 = v2
  Value = {v1, v2}
  NoValue = NoValue
  NLists = 2
  hash_code <- Hash
INVARIANTS TypeOK SizesExact ListsOrdered KeysPlaced
PROPERTY Refinement
