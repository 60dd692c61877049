SPECIFICATION Spec
CONSTANTS
  Trees = {a, b}
  Second = b
  Setups <- Programs
  ValOf <- Vals
  MaxRoom = 3
INVARIANTS NoBug SearchesAgree SearchOrder NoLeak
PROPERTY ImplementsOrderedMap
