SPECIFICATION Spec
CONSTANTS
  Bufs = {m1, m2}
  Byte = {x, y}
  junk = y
  Blocks = {b1, b2, b3}
  NULL = NULL
  MaxSize = 3
  MaxInput = 2
  Headroom = 1
SYMMETRY Symmetry
INVARIANTS SizeIsBlock BlocksOwned
PROPERTIES ImplementsByteString CallsDoAsAsked
