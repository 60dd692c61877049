SPECIFICATION ListSpec
CONSTANTS
  NumNodes = 4
  Seqs = {1, 2}
CHECK_DEADLOCK FALSE
INVARIANTS NoWildAccess PointersFormList
