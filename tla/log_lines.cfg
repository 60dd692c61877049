SPECIFICATION FairSpec
CONSTANTS
  QueueCap = 2
  Lens = {1}
  Kb = 2
  MaxKb = 0
  MaxCount = 2
  AliveDays = 1
  East = 0
  MaxLines = 3
  MaxDay = 3
  MaxRuns = 2
  MaxInits = 2
CHECK_DEADLOCK FALSE
INVARIANTS InOrder NoStaleLines FileBounded
PROPERTIES CleanupBounds LineLeavesQueue
