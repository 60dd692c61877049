SPECIFICATION FairSpec
CONSTANTS
  MsgTypes = {"REQUEST", "RESPONSE", "other"}
  MaxCalls = 3
  MaxInits = 2
  MaxReplies = 3
  MaxEvents = 1
CHECK_DEADLOCK FALSE
PROPERTIES NoStaleAnswer CallReturnsUnlessLost
