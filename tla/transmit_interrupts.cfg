SPECIFICATION FairSpec
CONSTANTS
  NumCtx = 3
  Mutex = FALSE
  Nested = TRUE
  UncheckedRespond = FALSE
  SendBufLen = 4
  HeadLen = 2
  CksumLen = 2
  Lens = {0, 3}
  MultiLens = {1, 3}
  IdMod = 2
  MaxFrames = 3
CHECK_DEADLOCK FALSE
INVARIANTS OneSender FramesIntact LockHasOwner
PROPERTY LockReleased
