SPECIFICATION FairSpec
CONSTANTS
  NumId = 2
  NumType = 1
  NumGeneric = 1
  Ids = {1, 2}
  Types = {t1}
  Callbacks = {g1}
  Userdata = {u1, u2}
  Null = Null
  MaxTimeout = 2
  TickPreempts = FALSE
  SelfRemove = FALSE
INVARIANTS CountsCoverLive NoListenerSkipped UserdataAccounted
PROPERTY TimedListenerExpires
