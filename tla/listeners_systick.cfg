SPECIFICATION Spec
CONSTANTS
  NumId = 2
  NumType = 1
  NumGeneric = 1
  Ids = {1}
  Types = {t1}
  Callbacks = {g1}
  Userdata = {u1, u2}
  Null = Null
  MaxTimeout = 1
  TickPreempts = TRUE
  SelfRemove = FALSE
INVARIANT UserdataAccounted
