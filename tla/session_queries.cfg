SPECIFICATION SFairSpec
CONSTANTS
  NumId = 2
  NumType = 0
  NumGeneric = 0
  Ids <- IdSet
  Types = {t1}
  Callbacks = {}
  Userdata <- Numbers
  Null = Null
  MaxTimeout = 2
  TickPreempts = FALSE
  SelfRemove = FALSE
  IdMod = 2
  MaxQueries = 3
  MaxAnswers = 2
INVARIANTS AnswerIsOwn DroppedIsLate TimeoutCounts
PROPERTIES ImplementsRequestReply QueryEnds
