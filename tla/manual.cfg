SPECIFICATION LiveSpec
CONSTANTS
  MaxJobs = 2
  Kinds = {"trades"}
  MaxHash = 2
  MaxAttempts = 2
  StaleAfter = 1
  RequeueDelay = 1
  NotReadyDelay = 1
  ThrottledDelay = 1
  TransientDelay = 1
  UnknownDelay = 1
  Workers = {w1}
  Clients = {c1}
  ReclaimEvery = 1
  CatchupEnabled = FALSE
  LostAcks = TRUE
  RunLimit = 5
  Grace = 1
  DayLen = 2
  UtcRollover = 2
  MaxDay = 1
  FireAgeCap = 0
  MaxSlot = 0
  MaxApi = 1
  MaxManual = 1
  Priority <- MCPriority
  Messages <- JoinedMessages
INVARIANTS DoneImpliesLanded FreshnessTruthful
PROPERTIES EveryJobSettles
