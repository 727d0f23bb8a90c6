SPECIFICATION LiveSpec
CONSTANTS
  MaxJobs = 3
  Kinds = {"trades"}
  MaxHash = 3
  MaxAttempts = 1
  StaleAfter = 1
  RequeueDelay = 1
  NotReadyDelay = 1
  ThrottledDelay = 1
  TransientDelay = 1
  UnknownDelay = 1
  Workers = {w1}
  Clients = {}
  ReclaimEvery = 1
  CatchupEnabled = TRUE
  LostAcks = TRUE
  RunLimit = 5
  Grace = 1
  DayLen = 1
  UtcRollover = 1
  MaxDay = 2
  FireAgeCap = 1
  MaxSlot = 1
  MaxApi = 0
  MaxManual = 0
  Priority <- MCPriority
  Messages <- ThrottleMessages
INVARIANTS CatchupOnce
PROPERTIES SlotServed
