SPECIFICATION Spec
CONSTANTS
  MaxJobs = 2
  Kinds = {"trades"}
  MaxHash = 2
  MaxAttempts = 2
  StaleAfter = 1
  RequeueDelay = 1
  NotReadyDelay = 1
  ThrottledDelay = 2
  TransientDelay = 1
  UnknownDelay = 1
  Workers = {w1, w2}
  Clients = {}
  ReclaimEvery = 1
  CatchupEnabled = FALSE
  LostAcks = FALSE
  RunLimit = 1
  Grace = 1
  DayLen = 2
  UtcRollover = 2
  MaxDay = 1
  FireAgeCap = 0
  MaxSlot = 0
  MaxApi = 2
  MaxManual = 0
  Priority <- MCPriority
  Messages <- ThrottleMessages
INVARIANTS HeldJobRunning
