SPECIFICATION CheckSpec
CONSTANTS
  MaxJobs = 2
  Kinds = {"trades"}
  MaxHash = 3
  MaxAttempts = 2
  StaleAfter = 1
  RequeueDelay = 1
  NotReadyDelay = 1
  ThrottledDelay = 1
  TransientDelay = 1
  UnknownDelay = 1
  Workers = {w1}
  Clients = {}
  ReclaimEvery = 2
  CatchupEnabled = TRUE
  LostAcks = FALSE
  RunLimit = 2
  Grace = 1
  DayLen = 2
  UtcRollover = 3
  MaxDay = 2
  FireAgeCap = 2
  MaxSlot = 0
  MaxApi = 0
  MaxManual = 0
  PollLen = 1
  StaleBeat = 3
  PlanWindow = 1
  Priority <- MCPriority
  Messages <- CoolingMessages
INVARIANTS OkIsTrue FailedIsFinal MissedAgrees SilentMeansAway
