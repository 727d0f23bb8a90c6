SPECIFICATION Spec
CONSTANTS
  Kind = "cash"
  Accounts = {a1, a2}
  Traders = {a1, a2}
  Runners = {r1}
  DefaultDays = 1
  InitDays = 3
  IbSpan = 8
  ChunkSpan = 6
  QueryDays = 2
  Fallbacks = {FALSE}
  Seeded = FALSE
  FirstDay = 2
  MaxToday = 4
  Explicit <- ScheduledOnly
INVARIANTS DoneIsComplete
