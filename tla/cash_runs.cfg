SPECIFICATION LiveSpec
CONSTANTS
  Kind = "cash"
  Accounts = {a1, a2}
  Traders = {a1, a2}
  Runners = {r1, r2}
  DefaultDays = 1
  InitDays = 3
  IbSpan = 8
  ChunkSpan = 6
  QueryDays = 2
  Fallbacks = {FALSE}
  Seeded = TRUE
  FirstDay = 4
  MaxToday = 5
  Explicit <- ScheduledOnly
INVARIANTS NoGap DoneIsComplete
PROPERTIES EverythingLands
