SPECIFICATION Spec
CONSTANTS
  Kind = "cash"
  Accounts = {a1, a2}
  Traders = {a1}
  Runners = {r1}
  DefaultDays = 1
  InitDays = 3
  IbSpan = 2
  ChunkSpan = 1
  QueryDays = 2
  Fallbacks = {FALSE, TRUE}
  Seeded = FALSE
  FirstDay = 2
  MaxToday = 4
  Explicit <- SomeWindows
INVARIANTS TypeOK CleanRunCovers RequestsAccepted
