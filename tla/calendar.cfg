SPECIFICATION Spec
CONSTANTS
  MinuteLen = 2
  HourLen = 2
  DayHours = 8
  StdOffset <- MCStdOffset
  DstOffset <- MCDstOffset
  DstStart = 326
  DstEnd = 436
  LookbackDays = 14
  HorizonDays = 14
  Crons <- MCCrons
  FirstDay = 18
  LastDay = 29
  Grace = 3
  PassEvery = 8
  MaxLate = 13
  MaxOpen = 40
  Shown = 3
INVARIANTS PreviousIsLatest NextInView OneJobPerFire DedupedByOwnFire
