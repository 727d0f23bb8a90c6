SPECIFICATION LiveSpec
CONSTANTS
  Writes = {"w1", "w2"}
  Summaries = {"s1"}
  Requests = {"w1", "w2", "s1", "scrape", "probe"}
  Accounts = {1, 2, 3}
  SeedRows = {1}
  DefaultDays = 2
  InitDays = 3
  Bodies <- SomeBodies
  Handler <- MCHandler
INVARIANTS TypeOK WholeLists AllOrNothing ScrapeAddsUp CountedOnce
PROPERTIES HalfWriteKeepsOther LockedReplace WriteAnswered
