SPECIFICATION Spec
CONSTANTS
  Writes = {"w1", "w2"}
  Summaries = {}
  Requests = {"w1", "w2"}
  Accounts = {1, 2, 3}
  SeedRows = {1}
  DefaultDays = 2
  InitDays = 3
  Bodies <- SomeBodies
  Handler <- MCHandler
PROPERTIES AccountsReplace
