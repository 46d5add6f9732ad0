CONSTANTS
  Job = {j1, j2}
  NoJob = NoJob
  Setup <- CrawlerSetup
  Ttl <- MCTtl
  MaxExecutions = 1
  DayLength = 1
  LastTime = 2
  MaxLost = 1
  Rsi = {}
  Answer = {}
  NoAnswer = NoAnswer
  MaxRestarts = 1
SPECIFICATION Spec
INVARIANTS SingleFlight DataIsFresh BudgetIsBounded
\* Runs end, and a finite set of them leaves an instance that may stop.
CHECK_DEADLOCK FALSE
