CONSTANTS
  Job = {j1, j2}
  NoJob = NoJob
  Setup <- MCSetup
  Ttl <- MCTtl
  MaxExecutions = 1
  DayLength = 1
  LastTime = 0
  MaxLost = 0
  Rsi = {25, 30}
  Answer <- MCAnswer
  NoAnswer = NoAnswer
  MaxRestarts = 2
SPECIFICATION FairSpec
INVARIANTS TypeOK
PROPERTIES SignalsAreVouched QueuedRunsEnd
\* Runs end, and a finite set of them leaves an instance that may stop.
CHECK_DEADLOCK FALSE
