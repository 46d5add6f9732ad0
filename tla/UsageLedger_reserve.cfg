CONSTANTS
  c1 = c1
  c2 = c2
  c3 = c3
  Call = {c1, c2, c3}
  ProviderOf <- Mixed
  Limit <- Limits
  LastDay = 1
  MaxFaults = 2
  MaxLosses = 0
  MaxRebuilds = 0
  NoRebuild = NoRebuild
SPECIFICATION Spec
INVARIANTS TypeOK BooksBalance
PROPERTIES ImplementsDailyBudget
\* Calls end, and a finite set of calls runs out of work.
CHECK_DEADLOCK FALSE
