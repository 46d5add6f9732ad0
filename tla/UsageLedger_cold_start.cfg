CONSTANTS
  c1 = c1
  c2 = c2
  c3 = c3
  Call = {c1, c2}
  ProviderOf <- TwoDune
  Limit <- Limits
  LastDay = 0
  MaxFaults = 0
  MaxLosses = 1
  MaxRebuilds = 0
  NoRebuild = NoRebuild
SPECIFICATION Spec
INVARIANTS BudgetHolds
\* Calls end, and a finite set of calls runs out of work.
CHECK_DEADLOCK FALSE
