CONSTANTS
  c1 = c1
  c2 = c2
  c3 = c3
  Call = {c1, c2, c3}
  ProviderOf <- Mixed
  Limit <- Limits
  LastDay = 0
  MaxFaults = 1
  MaxLosses = 1
  MaxRebuilds = 1
  NoRebuild = NoRebuild
SPECIFICATION Spec
INVARIANTS PaidIsReserved
\* Calls end, and a finite set of calls runs out of work.
CHECK_DEADLOCK FALSE
