SPECIFICATION Spec
CONSTANTS
  k1 = k1
  k2 = k2
  k3 = k3
  DefaultKey = DefaultKey
  NoAccount = NoAccount
  Key = {k1, k2, k3}
  Authority = {k1, k2}
  OwnerLists <- MCOwnerLists
  MaxOwners = 2
  TradeId = {"t1"}
  Price = {0, 1000, 1015, 1500, 1501}
  Amount = {0, 9, 10}
  Bps = {100, 5000, 5001}
  Mask <- MCMask
  Route = {"r1", "r2"}
  Mints = {"base-quote", "quote-base"}
  Program = {"jupiter", "clmm", "cpmm", "orca"}
  ProgramsOf <- MCPrograms
  TradeParams <- MCTradeParams
  ExecutionReports <- MCExecutionReports
INVARIANTS
  TypeOK
  PendingCanReachQuorum
  ExecutedNearOracle
  ExecutedByQuorum
PROPERTIES
  HistoryIsImmutable
  ImplementsQuorumDecision
CHECK_DEADLOCK FALSE
