CONSTANTS
  Trade = {t1}
  Call = {c1, c2}
  Chain = {solana, injective, monad}
  Executor = {injective, monad}
  MaxFaults = 1
  NoRow = NoRow
  NoPlan = NoPlan
  NoTrade = NoTrade
SPECIFICATION FairSpec
INVARIANTS TypeOK AnnouncedWasWritten FeedIsComplete OrderIsRecorded RejectedNeverOrdered
PROPERTIES ImplementsExplicitExecution OrderIsAnnounced IntentIsAnswered
\* Handlers end; a finite set of trades and calls runs out of work.
CHECK_DEADLOCK FALSE
