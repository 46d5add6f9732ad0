CONSTANTS
  Page = {"live", "insights"}
  Pair = {"SOL/USDC"}
  Prepared = {"trade"}
  MaxSockets = 2
  MaxFeed = 2
  MaxRows = 2
  MaxEvents = 3
  MaxDrops = 1
  MaxLoads = 2
SPECIFICATION FairSpec
INVARIANTS TypeOK FeedInOrder AnswerShowsItsEvent
PROPERTIES SubscriptionsArrive
\* The bounds on rows, events, loads and drops stop the system.
CHECK_DEADLOCK FALSE
