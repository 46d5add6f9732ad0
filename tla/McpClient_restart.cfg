CONSTANTS
  Call = {c1, c2, c3}
  Start = Start
  Nobody = Nobody
  MaxId = 6
  MaxFaults = 2
SPECIFICATION FairSpec
INVARIANTS TypeOK OwnAnswer OneServer
PROPERTIES ImplementsAtMostOnceCall CallEnds
\* Calls end, and a finite set of calls runs out of work.
CHECK_DEADLOCK FALSE
