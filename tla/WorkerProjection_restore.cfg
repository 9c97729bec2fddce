SPECIFICATION FairSpec
CONSTANTS
  MaxEvents = 4
  BatchSize = 2
  MaxFailures = 1
INVARIANTS NothingMissed RestoredFirst
PROPERTY EveryEventProjected
CHECK_DEADLOCK FALSE
