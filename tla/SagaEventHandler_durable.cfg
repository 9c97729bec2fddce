SPECIFICATION FairSpec
CONSTANTS
  MaxEvents = 4
  CommandsOf <- MCCommandsOf
  OriginRestored = TRUE
  MaxFailures = 1
  MaxRestarts = 1
INVARIANTS SeesPreviousState CommandsAccounted CacheAccounting
PROPERTY EveryEventSettles
CHECK_DEADLOCK FALSE
