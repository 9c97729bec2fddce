\* Three processes that share a view in Redis.
SPECIFICATION FairSpec
CONSTANTS
  Procs = {p1, p2, p3}
  Backend = "redis"
  Nobody = Nobody
  MaxStarts = 2
INVARIANTS
  OneRestoreAtATime
PROPERTIES
  WaitersServed
CHECK_DEADLOCK FALSE
