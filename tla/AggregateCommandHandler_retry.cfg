\* Optimistic concurrency, with retries.
SPECIFICATION FairSpec
CONSTANTS
  p1 = p1  p2 = p2
  c3 = c3
  a1 = a1
  Procs = {p1, p2}
  Commands = {c1, c2, c3}
  Aggregates = {a1}
  At <- MCAt
  Target <- MCTarget
  NoCommand = NoCommand
  MaxRetries = 1
  IgnoreAfterMaxRetries = FALSE
  MaxEvents = 2
  MaxCrashes = 1
INVARIANTS
  DecidedOnHistory
  SerialHandling
  CacheAccounting
PROPERTIES
  StartsAfterPredecessors
  RetryStartsFresher
  ImplementsAggregateStore
  EveryCommandSettles
