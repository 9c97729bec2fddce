\* Failures of processors and of publish(), with subscribers' errors handled.
SPECIFICATION FairSpec
CONSTANTS
  x = x  y = y
  x1 = x1  x2 = x2
  Batches = {x1, x2, y1}
  Aggregates = {x, y}
  Aggregate <- MCAggregate
  Size <- MCSize
  WithSnapshot = {x1, x2}
  None = None
  ConcurrentLimit = 2
INVARIANTS
  StoredBeforePublished
  FirstInFirstOut
  AggregatesInOrder
  ResolvedMeansPublished
  SnapshotsOfStored
PROPERTIES
  EveryDispatchSettles
