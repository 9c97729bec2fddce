\* Concurrent commits, failures of the database and of processes.
SPECIFICATION Spec
CONSTANTS
  single = single
  Commits = {single, c1, c2}
  Size <- MCSize
  MaxFailures = 2
INVARIANTS
  CommittedStays
  ConflictLeavesNothing
