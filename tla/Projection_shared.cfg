\* Two processes that share a view in MongoDB: two events, one crash, one error.
SPECIFICATION Spec
CONSTANTS
  Procs = {p1, p2}
  Backend = "mongo"
  LastEvent = 2
  MaxCrashes = 1
  MaxErrors = 1
SYMMETRY Symmetry
INVARIANTS
  EffectsAccounted
  MarkedWasApplied
  CaughtUp
CHECK_DEADLOCK FALSE
