SPECIFICATION Spec
CONSTANTS
  c = c  d = d
  u = u
  s1 = s1  s2 = s2
  Operations = {c, d, u, s1, s2}
  KindOf <- MCKindOf
  Backends = {"memory", "sqlite", "mongo", "redis"}
  MaxRetries = 1
  MaxFailures = 1
  None = None
SYMMETRY Interchangeable
INVARIANTS NoLostUpdate EffectsAsReported ExhaustedByOthers
CHECK_DEADLOCK FALSE
