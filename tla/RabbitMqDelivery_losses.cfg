SPECIFICATION FairSpec
CONSTANTS
  m1 = m1
  m2 = m2
  a = a
  b = b
  Messages = {m1, m2}
  Backlog = {}
  Types = {a, b}
  TypeOf <- MCTypeOf
  HandlersOf <- MCHandlersOf
  Limit = 2
  MaxLosses = 1
INVARIANTS  AnsweredOnce
PROPERTY EveryMessageSettles
CHECK_DEADLOCK FALSE
