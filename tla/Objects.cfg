SPECIFICATION FairSpec
CONSTANTS
  Object = {o1, o2, o3}
  Address = {a1, a2}
  NULL = NULL
  Room = 10
  MaxSems = 1
CHECK_DEADLOCK FALSE
INVARIANTS ThreadOnlyWithObject
PROPERTIES JoinReturns
