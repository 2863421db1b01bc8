SPECIFICATION Spec
CONSTANTS
  Object = {o1, o2}
  Address = {a1, a2}
  NULL = NULL
  Room = 5
  MaxSems = 2
CHECK_DEADLOCK FALSE
INVARIANTS KernelIntact
