SPECIFICATION Spec
CONSTANTS
  TCB = {t1, t2, t3, t4}
  Other = {s1}
  Ready = ready
  Asleep = asleep
  NULL = NULL
  MaxSleep = 4
INVARIANTS WellLinked
PROPERTIES QueuesImplemented
