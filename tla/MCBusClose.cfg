SPECIFICATION Spec
CONSTANTS
  Types = {t1}
  Procs = {p1}
  MaxSubs = 1
  MaxEvents = 1
  Capacity = 1
INVARIANT NoDoubleClose
CHECK_DEADLOCK FALSE
