SPECIFICATION FairSpec
CONSTANTS
  Procs = {p1, p2}
  Behaviors = {a, b}
  NameOf <- MCNameOf
  Callers = {b}
  Nobody = Nobody
PROPERTY StopEnds
CHECK_DEADLOCK FALSE
