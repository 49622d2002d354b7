SPECIFICATION FairSpec
CONSTANTS
  Procs = {p1, p2}
  Keys = {k1}
  Calls = {c1, c2}
  NoCall = NoCall
  Free = Free
PROPERTY CancelReturns
CHECK_DEADLOCK FALSE
