SPECIFICATION Spec
CONSTANTS
  Procs = {p1, p2, p3}
  Keys = {k1}
  Calls = {c1, c2}
  NoCall = NoCall
  Free = Free
SYMMETRY Symmetry
INVARIANTS ResultReady MapHoldsLive OneWorker
PROPERTY SharesCall
CHECK_DEADLOCK FALSE
