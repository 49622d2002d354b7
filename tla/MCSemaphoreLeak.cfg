SPECIFICATION Spec
CONSTANTS
  Procs = {p1, p2, p3}
  Cancellable = {p1, p2, p3}
  Limits <- MCLimits
  None = None
INVARIANT NoSlotLeak
