SPECIFICATION Spec
CONSTANTS
  MaxJobs = 2
  MaxOps = 2
  MaxSwaps = 0
  Ids = {"i", "j"}
  Capacity = 1
  Programs <- BothKinds
  Faulty = {}
  Procs = {p1, p2}
  Waiters = {}
INVARIANT CalledOnce
CHECK_DEADLOCK FALSE
