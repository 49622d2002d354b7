SPECIFICATION Spec
CONSTANTS
  MaxJobs = 2
  MaxOps = 1
  MaxSwaps = 0
  Ids = {"i"}
  Capacity = 1
  Programs <- OneShots
  Faulty = {}
  Procs = {p1}
  Waiters = {}
INVARIANT OwnTimeout
CHECK_DEADLOCK FALSE
