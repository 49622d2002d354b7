SPECIFICATION FairSpec
CONSTANTS
  MaxJobs = 2
  MaxOps = 2
  MaxSwaps = 1
  Ids = {"i", "j"}
  Capacity = 1
  Programs <- OneKind
  Faulty = {"add"}
  Procs = {p1, p2}
  Waiters = {w1}
INVARIANTS EntryExclusive CalledOnce ChannelOnce TimersOwned ClosedEmpty
PROPERTY JobSettles
CHECK_DEADLOCK FALSE
