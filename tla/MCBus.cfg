SPECIFICATION FairSpec
CONSTANTS
  Types = {t1, t2}
  Procs = {p1, p2}
  MaxSubs = 2
  MaxEvents = 2
  Capacity = 1
INVARIANTS NoSendOnClosed RegistryExact Delivered
PROPERTY ChannelCloses
CHECK_DEADLOCK FALSE
