SPECIFICATION MCSpec
CONSTANTS
  Procs = {p1, p2, p3}
  Cooldown = 1
  Window = 2
  MinRequests = 2
  Num = 1
  Den = 2
  MaxTime = 5
  MaxCalls = 6
  Workers = {"w1", "w2", "w3"}
  Submitters = {"s1", "s2"}
  Closers = {"c1", "c2"}
  MinWorkers = 1
  MaxWorkers = 2
  QueueLimit = 2
  MaxTasks = 3
  Nobody = "nobody"
  SchedulerTasks = {"t", "u"}
  Priorities = {0, 1}
  Intervals = {0, 1}
  SchedulerTime = 1
  SchedulerCalls = 2
  Names = {"db", "cache", "api"}
  Services = {"db", "cache", "api", "api2"}
  ServiceName <- MCServiceName
  Graphs <- MCGraphs
  NoService = "none"
  Users = {"p", "q"}
  Behaviors = {"a", "a2", "b"}
  BehaviorName <- MCBehaviorName
  Callers = {"b"}
  MachineStates = {"new", "busy", "done"}
  Events = {"go"}
  Initial = "new"
  NoState = "none"
  Addable <- MCAddable
  Forced = {"new"}
  MaxHooks = 1
INVARIANTS OneTrial ClosedSound WorkersInBounds TaskOnce NoLostWakeup TaskExclusive SortExact RunningExact RunsContained MoveExplained
PROPERTY WorkEnds
CHECK_DEADLOCK FALSE
