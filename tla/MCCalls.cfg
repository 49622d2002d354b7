SPECIFICATION MCSpec
CONSTANTS
  Procs = {p1, p2, p3}
  Cancellable = {p1, p2, p3}
  Limits <- MCLimits
  None = None
  Initials = {0, 1, 4}
  MinLimit = 1
  MaxLimit = 3
  Beta = 3
  Clients = {"a", "b"}
  RateKeys = {"k"}
  B = 1
  TTL = 3
  MaxWait = 1
  MaxStall = 1
  MaxTime = 4
  Keys = {"k", "l"}
  Refs = {"r", "s", "t"}
  Forced = {"l"}
  NoRef = "none"
  MaxCalls = 4
  Loads = {"x", "y", "z"}
  KeyOf <- MCKeyOf
  Nothing = "nothing"
  NumWorkers = 2
  MaxInputs = 3
  Mappers = {"v", "w"}
  MaxSize = 3
  FanLimits = {0, 2}
INVARIANTS SlotSafe NoLostWakeup LimitSound RateKept MutualExclusion RefsCounted OneFlight LoadsBatchedOnce ProcessSound StreamSound FanoutSound
PROPERTIES ImplementsGate LimiterGate LockServed CallsReturn
CHECK_DEADLOCK FALSE
