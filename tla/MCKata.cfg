SPECIFICATION Spec
CONSTANTS
  Procs = {p1, p2}
  States = {"A", "B"}
  Events = {"go", "back"}
  Initial = "A"
  NoState = "none"
  Addable <- MCRules
  Forced <- MCForced
  MaxHooks = 0
PROPERTY AtomicMove
CHECK_DEADLOCK FALSE
