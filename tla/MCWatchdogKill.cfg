SPECIFICATION Spec
CONSTANTS
  Procs = {"p1"}
  Names = {"n1", "n2"}
  MAX_SPAWN_FAILURES = 3
  MaxKills = 1
CHECK_DEADLOCK FALSE
INVARIANT RegisteredIsKnown
