SPECIFICATION Spec
CONSTANTS
  Platforms = {"linux"}
  Starters = {"s1"}
  Stoppers = {}
  Askers = {"a1"}
  MaxRestarts = 1
CHECK_DEADLOCK FALSE
INVARIANTS CodeOfThisRun
