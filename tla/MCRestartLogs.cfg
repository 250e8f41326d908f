SPECIFICATION Spec
CONSTANTS
  Platforms = {"linux", "macos"}
  Starters = {"s1"}
  Stoppers = {"t1"}
  Askers = {}
  MaxRestarts = 2
CHECK_DEADLOCK FALSE
INVARIANTS OneDelivery LogsFollowContainer
PROPERTIES ExitObserved
