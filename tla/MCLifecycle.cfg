SPECIFICATION Spec
CONSTANTS
  Platforms = {"linux", "macos"}
  Calls = {"c1", "c2"}
CHECK_DEADLOCK FALSE
INVARIANTS TypeOK NoOrphan OwnedIsThere SessionEnds
PROPERTIES KeepKeeps ContractSpec DropReturns
