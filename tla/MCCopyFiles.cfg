SPECIFICATION CopySpec
CONSTANTS
  BLOCK_SIZE = 2
  LIMIT = 10
  NAME_MAX = 3
  PREFIX_LEN = 4
  MaxSources = 1
  Sizes = {1}
  Growth = {}
  Targets <- MCTargets
CHECK_DEADLOCK FALSE
INVARIANT DataWhole
