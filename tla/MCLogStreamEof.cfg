SPECIFICATION Spec
CONSTANTS
  Streams = {"stdout"}
  AsyncReaders = {"consumer"}
  SyncReaders = {"blocking"}
  StreamOf <- ByName
  Limit = 2
  MaxChunk = 2
  MaxBytes = 2
CHECK_DEADLOCK FALSE
INVARIANT EofOnlyWhenDrained
