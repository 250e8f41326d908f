SPECIFICATION Spec
CONSTANTS
  Streams = {"stdout"}
  AsyncReaders = {"consumer"}
  SyncReaders = {"blocking"}
  StreamOf <- ByName
  Limit = 1
  MaxChunk = 1
  MaxBytes = 2
CHECK_DEADLOCK FALSE
PROPERTIES StoredIsDelivered ReadersEnd StopEndsSession
