SPECIFICATION Spec
CONSTANTS
  Streams = {"stdout", "stderr"}
  PipeCapacity = 1
  MAX_OUTPUT_SIZE = 2
  MaxWrite <- MCMaxWrite
CHECK_DEADLOCK FALSE
INVARIANTS TypeOK OkIsComplete
PROPERTIES ExecReturns ReadersFinish
