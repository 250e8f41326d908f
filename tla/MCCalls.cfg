SPECIFICATION MCSpec
CONSTANTS
  Part = {"watchdog", "bridge", "wait", "runtime"}
  Procs = {"p1", "p2"}
  Names = {"n1", "n2"}
  MAX_SPAWN_FAILURES = 2
  MaxKills = 1
  Calls = {c1, c2}
  Codes = {"zero", "one"}
  Backoffs = 1
  MaxTimes = 1
  ReadyConditions <- MCReadyConditions
  CmdConditions <- MCCmdConditions
  MaxCommands = 1
  Outside = {t1}
  Inside = {t2}
  MaxRuntimes = 3
  MaxContainers = 2
CHECK_DEADLOCK FALSE
INVARIANTS TypeOK KnownUnlessKilled BridgeMemory RuntimeDrop
PROPERTIES DeadAreReaped RequestsEnd WaitEnds
