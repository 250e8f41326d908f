SPECIFICATION MCSpec
CONSTANTS
  Part = {"wire", "text", "settings", "image", "copy", "wait"}
  Byte = {0, 1, 2}
  MaxBody = 4
  MaxInterim = 1
  BodyMax = 2
  DecoderMax = 3
  StrictMax = 1
  NL = "n"
  CR = "r"
  Letters = {"a", "b"}
  MaxText = 5
  MaxPattern = 3
  MAX_LINE_LENGTH = 2
  MAX_COLLECTED = 2
  HostPorts = {1, 2, 3}
  MaxCalls = 2
  MaxManifests = 2
  MaxMeddling = 1
  VolumeNames <- MCVolumeNames
  HOST_ARCH = "arm64"
  BLOCK_SIZE = 2
  LIMIT = 10
  NAME_MAX = 3
  PREFIX_LEN = 4
  MaxSources = 2
  Sizes = {2, 11}
  Growth = {1, 10}
  Targets <- MCTargets
  Codes = {"zero", "one"}
  Backoffs = 1
  MaxTimes = 2
  ReadyConditions <- MCReadyConditions
  CmdConditions <- MCCmdConditions
  MaxCommands = 2
CHECK_DEADLOCK FALSE
INVARIANTS ResponseWhole DemuxFaithful LinesFaithful MatchesCounted SettingsHonoured ImageChosen CopyDelivered ReadySound
