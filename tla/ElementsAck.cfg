SPECIFICATION Spec
CONSTANTS
  N = 4
  Optional = {2}
  Unavailable = {}
  Incompatible <- MCIncompatibleAck
  EarlyCommands = FALSE
  Overlap = FALSE
  MaxProbes = 2
CHECK_DEADLOCK FALSE
INVARIANT AckedEnableInStream
