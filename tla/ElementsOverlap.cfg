SPECIFICATION Spec
CONSTANTS
  N = 4
  Optional = {2, 3}
  Unavailable = {}
  Incompatible = {}
  EarlyCommands = FALSE
  Overlap = TRUE
  MaxProbes = 2
CHECK_DEADLOCK FALSE
INVARIANT ProbeHitsItsTarget
