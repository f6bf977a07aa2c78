SPECIFICATION Spec
CONSTANTS
  N = 4
  Optional = {2, 3}
  Unavailable = {}
  Incompatible = {}
  EarlyCommands = TRUE
  Overlap = TRUE
  MaxProbes = 1
CHECK_DEADLOCK FALSE
INVARIANT LinksForward
