SPECIFICATION Spec
CONSTANTS
  N = 7
  Optional = {2, 3, 6, 7}
  Unavailable = {6}
  Incompatible <- MCIncompatible
  EarlyCommands = FALSE
  Overlap = FALSE
  MaxProbes = 1
CHECK_DEADLOCK FALSE
INVARIANTS ProbeHitsItsTarget MandatoryStay
