SPECIFICATION FairSpec
CONSTANTS
  N = 7
  Optional = {2, 4, 6}
  Unavailable = {}
  Incompatible = {}
  EarlyCommands = FALSE
  Overlap = FALSE
  MaxProbes = 1
INVARIANTS TypeOK StreamConnected FlagsMatchPipeline AckedEnableInStream
PROPERTIES DisableTakesEffect CommandAnswered
