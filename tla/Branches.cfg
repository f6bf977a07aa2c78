SPECIFICATION FairSpec
CONSTANTS
  N = 8
  BranchOf <- MCBranchOf
  Optional = {3, 5, 6, 7, 8}
  Feeds <- MCFeeds
  Mux = {4, 7}
  Named = {4, 7}
  MayMiss = {6}
  MaxProbes = 1
  MaxPads = 1
CHECK_DEADLOCK FALSE
INVARIANTS TypeOK BuiltPartStays BranchAsAsked FlowsOnlyIntoWhole CrashIsKnown
PROPERTIES CommandsTakeEffect
