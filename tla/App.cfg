SPECIFICATION FairSpec
CONSTANTS
  Client = {c1, c2}
  MaxRequests = 1
  NoTask = NoTask
  NoThread = NoThread
CHECK_DEADLOCK FALSE
INVARIANTS TypeOK UsedIsAlive OrderlyExit
PROPERTIES PlayEnds ShutdownEnds
