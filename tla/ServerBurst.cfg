SPECIFICATION FairSpec
CONSTANTS
  Client = {c1}
  Worker = {w1}
  MaxMessages = 2
  Orderly = FALSE
  NoTask = NoTask
CHECK_DEADLOCK FALSE
INVARIANTS AnswersInOrder DestroyedIsQuiet
PROPERTIES DeinitTerminates
