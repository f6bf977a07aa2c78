SPECIFICATION FairSpec
CONSTANTS
  Client = {c1, c2}
  Worker = {w1}
  MaxMessages = 2
  Orderly = TRUE
  NoTask = NoTask
CHECK_DEADLOCK FALSE
INVARIANTS TypeOK AnswersMatchRequests DestroyedIsQuiet
PROPERTIES RequestsAnswered
