SPECIFICATION FairSpec
CONSTANTS
  Producer = {p1, p2}
  Worker = {w1, w2, w3}
  MaxTasks = 2
  NoTask = NoTask
CHECK_DEADLOCK FALSE
INVARIANTS TypeOK QueuedTasksAreCovered StopReachesSleepers FifoOnce DestroyedIsDrained
PROPERTIES DeinitTerminates ImplementsTaskQueue
