SPECIFICATION FairSpec
CONSTANTS
  Worker = worker
  Clients = {c1, c2}
  Main = main
  MaxTasks = 3
CHECK_DEADLOCK FALSE
INVARIANT WorkNoticed
PROPERTIES ImplementsSerialExecutors QueuedTasksRun StopEndsLoopUnlessRaced
