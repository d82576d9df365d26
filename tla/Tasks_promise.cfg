SPECIFICATION FairSpec
CONSTANTS
  Tasks <- MCTasks
  Shared <- MCShared
  Programs <- MCPrograms
CHECK_DEADLOCK FALSE
INVARIANTS TypeOK NoneLeftBehind
PROPERTIES ContinuationsFollow KeepPromise
