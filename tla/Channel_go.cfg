SPECIFICATION FairSpec
CONSTANTS
  Threads = {"a", "b", "c", "d"}
  Programs <- MCPrograms
INVARIANTS
  TypeOK
  FullQueueHasItsSender
  SentFitsOrIsAwaited
PROPERTY CallsEndUnlessUnheard
CHECK_DEADLOCK FALSE
