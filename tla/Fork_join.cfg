SPECIFICATION FairSpec
CONSTANTS
  Sizes = {1, 2}
  Tasks <- MCTasks
  NoTask <- MCNoTask
  FirstSize = 2
  Elements = 4
  Grain = 1
  Hardware = 2
  Plans <- MCPlans
INVARIANTS
  TypeOK
  QueuesAreLookedInto
  TasksStayInTheirCall
  ReducedInOrderButForGaps
PROPERTIES
  ImplementsForEach
  EverythingEnds
CHECK_DEADLOCK FALSE
