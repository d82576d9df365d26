SPECIFICATION Spec
CONSTANTS
  Sizes = {1, 2}
  Tasks <- MCTasks
  NoTask <- MCNoTask
  FirstSize = 2
  Elements = 4
  Grain = 1
  Hardware = 2
  Plans <- MCPlans
INVARIANT WaitEndsWithItsTask
CHECK_DEADLOCK FALSE
