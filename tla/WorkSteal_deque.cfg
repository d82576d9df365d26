SPECIFICATION Spec
CONSTANTS
  Thieves = {w1, w2}
  FirstSize = 2
  MaxPushes = 5
SYMMETRY Symmetry
CHECK_DEADLOCK FALSE
PROPERTIES ImplementsDeque EmptyHandedOnlyIfEmpty
