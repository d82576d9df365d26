SPECIFICATION Spec
CONSTANTS
  Workers = {w1, w2}
  Clients = {c1}
  Owner = owner
  Contexts = {x1}
  NoContext = none
  MaxTasks = 2
CHECK_DEADLOCK FALSE
INVARIANT NoTaskForgotten
