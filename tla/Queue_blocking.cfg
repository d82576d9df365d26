SPECIFICATION Spec
CONSTANTS
  e = e
  i = i
  c1 = c1
  c2 = c2
  Producers <- OfMC
  Explicit <- ExplicitMC
  Consumers <- ConsumersMC
  ToEnqueue <- EnqueueMC
  ToDequeue <- DequeueMC
  BlockSize = 2
  IndexSize = 2
  Blocks = {b1, b2, b3}
  MostAdded = 9
INVARIANTS ElementsStayUnlessTakenBack NobodySleepsBesideElements
PROPERTY ImplementsHandOver
CHECK_DEADLOCK FALSE
