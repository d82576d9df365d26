SPECIFICATION FairSpec
CONSTANTS
  Tasks = {"f1", "f2", "f3", "n1", "n2", "m1", "m2", "m3", "m4"}
  Contexts = {"file", "network", "main"}
  MainContext = "main"
  Scripts <- MCScripts
INVARIANTS
  TypeOK
PROPERTIES
  ImplementsSerialExecutors
  ContextsDrain
CHECK_DEADLOCK FALSE
