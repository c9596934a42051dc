SPECIFICATION Spec
CONSTANTS
  NB_NODES = 4
  Graphs <- MCGraphs4
  LoadedWithout <- Thin4
  source = 0
  StrayArrays <- MCStray
  Thread <- MCThread
  THREADS = 2
INVARIANTS
  TypeOK
  ContIsExact
  HeuristicExact
  VisitedIsReachable
  HybridNeedsNoInEdges
PROPERTIES
  Termination
  ImplementsLevels
