SPECIFICATION Spec
CONSTANTS
  NB_NODES = 6
  Graphs <- HandPicked
  source = 0
  Thread <- MCThread
  THREADS = 3
  tid <- MCTid
  Teams <- MCTeams
  Uninit = Uninit
INVARIANTS
  TypeOK
  BuffersInBounds
  FrontierDistinct
  VisitedIsReachable
PROPERTIES
  Termination
  ImplementsLevels
