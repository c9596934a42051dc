SPECIFICATION Spec
CONSTANTS
  NB_NODES = 3
  Files <- CleanBinaries
  Thread <- MCThread
  THREADS = 3
  CounterModulus = 3
  Uninit = Uninit
  SymmetricFlags <- BothWays
  MallocWords <- Garbage
INVARIANTS
  DegreesSumToEdges
