SPECIFICATION Spec
CONSTANTS
  NB_NODES = 3
  Files <- Binaries
  Thread <- MCThread
  THREADS = 3
  CounterModulus = 3
  Uninit = Uninit
  SymmetricFlags <- BothWays
  MallocWords <- Zeroed
INVARIANTS
  TypeOK
  ReadsWholeFile
  SlotsAreExclusive
  GraphIsFile
PROPERTIES
  Termination
