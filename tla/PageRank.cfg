SPECIFICATION Spec
CONSTANTS
  NB_NODES = 3
  PropModulus = 8
  Graphs <- MCGraphs3
  Iterations <- MCIterations
  Opts <- MCOpts
  Thread <- MCThread
  THREADS = 3
INVARIANTS
  AddsAreExact
PROPERTIES
  ImplementsRounds
  PrEnds
