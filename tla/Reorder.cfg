SPECIFICATION Spec
CONSTANTS
  NB_NODES = 4
  EdgeLists <- MCEdgeLists
  Options <- MCOptions
  CounterModulus = 3
  Garbage <- MCGarbage
INVARIANTS
  OutputIsRelabelling
  OutputIsSorted
