SPECIFICATION Spec
CONSTANTS
  RingWords = 8
  Reserve = 2
  MaxCores = 6
  MaxRecords = 3
  Garbage = Garbage
  Unset = Unset
  Runs <- MCRuns
  Machines <- MCMachines
INVARIANTS
  EachSampleOnce
  PrintedWasHeld
  FaultsExplained
PROPERTIES
  MainEnds
