SPECIFICATION ChaseSpec
CONSTANTS
  Calls <- MCCalls
  entry_sz = 2
  WordModulus = 32
  MemorySize = 16
  MinCount = 5
INVARIANTS
  OneCycle
  WalkIsEven
