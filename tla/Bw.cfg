SPECIFICATION BwSpec
CONSTANTS
  Thread <- MCThread
  count = 0
  Rounds = 1
  SpuriousWakeups <- NoSpuriousWakeups
  Nobody = Nobody
  PAGE = 4
  SizeModulus = 64
  Options <- CommandLines
  MayFail <- BothCases
INVARIANTS
  BwTypeOK
  WindowCoversAccesses
  StartsBeforeEnd
PROPERTIES
  DeadRunsBlock
  RunEnds
