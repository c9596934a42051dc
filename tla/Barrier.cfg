SPECIFICATION Spec
CONSTANTS
  Thread <- MCThread
  count = 3
  Rounds = 2
  SpuriousWakeups <- BothCases
  Nobody = Nobody
INVARIANTS
  TypeOK
  BarrierHolds
  CrossedCounts
PROPERTIES
  EveryoneCrosses
CHECK_DEADLOCK FALSE
