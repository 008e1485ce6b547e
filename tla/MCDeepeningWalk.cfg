SPECIFICATION FairSpec
CONSTANTS
  Setups <- MCSetups
  MaxRewrites = 1
  MaxFaults = 2
  NONE = NONE
INVARIANTS
  YieldedOnce
  WalkComplete
  RefsResolve
PROPERTIES
  CatchesUp
