SPECIFICATION Spec
CONSTANTS
  Setups <- MCLate
  MaxRewrites = 0
  MaxFaults = 1
  NONE = NONE
INVARIANTS
  LikeAFullWalk
