SPECIFICATION Spec
CONSTANTS
  Users = {1, 2}
  ShortThreshold = 3
  LongThreshold = 5
  SailorThresholds = {1, 2, 4}
  CopyThresholds = {1, 2}
  MinQuine = 7
  MinToken = 5
  MaxToken = 9
  UsizeMax = 15
  OctopusThreshold = 3
  CthulhuThreshold = 8
  Focuses <- MCFocuses
  Facts <- MCFacts
  MaxCommits = 4
INVARIANTS
  RecordsStand
  FirstsStand
  CountsAddUp
  FortunesComeTrue
  OncePerCommitInOrder
CHECK_DEADLOCK FALSE
