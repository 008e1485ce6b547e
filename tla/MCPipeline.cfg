SPECIFICATION FairSpec
CONSTANTS
  Achievements <- MCRules
  Farmer = 11
  KindOf <- MCKindOf
  Users = {1, 2}
  FewContributors = 1
  FewGrants = 1
  FewForLeader = 0
  Unreadable = Unreadable
  Author <- MCAuthor
  Role <- MCRole
  Matches <- MCMatches
  Score <- MCScore
  None = None
  Torn = Torn
  Commits = {1, 2, 3, 4}
  Parents <- Line
  Milestones = {1, 2}
  Versions = {1, 2}
  FirstVersion <- MCFirstVersion
  FirstHead = 1
  FirstEnabled = {1}
  MayDisable = {}
  MayRewrite = FALSE
  Depths = {9}
  MaxCrashes = 0
  MaxTimes = 2
INVARIANTS
  TypeOK
  CheckpointKeepsItsWord
  QuietRerun
  CountedOnce
PROPERTIES
  CatchesUp
