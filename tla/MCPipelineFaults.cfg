SPECIFICATION Spec
CONSTANTS
  Achievements <- MCTwoRules
  Farmer = 11
  KindOf <- MCKindOf
  Users = {1, 2}
  FewContributors = 1
  FewGrants = 1
  FewForLeader = 0
  Unreadable = Unreadable
  Author <- MCAuthor
  Role <- MCRole
  Matches <- MCMatches
  Score <- MCScore
  None = None
  Torn = Torn
  Commits = {1, 2, 3}
  Parents <- Fork
  Milestones = {1, 2}
  Versions = {1, 2}
  FirstVersion <- MCLastVersionOf2
  FirstHead = 1
  FirstEnabled = {2, 9}
  MayDisable = {9}
  MayRewrite = TRUE
  Depths = {0, 1, 9}
  MaxCrashes = 1
  MaxTimes = 2
INVARIANTS
  CheckpointKeepsItsWord
  OneHolder
PROPERTIES
  ImplementsLog
