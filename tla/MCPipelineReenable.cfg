SPECIFICATION Spec
CONSTANTS
  Achievements <- MCRules
  Farmer = 11
  KindOf <- MCKindOf
  Users = {1, 2}
  FewContributors = 1
  FewGrants = 1
  FewForLeader = 0
  Unreadable = Unreadable
  Author <- MCAuthor
  Role <- MCRole
  Matches <- MCMatches
  Score <- MCScore
  None = None
  Torn = Torn
  Commits = {1, 2, 3}
  Parents <- Line
  Milestones = {2, 4}
  Versions = {1}
  FirstVersion <- MCFirstVersion
  FirstHead = 1
  FirstEnabled = {1, 9}
  MayDisable = {9}
  MayRewrite = FALSE
  Depths = {9}
  MaxCrashes = 0
  MaxTimes = 2
INVARIANT
  MilestonesAreReached
