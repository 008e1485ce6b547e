SPECIFICATION FairSpec
CONSTANTS
  Names = {1, 2}
  Authors = {1, 2, 3}
  Catalog = {"champion", "sailor", "palindrome", "poet"}
  Farmer = "farmer"
  AchievementKinds <- MCKinds
  Cached = {"champion", "sailor"}
  Editions <- MCEditions
  Asks <- MCAsks
  AuthorOf <- MCAuthorOf
  NameOf <- MCNameOf
  Slugify <- MCSlugify
  BrokenSets <- MCBroken
  MaxCommits <- MCMaxCommits
  MaxEvents <- MCMaxEvents
  MaxFaults = 1
  NONE = NONE
INVARIANTS
  AddedReposStay
  TotalsAddUp
  SiteAddsUp
PROPERTIES
  EveryRepoChecked
CHECK_DEADLOCK FALSE
