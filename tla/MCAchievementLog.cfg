SPECIFICATION Spec
CONSTANTS
  Achievements <- MCAchievements
  Farmer = "farmer"
  KindOf <- MCKindOf
  Users = {1, 2}
  Commits = {"c1", "c2", "c3"}
  FewContributors = 1
  FewGrants = 1
  FewForLeader = 0
  Asks <- MCAsks
  MaxEvents = 4
  MaxDeaths = 2
  Unreadable = Unreadable
INVARIANTS
  TypeOK
  OneActiveHolder
  RevokedBeforeRegrant
  RevocationsTakeBackTheActiveGrant
  GrantedOnce
  FarmerLeads
PROPERTIES
  ImplementsHolders
