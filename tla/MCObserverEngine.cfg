SPECIFICATION FairSpec
CONSTANTS
  Commits = {1, 2, 3, 4, 5, 6}
  Parents <- MCParents
  Files = {2, 3, 4}
  Submodules = {4}
  Folder <- MCFolder
  CiFiles = {2}
  Tree <- MCTree
  Essence <- MCEssence
  Registered <- MCRegistered
  Remarkable <- MCRemarkable
  RawAuthor <- MCRawAuthor
  Mailmaps <- MCMailmaps
  MayBeMissing = {2}
  MaxFaults = 1
  MaxCommits = 2
  Absent = Absent
INVARIANTS
  TypeOK
  FactsAreRight
  BoundaryLooksLikeARoot
  DeterministicOrder
PROPERTIES
  EveryCommitEnds
CHECK_DEADLOCK FALSE
