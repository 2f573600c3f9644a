CONSTANTS
  first = first
  second = second
  third = third
  Tracked <- MCTracked
  Uncommitted <- MCUncommitted
  MaxForeign = 1
  MaxUnits = 2
SPECIFICATION FairSpec
INVARIANTS
  VersionsHold
  PublishedIsStored
  NeverGivesUp
  NothingLeftOver
PROPERTIES
  CommitEnds
