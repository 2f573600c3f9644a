CONSTANTS
  NumMessages = 3
  AutoCommitModes = {TRUE, FALSE}
  MaxMalformed = 1
  MaxLives = 2
SPECIFICATION FairSpec
INVARIANTS
  RefusedOnTheirWay
  OncePerLife
  OneLostPerLife
  MalformedHoldUp
PROPERTIES
  ImplementsDelivery
  GetsThrough
