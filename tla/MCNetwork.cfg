SPECIFICATION FairSpec
CONSTANTS
  Node <- MCNode
  NextHop <- MCNextHop
  Dist <- MCDist
  Clients = {2, 3, 4}
  Caching = {2, 3, 4}
  TTL2 = 3
  TTL = 4
  TTL1 = 2
  Scenarios <- MCScenarios
INVARIANTS WaitingIsHeeded RedirectedOnce NeedsNoTimer ModelAgrees
PROPERTY AllAnswered
CHECK_DEADLOCK FALSE
