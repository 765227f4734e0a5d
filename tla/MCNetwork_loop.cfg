SPECIFICATION Spec
CONSTANTS
  Node <- MCNode
  NextHop <- MCNextHop
  Dist <- MCDist
  Clients = {2, 3, 4}
  Caching = {4}
  TTL2 = 3
  TTL = 4
  TTL1 = 2
  Scenarios <- MCOnlyNrr
INVARIANT NoInterestDisappears
CHECK_DEADLOCK FALSE
