SPECIFICATION Spec
CONSTANTS
  Node <- MCNode
  Content <- MCContent
  Parameters <- MCParameters
  ShortBits = 16
  Grid = 4
  Topologies <- MCTopologies
  Split <- MCSplit
  Spared = 2
INVARIANT NewRoutesAvoidFailure
