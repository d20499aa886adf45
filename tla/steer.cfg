\* Four requests, every steering backend, a table of one vector.
SPECIFICATION SteerSpec
CONSTANTS
  Asks <- MCAsks
  Ways <- MCWays
  Ahead <- MCAhead
  NumLayers = 2
  Cap = 3
  GraphSizes = {2}
  VMax = 1
  Missing = {}
  NoAvg = {}
  Depth = 1
INVARIANTS
  SteerInv
CHECK_DEADLOCK FALSE
