\* Two Q/K or HS requests and one that asks nothing, pinned slots, the host ahead.
SPECIFICATION Spec
CONSTANTS
  Asks <- MCAsks
  Kinds = {"hs", "qk"}
  NumLayers = 2
  Owned = {1, 2}
  Cap = 3
  GraphSizes = {2}
  Depth = 2
  MaxAhead = 3
  MaxPreempt = 1
INVARIANTS
  RoutingInv
  RecordsAreWhatWasAsked
  BufferHoldsTheRecords
CHECK_DEADLOCK FALSE
