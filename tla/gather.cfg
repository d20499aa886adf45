\* Publisher, two workers, trim on, a worker may die.
SPECIFICATION FairSpec
CONSTANTS
  r1 = r1
  r2 = r2
  r3 = r3
  NoReq = NoReq
  Reqs <- ThreeReqs
  LayersOf <- SomeLayers
  OwnerOf <- SomeOwners
  NWorkers = 2
  MaxSegments = 2
  BatchRows = 1
  RowBytes = 2
  Align = 3
  Chunk = 1
  Lag = 0
  Leftovers = TRUE
  Crashes = TRUE
INVARIANTS
  GatherInv
  LoadedIsWhole
  NoGapIsLoadable
  PunchedRowsArePassedAndFloored
PROPERTIES
  StampedIsDelivered
CHECK_DEADLOCK FALSE
