\* Dummy passes, failing writes and copies, and every wait may time out.
SPECIFICATION Spec
CONSTANTS
  l1 = l1
  l2 = l2
  Layers <- TwoLayers
  NSlots = 2
  StepCap = 2
  MaxRows = 4
  MaxInFlight = 2
  DummyPasses = TRUE
  WriteFailures = TRUE
  Timeouts <- AllTimeouts
INVARIANTS
  DrainInv
PROPERTIES
  FilesStayClosed
CHECK_DEADLOCK FALSE
