\* The capture path without dummy passes: writes may fail, reservations may time out; fair threads.
SPECIFICATION FairSpec
CONSTANTS
  l1 = l1
  l2 = l2
  Layers <- TwoLayers
  NSlots = 3
  StepCap = 3
  MaxRows = 6
  MaxInFlight = 2
  DummyPasses = FALSE
  WriteFailures = TRUE
  Timeouts <- ReserveTimeouts
INVARIANTS
  PendingRowsIntact
  SidecarNamesStoredRows
PROPERTIES
  EnqueuedRowsSettle
  BlockedEngineResumes
  CloseReturns
  CloseWritesEveryStep
  OneLiveDrain
  ImplementsCaptureLog
CHECK_DEADLOCK FALSE
