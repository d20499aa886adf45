\* The capture path of an engine that runs dummy batches.
SPECIFICATION Spec
CONSTANTS
  l1 = l1
  l2 = l2
  Layers <- OneLayer
  NSlots = 2
  StepCap = 2
  MaxRows = 4
  MaxInFlight = 2
  DummyPasses = TRUE
  WriteFailures = FALSE
  Timeouts <- NoTimeouts
INVARIANTS
  CapturedRowsSurvive
CHECK_DEADLOCK FALSE
