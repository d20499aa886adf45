\* Consumer, flusher and reader, a segment write may fail.
SPECIFICATION FairSpec
CONSTANTS
  r1 = r1
  r2 = r2
  Reqs <- TwoReqs
  MaxSteps = 2
  MaxStepRows = 2
  WriteFailures = TRUE
INVARIANTS
  IndexInv
  ChainHoldsEveryRowOnce
  CompleteMeansEveryRow
PROPERTIES
  FinishedIsDelivered
CHECK_DEADLOCK FALSE
