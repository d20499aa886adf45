\* One request, whatever it asks, preempted twice; failing writes, timeouts, aborts.
SPECIFICATION Spec
CONSTANTS
  Asks <- AllAsks
  Prompt = 3
  MaxGen = 2
  Chunk = 2
  Block = 1
  MaxPreempts = 2
  CacheHits = FALSE
  WriteFailures = TRUE
  Timeouts = TRUE
  Aborts = TRUE
INVARIANTS
  TypeOK
  HistoryIsExact
  UndisturbedIsServed
  DiskClearLeavesNothing
CHECK_DEADLOCK FALSE
