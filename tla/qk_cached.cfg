\* A request on disk whose prefix is cached when it comes back from a preemption.
SPECIFICATION Spec
CONSTANTS
  Asks <- DiskPrefill
  Prompt = 3
  MaxGen = 3
  Chunk = 2
  Block = 1
  MaxPreempts = 1
  CacheHits = TRUE
  WriteFailures = FALSE
  Timeouts = FALSE
  Aborts = FALSE
INVARIANTS
  HistoryIsExact
CHECK_DEADLOCK FALSE
