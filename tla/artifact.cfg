\* Two responses of two prompts on one run; aborts, lost deliveries, crashes.
SPECIFICATION FairSpec
CONSTANTS
  NoOne = NoOne
  Resps <- TwoResps
  UnitOf <- TwoIds
  NPrompts = 2
  Rowless <- FirstIsRowless
  Aborts = TRUE
  Failures = TRUE
  Crashes = TRUE
INVARIANTS
  ArtifactInv
  TurnsAreKept
  LastResponseIsHeld
PROPERTIES
  ReaderGetsItsResponse
  EveryTurnEnds
CHECK_DEADLOCK FALSE
