\* Two requests, of two rows and of one; writes and copies may fail; fair threads.
SPECIFICATION FairSpec
CONSTANTS
  r1 = r1
  r2 = r2
  Reqs = {r1, r2}
  MaxRows <- TwoAndOne
  MaxRetries = 2
  WriteFailures = TRUE
  SidecarFailures = FALSE
  CopyFailures = TRUE
  NoteUnstaged = TRUE
INVARIANTS
  DeliveryInv
  SourceOutlivesTransfer
  BrokenIsNotDelivered
  HostRowsAreWhole
  DiskClearLeavesNothing
PROPERTIES
  AwaitedIsServed
CHECK_DEADLOCK FALSE
