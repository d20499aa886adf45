\* Three engines contend for one run directory.
SPECIFICATION LockSpec
CONSTANTS
  e1 = e1
  e2 = e2
  e3 = e3
  i1 = i1
  i2 = i2
  i3 = i3
  i4 = i4
  Engines <- ThreeEngines
  Inodes <- FourInodes
INVARIANTS
  MutualExclusion
PROPERTIES
  LiveLockStays
