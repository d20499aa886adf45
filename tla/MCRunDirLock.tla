--------------------------- MODULE MCRunDirLock ----------------------------
(***************************************************************************)
(* RunDirLock for TLC: three engines, and one inode number more than the   *)
(* descriptors and the path can use at once, so a new file may get a fresh *)
(* number or a reused one.                                                 *)
(***************************************************************************)
EXTENDS RunDirLock

CONSTANTS e1, e2, e3, i1, i2, i3, i4

ThreeEngines == {e1, e2, e3}
FourInodes == {i1, i2, i3, i4}

=============================================================================
