-------------------------- MODULE MCApertureDrain --------------------------
(***************************************************************************)
(* Instances of ApertureDrain for TLC.  The ring is smaller than the rows  *)
(* of the run, so every slot is reused; a step may take the whole ring, so *)
(* a reservation may have to wait for the rows of the steps before it.     *)
(***************************************************************************)
EXTENDS ApertureDrain

CONSTANTS l1, l2

TwoLayers == {l1, l2}
OneLayer == {l1}
NoTimeouts == {}
AllTimeouts == {"reserve", "join", "lock"}
ReserveTimeouts == {"reserve"}
=============================================================================
