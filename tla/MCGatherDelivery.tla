-------------------------- MODULE MCGatherDelivery --------------------------
(***************************************************************************)
(* GatherDelivery for TLC: two workers, a request of three layers whose    *)
(* positions and numbers disagree modulo 2, one of a single layer, and one *)
(* that captured no row.                                                   *)
(***************************************************************************)
EXTENDS GatherDelivery, TLC

CONSTANTS r1, r2, r3

ThreeReqs == {r1, r2, r3}
SomeLayers == (r1 :> <<0, 2, 3>>) @@ (r2 :> <<2>>) @@ (r3 :> <<0>>)
SomeOwners == <<r1, r2, r1>>

=============================================================================
