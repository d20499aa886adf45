------------------------ MODULE MCPerRequestDelivery ------------------------
(***************************************************************************)
(* Instances of PerRequestDelivery for TLC: two requests, of one or two    *)
(* engine steps each.                                                      *)
(***************************************************************************)
EXTENDS PerRequestDelivery, TLC

CONSTANTS r1, r2

TwoAndOne == [r \in {r1, r2} |-> IF r = r1 THEN 2 ELSE 1]

=============================================================================
