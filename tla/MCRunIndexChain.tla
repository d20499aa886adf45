-------------------------- MODULE MCRunIndexChain --------------------------
(***************************************************************************)
(* RunIndexChain for TLC: two requests, so that a step may hold rows of    *)
(* one or of both, and enough steps for rows before, between and after the *)
(* watermark a flush reads.                                                *)
(***************************************************************************)
EXTENDS RunIndexChain

CONSTANTS r1, r2

TwoReqs == {r1, r2}

=============================================================================
