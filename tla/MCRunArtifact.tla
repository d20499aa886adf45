--------------------------- MODULE MCRunArtifact ---------------------------
(***************************************************************************)
(* RunArtifact for TLC: two responses of two prompts each on one run.      *)
(***************************************************************************)
EXTENDS RunArtifact

TwoIds == <<1, 2>>
TwoResps == {1, 2}
FirstIsRowless == {<<2, 0>>}
=============================================================================
