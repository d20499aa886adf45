---------------------------- MODULE MCQkHistory ----------------------------
(***************************************************************************)
(* Instances of QkHistory for TLC.                                         *)
(***************************************************************************)
EXTENDS QkHistory

\* Everything a request may ask.
AllAsks == [hooks : Hooks, mode : Modes, route : Routes]

\* The prefill's queries and keys, as files.
DiskPrefill == [hooks : {"prefill"}, mode : {"all_tokens"}, route : {"disk"}]
=============================================================================
