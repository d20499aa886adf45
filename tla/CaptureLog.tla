---------------------------- MODULE CaptureLog -----------------------------
(***************************************************************************)
(* What the capture path of one worker promises, without its ring, its     *)
(* threads or its files: the rows handed to it are stored once each, in    *)
(* order and in every layer, and a close that returns normally has stored  *)
(* all of them ("Capture blocks; it never silently drops rows",            *)
(* docs/configs.md:294; aperture_drain_hs.py:1405).                        *)
(***************************************************************************)
EXTENDS Naturals, Sequences

CONSTANT Layers

VARIABLES accepted,   \* rows handed over so far
          log,        \* rows a reader can find, in file order
          status      \* "open", "ok" (closed normally), "raised"

logVars == <<accepted, log, status>>

\* Row i of the run as a reader should find it: row i in every layer's file.
RowOf(i) == [L \in Layers |-> i]

\* The log that holds rows 0 .. n-1 and nothing else.
FirstRows(n) == [i \in 1 .. n |-> RowOf(i - 1)]

LogInit == /\ accepted = 0
           /\ log = FirstRows(0)
           /\ status = "open"

Accept == /\ accepted' > accepted
          /\ UNCHANGED <<log, status>>

Store == /\ Len(log') > Len(log)
         /\ Len(log') <= accepted
         /\ log' = FirstRows(Len(log'))
         /\ UNCHANGED <<accepted, status>>

CloseNormally == /\ status = "open"
                 /\ Len(log) = accepted
                 /\ status' = "ok"
                 /\ UNCHANGED <<accepted, log>>

CloseRaising == /\ status' = "raised"
                /\ UNCHANGED <<accepted, log>>

LogNext == Accept \/ Store \/ CloseNormally \/ CloseRaising

LogSpec == LogInit /\ [][LogNext]_logVars

=============================================================================
