--------------------------- MODULE MCSteerRouting ---------------------------
EXTENDS SteerRouting

\* 1 steers every token, 2 the last token of a prompt and of each decode, 3
\* wants another vector than they do, which the table may have no row for.
MCAsks == <<
  [prompt |-> 2, gen |-> 1, steer |-> TRUE, valid |-> TRUE, layers |-> {1}, path |-> "p",
   adjust |-> FALSE, phase |-> "both", positions |-> "all_tokens"],
  [prompt |-> 2, gen |-> 1, steer |-> TRUE, valid |-> TRUE, layers |-> {1, 2}, path |-> "p",
   adjust |-> TRUE, phase |-> "both", positions |-> "last_token"],
  [prompt |-> 1, gen |-> 1, steer |-> TRUE, valid |-> TRUE, layers |-> {2}, path |-> "q",
   adjust |-> FALSE, phase |-> "decode", positions |-> "all_tokens"],
  [prompt |-> 1, gen |-> 0, steer |-> FALSE, valid |-> TRUE, layers |-> {}, path |-> "p",
   adjust |-> FALSE, phase |-> "both", positions |-> "all_tokens"]>>

MCWays == [backend : {"host", "incremental", "gpu"}, fast : {TRUE, FALSE}]
MCAhead == [host |-> 2, incremental |-> 2, gpu |-> 1]
=============================================================================
