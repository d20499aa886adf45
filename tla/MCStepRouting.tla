--------------------------- MODULE MCStepRouting ---------------------------
EXTENDS StepRouting

\* Request 1 asks for every layer of every token; 2 for its decode's last
\* token in one layer and one the model does not have; 3 for nothing.
MCAsks == <<
  [prompt |-> 2, gen |-> 0, asks |-> TRUE, layers |-> {}, hooks |-> "both", mode |-> "all_tokens"],
  [prompt |-> 1, gen |-> 2, asks |-> TRUE, layers |-> {1, 5}, hooks |-> "decode", mode |-> "last_token"],
  [prompt |-> 3, gen |-> 0, asks |-> FALSE, layers |-> {}, hooks |-> "prefill", mode |-> "all_tokens"]>>
=============================================================================
