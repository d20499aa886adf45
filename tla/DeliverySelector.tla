-------------------------- MODULE DeliverySelector --------------------------
(***************************************************************************)
(* Which per-request delivery an engine runs (delivery_selector.py), and   *)
(* what its choice, written into the environment, makes of the processes   *)
(* that inherit it (core/_plugin.py).  Hidden states go by the hybrid (a   *)
(* run index and a gather process), Q/K by the in-drain writer, anything   *)
(* else by neither ("off").                                                *)
(*                                                                         *)
(* An environment is a record: the user's mode; the stamp a MIA process    *)
(* left; flags that count only when they are "1"; whether the user asked   *)
(* for a sink, a map or a write mode the hybrid cannot read; the size of   *)
(* the data-parallel group.  Blank values count as unset.                  *)
(***************************************************************************)
EXTENDS Integers

Modes == {"auto", "hybrid", "drain", "off"}
Sources == {"default", "explicit", "scope"}
Kinds == {"hidden_states", "qk", "steer"}

NoStamp == [mode |-> "none", source |-> "none"]
Stamps == [mode : Modes \ {"auto"}, source : Sources]
Flag == {"unset", "0", "1"}

Envs == [mode : Modes \cup {"bad"}, stamp : Stamps \cup {NoStamp},
         perRequest : Flag, gather : Flag, deliver : Flag, flushMs : {"unset", "own", "default"},
         profile : Flag, sinkDrop : BOOLEAN, mmap : BOOLEAN, legacy : BOOLEAN, dp : Nat]

\* The error DeliveryConfigError, and a selection; arms: it writes the flags.
NoChoice == [ok |-> FALSE]
Selected(mode, source, arms) == [ok |-> TRUE, mode |-> mode, source |-> source, arms |-> arms]

\* _refuse_if_hybrid_impossible, _hybrid, _drain, _off
HybridImpossible(e) == e.mmap \/ e.legacy
Hybrid(e, source) ==
  IF HybridImpossible(e) THEN NoChoice ELSE Selected("hybrid", source, TRUE)
Drain(source) == Selected("drain", source, TRUE)
Off(source) == Selected("off", source, FALSE)

\* _refuse_contradictions
Contradictory(e) ==
  \/ e.mode = "drain" /\ e.deliver = "1"
  \/ e.mode = "off" /\ (e.perRequest = "1" \/ e.deliver = "1")
  \/ e.mode = "auto" /\ e.perRequest = "1" /\ (e.gather = "1" \/ e.deliver = "1")

\* validate
Valid(e) == e.mode # "bad" /\ ~Contradictory(e)

\* _no_ask_default
NoAskDefault(e, kind, graph) ==
  IF \/ ~graph \/ kind \notin {"hidden_states", "qk"}
     \/ e.profile = "1" \/ e.sinkDrop
  THEN Off("scope")
  ELSE IF kind = "qk" THEN IF e.dp > 1 THEN Off("scope") ELSE Drain("default")
  ELSE IF HybridImpossible(e) THEN Off("scope") ELSE Hybrid(e, "default")

\* PER_REQUEST=1 without a mode.
AskedDefault(e, kind, graph) ==
  IF ~graph THEN Off("default")
  ELSE IF kind # "hidden_states" \/ e.profile = "1" THEN Drain("scope")
  ELSE Hybrid(e, "default")

\* resolve
Resolve(e, kind, graph) ==
  IF e.stamp.mode = "hybrid" THEN Hybrid(e, e.stamp.source)
  ELSE IF e.stamp.mode = "drain" THEN Drain(e.stamp.source)
  ELSE IF e.stamp.mode = "off" THEN Off("default")
  ELSE IF ~Valid(e) THEN NoChoice
  ELSE IF e.mode = "hybrid"
  THEN IF graph /\ kind = "hidden_states" THEN Hybrid(e, "explicit") ELSE NoChoice
  ELSE IF e.mode = "drain" THEN Drain("explicit")
  ELSE IF e.mode = "off" THEN Off("explicit")
  ELSE IF e.deliver = "1" THEN Selected("hybrid", "explicit", FALSE)
  ELSE IF e.gather = "1" THEN Selected("off", "explicit", FALSE)
  ELSE IF e.perRequest = "1" THEN AskedDefault(e, kind, graph)
  ELSE NoAskDefault(e, kind, graph)

\* apply: what the selection s makes of the environment.
Armed(e, s) ==
  IF ~s.arms THEN e
  ELSE IF s.mode = "hybrid"
  THEN [e EXCEPT !.gather = "1", !.deliver = "1", !.perRequest = "unset",
                 !.flushMs = IF @ = "unset" THEN "default" ELSE @]
  ELSE [e EXCEPT !.perRequest = "1"]
Applied(e, s) ==
  IF s.mode = "off" THEN e
  ELSE [Armed(e, s) EXCEPT !.stamp = [mode |-> s.mode, source |-> s.source]]

\* _patched_create_engine_config: the size of the group is written first.
EngineEnv(e, dp) == IF dp > 1 THEN [e EXCEPT !.dp = dp] ELSE e

\* _drop_inherited_delivery, in a process that inherited a stamp and builds an
\* engine of its own.
Cleared(v) == IF v = "1" THEN "unset" ELSE v
Dropped(e) ==
  [e EXCEPT !.stamp = NoStamp, !.dp = 1,
            !.gather = IF e.stamp.mode = "hybrid" THEN Cleared(@) ELSE @,
            !.deliver = IF e.stamp.mode = "hybrid" THEN Cleared(@) ELSE @,
            !.perRequest = IF e.stamp.mode = "drain" THEN Cleared(@) ELSE @]

=============================================================================
