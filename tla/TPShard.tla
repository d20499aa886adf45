------------------------------ MODULE TPShard ------------------------------
(***************************************************************************)
(* How a capture is split over the ranks of a tensor-parallel engine and   *)
(* put together again (core/runtime/tp_shard.py, and the collection of the *)
(* ranks' parts in core/_plugin.py).  Every rank holds some attention      *)
(* heads of every layer, key heads possibly in several copies; hidden      *)
(* states are the same on all ranks, which share the layers out in turn.   *)
(*                                                                         *)
(* Ranks, heads and rows count from 0, layers from 1, parts from 1.  A     *)
(* tensor is a function from its heads (the last dimension, in units of    *)
(* head_dim) to values.  A merge that raises TPShardError is Refused.      *)
(***************************************************************************)
EXTENDS Integers, Sequences, FiniteSets

Refused == [ok |-> FALSE]
Merged(v) == [ok |-> TRUE, value |-> v]

NoHeader == [kind |-> "none"]     \* a payload without a shard header

-----------------------------------------------------------------------------
(* Queries and keys. *)

Geometries == [tp : Int, hq : Int, hkv : Int]

\* What qk_shard does not raise MiaConfigurationError for.
GeometryAccepted(g) ==
  /\ g.tp >= 1 /\ g.hq >= 1 /\ g.hkv >= 1
  /\ g.hq % g.tp = 0
  /\ IF g.tp >= g.hkv THEN g.tp % g.hkv = 0 ELSE g.hkv % g.tp = 0

Ranks(g) == 0 .. g.tp - 1

LocalQ(g) == g.hq \div g.tp
LocalKV(g) == IF g.tp >= g.hkv THEN 1 ELSE g.hkv \div g.tp
Replicas(g) == IF g.tp >= g.hkv THEN g.tp \div g.hkv ELSE 1

QStart(g, r) == r * LocalQ(g)
KVStart(g, r) == (r \div Replicas(g)) * LocalKV(g)

\* qk_shard, as the header QKShard.as_header writes.
QkShard(g, r) ==
  [kind |-> "qk", geom |-> g, rank |-> r, qStart |-> QStart(g, r), qHeads |-> LocalQ(g),
   kvStart |-> KVStart(g, r), kvHeads |-> LocalKV(g), replicas |-> Replicas(g)]

\* qk_shard_from_header: a header is believed when it is what qk_shard says of
\* its own geometry and rank.
QkHeaderValid(h) ==
  /\ h.kind = "qk" /\ h.geom \in Geometries
  /\ GeometryAccepted(h.geom) /\ h.rank \in Ranks(h.geom)
  /\ h = QkShard(h.geom, h.rank)

OneGeometry(shards) == \A i, j \in DOMAIN shards : shards[i].geom = shards[j].geom
NoRankTwice(shards) == \A i, j \in DOMAIN shards : shards[i].rank = shards[j].rank => i = j
RanksOf(shards) == { shards[i].rank : i \in DOMAIN shards }

\* check_complete_shard_set
Complete(shards) ==
  /\ shards # <<>> /\ OneGeometry(shards) /\ NoRankTwice(shards)
  /\ Ranks(shards[1].geom) \subseteq RanksOf(shards)

\* The order it returns: the part of rank r.
PartOf(shards, r) == CHOOSE i \in DOMAIN shards : shards[i].rank = r

\* The widths merge_head_tensors insists on.
WidthsFit(shards, q, k) ==
  \A i \in DOMAIN shards : /\ DOMAIN q[i] = 0 .. shards[i].qHeads - 1
                           /\ DOMAIN k[i] = 0 .. shards[i].kvHeads - 1

\* merge_head_tensors("q"): the parts side by side, by rank.
CatQ(g, shards, q) ==
  [h \in 0 .. g.hq - 1 |-> q[PartOf(shards, h \div LocalQ(g))][h % LocalQ(g)]]

\* by_start: of the parts with the same key heads, that of the lowest rank.
KeyStarts(shards) == { shards[i].kvStart : i \in DOMAIN shards }
LowestWith(shards, s) ==
  CHOOSE i \in DOMAIN shards :
    /\ shards[i].kvStart = s
    /\ \A j \in DOMAIN shards : shards[j].kvStart = s => shards[i].rank <= shards[j].rank

\* starts == list(range(0, num_key_value_heads, step))
StartsTile(g, shards) ==
  KeyStarts(shards) = { s \in 0 .. g.hkv - 1 : s % LocalKV(g) = 0 }

\* merge_head_tensors("k"): one part for each start, by start.
CatK(g, shards, k) ==
  [h \in 0 .. g.hkv - 1 |->
     k[LowestWith(shards, (h \div LocalKV(g)) * LocalKV(g))][h % LocalKV(g)]]

\* merge_qk_entries of one layer over every rank.
MergeQkEntries(g, shards, q, k) ==
  IF WidthsFit(shards, q, k) /\ StartsTile(g, shards)
  THEN Merged([q |-> CatQ(g, shards, q), k |-> CatK(g, shards, k)])
  ELSE Refused

\* A payload is [header, entries], entries a function from layers to [q, k].
HeadersOf(ps) == [i \in DOMAIN ps |-> ps[i].header]
LayersOf(ps) == UNION { DOMAIN ps[i].entries : i \in DOMAIN ps }
MergeLayer(ps, L) ==
  MergeQkEntries(ps[1].header.geom, HeadersOf(ps),
                 [i \in DOMAIN ps |-> ps[i].entries[L].q],
                 [i \in DOMAIN ps |-> ps[i].entries[L].k])

\* merge_qk_payloads
MergeQkPayloads(ps) ==
  IF ps = <<>> THEN Refused
  ELSE IF Len(ps) = 1 /\ ps[1].header = NoHeader THEN Merged(ps[1].entries)
  ELSE IF \E i \in DOMAIN ps : ~QkHeaderValid(ps[i].header) THEN Refused
  ELSE IF Len(ps) = 1 /\ ps[1].header.geom.tp = 1 THEN Merged(ps[1].entries)
  ELSE IF ~Complete(HeadersOf(ps)) THEN Refused
  ELSE IF \E i \in DOMAIN ps : DOMAIN ps[i].entries # LayersOf(ps) THEN Refused
  ELSE IF \E L \in LayersOf(ps) : ~MergeLayer(ps, L).ok THEN Refused
  ELSE Merged([L \in LayersOf(ps) |-> MergeLayer(ps, L).value])

-----------------------------------------------------------------------------
(* Hidden states: n layers, of which rank r captures every tp-th. *)

\* hs_layer_owner
Owner(row, tp) == row % tp

\* hs_owned_rows: range(r, n, tp); hs_owned_layers
OwnedRows(n, tp, r) == { i \in r .. n - 1 : (i - r) % tp = 0 }
OwnedLayers(n, tp, r) == { i + 1 : i \in OwnedRows(n, tp, r) }

\* resolve_hs_shard_mode, of the two flags of the environment.
ShardMode(tp, sharded, allRanks) ==
  IF tp <= 1 THEN "single" ELSE IF allRanks THEN "all_ranks"
  ELSE IF sharded THEN "round_robin" ELSE "rank0"

\* hs_rows_for_mode
RowsForMode(mode, n, tp, r) ==
  CASE mode = "round_robin" -> OwnedRows(n, tp, r)
    [] mode = "rank0" -> IF r = 0 THEN 0 .. n - 1 ELSE {}
    [] mode \in {"single", "all_ranks"} -> 0 .. n - 1

\* hs_max_owned_layers, the size that one rank's ring is planned for.
MaxOwned(n, tp, mode) == IF mode = "round_robin" THEN (n + tp - 1) \div tp ELSE n

\* hs_requested_layers: output_hidden_states is a list of layers, or anything
\* else for all of them, [list, layers].
Requested(spec, n) == IF spec.list THEN spec.layers \cap (1 .. n) ELSE 1 .. n

\* _asks_here: does the request ask this rank for anything?
AsksHere(spec, n, tp, r) ==
  IF spec.list THEN \E L \in spec.layers : L \in 1 .. n /\ L - 1 \in OwnedRows(n, tp, r)
  ELSE OwnedRows(n, tp, r) # {}

\* hs_expected_ranks
ExpectedRanks(layers, tp) == { Owner(L - 1, tp) : L \in layers }

\* HSShard.of and as_header; hs_shard_from_header believes nothing else.
HsShard(n, tp, r) ==
  [kind |-> "hs", geom |-> [tp |-> tp, layers |-> n], rank |-> r,
   owned |-> OwnedLayers(n, tp, r)]
HsGeometries == [tp : Int, layers : Int]
HsHeaderValid(h) ==
  /\ h.kind = "hs" /\ h.geom \in HsGeometries /\ h.geom.tp >= 1 /\ h.geom.layers >= 1
  /\ h.rank \in Ranks(h.geom)
  /\ h = HsShard(h.geom.layers, h.geom.tp, h.rank)

\* check_hs_shard_set
HsSetAccepted(shards, expected) ==
  /\ shards # <<>> /\ OneGeometry(shards) /\ NoRankTwice(shards)
  /\ \A i, j \in DOMAIN shards : i # j => shards[i].owned \cap shards[j].owned = {}
  /\ expected \subseteq RanksOf(shards)

\* merge_hs_layer_maps of one request (a layer on two ranks would be owned by both,
\* which the check of the set excludes).  A payload is [header, layers], layers a
\* function from layers to rows.
HeldLayers(ps) == UNION { DOMAIN ps[i].layers : i \in DOMAIN ps }
HolderOf(ps, L) == CHOOSE i \in DOMAIN ps : L \in DOMAIN ps[i].layers
UnionOfLayers(ps) == [L \in HeldLayers(ps) |-> ps[HolderOf(ps, L)].layers[L]]

\* merge_hs_payloads with the layers the request asked for.
MergeHsPayloads(ps, spec) ==
  LET g == ps[1].header.geom
      rows == UnionOfLayers(ps)
  IN IF ps = <<>> THEN Refused
     ELSE IF \E i \in DOMAIN ps : ~HsHeaderValid(ps[i].header) THEN Refused
     ELSE IF ~HsSetAccepted(HeadersOf(ps), ExpectedRanks(Requested(spec, g.layers), g.tp))
     THEN Refused
     ELSE IF \E i \in DOMAIN ps : ~(DOMAIN ps[i].layers \subseteq ps[i].header.owned)
     THEN Refused
     ELSE IF \E L, M \in HeldLayers(ps) : Len(rows[L]) # Len(rows[M]) THEN Refused
     ELSE IF HeldLayers(ps) # Requested(spec, g.layers) THEN Refused
     ELSE Merged(rows)

-----------------------------------------------------------------------------
(* The collection of the parts: _collect_aperture_per_request_sync and its  *)
(* asynchronous twin poll every rank, keep what each gives, and merge when  *)
(* they hold as many parts as they expect (_expected_probe_parts).          *)

HasKind(ps, kind) == \E i \in DOMAIN ps : ps[i].header.kind = kind
FirstOf(ps, kind) == CHOOSE i \in DOMAIN ps : /\ ps[i].header.kind = kind
                                              /\ \A j \in 1 .. i - 1 : ps[j].header.kind # kind
GeomOf(ps, kind) == ps[FirstOf(ps, kind)].header.geom

RanksAwaited(spec, g) == ExpectedRanks(Requested(spec, g.layers), g.tp)

ExpectedParts(ps, spec) ==
  IF HasKind(ps, "qk") THEN GeomOf(ps, "qk").tp
  ELSE IF HasKind(ps, "hs") /\ RanksAwaited(spec, GeomOf(ps, "hs")) # {}
  THEN Cardinality(RanksAwaited(spec, GeomOf(ps, "hs")))
  ELSE 1

Enough(ps, spec) == Len(ps) >= ExpectedParts(ps, spec)

=============================================================================
