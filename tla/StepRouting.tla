---------------------------- MODULE StepRouting ----------------------------
(***************************************************************************)
(* How one engine step is routed to the capture buffers                    *)
(* (mia/core/hooks/install.py, install_hs.py, registry.py).  The wrapper   *)
(* of prepare_inputs lets the last routing stand, or resets a pinned       *)
(* mirror slot, reserves ring rows for the requests that asked, writes the *)
(* row numbers into the slot and queues the upload of its first columns.   *)
(* The forward pass then scatters every column of the batch, padding       *)
(* included, to the row its device index names.  The host runs ahead:      *)
(* uploads and forwards wait their turn in the device's stream.            *)
(*                                                                         *)
(* Both builders are here: hidden states, with the decode cache, and Q/K.  *)
(* Columns and rows count from 1, row 0 is the sentinel row.  A ring row   *)
(* is never reused here: the ring and its drain are ApertureDrain's.  A    *)
(* Bug operator is a mistaken version of the definition after it.          *)
(***************************************************************************)
EXTENDS Integers, Sequences, FiniteSets, FiniteSetsExt

CONSTANTS
  Asks,        \* sequence of requests: their length and what they ask for
  Kinds,       \* the subsystems explored, of {"hs", "qk"}
  NumLayers,   \* layers of the model
  Owned,       \* layers whose hidden states this rank captures
  Cap,         \* max_num_batched_tokens: the columns of the index
  GraphSizes,  \* batch sizes the CUDA graphs were captured at
  Depth,       \* mirror slots (MIA_PINNED_MIRROR)
  MaxAhead,    \* bound: steps queued on the device
  MaxPreempt   \* bound: preemptions in a run

Layers == 1 .. NumLayers
Cols == 1 .. Cap
Reqs == DOMAIN Asks
Sentinel == 0
NoToken == <<0, 0>>   \* what a padding column holds

ASSUME RoutingAssumption ==
  /\ NumLayers \in Nat \ {0} /\ Cap \in Nat \ {0} /\ Depth \in Nat \ {0}
  /\ GraphSizes \subseteq Cols /\ GraphSizes # {}
  /\ Owned \subseteq Layers /\ Kinds \subseteq {"hs", "qk"}
  /\ MaxAhead \in Nat \ {0} /\ MaxPreempt \in Nat
  /\ Asks \in Seq([prompt : Nat \ {0}, gen : Nat, asks : BOOLEAN, layers : SUBSET Nat,
                   hooks : {"prefill", "decode", "both"},
                   mode : {"last_token", "all_tokens"}])

VARIABLES
  kind,        \* which registry this is
  computed,    \* num_computed_tokens of each request
  prefillLen,  \* tokens a request prefills before it decodes
  preempted,   \* preemptions so far
  mirror,      \* the slots' capture_index: slot -> layer -> column -> row
  idx,         \* PinnedMirror.idx
  lastKey,     \* is _last_route_key the idle key?
  lastWidth,   \* _last_route_width
  cache,       \* _dc_entries: request -> layers and mode
  rows,        \* logical rows reserved: row -> its token and layers
  last,        \* the batch built last, and the records of it
  stream,      \* device work: per step, a slot to upload (or None) and a forward
  index,       \* capture_index_all
  buf          \* per layer, the capture buffer's written rows

host == <<kind, computed, prefillLen, preempted, mirror, idx, lastKey, lastWidth,
          cache, rows, last>>
vars == <<host, stream, index, buf>>

NoSlot == -1
Blank == [l \in Layers |-> [c \in Cols |-> Sentinel]]
NoStep == [tokens |-> <<>>, prefill |-> {}, final |-> {}, recs |-> {}]

Init ==
  /\ kind \in Kinds
  /\ computed = [r \in Reqs |-> 0]
  /\ prefillLen = [r \in Reqs |-> Asks[r].prompt]
  /\ preempted = 0
  /\ mirror = [s \in 0 .. Depth - 1 |-> Blank]
  /\ idx = 0 /\ lastKey = FALSE /\ lastWidth = 0
  /\ cache = <<>> /\ rows = <<>> /\ last = NoStep
  /\ stream = <<>> /\ index = Blank
  /\ buf = [l \in Layers |-> <<>>]

-----------------------------------------------------------------------------
(* The batch: take[r] tokens of request r, the requests in order. *)

Length(r) == Asks[r].prompt + Asks[r].gen
Prefilling(r) == computed[r] < prefillLen[r]
Batch(take) == { r \in Reqs : take[r] > 0 }
Before(f, r) ==
  LET sum[i \in 0 .. r - 1] == IF i = 0 THEN 0 ELSE sum[i - 1] + f[i] IN sum[r - 1]
Total(take) == Before(take, Len(Asks) + 1)

\* The columns of request r, the query_start_loc of the step.
Span(take, r) == Before(take, r) + 1 .. Before(take, r) + take[r]

\* The token of each column: a request and its position.
TokenAt(take) ==
  [c \in 1 .. Total(take) |->
     LET r == CHOOSE r \in Reqs : c \in Span(take, r)
     IN <<r, computed[r] + c - Before(take, r)>>]

\* not _mid_prefill_chunk: the chunk reaches the end of the prompt, or decodes.
Final(take, r) == Prefilling(r) => computed[r] + take[r] >= Asks[r].prompt

\* Batches a scheduler can form: chunks of a prefill, one token of a decode.
Batches ==
  { take \in [Reqs -> 0 .. Cap] :
      /\ \A r \in Reqs : take[r] <= IF Prefilling(r) THEN prefillLen[r] - computed[r]
                                    ELSE IF computed[r] < Length(r) THEN 1 ELSE 0
      /\ Total(take) \in Cols }

-----------------------------------------------------------------------------
(* What a request captures in a step. *)

\* The filter's layers are 1-based; those outside the model are ignored.
RowLayers(r) ==
  LET mine == IF kind = "hs" THEN Owned ELSE Layers
  IN IF Asks[r].layers = {} THEN mine ELSE Asks[r].layers \cap mine

\* (Mistake: keys are captured only in the phase whose queries are.)
BugBusyIn(r) ==
  /\ Asks[r].asks
  /\ ~(Asks[r].hooks = "prefill" /\ ~Prefilling(r))
  /\ ~(Asks[r].hooks = "decode" /\ Prefilling(r))

\* _capture_idle_key: could this step capture rows of r?
BusyIn(r) ==
  /\ Asks[r].asks
  /\ ~(Asks[r].hooks = "prefill" /\ ~Prefilling(r))
  /\ ~(Asks[r].hooks = "decode" /\ Prefilling(r) /\ kind = "hs")

Idle(take) == \A r \in Batch(take) : ~BusyIn(r)

\* (Mistake: any single token of a cached request is a decode.)
BugHit(take, r) == kind = "hs" /\ r \in DOMAIN cache /\ take[r] = 1

\* The decode cache answers: a request seen before, one token, not a prefill.
Hit(take, r) == kind = "hs" /\ r \in DOMAIN cache /\ take[r] = 1 /\ ~Prefilling(r)

\* The guards of the builders: requests without a row in this step.
Skips(take, r) ==
  \/ RowLayers(r) = {}
  \/ ~BusyIn(r)
  \/ kind = "hs" /\ Asks[r].mode = "last_token" /\ ~Final(take, r)

NRows(take, r) ==
  IF r \notin Batch(take) THEN 0
  ELSE IF Hit(take, r) THEN 1
  ELSE IF Skips(take, r) THEN 0
  ELSE IF kind = "hs" /\ Asks[r].mode = "last_token" THEN 1 ELSE take[r]

\* The record of r: its layers, its first ring row, and the columns captured;
\* of a Q/K record also the columns whose queries count.
Record(take, start, r) ==
  LET span == Span(take, r)
      tail == {Max(span)}
      lyrs == IF Hit(take, r) THEN cache[r] ELSE RowLayers(r)
      emitQ == /\ ~(Asks[r].hooks = "decode" /\ Prefilling(r))
               /\ Asks[r].mode = "last_token" => Final(take, r)
  IN [req |-> r, layers |-> lyrs, start |-> start,
      cols |-> IF kind = "hs" /\ Asks[r].mode = "last_token" THEN tail ELSE span,
      queries |-> IF kind = "hs" \/ ~emitQ THEN {}
                  ELSE IF Asks[r].mode = "all_tokens" THEN span ELSE tail]

\* _build_routing_hs_decode_cache, _build_routing: rows are reserved request
\* by request.
Records(take) ==
  LET n == [r \in Reqs |-> NRows(take, r)]
  IN { Record(take, Len(rows) + Before(n, r), r) : r \in { r \in Reqs : n[r] > 0 } }

\* The ring row a record gives to one of its columns.
RowOf(rec, c) == rec.start + c - Min(rec.cols) + 1

\* What the records write over the sentinels of the mirror slot.
Routed(recs) ==
  [l \in Layers |-> [c \in Cols |->
     LET mine == { rec \in recs : l \in rec.layers /\ c \in rec.cols }
     IN IF mine = {} THEN Sentinel ELSE RowOf(CHOOSE rec \in mine : TRUE, c)]]

\* The decode cache after the step: entries of requests that will decode are
\* made, those of requests that capture no decode dropped, and, when it holds
\* more requests than the batch, those of requests that are not in it.
CacheAfter(take) ==
  LET miss == { r \in Batch(take) : ~Hit(take, r) }
      gone == { r \in miss : \/ ~Asks[r].asks
                             \/ Asks[r].hooks = "prefill" /\ (~Prefilling(r) \/ ~Skips(take, r)) }
      made == { r \in miss : ~Skips(take, r) /\ Asks[r].hooks # "prefill" }
      kept == (DOMAIN cache \cup made) \ gone
      live == IF Cardinality(kept) > Cardinality(Batch(take))
              THEN kept \cap Batch(take) ELSE kept
  IN [r \in live |-> IF r \in made THEN RowLayers(r) ELSE cache[r]]

-----------------------------------------------------------------------------
(* One step: prepare_inputs, the forward and the note to the drain. *)

\* The graph size the runner pads the batch to, when one is large enough.
Padded(n) ==
  LET fit == { g \in GraphSizes : g >= n } IN IF fit = {} THEN n ELSE Min(fit)

\* _upload_width
Width(n) == Min({Cap, Max({n} \cup GraphSizes)})

\* (Mistake: the width of the last upload is not compared.)
BugMayReuse(take, w) == Idle(take) /\ lastKey

\* wrapped_prepare_inputs: the index of the last step serves this one.
MayReuse(take, w) == Idle(take) /\ lastKey /\ w = lastWidth

\* (Mistake: the slot counter does not wrap.)
BugNextSlot == idx + 1

\* record_advance
NextSlot == (idx + 1) % Depth

\* wait_current: the last upload of this slot has been executed.
SlotIsFree == \A i \in DOMAIN stream : stream[i].slot # idx

\* The forward is queued, and the batch's tokens are computed.
Launch(take, s, recs) ==
  /\ stream' = Append(stream, [slot |-> s, width |-> Width(Total(take)),
                               pad |-> Padded(Total(take)), tokens |-> TokenAt(take)])
  /\ computed' = [r \in Reqs |-> computed[r] + take[r]]
  /\ last' = [tokens |-> TokenAt(take), recs |-> recs,
              prefill |-> { r \in Reqs : Prefilling(r) },
              final |-> { r \in Batch(take) : Final(take, r) }]
  /\ UNCHANGED <<kind, prefillLen, preempted, index, buf>>

Reuse(take) ==
  /\ MayReuse(take, Width(Total(take)))
  /\ Launch(take, NoSlot, {})
  /\ UNCHANGED <<mirror, idx, lastKey, lastWidth, cache, rows>>

\* reset_pinned, the builder, upload.  The slot's columns beyond the width
\* keep what an earlier step wrote.
Build(take, recs) ==
  LET w == Width(Total(take))
      new == Routed(recs)
      n == [r \in Reqs |-> NRows(take, r)]
      token == TokenAt(take)
      rowsOf == UNION { { <<RowOf(rec, c), token[c], rec.layers>> : c \in rec.cols } :
                        rec \in recs }
  IN /\ ~MayReuse(take, w)
     /\ SlotIsFree
     /\ mirror' = [mirror EXCEPT ![idx] =
                     [l \in Layers |-> [c \in Cols |-> IF c <= w THEN new[l][c] ELSE @[l][c]]]]
     /\ idx' = NextSlot
     /\ lastKey' = Idle(take) /\ lastWidth' = w
     /\ cache' = IF kind = "hs" THEN CacheAfter(take) ELSE cache
     /\ rows' = rows \o [i \in 1 .. Total(n) |->
                  LET x == CHOOSE x \in rowsOf : x[1] = Len(rows) + i
                  IN [token |-> x[2], layers |-> x[3]]]
     /\ Launch(take, idx, recs)

\* vLLM takes a request's blocks back: its tokens so far are prefilled again.
Preempt(r) ==
  /\ preempted < MaxPreempt
  /\ 0 < computed[r] /\ computed[r] < Length(r)
  /\ prefillLen' = [prefillLen EXCEPT ![r] = Max({Asks[r].prompt, computed[r] + 1})]
  /\ computed' = [computed EXCEPT ![r] = 0]
  /\ preempted' = preempted + 1
  /\ UNCHANGED <<kind, mirror, idx, lastKey, lastWidth, cache, rows, last, stream, index, buf>>

\* The device: upload's copy reads the slot when its turn comes.
RunUpload ==
  /\ stream # <<>> /\ Head(stream).slot # NoSlot
  /\ index' = [l \in Layers |-> [c \in Cols |->
                 IF c <= Head(stream).width THEN mirror[Head(stream).slot][l][c]
                 ELSE index[l][c]]]
  /\ stream' = [stream EXCEPT ![1].slot = NoSlot]
  /\ UNCHANGED <<host, buf>>

\* _capture_hs_impl, _capture_qk_impl: column c goes to row index[c].
RunForward ==
  LET op == Head(stream)
      Content(c) == IF c \in DOMAIN op.tokens THEN op.tokens[c] ELSE NoToken
      Hits(l, w) == { c \in 1 .. op.pad : index[l][c] = w }
  IN /\ stream # <<>> /\ op.slot = NoSlot
     /\ buf' = [l \in Layers |->
          LET hit == { index[l][c] : c \in 1 .. op.pad } \ {Sentinel}
          IN [w \in DOMAIN buf[l] \cup hit |->
                IF w \in hit THEN Content(Max(Hits(l, w))) ELSE buf[l][w]]]
     /\ stream' = Tail(stream)
     /\ UNCHANGED <<host, index>>

Next ==
  \/ /\ Len(stream) < MaxAhead
     /\ \E take \in Batches : Reuse(take) \/ Build(take, Records(take))
  \/ \E r \in Reqs : Preempt(r)
  \/ RunUpload
  \/ RunForward

Spec == Init /\ [][Next]_vars

-----------------------------------------------------------------------------
(* Properties. *)

\* Slots, widths and rows stay in their ranges; a queued step is no wider than its
\* upload.
TypeOK ==
  /\ kind \in Kinds /\ idx \in 0 .. Depth - 1 /\ lastKey \in BOOLEAN
  /\ lastWidth \in 0 .. Cap /\ preempted \in 0 .. MaxPreempt
  /\ computed \in [Reqs -> Nat] /\ prefillLen \in [Reqs -> Nat \ {0}]
  /\ \A r \in Reqs : computed[r] <= Length(r) /\ prefillLen[r] <= Length(r)
  /\ mirror \in [0 .. Depth - 1 -> [Layers -> [Cols -> 0 .. Len(rows)]]]
  /\ index \in [Layers -> [Cols -> 0 .. Len(rows)]]
  /\ rows \in Seq([token : Reqs \X Nat, layers : SUBSET Layers])
  /\ stream \in Seq([slot : NoSlot .. Depth - 1, width : Cols, pad : Cols,
                     tokens : Seq(Reqs \X Nat)])
  /\ Len(stream) <= MaxAhead
  /\ \A i \in DOMAIN stream :
       Len(stream[i].tokens) <= stream[i].pad /\ stream[i].pad <= stream[i].width

\* The decode cache answers as the builder would.
CacheInv ==
  \A r \in DOMAIN cache :
    /\ r \in Reqs /\ Asks[r].asks /\ Asks[r].hooks # "prefill"
    /\ cache[r] = RowLayers(r) /\ cache[r] # {}

\* Keys precede the queries they answer: where a Q/K request captures at all,
\* the keys of every token it computes are captured in the same step.
KeysAreComplete ==
  kind = "qk" =>
    \A c \in DOMAIN last.tokens :
      LET r == last.tokens[c][1]
      IN Asks[r].asks /\ (r \in last.prefill \/ Asks[r].hooks # "prefill") /\ RowLayers(r) # {}
         => \E rec \in last.recs : rec.req = r /\ c \in rec.cols /\ rec.layers = RowLayers(r)

\* What the documentation promises of a step: the layers asked for, in the
\* phases asked for, every token or the last one of the prompt and of a decode.
Promised ==
  { x \in (DOMAIN last.tokens) \X Layers :
      LET r == last.tokens[x[1]][1]
          pre == r \in last.prefill
      IN /\ Asks[r].asks /\ x[2] \in RowLayers(r)
         /\ Asks[r].hooks \in (IF pre THEN {"prefill", "both"} ELSE {"decode", "both"})
         /\ Asks[r].mode = "last_token" =>
              /\ r \in last.final
              /\ \A d \in DOMAIN last.tokens : d > x[1] => last.tokens[d][1] # r }

\* The records of a step claim exactly what the requests asked, whichever
\* builder made them: the decode cache, which answers without reading the
\* request, and the key that lets an idle step keep the last routing, never
\* add or lose a token.  (install.py:433, install_hs.py:661)
RecordsAreWhatWasAsked ==
  Promised = UNION { (IF kind = "hs" THEN rec.cols ELSE rec.queries) \X rec.layers :
                     rec \in last.recs }

\* A row whose step the device has run holds the token its record claims, in
\* every layer of the record; no other row, of this step or an earlier one, is
\* ever written.  A stale column of the index, a slot rewritten under its own
\* upload or a padding column breaks this.  (registry.py:62, install.py:549)
Pending == UNION { { stream[i].tokens[c] : c \in DOMAIN stream[i].tokens } : i \in DOMAIN stream }
BufferHoldsTheRecords ==
  /\ \A w \in DOMAIN rows : \A l \in rows[w].layers :
       rows[w].token \in Pending \/ (w \in DOMAIN buf[l] /\ buf[l][w] = rows[w].token)
  /\ \A l \in Layers : \A w \in DOMAIN buf[l] :
       w \in DOMAIN rows /\ l \in rows[w].layers /\ buf[l][w] = rows[w].token

-----------------------------------------------------------------------------
(* The invariant these rest on. *)

\* The row that the forward of the i-th queued step writes column c of layer l to.
Place(i, l, c) ==
  IF stream[i].slot # NoSlot THEN mirror[stream[i].slot][l][c]
  ELSE IF i = 1 THEN index[l][c] ELSE Sentinel

\* The i-th queued step captures nothing.
Quiet(i) == \A l \in Layers : \A c \in 1 .. stream[i].width : Place(i, l, c) = Sentinel

\* A slot serves one queued upload, and a step without one follows a step of its
\* own width that captures nothing.
StreamInv ==
  /\ \A i, j \in DOMAIN stream : stream[i].slot = stream[j].slot => i = j \/ stream[i].slot = NoSlot
  /\ \A i \in DOMAIN stream \ {1} : stream[i].slot = NoSlot =>
       stream[i].width = stream[i - 1].width /\ Quiet(i - 1)

\* The idle key is that of an index of sentinels.
KeyInv ==
  lastKey =>
    IF stream = <<>> THEN \A l \in Layers : \A c \in 1 .. lastWidth : index[l][c] = Sentinel
    ELSE stream[Len(stream)].width = lastWidth /\ Quiet(Len(stream))

\* A queued step writes rows of its own tokens only, and a row that is not yet
\* written has its column in a queued step.
PlaceInv ==
  /\ \A i \in DOMAIN stream : \A l \in Layers : \A c \in 1 .. stream[i].pad :
       Place(i, l, c) # Sentinel =>
         /\ c \in DOMAIN stream[i].tokens /\ Place(i, l, c) \in DOMAIN rows
         /\ l \in rows[Place(i, l, c)].layers
         /\ rows[Place(i, l, c)].token = stream[i].tokens[c]
  /\ \A w \in DOMAIN rows : \A l \in rows[w].layers :
       \/ w \in DOMAIN buf[l]
       \/ \E i \in DOMAIN stream : \E c \in DOMAIN stream[i].tokens : Place(i, l, c) = w
  /\ \A l \in Layers : \A w \in DOMAIN buf[l] :
       w \in DOMAIN rows /\ l \in rows[w].layers /\ buf[l][w] = rows[w].token

RoutingInv ==
  /\ TypeOK /\ CacheInv /\ KeysAreComplete
  /\ StreamInv /\ KeyInv /\ PlaceInv
=============================================================================
