---------------------------- MODULE SteerRouting ----------------------------
(***************************************************************************)
(* How the steering of a batch reaches the forward pass                    *)
(* (mia/core/hooks/install_steer.py, steer_routing_gpu.py, and the modes   *)
(* of mia/workers/steer_worker.py).  A slab says, for each layer and batch *)
(* column, which vector steers it.  Three ways fill it: the host writes a  *)
(* pinned mirror slot and uploads it ("host"); the host uploads the cells  *)
(* that changed ("incremental"); or per-slot tables are kept on the device *)
(* and a kernel spreads them over the columns ("gpu", the default).  Each  *)
(* copy reads host memory when the device reaches it.                      *)
(*                                                                         *)
(* Columns and slots count from 1.  A Bug operator is a mistaken version   *)
(* of the definition after it.                                             *)
(***************************************************************************)
EXTENDS Integers, Sequences, FiniteSets, FiniteSetsExt

CONSTANTS
  Asks,        \* sequence of requests: their length and their steering
  Ways,        \* the ways explored: [backend, fast]
  NumLayers, Cap,
  GraphSizes,  \* batch sizes the CUDA graphs were captured at
  VMax,        \* rows of the vector table (MIA_STEER_VMAX)
  Missing,     \* vector files that cannot be loaded
  NoAvg,       \* vector files without an avg_proj
  Depth,       \* mirror slots
  Ahead        \* bound per backend: steps queued on the device

Layers == 1 .. NumLayers
Cols == 1 .. Cap
Reqs == DOMAIN Asks

ASSUME SteerAssumption ==
  /\ Asks \in Seq({Asks[r] : r \in Reqs})
  /\ NumLayers \in Nat \ {0} /\ Cap \in Nat \ {0} /\ VMax \in Nat \ {0} /\ Depth \in Nat \ {0}
  /\ GraphSizes \subseteq Cols /\ GraphSizes # {}
  /\ \A m \in Ways : m.backend \in {"host", "incremental", "gpu"} /\ m.fast \in BOOLEAN
                      /\ Ahead[m.backend] \in Nat \ {0}
  /\ \A r \in Reqs : /\ Asks[r].prompt \in Nat \ {0} /\ Asks[r].gen \in Nat
                     /\ Asks[r].steer \in BOOLEAN /\ Asks[r].valid \in BOOLEAN
                     /\ Asks[r].layers \subseteq Layers /\ Asks[r].adjust \in BOOLEAN
                     /\ Asks[r].phase \in {"prefill", "decode", "both"}
                     /\ Asks[r].positions \in {"all_tokens", "last_token"}

VARIABLES
  way,       \* the way this engine fills the slab
  computed,  \* num_computed_tokens of each request
  vecs,      \* vec_paths: row i of the vector table holds vecs[i]
  lastKey,   \* _last_route_key and _last_route_width
  gated,     \* _any_gated
  mirror,    \* pinned cells: the mirror slots, or the incremental mirror at 0
  idx,       \* PinnedMirror.idx
  state,     \* _col_state, of the incremental way
  slotKey,   \* _slot_req_key
  slotHost,  \* _slot_*_h: what each batch slot is steered with, in pinned memory
  colHost,   \* _slot_col_h
  stream,    \* device work: per step, copies and a forward
  slotDev, colDev,  \* slot_*, slot_col on the device
  slab,      \* coeff_all, vec_id_all and mode_all as one cell
  ran        \* the forward that ran last: what it steered, what was asked

host == <<way, computed, vecs, lastKey, gated, mirror, idx, state, slotKey, slotHost, colHost>>
steerVars == <<host, stream, slotDev, colDev, slab, ran>>

NoSteer == <<>>                   \* a cell that steers nothing
ColAll == -1
ColNone == -2
NoKey == [ids |-> <<>>, qsl |-> <<>>, cols |-> <<>>, width |-> 0]
Blank == [l \in Layers |-> [c \in Cols |-> NoSteer]]
Unset == [layers |-> {}, cell |-> NoSteer]

SteerInit ==
  /\ way \in Ways
  /\ computed = [r \in Reqs |-> 0]
  /\ vecs = <<>> /\ lastKey = NoKey /\ gated = FALSE
  /\ mirror = [s \in 0 .. Depth - 1 |-> Blank] /\ idx = 0 /\ state = Blank
  /\ slotKey = <<>> /\ slotHost = [i \in Reqs |-> Unset]
  /\ colHost = [i \in Reqs |-> ColAll]
  /\ stream = <<>>
  /\ slotDev = slotHost /\ colDev = colHost /\ slab = Blank
  /\ ran = [got |-> Blank, want |-> Blank]

-----------------------------------------------------------------------------
(* The batch: take[r] tokens of request r, the requests in order. *)

Length(r) == Asks[r].prompt + Asks[r].gen
Prefilling(r) == computed[r] < Asks[r].prompt
Before(f, r) ==
  LET sum[i \in 0 .. r - 1] == IF i = 0 THEN 0 ELSE sum[i - 1] + f[i] IN sum[r - 1]
Total(take) == Before(take, Len(Asks) + 1)

\* req_ids of the batch.
Ids(take) ==
  LET ids[r \in 0 .. Len(Asks)] ==
        IF r = 0 THEN <<>>
        ELSE IF take[r] > 0 THEN Append(ids[r - 1], r) ELSE ids[r - 1]
  IN  ids[Len(Asks)]

\* query_start_loc: the columns of request r are First(take, r) .. End(take, r).
First(take, r) == Before(take, r) + 1
End(take, r) == Before(take, r) + take[r]

Batches ==
  { take \in [Reqs -> 0 .. Cap] :
      /\ \A r \in Reqs : take[r] <= IF Prefilling(r) THEN Asks[r].prompt - computed[r]
                                    ELSE IF computed[r] < Length(r) THEN 1 ELSE 0
      /\ Total(take) \in Cols }

\* _upload_width
Width(n) == Min({Cap, Max({n} \cup GraphSizes)})

-----------------------------------------------------------------------------
(* What steers a request. *)

\* (Mistake: one row too many.)
BugHasRow(v) == Len(v) <= VMax

\* _next_vec_id < v_max
HasRow(v) == Len(v) < VMax

\* A request whose vector is looked up, in a file that can be loaded.
Wants(r) == Asks[r].steer /\ Asks[r].layers # {} /\ Asks[r].path \notin Missing

\* vec_id_for_path, for the requests of a batch in order: a path gets a row of
\* the table when its file loads and a row is left.
VecsAfter(batch) ==
  LET after[r \in 0 .. Len(Asks)] ==
        IF r = 0 THEN vecs
        ELSE LET v == after[r - 1]
             IN IF r \in batch /\ Wants(r) /\ HasRow(v) /\ \A i \in DOMAIN v : v[i] # Asks[r].path
                THEN Append(v, Asks[r].path) ELSE v
  IN after[Len(Asks)]

\* The slot of a request: its layers and its vector, or nothing (no steering
\* asked, no row for its vector, or no avg_proj to adjust to: note_skip).
SlotOf(r, v) ==
  LET rows == { i \in DOMAIN v : v[i] = Asks[r].path }
  IN IF Asks[r].steer /\ rows # {} /\ ~(Asks[r].adjust /\ Asks[r].path \in NoAvg)
     THEN [layers |-> Asks[r].layers, cell |-> <<Max(rows), Asks[r].adjust>>]
     ELSE Unset

\* steer_span: the columns of r that this pass steers.
SteerSpan(take, r) ==
  LET pre == Prefilling(r)
      final == pre => computed[r] + take[r] >= Asks[r].prompt
  IN IF \/ take[r] = 0
        \/ Asks[r].phase = "prefill" /\ ~pre
        \/ Asks[r].phase = "decode" /\ pre
        \/ Asks[r].positions = "last_token" /\ ~final
     THEN {}
     ELSE IF Asks[r].positions = "last_token" THEN {End(take, r)}
     ELSE First(take, r) .. End(take, r)

\* What was asked, the cells of _build_routing_steer and of the eager hook: a
\* request whose modes are invalid is ignored.
Steers(take, v, r, l, c) ==
  take[r] > 0 /\ Asks[r].valid /\ l \in SlotOf(r, v).layers /\ c \in SteerSpan(take, r)

Asked(take, v) ==
  [l \in Layers |-> [c \in Cols |->
     LET here == { r \in Reqs : Steers(take, v, r, l, c) }
     IN IF here = {} THEN NoSteer ELSE SlotOf(CHOOSE r \in here : TRUE, v).cell]]

\* steer_col_for: the slot's columns as one number.
ColFor(take, r) ==
  LET span == SteerSpan(take, r)
  IN IF ~Asks[r].steer \/ ~Asks[r].valid \/ span = {} THEN ColNone
     ELSE IF span = First(take, r) .. End(take, r) THEN ColAll ELSE Max(span)

Gates(r) == /\ Asks[r].steer /\ Asks[r].valid
            /\ Asks[r].phase # "both" \/ Asks[r].positions # "all_tokens"

\* _resolve_step_cols
StepCols(take) == [i \in DOMAIN Ids(take) |-> ColFor(take, Ids(take)[i])]

-----------------------------------------------------------------------------
(* One step. *)

\* (Mistake: the key names the requests only, not where their tokens are.)
BugRouteKey(take) ==
  [ids |-> Ids(take), qsl |-> <<>>, cols |-> <<>>, width |-> Width(Total(take))]

\* routing_key, or _steer_idle_key on the fast path; the cols are part of it
\* once a request was seen that does not steer every token.
IdleFast(take) == way.fast /\ \A r \in Reqs : take[r] > 0 => ~Asks[r].steer

RouteKey(take) ==
  LET ids == Ids(take)
  IN IF IdleFast(take)
     THEN [NoKey EXCEPT !.ids = <<0>>, !.width = Width(Total(take))]
     ELSE [ids |-> ids, qsl |-> [i \in DOMAIN ids |-> take[ids[i]]],
           cols |-> IF gated THEN StepCols(take) ELSE <<>>, width |-> Width(Total(take))]

NoCopy == [op |-> "none"]

Launch(take, v, copy) ==
  /\ stream' = Append(stream, [copy |-> copy, n |-> Total(take), want |-> Asked(take, v)])
  /\ computed' = [r \in Reqs |-> computed[r] + take[r]]
  /\ UNCHANGED <<way, slotDev, colDev, slab, ran>>

\* The slab of the last step serves this one.
Reuse(take) ==
  /\ RouteKey(take) = lastKey
  /\ Launch(take, vecs, NoCopy)
  /\ UNCHANGED <<vecs, lastKey, gated, mirror, idx, state, slotKey, slotHost, colHost>>

Build(take) ==
  /\ RouteKey(take) # lastKey
  /\ lastKey' = RouteKey(take)

\* wait_current, _inc_event.synchronize: no copy queued still reads slot s.
Read(s) == \A i \in DOMAIN stream : stream[i].copy.op = "mirror" => stream[i].copy.slot # s

\* reset_pinned, _build_routing_steer, upload.
BuildHost(take) ==
  way.backend = "host" /\
  LET v == VecsAfter({ r \in Reqs : take[r] > 0 })
      w == Width(Total(take))
      want == Asked(take, v)
  IN /\ Build(take) /\ Read(idx)
     /\ mirror' = [mirror EXCEPT ![idx] =
                     [l \in Layers |-> [c \in Cols |-> IF c <= w THEN want[l][c] ELSE @[l][c]]]]
     /\ idx' = (idx + 1) % Depth
     /\ vecs' = v
     /\ gated' = (gated \/ \E r \in Reqs : take[r] > 0 /\ Gates(r) /\ SlotOf(r, v) # Unset)
     /\ Launch(take, v, [op |-> "mirror", slot |-> idx, cells |-> Layers \X (1 .. w)])
     /\ UNCHANGED <<state, slotKey, slotHost, colHost>>

\* The uploaded rectangle: the layers that changed, from the first to the last
\* column that did.
Uploaded(changed) ==
  LET ls == { x[1] : x \in changed }
      cs == { x[2] : x \in changed }
  IN IF changed = {} THEN {} ELSE ls \X (Min(cs) .. Max(cs))

\* apply_incremental_routing: only cells whose state changed are rewritten.
BuildIncremental(take) ==
  way.backend = "incremental" /\
  LET v == VecsAfter({ r \in Reqs : take[r] > 0 })
      w == Width(Total(take))
      want == Asked(take, v)
      changed == { x \in Layers \X (1 .. w) : want[x[1]][x[2]] # state[x[1]][x[2]] }
  IN /\ Build(take)
     /\ changed # {} => Read(0)
     /\ mirror' = [mirror EXCEPT ![0] =
          [l \in Layers |-> [c \in Cols |-> IF <<l, c>> \in changed THEN want[l][c] ELSE @[l][c]]]]
     /\ state' = [l \in Layers |-> [c \in Cols |-> IF c <= w THEN want[l][c] ELSE state[l][c]]]
     /\ vecs' = v
     /\ gated' = (gated \/ \E r \in Reqs : take[r] > 0 /\ Gates(r) /\ SlotOf(r, v) # Unset)
     /\ Launch(take, v, IF changed = {} THEN NoCopy
                        ELSE [op |-> "mirror", slot |-> 0, cells |-> Uploaded(changed)])
     /\ UNCHANGED <<idx, slotKey, slotHost, colHost>>

\* refresh_slot_config: the slots whose request is not the one of last time.
Changed(ids) == { i \in DOMAIN ids : i > Len(slotKey) \/ slotKey[i] # ids[i] }

\* build_and_upload_gpu.  The pinned slot tables have no event: nothing waits
\* for the copies of the step before.
BuildGpu(take) ==
  way.backend = "gpu" /\
  LET ids == Ids(take)
      moved == ids # slotKey
      fresh == IF moved THEN Changed(ids) ELSE {}
      v == VecsAfter({ ids[i] : i \in fresh })
      resolved == moved \/ (gated /\ ~IdleFast(take))
      seen == gated \/ (resolved /\ \E i \in DOMAIN ids : Gates(ids[i]))
  IN /\ Build(take)
     /\ slotHost' = [i \in Reqs |-> IF i \in fresh THEN SlotOf(ids[i], v) ELSE slotHost[i]]
     /\ slotKey' = ids
     /\ gated' = seen
     /\ colHost' = [i \in Reqs |-> IF seen /\ resolved /\ i \in DOMAIN ids
                                   THEN StepCols(take)[i] ELSE colHost[i]]
     /\ vecs' = v
     /\ Launch(take, v, [op |-> "scatter", slots |-> moved, cols |-> seen /\ resolved,
                         ends |-> [i \in DOMAIN ids |-> End(take, ids[i])],
                         width |-> Width(Total(take))])
     /\ UNCHANGED <<mirror, idx, state>>

\* The device: a copy of pinned cells into the slab.
RunCopy ==
  LET c == Head(stream).copy
  IN /\ stream # <<>> /\ c.op = "mirror"
     /\ slab' = [l \in Layers |-> [j \in Cols |->
                   IF <<l, j>> \in c.cells THEN mirror[c.slot][l][j] ELSE slab[l][j]]]
     /\ stream' = [stream EXCEPT ![1].copy = NoCopy]
     /\ UNCHANGED <<host, slotDev, colDev, ran>>

\* The slot tables on the device after the copies that y makes.
SlotsAfter(y) == [i \in Reqs |-> IF y.slots /\ i <= Len(y.ends) THEN slotHost[i] ELSE slotDev[i]]
ColsAfter(y) == [i \in Reqs |-> IF y.cols /\ i <= Len(y.ends) THEN colHost[i] ELSE colDev[i]]

\* scatter_routing: a column's slot is found by its place among the ends.
SlotAt(y, j) == Min({ i \in 1 .. Len(y.ends) : j <= y.ends[i] })
Spread(y, slots, cols, l, j) ==
  LET i == SlotAt(y, j)
  IN IF /\ j <= y.ends[Len(y.ends)] /\ l \in slots[i].layers
        /\ y.cols => cols[i] \in {ColAll, j}
     THEN slots[i].cell ELSE NoSteer

RunScatter ==
  LET y == Head(stream).copy
  IN /\ stream # <<>> /\ y.op = "scatter"
     /\ slotDev' = SlotsAfter(y) /\ colDev' = ColsAfter(y)
     /\ slab' = [l \in Layers |-> [j \in Cols |->
                   IF j > y.width THEN slab[l][j]
                   ELSE Spread(y, SlotsAfter(y), ColsAfter(y), l, j)]]
     /\ stream' = [stream EXCEPT ![1].copy = NoCopy]
     /\ UNCHANGED <<host, ran>>

\* _steer_buffer_impl on every layer, for the columns of the batch.
RunForward ==
  LET op == Head(stream)
  IN /\ stream # <<>> /\ op.copy.op = "none"
     /\ ran' = [got |-> [l \in Layers |-> [j \in Cols |-> IF j <= op.n THEN slab[l][j] ELSE NoSteer]],
                want |-> op.want]
     /\ stream' = Tail(stream)
     /\ UNCHANGED <<host, slotDev, colDev, slab>>

SteerNext ==
  \/ /\ Len(stream) < Ahead[way.backend]
     /\ \E take \in Batches :
          Reuse(take) \/ BuildHost(take) \/ BuildIncremental(take) \/ BuildGpu(take)
  \/ RunCopy
  \/ RunScatter
  \/ RunForward

SteerSpec == SteerInit /\ [][SteerNext]_steerVars

-----------------------------------------------------------------------------
(* Properties. *)

Cells == {NoSteer} \cup (Nat \X BOOLEAN)
Slabs == [Layers -> [Cols -> Cells]]
Slots == [layers : SUBSET Layers, cell : Cells]
Copies == {NoCopy}
  \cup [op : {"mirror"}, slot : 0 .. Depth - 1, cells : SUBSET (Layers \X Cols)]
  \cup [op : {"scatter"}, slots : BOOLEAN, cols : BOOLEAN, ends : Seq(Cols), width : Cols]

\* The vector table is never overrun and no file takes two of its rows; slots
\* steer with rows that exist.
SteerTypeOK ==
  /\ way \in Ways /\ computed \in [Reqs -> Nat] /\ gated \in BOOLEAN
  /\ lastKey.qsl \in Seq(Nat) /\ lastKey.cols \in Seq(Int) /\ lastKey.width \in 0 .. Cap
  /\ mirror \in [0 .. Depth - 1 -> Slabs] /\ idx \in 0 .. Depth - 1
  /\ state \in Slabs /\ slab \in Slabs /\ ran \in [got : Slabs, want : Slabs]
  /\ vecs \in Seq({Asks[r].path : r \in Reqs}) /\ Len(vecs) <= VMax
  /\ \A i, j \in DOMAIN vecs : vecs[i] = vecs[j] => i = j
  /\ slotKey \in Seq(Reqs) /\ Len(slotKey) <= Len(Asks)
  /\ slotHost \in [Reqs -> Slots] /\ slotDev \in [Reqs -> Slots]
  /\ colHost \in [Reqs -> Int] /\ colDev \in [Reqs -> Int]
  /\ \A i \in Reqs : slotHost[i] # Unset => slotHost[i].cell[1] \in DOMAIN vecs
  /\ stream \in Seq([copy : Copies, n : Cols, want : Slabs])
  /\ Len(stream) <= Ahead[way.backend]

\* Every forward steers exactly the tokens its requests asked for, with their
\* own vectors, whichever way filled the slab, although routings are reused
\* while their key stands, cells are uploaded only when they change and slot
\* tables only when the batch is composed anew.  (install_steer.py:305-380)
ForwardSteersAsAsked == ran.got = ran.want

-----------------------------------------------------------------------------
(* The invariant this rests on. *)

\* Does the copy of the k-th queued step write cell (l, c), and with what?
Covers(k, l, c) ==
  LET y == stream[k].copy
  IN \/ y.op = "mirror" /\ <<l, c>> \in y.cells
     \/ y.op = "scatter" /\ c <= y.width
Written(k, l, c) ==
  LET y == stream[k].copy
  IN IF y.op = "mirror" THEN mirror[y.slot][l][c]
      ELSE Spread(y, SlotsAfter(y), ColsAfter(y), l, c)

\* Cell (l, c) is x when the device has done the copies of i queued steps.
Shows(i, l, c, x) ==
  \/ x = slab[l][c] /\ \A k \in 1 .. i : ~Covers(k, l, c)
  \/ \E k \in 1 .. i : /\ Covers(k, l, c) /\ x = Written(k, l, c)
                      /\ \A m \in k + 1 .. i : ~Covers(m, l, c)

\* The forward of the i-th queued step will meet the cells its requests asked for.
Meets(i) ==
  /\ stream[i].copy.op = "mirror" => way.backend # "gpu"
  /\ stream[i].copy.op = "scatter" => way.backend = "gpu" /\ Len(stream[i].copy.ends) \in Reqs
  /\ \A l \in Layers : \A c \in Cols :
       IF c <= stream[i].n THEN Shows(i, l, c, stream[i].want[l][c])
       ELSE stream[i].want[l][c] = NoSteer

\* And a queued copy has a mirror slot of its own.
QueueInv ==
  /\ \A i \in DOMAIN stream : Meets(i)
  /\ \A i, j \in DOMAIN stream :
       stream[i].copy.op = "mirror" /\ stream[j].copy.op = "mirror"
         /\ stream[i].copy.slot = stream[j].copy.slot => i = j

\* The incremental way: its state is what its mirror holds and what the slab
\* comes to.
StateInv == way.backend = "incremental" =>
  /\ mirror[0] = state
  /\ \A l \in Layers : \A c \in Cols : Shows(Len(stream), l, c, state[l][c])

\* The vector that r wants has its row of the table, or never gets one.
Served(v, r) == Wants(r) => ~HasRow(v) \/ \E i \in DOMAIN v : v[i] = Asks[r].path

\* Slots that steer alike.
Same(a, b) == a.layers = b.layers /\ (a.layers # {} => a.cell = b.cell)

\* The gpu way: each slot is that of its request, on the device too but for a
\* copy on its way; and a gate has been noticed.
SlotRight(i) ==
  /\ Served(vecs, slotKey[i])
  /\ Same(slotHost[i], SlotOf(slotKey[i], vecs))
  /\ \/ slotDev[i] = slotHost[i]
     \/ /\ stream # <<>> /\ stream[1].copy.op = "scatter" /\ stream[1].copy.slots
        /\ i <= Len(stream[1].copy.ends)
  /\ Gates(slotKey[i]) => gated

TableInv == way.backend = "gpu" => \A i \in DOMAIN slotKey : SlotRight(i)

\* What a batch steers when the key's columns say so.
Planned(take, v, cols, l, c) ==
  LET ids == Ids(take)
      here == { i \in DOMAIN ids :
                  /\ c \in First(take, ids[i]) .. End(take, ids[i])
                  /\ Asks[ids[i]].valid /\ l \in SlotOf(ids[i], v).layers
                  /\ cols # <<>> => cols[i] \in {ColAll, c} }
  IN IF here = {} THEN NoSteer ELSE SlotOf(ids[CHOOSE i \in here : TRUE], v).cell

\* The key stands for what the slab comes to: an idle batch for no steering, any
\* other for its requests, tokens and, once a gate was seen, columns.
StandsIdle ==
  /\ lastKey.ids = <<0>>
  /\ \A l \in Layers : \A c \in 1 .. lastKey.width : Shows(Len(stream), l, c, NoSteer)

StandsFor(take) ==
  /\ Total(take) \in Cols /\ lastKey.ids = Ids(take)
  /\ lastKey.qsl = [i \in DOMAIN Ids(take) |-> take[Ids(take)[i]]]
  /\ lastKey.cols # <<>> \/ ~gated =>
       /\ \A l \in Layers : \A c \in 1 .. Total(take) :
            Shows(Len(stream), l, c, Planned(take, vecs, lastKey.cols, l, c))
       /\ \A r \in Reqs : take[r] > 0 /\ SlotOf(r, vecs).layers # {} /\ Gates(r) => gated

KeyInv == lastKey = NoKey \/ StandsIdle \/ \E take \in [Reqs -> 0 .. Cap] : StandsFor(take)

SteerInv ==
  /\ SteerTypeOK /\ ForwardSteersAsAsked
  /\ QueueInv /\ StateInv /\ TableInv /\ KeyInv
=============================================================================
