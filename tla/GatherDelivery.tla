--------------------------- MODULE GatherDelivery ---------------------------
(***************************************************************************)
(* The gather of a shared-file capture (core/aperture/aperture_gather.py,  *)
(* aperture_trim.py): worker processes that follow the index chain of      *)
(* RunIndexChain, copy each request's rows out of the shared layer files   *)
(* into a directory of its own, put a manifest there when the chain stamps *)
(* the request complete, and free ("punch") what every worker has passed.  *)
(*                                                                         *)
(*   publisher  the run's index flusher: appends segments, then a final    *)
(*              one, or none when its last flush fails;                    *)
(*   workers    each owns every NWorkers-th layer of a request; a batch of *)
(*              segments is scattered, finalized, then trimmed behind;     *)
(*   readers    load_delivery, at any moment; wait_delivered's gap test.   *)
(*                                                                         *)
(* The workers share no lock: they see each other only through the marker  *)
(* files, each one a worker's cursor and the floors of its layers.  Row i  *)
(* of a layer file is the bytes [i*RowBytes, (i+1)*RowBytes); its content  *)
(* is the number i, or Zero once a hole reaches it.  A Bug operator is a   *)
(* mistaken version of the definition after it, no part of Next.           *)
(***************************************************************************)
EXTENDS Integers, Sequences, FiniteSets, FiniteSetsExt, SequencesExt

CONSTANTS
  NWorkers,    \* gather workers
  Reqs,        \* request ids
  NoReq,       \* owner of a row nobody captured
  LayersOf,    \* the layers of each request, in install order
  OwnerOf,     \* the owner of each row, row i at index i+1
  MaxSegments, \* bound: segments published
  BatchRows,   \* batch_bytes // row_bytes
  RowBytes, Align, Chunk, Lag,  \* bytes: a row, the punch alignment, trim chunk and lag
  Leftovers,   \* does the delivery directory hold an earlier launch's deliveries?
  Crashes      \* can a worker die?

Workers == 0 .. NWorkers - 1
Layers == UNION { ToSet(LayersOf[r]) : r \in Reqs }
MaxRow == Len(OwnerOf)

ASSUME GatherAssumption ==
  /\ NWorkers \in Nat \ {0} /\ NoReq \notin Reqs /\ IsFiniteSet(Reqs)
  /\ \A r \in Reqs : LayersOf[r] \in Seq(Nat) /\ IsInjective(LayersOf[r])
  /\ OwnerOf \in Seq(Reqs \cup {NoReq})
  /\ MaxSegments \in Nat /\ BatchRows \in Nat \ {0}
  /\ RowBytes \in Nat \ {0} /\ Align \in Nat \ {0} /\ Chunk \in Nat \ {0} /\ Lag \in Nat
  /\ Leftovers \in BOOLEAN /\ Crashes \in BOOLEAN

VARIABLES
  chain,      \* the segment files: [upTo, stamps, final]
  publisher,  \* "on", "off": the index is stopped, and the workers told to end
  worker,     \* each GatherPass
  file,       \* file[r][L]: <delivery dir>/<r>/hs_layer_<L>.raw, row by row
  manifests,  \* manifests[r]: [worker, n, run]
  marker,     \* hs_trim.w<w>of<n>.json: [at, floor]
  punched     \* punched[L]: the hole of layer file L is [0, punched[L])

vars == <<chain, publisher, worker, file, manifests, marker, punched>>

Zero == -1      \* a punched row reads back as zeros
Leftover == -2  \* a row of a previous launch's delivery

IdlePass == [pc |-> "idle", seq |-> 0, next |-> 0, todo |-> {}, ready |-> {},
             known |-> {}, wrote |-> [r \in Reqs |-> [first |-> 0, all |-> 0]],
             floors |-> [L \in Layers |-> 0], due |-> {}, target |-> 0,
             freed |-> [L \in Layers |-> 0], reported |-> FALSE]

\* The delivery directory may hold a complete delivery of an earlier launch:
\* clear_chain removes the old chain and its markers, and no delivery.
Init ==
  /\ chain = <<>> /\ publisher = "on"
  /\ worker = [w \in Workers |-> IdlePass]
  /\ file = [r \in Reqs |-> [L \in Layers |-> IF Leftovers THEN <<Leftover>> ELSE <<>>]]
  /\ manifests = [r \in Reqs |->
       IF Leftovers THEN {[worker |-> w, n |-> 1, run |-> "old"] : w \in Workers} ELSE {}]
  /\ marker = [w \in Workers |-> [at |-> 0, floor |-> [L \in Layers |-> 0]]]
  /\ punched = [L \in Layers |-> 0]

-----------------------------------------------------------------------------
(* The chain. *)

UpTo(n) == IF n = 0 THEN 0 ELSE chain[n].upTo
\* The rows of request r within [lo, hi).
RowsOf(r, lo, hi) == { i \in lo .. hi - 1 : OwnerOf[i + 1] = r }
\* Rows in the order of the layer files, which is the order they are copied in.
Ascending(rows) ==
  [k \in 1 .. Cardinality(rows) |->
     CHOOSE i \in rows : Cardinality({ j \in rows : j < i }) = k - 1]
\* The requests stamped in the first n segments.
StampsTo(n) == UNION { chain[i].stamps : i \in 1 .. n }
Stamped == StampsTo(Len(chain))
StampTotal(r) == Cardinality(RowsOf(r, 0, MaxRow))

\* One more segment: the rows up to hi, with the stamps of complete requests.
Publish(hi, stamps, final) ==
  /\ publisher = "on"
  /\ Len(chain) < MaxSegments
  /\ hi \in UpTo(Len(chain)) .. MaxRow
  /\ hi > UpTo(Len(chain)) \/ stamps # {} \/ final
  /\ \A r \in stamps : r \notin Stamped /\ RowsOf(r, hi, MaxRow) = {}
  /\ chain' = Append(chain, [upTo |-> hi, stamps |-> stamps, final |-> final])
  /\ publisher' = IF final THEN "off" ELSE "on"
  /\ UNCHANGED <<worker, file, manifests, marker, punched>>

\* The final flush fails: the chain stays without a final segment.  In both
\* cases ApertureGatherProcess.close follows, which sends None to the workers.
PublisherFails ==
  /\ publisher = "on"
  /\ publisher' = "off"
  /\ UNCHANGED <<chain, worker, file, manifests, marker, punched>>

-----------------------------------------------------------------------------
(* GatherPass: one batch of segments. *)

\* layers_for_worker: by position in the request's layers.
Share ==
  [r \in Reqs |-> [w \in Workers |->
     { LayersOf[r][i] : i \in { i \in DOMAIN LayersOf[r] : (i - 1) % NWorkers = w } }]]

Mine(r, w) == Share[r][w]

\* st.mine[0]
FirstMine(r, w) == LayersOf[r][w + 1]

\* _take_batch: segments until one is final or their rows fill a batch.
BatchEnd(from) ==
  LET full == { n \in from + 1 .. Len(chain) :
                  chain[n].final \/ UpTo(n) - UpTo(from) >= BatchRows }
  IN IF full = {} THEN Len(chain) ELSE Min(full)

ChunkEnd(c0, hi) == Min({c0 + BatchRows, hi})

\* _scatter_window's plan for the rows [lo, hi): the chunks, by their first
\* row, and in each the layers of this worker that have rows in it.
Plan(w, lo, hi) ==
  { x \in (lo .. hi - 1) \X Layers :
      /\ (x[1] - lo) % BatchRows = 0
      /\ \E i \in x[1] .. ChunkEnd(x[1], hi) - 1 : \E r \in Reqs :
           OwnerOf[i + 1] = r /\ x[2] \in Mine(r, w) }

\* trimmed_floor_rows, over the markers ms.
Floors(ms) == [L \in Layers |-> Max({ ms[w].floor[L] : w \in Workers })]

Reclaimed(L, row, floors) == floors[L] > 0 /\ row < floors[L]

\* (Mistake: files an earlier launch left are written into as they are.)
BugNoTruncate(w, fresh) == UNCHANGED file

\* _touch: the files of a request this pass has not touched yet are truncated.
Touch(w, fresh) ==
  file' = [r \in Reqs |-> [L \in Layers |->
             IF r \in fresh /\ L \in Mine(r, w) THEN <<>> ELSE file[r][L]]]

\* poll_once: take a batch, feed the cursor, read the floors, begin to scatter.
TakeBatch(w, end) ==
  LET p == worker[w]
      seen == { r \in Reqs : RowsOf(r, UpTo(p.seq), UpTo(end)) # {} }
  IN /\ p.pc = "idle"
     /\ end > p.seq /\ end = BatchEnd(p.seq) /\ ~(p.seq > 0 /\ chain[p.seq].final)
     /\ worker' = [worker EXCEPT ![w] =
          [p EXCEPT !.pc = "batch", !.next = end,
                    !.todo = Plan(w, UpTo(p.seq), UpTo(end)),
                    !.ready = UNION { chain[n].stamps : n \in p.seq + 1 .. end },
                    !.known = @ \cup seen, !.floors = Floors(marker)]]
     /\ Touch(w, seen \ p.known)
     /\ UNCHANGED <<chain, publisher, manifests, marker, punched>>

\* What row i of layer file L reads back as.
RowContent(L, i) == IF i * RowBytes < punched[L] THEN Zero ELSE i

\* _read_rows: these rows of layer L, as they read back.
Read(L, rows) == [k \in 1 .. Cardinality(rows) |-> RowContent(L, Ascending(rows)[k])]

\* The rows of request r that this worker copies of the chunk c of layer L.
ChunkRows(w, c, L, r) ==
  IF L \in Mine(r, w) THEN RowsOf(r, c, ChunkEnd(c, UpTo(worker[w].next))) ELSE {}

\* _read_rows and _append of one layer of a chunk, in order; a reclaimed chunk
\* is refused.
Scatter(w, c, L) ==
  LET p == worker[w]
      n == [r \in Reqs |-> Cardinality(ChunkRows(w, c, L, r))]
  IN /\ <<c, L>> \in p.todo
     /\ \A other \in p.todo : c < other[1] \/ (c = other[1] /\ L <= other[2])
     /\ IF Reclaimed(L, c, p.floors)
        THEN /\ worker' = [worker EXCEPT ![w].pc = "refused", ![w].todo = {}]
             /\ UNCHANGED file
        ELSE /\ file' = [r \in Reqs |-> [file[r] EXCEPT ![L] =
                           @ \o Read(L, ChunkRows(w, c, L, r))]]
             /\ worker' = [worker EXCEPT ![w].todo = @ \ {<<c, L>>},
                  ![w].wrote = [r \in Reqs |->
                    [first |-> @[r].first + (IF L \in Mine(r, w) /\ L = FirstMine(r, w)
                                             THEN n[r] ELSE 0),
                     all |-> @[r].all + n[r]]]]
     /\ UNCHANGED <<chain, publisher, manifests, marker, punched>>

Manifest(w, n) == [worker |-> w, n |-> n, run |-> "this"]

\* The same file name replaces what an earlier launch of as many workers left.
WithManifest(r, w, n) ==
  manifests' = [manifests EXCEPT ![r] = { m \in @ : m.worker # w } \cup {Manifest(w, n)}]

\* _finalize: the manifest of a stamped request, refused over a short file.
FinalizeRequest(w, r) ==
  LET p == worker[w]
      mine == Mine(r, w)
      whole == /\ p.wrote[r].first = StampTotal(r)
               /\ p.wrote[r].all = p.wrote[r].first * Cardinality(mine)
      popped == [p EXCEPT !.ready = @ \ {r}, !.known = @ \ {r},
                          !.wrote[r] = [first |-> 0, all |-> 0]]
  IN CASE r \notin p.known /\ StampTotal(r) = 0 /\ w = 0 ->
            /\ WithManifest(r, 0, 0)   \* _write_empty
            /\ worker' = [worker EXCEPT ![w] = popped]
       [] r \in p.known /\ mine # {} /\ whole ->
            /\ WithManifest(r, w, StampTotal(r))
            /\ worker' = [worker EXCEPT ![w] = popped]
       [] r \in p.known /\ mine # {} /\ ~whole ->
            /\ worker' = [worker EXCEPT ![w].pc = "refused"]
            /\ UNCHANGED manifests
       [] OTHER ->   \* nothing of it is this worker's
            /\ worker' = [worker EXCEPT ![w] = popped]
            /\ UNCHANGED manifests

\* The stamps of the batch, one after the other.
Finalize(w) ==
  /\ worker[w].pc = "batch" /\ worker[w].todo = {} /\ worker[w].ready # {}
  /\ FinalizeRequest(w, CHOOSE r \in worker[w].ready : TRUE)
  /\ UNCHANGED <<chain, publisher, file, marker, punched>>

-----------------------------------------------------------------------------
(* _maybe_trim. *)

\* (Mistake: the cursor is kept in bytes and read as a row.)
BugCursorInBytes(w) == UpTo(worker[w].next) * RowBytes

\* (Mistake: every row of the chain counts as read.)
BugChainEnd(w) == UpTo(Len(chain))

\* This worker's cursor.lo.
CursorRow(w) == UpTo(worker[w].next)

TrimLayers(w) == { L \in Layers : L % NWorkers = w }

AlignDown(n) == (n \div Align) * Align

\* (Mistake: the floor is rounded down to a whole row.)
BugFloorRow(bytes) == bytes \div RowBytes

\* floor_row_for_bytes: the first row no hole reaches.
FloorRow(bytes) == (bytes + RowBytes - 1) \div RowBytes

\* (Mistake: a worker frees what it has read itself.)
BugOwnCursor(w) == CursorRow(w)

\* The slowest cursor; a worker that has published none has none.
SlowestRow(w) ==
  IF \E v \in Workers \ {w} : ~worker[v].reported THEN 0
  ELSE Min({CursorRow(w)} \cup { marker[v].at : v \in Workers \ {w} })

TrimTarget(w) == LET safe == SlowestRow(w) * RowBytes - Lag
                 IN IF safe <= 0 THEN 0 ELSE AlignDown(safe)

Due(w) == { L \in TrimLayers(w) : TrimTarget(w) - worker[w].freed[L] >= Chunk }

Delivered(w) == worker[w].pc = "batch" /\ worker[w].todo = {} /\ worker[w].ready = {}

\* The batch is delivered and no file is due.  The cursor is published at the
\* first batch, at the final one, and in between when half a second has passed.
Report(w) ==
  /\ Delivered(w) /\ Due(w) = {}
  /\ worker' = [worker EXCEPT ![w].pc = "idle", ![w].seq = worker[w].next,
       ![w].reported = TRUE, ![w].floors = [L \in Layers |-> 0]]
  /\ \/ marker' = [marker EXCEPT ![w].at = CursorRow(w)]
     \/ /\ worker[w].reported /\ ~chain[worker[w].next].final
        /\ UNCHANGED marker
  /\ UNCHANGED <<chain, publisher, file, manifests, punched>>

\* Files are due: their floors are published with the cursor before a hole is
\* made in any of them.
Announce(w) ==
  /\ Delivered(w) /\ Due(w) # {}
  /\ worker' = [worker EXCEPT ![w].pc = "punch", ![w].seq = worker[w].next,
       ![w].reported = TRUE, ![w].floors = [L \in Layers |-> 0],
       ![w].due = Due(w), ![w].target = TrimTarget(w)]
  /\ marker' = [marker EXCEPT ![w].at = CursorRow(w),
       ![w].floor = [L \in Layers |-> IF L \in Due(w) THEN FloorRow(TrimTarget(w)) ELSE @[L]]]
  /\ UNCHANGED <<chain, publisher, file, manifests, punched>>

\* fallocate(PUNCH_HOLE) of one due layer file.
Punch(w, L) ==
  LET p == worker[w]
  IN /\ p.pc = "punch" /\ L \in p.due /\ \A M \in p.due : L <= M
     /\ punched' = [punched EXCEPT ![L] = p.target]
     /\ worker' = [worker EXCEPT ![w] =
          [p EXCEPT !.due = @ \ {L}, !.freed[L] = p.target,
                    !.target = IF p.due = {L} THEN 0 ELSE @,
                    !.pc = IF p.due = {L} THEN "idle" ELSE @]]
     /\ UNCHANGED <<chain, publisher, file, manifests, marker>>

-----------------------------------------------------------------------------
(* _gather_child. *)

\* (Mistake: None ends the worker with segments still to read.)
BugDoneWithoutLastPass(w) ==
  /\ worker[w].pc = "idle" /\ publisher = "off"
  /\ worker' = [worker EXCEPT ![w].pc = "done"]
  /\ UNCHANGED <<chain, publisher, file, manifests, marker, punched>>

\* It ends after the final segment, or on None with nothing left to consume.
Done(w) ==
  LET p == worker[w]
  IN /\ p.pc = "idle"
     /\ \/ p.seq > 0 /\ chain[p.seq].final
        \/ publisher = "off" /\ Len(chain) = p.seq
     /\ worker' = [worker EXCEPT ![w].pc = "done"]
     /\ UNCHANGED <<chain, publisher, file, manifests, marker, punched>>

\* The process is killed, or terminated by a close that ran out of time.
Die(w) ==
  /\ Crashes
  /\ worker[w].pc \notin {"done", "refused", "dead"}
  /\ worker' = [worker EXCEPT ![w].pc = "dead", ![w].todo = {}, ![w].due = {}]
  /\ UNCHANGED <<chain, publisher, file, manifests, marker, punched>>

WorkerStep(w) ==
  \/ \E end \in 1 .. MaxSegments : TakeBatch(w, end)
  \/ \E c \in 0 .. MaxRow - 1, L \in Layers : Scatter(w, c, L)
  \/ Finalize(w) \/ Report(w) \/ Announce(w) \/ Done(w)
  \/ \E L \in Layers : Punch(w, L)

Next ==
  \/ \E hi \in 0 .. MaxRow, stamps \in SUBSET Reqs, final \in BOOLEAN :
       Publish(hi, stamps, final)
  \/ PublisherFails
  \/ \E w \in Workers : WorkerStep(w) \/ Die(w)

Spec == Init /\ [][Next]_vars

\* A worker process keeps running; nothing else is promised to happen.
FairSpec == Spec /\ \A w \in Workers : WF_worker(WorkerStep(w))

-----------------------------------------------------------------------------
(* What a reader finds. *)

\* read_manifests, kept to this launch's run id.
RunManifests(r) == { m \in manifests[r] : m.run = "this" }

\* The workers a complete delivery of these layers needs.
NeededWorkers(r) == { w \in Workers : Mine(r, w) # {} }

EmptyDelivery(ms) == \E m \in ms : m.n = 0

\* _worker_gap: no manifest is missing.
NoGap(r) == /\ RunManifests(r) # {}
            /\ \/ EmptyDelivery(RunManifests(r))
               \/ NeededWorkers(r) \subseteq { m.worker : m \in RunManifests(r) }

\* load_delivery does not refuse the directory.
Loadable(r) ==
  LET ms == RunManifests(r)
  IN /\ ms # {}
     /\ \A m1, m2 \in ms : m1.n = m2.n
     /\ \/ EmptyDelivery(ms)
        \/ /\ { m.worker : m \in ms } = NeededWorkers(r)
           /\ \A L \in ToSet(LayersOf[r]) : \A m \in ms : Len(file[r][L]) = m.n

-----------------------------------------------------------------------------
(* Properties. *)

\* Types.
Passes ==
  [pc : {"idle", "batch", "punch", "done", "refused", "dead"}, seq : Nat, next : Nat,
   todo : SUBSET ((0 .. MaxRow) \X Layers), ready : SUBSET Reqs, known : SUBSET Reqs,
   wrote : [Reqs -> [first : Nat, all : Nat]], floors : [Layers -> Nat],
   due : SUBSET Layers, target : Nat, freed : [Layers -> Nat], reported : BOOLEAN]

TypeOK ==
  /\ chain \in Seq([upTo : 0 .. MaxRow, stamps : SUBSET Reqs, final : BOOLEAN])
  /\ publisher \in {"on", "off"}
  /\ worker \in [Workers -> Passes]
  /\ file \in [Reqs -> [Layers -> Seq(-2 .. MaxRow)]]
  /\ manifests \in [Reqs -> SUBSET [worker : Workers, n : Nat, run : {"this", "old"}]]
  /\ marker \in [Workers -> [at : Nat, floor : [Layers -> Nat]]]
  /\ punched \in [Layers -> Nat]

\* The chain goes forward, and stamps a request once, behind its last row.
ChainInv ==
  /\ \A m, n \in DOMAIN chain :
       /\ m <= n => chain[m].upTo <= chain[n].upTo
       /\ m # n => chain[m].stamps \cap chain[n].stamps = {}
  /\ \A n \in DOMAIN chain : \A r \in chain[n].stamps :
       RowsOf(r, chain[n].upTo, MaxRow) = {}

\* Where a pass is in its batch.
PassInv(w) ==
  LET p == worker[w]
      batch == StampsTo(p.next) \ StampsTo(p.seq)
  IN /\ p.pc # "refused"
     /\ p.seq <= p.next /\ p.next <= Len(chain)
     /\ p.pc \in {"idle", "punch", "done"} => p.seq = p.next
     /\ p.pc # "batch" => p.todo = {}
     /\ p.pc # "punch" => p.due = {}
     /\ p.ready \subseteq batch
     /\ p.todo # {} => p.ready = batch

\* The requests this worker has served, those it has met a row of, and the rows of a
\* request it has copied of a layer.
Finished(w) == StampsTo(worker[w].next) \ worker[w].ready
Met(w) == { r \in Reqs : RowsOf(r, 0, UpTo(worker[w].next)) # {} }
Left(w, L) ==
  UNION { x[1] .. x[1] + BatchRows - 1 : x \in { x \in worker[w].todo : x[2] = L } }
Got(w, r, L) == RowsOf(r, 0, UpTo(worker[w].next)) \ Left(w, L)
Copied(w, r) == { x \in Mine(r, w) \X (0 .. MaxRow) : x[2] \in Got(w, r, x[1]) }

\* What is left of a batch: whole chunks, each behind every row copied of its layer.
TodoInv(w) ==
  \A x \in worker[w].todo :
    /\ UpTo(worker[w].seq) <= x[1]
    /\ (x[1] - UpTo(worker[w].seq)) % BatchRows = 0
    /\ \A r \in Reqs : x[2] \in Mine(r, w) => \A i \in Got(w, r, x[2]) : i < x[1]

\* The pass's own account agrees with its files.
CopyInv(w) ==
  worker[w].pc # "dead" =>
    /\ worker[w].known = Met(w) \ Finished(w)
    /\ \A r \in Reqs : worker[w].wrote[r] =
         IF r \notin worker[w].known THEN [first |-> 0, all |-> 0]
         ELSE [first |-> IF Mine(r, w) = {} THEN 0
                         ELSE Cardinality(Got(w, r, FirstMine(r, w))),
               all |-> Cardinality(Copied(w, r))]
    /\ \A r \in Met(w) : \A L \in Mine(r, w) : file[r][L] = Ascending(Got(w, r, L))

\* A manifest counts the rows of its request, and stands over whole files.
ManifestInv ==
  \A r \in Reqs : \A m \in RunManifests(r) :
    /\ m.n = StampTotal(r) /\ r \in Finished(m.worker)
    /\ m.n > 0 =>
         /\ Mine(r, m.worker) # {}
         /\ \A L \in Mine(r, m.worker) : file[r][L] = Ascending(RowsOf(r, 0, MaxRow))

\* Markers, floors and holes stay behind every cursor, and a hole behind its floor.
TrimInv(w) ==
  /\ marker[w].at <= UpTo(worker[w].seq)
  /\ \A L \in Layers :
       /\ \A v \in Workers : marker[v].floor[L] <= UpTo(worker[w].seq)
       /\ worker[w].floors[L] <= UpTo(worker[w].seq)
  /\ \A L \in TrimLayers(w) :
       punched[L] = worker[w].freed[L] /\ FloorRow(punched[L]) <= marker[w].floor[L]
  /\ \A L \in worker[w].due :
       L \in TrimLayers(w) /\ marker[w].floor[L] = FloorRow(worker[w].target)

\* The gather never refuses its own chain: no pass stops on a short request or on
\* rows that were freed, although a punch by one worker frees rows of files another
\* one reads.  The other conjuncts are what makes this inductive.
GatherInv ==
  /\ TypeOK /\ ChainInv /\ ManifestInv
  /\ \A w \in Workers : PassInv(w) /\ TodoInv(w) /\ CopyInv(w) /\ TrimInv(w)

\* What load_delivery hands out is the whole capture of the request: every one
\* of its rows, in order, in each of its layers, none of them zeros from a hole
\* and none left from an earlier launch.
LoadedIsWhole ==
  \A r \in Reqs : Loadable(r) =>
    \/ StampTotal(r) = 0
    \/ \A L \in ToSet(LayersOf[r]) :
         file[r][L] = Ascending(RowsOf(r, 0, MaxRow))

\* wait_delivered loads as soon as no manifest is missing: the load must then
\* find nothing to refuse, whatever the workers are doing.
NoGapIsLoadable == \A r \in Reqs : NoGap(r) => Loadable(r)

\* A delivery that can be loaded stays so, with the same rows, whatever the workers
\* still do, die of, or write for other requests.
LoadedStays ==
  [][\A r \in Reqs : Loadable(r) =>
       /\ Loadable(r)'
       /\ \/ StampTotal(r) = 0
          \/ \A L \in ToSet(LayersOf[r]) : file'[r][L] = file[r][L]]_vars

\* A hole never reaches a row some running worker has still to read, although a
\* worker frees files by layer number and reads them by position; and every row a
\* hole reaches, wholly or in part, lies below a floor some marker has published,
\* so a reader that looks at the markers is warned.
PunchedRowsArePassedAndFloored ==
  \A L \in Layers :
    /\ \A w \in Workers : worker[w].pc \notin {"done", "dead"} =>
         \A i \in UpTo(worker[w].seq) .. MaxRow - 1 : RowContent(L, i) = i
    /\ \A i \in 0 .. MaxRow - 1 :
         RowContent(L, i) = Zero => Reclaimed(L, i, Floors(marker))

\* A stamped request becomes loadable unless a worker that has a layer of it
\* dies; a request without rows needs worker 0 only.
StampedIsDelivered ==
  \A r \in Reqs :
    (r \in Stamped) ~>
      (Loadable(r) \/ \E w \in NeededWorkers(r) \cup {0} : worker[w].pc = "dead")

=============================================================================
