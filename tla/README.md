# A verification project for MIA's capture path

MIA (`src/mia`) captures hidden states and attention inputs from a running vLLM
engine and delivers them to whoever asked. This directory holds TLA+ modules that
model the part of it where threads, a GPU stream, files and other processes meet,
and the calculations those parts rest on; TLC configurations that check small
instances; and TLAPS proofs of what must hold for every instance. All paths below
are under `src/mia/core` unless they say otherwise.

## 1. Inventory

| component | state | operations | who it meets |
|---|---|---|---|
| capture ring, `aperture/capture_aperture.py` | two growing cursors, `n_slots`+1 GPU rows | `reserve`, `advance_drain`, `segments_at` | the engine reserves, the drain frees |
| routing, `hooks/install_hs.py`, `hooks/install.py`, `hooks/registry.py` | the step's rows, the capture index and its pinned mirrors, the idle key, the decode cache | `wrapped_prepare_inputs`, `_build_routing_hs`, `_build_routing`, `_aperture_reserve_or_block`, `_run_dummy_pass` | writes the index the capture kernel reads; enqueues steps |
| capture kernel, `hooks/capture_triton.py` | ring slots | scatter | runs later than the call that launched it |
| off-loop drain, `aperture/aperture_drain_hs.py` | queue, file cursors, `_io_lock`, `_closed`, `_error` | `enqueue`, `_run`, `_drain_item_fast`, `stop`, `close` | engine thread, writer pool, index, lock |
| sinks and pool, `aperture/aperture_sink.py` | open files, offsets | `write`, `join_writes`, `close` | drain |
| run-dir lock, same file | a flock on a file that is unlinked at release | `lock_run_dir`, `release_run_lock` | other engines on the host |
| sidecar, `aperture/aperture_metadata.py` | committed blocks | `prepare`, `commit`, `write` | drain, run index |
| run index, `aperture/aperture_run_index.py` | watermark, finish queue, segment chain | `note_step`, `note_finish`, `flush_once`, `stop`, `ChainCursor.feed` | drain thread, flusher thread, gather workers |
| per-request delivery, `aperture_drain_hs.py`, `delivery/per_request_delivery.py`, `workers/hs_capture_worker.py` | host index, staging directories, abort marks | `_demux_into_index`, `_handle_finish`, `clear_request_disk`, RPCs | engine thread, drain thread, offload thread |
| offload, `delivery/offload_process.py` | job queue, in-flight set, results | `submit`, `wait`, `settled` | drain thread, RPCs |
| gather, trim, reader, `aperture/aperture_gather.py`, `aperture_trim.py`, `aperture_reader.py` | per worker: a chain cursor, files, markers with cursor and floors; holes in the raw files | poll, scatter, finalize, trim, `load_delivery`, `wait_delivered` | the run index and the files the drain writes |
| QK drain, `aperture/aperture_drain_qk.py`, `delivery/delivered_probes.py` | two rings, a host index or files per request | demux, finish, assembly, `load_multilayer_qk_aperture_artifact` | engine, client, scheduler's preemptions |
| disk flush probe, `delivery/disk_flush_probe.py`, `_plugin.py` | classes of held-back requests, disarmed flag | `decide`, `note_result`, `drain_all` | coroutines of one event loop |
| delivery choice and sizing, `delivery/delivery_selector.py`, `aperture/aperture_sizing.py` | the environment; free bytes | `resolve`, `apply`, `validate_inherited`; ring size, token cap | every process of a run |
| delivery route and run artifacts, `delivery/delivery_route.py`, `delivery/run_artifact.py`, `src/mia/client.py` | turns of a completion's prompts, the run's lock, manifest and artifact file | turn, append, read | writer tasks, clients, other responses of a run |
| TP shard, `runtime/tp_shard.py` | shard headers | split, check, merge | ranks of a tensor-parallel engine |
| steering, `hooks/install_steer.py`, `hooks/steer_routing_gpu.py`, `src/mia/workers/steer_worker.py` | vector table, slab, mirrors, slot tables | three backends | the forward pass |
| CPU budget, child processes, `runtime/*` | cores, queues | plan, watch the parent | |
| plugin, client, analyzers | requests | patches of vLLM, offline scoring | call all of the above |

What makes this hard: the engine thread returns before its kernels have run; the
drain frees ring rows that the engine is waiting for; three threads share the index
without a common lock; a close has to end all of them with bounded waits; the
scheduler may preempt a request and compute its positions again; host memory is read
by the device long after the call that queued the copy; and the files are shared with
processes that may start, stop or die at any time.

What makes each part correct, in a sentence: *ring* - no pending row is overwritten;
*routing* - every token asked for, and no other, ends in the row its record claims;
*drain* - every enqueued step is stored once, in order, in every layer, and the
sidecar names nothing else; *close* - it ends, and a normal end has stored
everything; *lock* - one live engine per directory; *index* - the chain names every
row once and a request announced complete is complete; *per-request delivery* - a
delivery is whole, a source directory outlives its transfer, and an aborted request
leaves nothing behind; *gather* - what can be loaded is whole, and a hole lies only
under rows every reader has passed; *Q/K history* - the keys of a pass are the
positions it attended to, or the delivery is refused; *artifact* - a reader gets its
own response whole, and the last response keeps the run; *steering* - a forward
steers exactly the tokens asked for; *probe* - no held-back flush is forgotten;
*shards* - a merge of all ranks is the whole tensor or an error; *selector* - a run's
processes agree on one path; *sizing* - the ring holds one step and fits.

## 2. Modules

| module | models | proofs |
|---|---|---|
| `CaptureAperture` | the ring's arithmetic | `ApertureDrain_proofs` |
| `CaptureLog` | abstract: what a capture path promises | |
| `ApertureDrain` | engine, GPU stream, drain thread, writer pool, close; uses `CaptureAperture`, implements `CaptureLog` | `ApertureDrain_proofs` |
| `StepRouting` | which row every batch column is captured to | `StepRouting_proofs` |
| `RunDirLock` | the run directory's lock | `Parts_proofs` |
| `RunIndexChain` | drain thread, flusher, chain reader | `RunIndexChain_proofs` |
| `GatherDelivery` | what follows the chain: gather workers, trim, readers | `GatherDelivery_proofs` |
| `OffloadProcess` | the worker that copies finished directories | `PerRequestDelivery_proofs` |
| `PerRequestDelivery` | worker RPCs, drain thread and clients in per-request mode; extends `OffloadProcess` | `PerRequestDelivery_proofs` |
| `QkHistory` | one request's queries and keys, from the scheduler to the client | `QkHistory_proofs` |
| `RunArtifact` | turns, writers and readers of a run's artifact | `RunArtifact_proofs` |
| `SteerRouting` | the three ways a steering slab is filled | `Parts_proofs` |
| `DiskFlushProbe` | held-back flushes | `Parts_proofs` |
| `TPShard` | splitting and merging over ranks (operators) | `Parts_proofs` |
| `DeliverySelector` | the choice of a delivery and its inheritance (operators) | `Parts_proofs` |
| `ApertureSizing` | ring size and token cap (operators) | `Parts_proofs` |

`MC*.tla` give the constants values. In the modules, an operator whose name starts
with `Bug` is a mistaken version of the definition that follows it; none is part of
a specification. They record which mistake each property is known to notice
(`PROJECT.json`, "mutants"). The last four modules have no run: their facts were
found by evaluating them over bounded inputs, and the proofs, one section of
`Parts_proofs` for each, are what is kept.

### ApertureDrain

A captured row's *value* is its logical index, so "the right bytes" is "the right
number"; `Junk` is any other value. The engine's step is `StartStep`, some
`ReserveRows` (each one request: the code reserves per request and may block in the
middle of a step), then `RunForward` (launch, event, enqueue) or an exception.
`RunKernel` is the GPU: the stream runs kernels in launch order, and the event of a
step has fired when no kernel of that step is left in `gpu`. The drain thread is
`TakeItem` (FIFO assertion), `BeginItem` (io lock, refusal of closed files, file
cursor), `CopyLayer`, `WriteLayer` for each layer in any order (the writer pool),
`CommitItem` or `AbandonItem`, and `FreeItem`, which is outside the lock as in the
code. The closer is the engine's own thread: `BeginFlush` is `flush_aperture`
(stop, then close) and `BeginClose` the atexit `close`; `JoinReturns`,
`StopReturns`, `LockForClose` / `LockTimesOut` and `SealFiles` follow `stop` and
`_close_write_path` line by line, error paths included.

Abstractions: a layer filter per request is not modelled here (every installed layer
receives every row, as in a full drain); what a request's tokens are does not
matter, only how many rows each reservation asks for; a short `pwrite` leaves the
offset alone, so a file is its contents up to the offset; the CPU-only branch of the
copy differs only in where it waits.

`DummyPasses` is an engine that runs batches outside `prepare_inputs` (an idle
data-parallel rank, profiling). They overwrite ring slot 0, so the properties that
must hold in every configuration exempt that slot exactly when `DummyPasses` is set
(`Exempt`), and `CapturedRowsSurvive` states what the documentation says without the
exemption.

### StepRouting

One engine step on the host is `Reuse` (the idle key stands, the routing of the last
step is left) or `Build`: reset a mirror slot, reserve ring rows request by request,
write the row numbers, queue the upload of the first columns. A batch is any
continuation of the requests that the scheduler could make, prompts in chunks
included; `Preempt` sends a request back to its first token. The device runs queued
work in order: `RunUpload` reads the slot *when it is reached*, `RunForward` scatters
every column of the padded batch to the row the device index names. Hidden states
(with the decode cache) and Q/K are two builders of one module; an engine runs one.

A column holds a token (request and position); ring rows are numbered afresh here and
never reused, since freeing them is `ApertureDrain`'s. The graph size a batch is
padded to is the smallest captured one, as in vLLM.

### RunDirLock

One action per system call that another process can see: open-or-create, flock,
compare inodes, unlink, close. Inode numbers may be reused once nothing refers to
the inode. A crash closes descriptors and leaves the file.

### RunIndexChain

The consumer's `CommitStep`/`NoteStep` and `NoteAsked`/`QueueFinish` are two steps
each because the flusher may run between them; the flusher reads the watermark, the
blocks and the finish queue in three steps (`ReadWatermark`, `SliceAndEncode`,
`TakeStamps`), then writes. Run lists are sets of rows. A failed write leaves counts
and stamps as the code leaves them.

### GatherDelivery

The publisher appends segments (`Publish`) or fails (`PublisherFails`): the chain of
`RunIndexChain` as a reader sees it. Each worker takes a batch of unread segments
(`TakeBatch`) and copies the rows of its layers (`Scatter`), puts down the manifests of
stamped requests (`Finalize`), and trims: it publishes its cursor (`Report`), together
with the floors of the files that are due (`Announce`) before it frees what lies below
the slowest published cursor (`Punch`); `Done` ends it after the final segment. `Die`
ends a worker at any of these points. `load_delivery` and the gap test of
`wait_delivered` read files only, so they are state functions (`Loadable`, `NoGap`) and
the properties quantify over every moment a reader may come. A raw row is its number, or
`Zero` once a hole reaches it; a request's file holds what was copied, in the order
of the layer file (`Ascending`). Holes are aligned
to `Align` bytes and rows are `RowBytes`, with values that do not divide each other in
the run.

### PerRequestDelivery and OffloadProcess

Per-request mode has four actors. The *worker* is the engine worker's one thread: it
runs steps (`ExecuteModel`: rows, then the finishes of requests the scheduler ended)
and the RPCs `Start` (`route_to_disk`), `Get`, `Confirm` and the clear. The clear is
four sections between which the drain may run: `ClearDisk` and `ClearSource`
(`clear_request_disk`, under the lock and after it), `MarkHost`, `FreeHost`. The
*consumer* takes an item (`TakeItem` reads the routes once for all its entries),
sorts each entry to the host index or to a directory (`DemuxHost`, `DemuxDisk` under
the lock, `AppendRows` outside it), notes the host rows at the end (`NoteRows`), or
handles a finish in its sections (`HandleFinish`, then `DiscardStaging`,
`SubmitStaging` or `FinishHost`), and reclaims settled sources after every item.
The *offload* worker copies one directory at a time with retries. The *client* polls
while it waits, may stop waiting at any time (timeout, disconnection) and always
clears, as the `finally` of `generate` does.

Abstractions: one layer, one row of a request in a step; a directory is the set of
rows in its raw files and whether it has its sidecar; a copy is one step, since a
partial one is repeated or reported as failed; an entry of the host index exists when
it has rows. External and internal ids are one id used once, so neither the prefix
match nor a second use of an id is modelled. The offload worker exists from the
start (`route_to_disk` makes it on first use, before any job).

### QkHistory

One request from its first step to its end. The *engine* (`Step`, `Preempt`,
`EnqueueFinish`) computes a chunk of the prompt or one token; a preemption starts
over, behind a cached prefix when `CacheHits`. The *consumer* takes items in order
and appends them to the host index or to files (`DemuxToHost`, `DemuxToDisk`,
`DiskWriteFails`), and handles the finish (`FinishHost`, `FinishDisk`,
`FinishAborted`); `Transfer` is one whole run of the offload worker, retries included
(`PerRequestDelivery` and `OffloadProcess` model it step by step). The *client* fetches and
assembles, or confirms and reads; it may time out or abort, and clears
(`ClearDisk`, `MarkHost`, `FreeHost`). A key row is its position, so a history is
right when it is 0, 1, 2, ... up to the length recorded with its query. The scheduler
is external: its moves are those vLLM documents for chunked prefill, preemption by
recomputation and whole cached blocks.

### RunArtifact

A write is one prompt of one response: `Arrive`, `Finish` or `Abort`, `Delivered` or
`NotDelivered`, the wait for its turn (`TurnComes`, `TurnTimesOut`), and `append`
under the run's lock in its steps (`LockRun`, `WriteArtifact`, `WriteManifest`, none of
them when a later response owns the run: `Outdated`). `Crash` kills the server with all
writers and starts a new one. `ReadRun` is the client: it waits for a manifest that
names its response and reads the artifact in a second step. `IdsDiffer` says that no
response id is sent twice; the turns and the last response are stated under it
(section 6).

### SteerRouting

`Reuse` lets the slab stand; `BuildHost` fills a mirror slot and uploads it,
`BuildIncremental` uploads the cells that changed, `BuildGpu` updates the per-slot
tables and queues the kernel that spreads them. `RunCopy`, `RunScatter` and
`RunForward` are the device, in stream order; each forward is compared with what the
requests in its batch asked. A table with fewer rows than vectors, the fast key and
the order of admission are as in the code.

### DiskFlushProbe

One action per section between two awaits: `FlushOwn`, `Decide` (hold back, or probe),
`FlushReturns`, `ProbeWrote` (disarm and take over everything held back), `SweepOne`,
`SweepEnds`, and `Leaves`: a caller cancelled or failed at any await.

### TPShard, DeliverySelector, ApertureSizing

Pure code as operators. `TPShard`: head and layer ranges of a rank, the header checks,
both merges and the tests that enough parts have arrived. `DeliverySelector`:
`Resolve`, `Apply` and what a child of the process makes of the stamped environment.
`ApertureSizing`: the ring for a step of at most a given number of tokens, and the
largest number of tokens for a given memory; 0 stands for the code's `None`.

## 3. Runs

| run | question | bounds, and why they are enough |
|---|---|---|
| `drain_safety` | Are rows kept, ordered, stored and named correctly; do steps settle, a blocked step resume, a close return having stored everything; and does it all implement `CaptureLog`? | 2 layers (writes end in either order, one may fail), ring of 3 and 6 rows in all (every slot is used twice, steps wrap), 2 kernels in flight; writes and copies may fail, a reservation may time out |
| `drain_faults` | Does the inductive invariant hold with every fault on, and is a closed file never written? | 2 layers, ring of 2, 4 rows; dummy passes, failures, all timeouts |
| `drain_dummy_pass` | Does a captured row survive a dummy batch? | violated: section 6. 1 layer, ring of 2, 4 rows |
| `run_dir_lock` | Is the lock exclusive under unlink, crash and inode reuse? | 3 engines (holder, a waiter with a stale file, a newcomer), 4 inode numbers |
| `run_index_chain` | Is the published chain exact, and is everything finished delivered? | 2 requests, 2 steps of at most 2 rows (rows before, at and after a watermark), a write may fail at any flush |
| `per_request` | Are deliveries whole, do sources outlive their transfers, does clearing a disk-routed request leave nothing, is a waiting client served? | 2 requests of either transport (one's fetch stashes the other's rows; two jobs queue for one worker), of 2 rows and of 1 (a clear or a failure between two rows of one request), 2 attempts at a copy; writes and copies may fail |
| `gather` | Is what a reader loads whole, are holes only under rows everybody passed, is a stamped request delivered? | 2 workers; 3 requests: 3 layers whose positions and numbers disagree modulo 2, one layer, no row; 2 segments, 3 rows of 2 bytes with holes aligned to 3, so a hole can end inside a row; files of an earlier launch; a worker may die |
| `routing` | Do the records claim what was asked, and does every claimed row get its token? | 3 requests (everything; decode's last token in one layer of two; nothing), a batch of 3 columns padded to a graph of 2, 2 mirror slots and up to 3 steps queued, so that the host meets a slot still in use; 1 preemption |
| `steer` | Does each forward steer exactly what was asked? | 4 requests (all tokens, last token, another vector than the table's one row, none), 2 layers, every backend with and without the fast key, a mirror of depth 1 and 2 steps ahead (gpu: 1, section 6) |
| `artifact` | Does a reader get its own response whole, does the last one keep the run, does every turn end? | 2 responses of 2 prompts on one run, one of them without rows; aborts, lost deliveries, expired turns, killed servers |
| `qk` | Is every history handed out the attention's, and is an undisturbed request served? | one request of each of the 12 kinds, prompt of 3 in chunks of 2 (ends inside a chunk), 2 tokens generated, 2 preemptions at any point; failures, timeouts, aborts; no prefix cache |
| `qk_cached` | The same when a preempted request resumes behind a cached prefix? | violated: section 6. 3 tokens generated, 1 preemption, blocks of one token |

`drain_faults`, `run_index_chain`, `per_request`, `gather`, `artifact`, `routing` and `steer`
also check the inductive invariant of the module (`DrainInv`, `IndexInv`, `DeliveryInv`,
`GatherInv`, `ArtifactInv`, `RoutingInv`, `SteerInv`) from which section 4 proves the rest;
that of `QkHistory` is stated in `QkHistory_proofs`.

Deadlock checking is off where the system may simply stop: the engine may end, a
closed drain does nothing more, every request may be served. `run_dir_lock` keeps it
on.

Bounds in the guards: `MaxRows`, `MaxInFlight` (`ApertureDrain`); `MaxSteps`,
`MaxStepRows` (`RunIndexChain`); `MaxRows` (`PerRequestDelivery`); `MaxSegments`
(`GatherDelivery`); `MaxAhead`, `MaxPreempt` (`StepRouting`); `Ahead`
(`SteerRouting`); `MaxGen`, `MaxPreempts` (`QkHistory`). `MaxRetries` is the code's
own. Lengths of prompts and generations in `StepRouting` and `SteerRouting` are part
of the requests.

Fairness. `ApertureDrain.FairSpec`: the GPU runs what was launched; the drain thread
runs; an engine that is blocked polls (`_aperture_reserve_or_block` sleeps and tries
again) and notices a dead consumer; a close in progress proceeds. Nothing makes the
engine start a step or close, and no timeout is assumed to fire. `RunIndexChain`:
the consumer ends what it began, the flusher's cadence thread runs, the reader
polls; nothing makes the consumer produce steps or finishes. `PerRequestDelivery`:
the drain and offload threads run, a clear that has begun goes on, a client that
waits polls, and a request that ended is passed on with a further engine step (vLLM
steps until it has delivered its `finished_req_ids`); nothing makes a request end or
a copy succeed. A source left for later is reclaimed only after a further drain item,
so no property says that it ever is. `GatherDelivery`: each live worker polls; nothing
makes the publisher publish. `RunArtifact`: every write goes on - the
engine ends a prompt that nobody aborts, a delivery comes or its wait times out, the
event loop runs the writer tasks; nothing makes a client read. `StepRouting`,
`SteerRouting`, `QkHistory`, `RunDirLock` and `DiskFlushProbe` state no fairness:
their properties are safety.

## 4. Proofs

Every theorem is for all values of the constants under the `ASSUME`s of the modules
(a finite non-empty set of layers, positive ring and step sizes, and so on).

* `SegmentsCoverReservation`: copying the one or two segments of a reservation is
  copying its rows' slots in order. It justifies that `ApertureDrain` copies row by
  row. The arithmetic rests on `SlotsInjective`: rows less than a ring apart have
  different slots.
* `TypeCorrect`, `DrainInvAlways`, `DrainsInOrder`, `PendingRowsKeep`,
  `SidecarIsTrue`, `ClosedFilesKeep`, from `DrainInv`. `PendingRowsIntact` alone is
  not inductive: a step that takes the ring's slots is safe only because queued steps
  are contiguous (`QueueInv`), a kernel still to run lies inside the pending region
  and is nobody else's (`KernelInv`), and the region is at most a ring long
  (`ItemInv`). `SidecarNamesStoredRows` needs the lengths of the files between and
  during steps (`StoreInv`), and the step in hand needs that its kernel has run by the
  time any layer is copied (the last conjunct of `KernelFits`). `IoLockInv` is
  inductive with the types alone and gives `FilesStayClosed`. The proof goes up these
  layers: types, lock, order, ring, files; each layer's step lemma uses the ones below.
* `OneDrainLives`, where the io lock does not time out: whoever seals the files then
  holds the lock (`SealInv`), so the directory is given back with closed files.
* `CloseStoresAll` and `CapturePathImplements`, where the join of `stop` does not time
  out: a stop marker is the last item and its consumer is waited for (`StopIsLast`), an
  exited consumer has drained the queue and nothing is enqueued behind it before the
  close ends (`EndInv`), and the committed blocks cover exactly the rows below the drain
  cursor and those about to be freed (`BlocksCover`). For the refinement, a living
  consumer writes row *l* of the run at row *l* of the files (`PlaceInv`); with
  `SidecarNamesStoredRows` the stored rows are then `FirstRows` of `CaptureLog`, a commit
  is its `Store`, and every other step of the drain is a stutter. The assumptions are
  those of the run: `CapturePathImplements` needs an engine without dummy passes.
* `LockExcludes`, `LiveLockStaysInPlace` (in `Parts_proofs`): `LockInv` (a descriptor past the flock owns
  its inode, a live one owns the path) gives mutual exclusion and that a live lock is
  never removed.
* `IndexInvAlways`, `ChainIsExact`, `CompleteIsWhole`, from `IndexInv`. The committed
  blocks are contiguous from row 0 (`BlocksInv`); the window a flush encodes lies
  between the watermark it last published and the one it read, and the blocks it no
  longer looks at end below that window (`WindowInv`); a request that is announced or
  waits to be announced has all its rows below the watermark of its finish (`StampInv`);
  each segment holds exactly the rows of its window (`SegmentInv`). The lemmas of the
  first section (`RowsSplit`, `RowsOfSuffix`, ...) say how the rows of a window behave
  when a block is appended or dropped. The reader holds every row below its own
  watermark (`ReaderInv`) and admits a stamp only at or below it, so a request it reads
  as complete is complete, failed flushes included.
* `Parts_proofs`, shards. Quotient and remainder bounds give that each head lies in exactly
  one rank's range, and in as many ranks as the replicas say for keys; so a merge whose
  headers are believed is the whole tensor, and anything else is refused
  (`QkMergeIsWholeOrRefused`, `HsMergeIsWholeOrRefused`). "Enough parts" is a
  pigeonhole argument on the injection from parts to ranks (`QkEnoughMerges`,
  `HsEnoughMerges`). `LayersArePartitioned`, `OwnedRowsFit` and `AskedRanksAreAwaited`
  are about the layers dealt out in turn.
* `Parts_proofs`, selector: one lemma says that a resolved answer is one of four; by
  cases, only one path is armed (`OnePathIsArmed`), a child that inherits the stamp
  comes to the same choice (`ChildAgrees`, with the exception it states), what is
  applied validates (`AppliedValidates`), a run with nothing set resolves
  (`PlainRunResolves`), and an engine started in an engine's environment resolves
  afresh (`NestedEngineResolvesFresh`).
* `Parts_proofs`, sizing: the ring that is sized holds a step of the cap
  (`RingHoldsOneStep`); the derived cap fits (`DerivedCapFits`) and no larger one does
  (`DerivedCapIsLargest`); an engine started with the cap gets its ring
  (`CappedEngineInstalls`). Both directions of "n tokens fit if and only if n is at
  most the cap" come from one bound on integer division.
* `Parts_proofs`, disk flush probe, from `FlushInv`: a held-back request is flushed, pending, or
  left to a caller's sweep (`HeldRequestsAreKept`); once a probe came back with rows and
  no caller was cut short, everything is flushed (`NothingIsLeftBehind`); and a class
  holds nothing back before its first probe (`ProbesComeFirst`).

* `GatherInvariant`, `LoadedWhole`, `NoGapLoads`, `PunchedPassed`, `LoadedForGood`,
  from `GatherInv`. That a loaded delivery is whole needs what every pass has copied at
  every moment, since a worker may die between any two of its steps. The chain stamps a
  request once, behind its last row (`ChainInv`); a pass is somewhere in its batch
  (`PassInv`), and what is left of the batch is whole chunks behind every row already
  copied of their layer (`TodoInv`). The rows got are then the rows below the cursor
  less those of the chunks left, a request's file is these rows ascending, and the
  pass's own counts agree with them (`CopyInv`), so a manifest counts the rows of its
  request and stands over whole files (`ManifestInv`). The counts and files are about
  any set of rows: the lemmas of the second section rank the members of a finite set
  and append a later set to an earlier one (`AscendingAppend`). `TrimInv` keeps
  markers, floors and holes behind every cursor; with it no pass meets a reclaimed
  chunk or a zero, although workers punch the files that others read. `LoadedForGood`
  is the action property `LoadedStays`: from the moment a delivery of this launch can
  be loaded, no step makes it unloadable or changes its rows.
* `DeliveryInvariant`, `SourcesOutlive`, `HostRowsWhole`, `ClearLeavesNothing`,
  `BrokenNotDelivered`, from `DeliveryInv`. A clear runs in sections between the
  consumer's, so each claim needs where a row of a request may be at any moment: in the
  queue, in the consumer's hands, in the index or the directory (`IndexedOrComing`,
  `StagedOrComing`). Rows come before their request's finish and that comes once
  (`QueueInv`); the item in hand and its routes agree with the tables (`ConsumerInv`);
  nothing is submitted before its finish, and what is submitted has its directory
  (`OffloadInv`); each table entry and each directory has a reason to be there that its
  client or the consumer will remove (`DiskInv`, `HostInv`). `BrokenInv` says that a
  request with a failed write is aborted until its finish; it and `BrokenNotDelivered`
  assume that writing the sidecar does not fail, since the code delivers such a
  directory (section 6).
* `RoutingIsInvariant`, `RecordsTrue`, `BufferTrue`, from `RoutingInv`. That every claimed
  row gets its token is a statement about steps the device has not run, so the invariant
  says where each of them will write (`PlaceInv`), though the mirror slot it copies from
  may be rewritten meanwhile: no two queued uploads share a slot, and a step without an
  upload follows one of its own width that captures nothing (`StreamInv`), which is what
  the idle key stands for (`KeyInv`). A step's claims are what was asked because the
  decode cache answers as the builder would (`CacheInv`). `KeysAreComplete` says that a
  Q/K request that captures in a step has the keys of all its tokens there; all of it holds
  for any requests, batch size, number of slots and depth of the queue.
* `SteeringIsInvariant`, `ForwardsSteerAsAsked` (in `Parts_proofs`), from `SteerInv`. That a
  forward steers what was asked is again a statement about copies the device has not made,
  each of which reads host memory when it is made: `Shows` says what a cell of the slab
  will be once the first so many queued steps have copied, and the invariant is written
  with it. Every queued forward will meet the cells of its batch, and no two queued uploads
  share a mirror slot (`QueueInv`). A reused routing is right because the last key stands
  for what the slab comes to: no steering, or the requests, tokens and, once a gated
  request was noticed, columns of one batch (`KeyInv`); the vector table may have grown
  since, but a request that found its row, or found the table full, keeps its slot
  (`Served`). The incremental way writes only what changed because its state is at once its
  mirror and what the slab comes to (`StateInv`); the gpu way because each slot is that of
  its request, on the device as well but for the copy on its way, and no gate goes
  unnoticed (`TableInv`). The lemmas before give the arithmetic of a batch (a column has
  one owner, the ends place it) and that the kernel's spread, the key's plan and what was
  asked agree column by column (`SpreadIs`, `AskedIsPlanned`). For the host and the
  incremental way nothing is assumed. For the gpu way `GpuInStep` assumes one step queued
  at a time and steering modes that parse: its pinned tables are rewritten without waiting
  for the copies of the step before, and it steers by a mode that does not parse until a
  gated request is seen (section 6); without either the property is false.
* `HistoryTypes`, `DiskClearIsClean`, `HistoryExact`, `UndisturbedServed`. A history is
  exact for a reason spread over four parties, so the invariant follows a row between
  them. The engine computes from what it has computed or from 0 (`EngineInv`); so each item
  on its way continues the one before or starts anew (`FlowInv`, and `EngineFollows` for
  the step not yet taken), the finish comes last and once (`FinishInv`), and the routes and
  marks agree with where the rows go (`DiskInv`, `HostInv`). What is kept (`StoreOK`, for
  the host index and for a directory alike) is exact as long as no position has come
  twice; from then on every recorded length is less than the number of keys, and stays
  so, which is what `qk_probes` and `assemble_qk` refuse. `HistoryExact` assumes
  `~CacheHits`: with cached prefixes it is false, and `qk_cached` shows how.
  `UndisturbedServed` adds that without a preemption the kept queries are those asked for,
  from the first to the last computed. The facts on recursive functions over a sequence
  (what the entries record, the rows of a pass) are proved through a least index at which
  they would fail.
* `ArtifactInvariant`, `TurnsKept`, `LastResponseHeld`, `ReadersGetTheirs`, from
  `ArtifactInv`. One writer at a time is in the run's files (`HoldInv`); arrival and
  finish times order the responses (`ClockInv`); who ended its turn has ended (`TurnInv`);
  the manifest is that of one response and lists writes it has completed (`ManifestInv`);
  the response that came last has lost no write to another (`NewestInv`); the artifact
  file holds the rows of the writes that the manifest lists, in its order, or is one write
  ahead of it (`DataInv`). A server killed between the two files parts them, and the next
  writer then begins the run anew, since every write of the torn response has ended with
  the server. `ReadersGetTheirs` is the action property of the readers: the listed writes
  are those of the reader's response, and follow its prompts because of the turns. The
  last four parts, and the three theorems, assume `IdsDiffer`: with an id sent again they
  do not hold (section 6).

The constants' assumptions are named in the modules that declare them. What a theorem
assumes beyond them (`~SidecarFailures`, `IdsDiffer`, `GpuInStep`, a close without
timeouts, no dummy passes) is a hypothesis written in its statement or in the invariant.
Facts about every set of rows are proved through counting and the least element of a
set of naturals (`Least`, from the library's well-founded order), and so are those about a
recursive function on the indices of a sequence; what a fold or a `SelectSeq` returns for
every sequence needs an induction the provers cannot instantiate.

Only model-checked is all liveness (`EnqueuedRowsSettle`, `BlockedEngineResumes`,
`CloseReturns`, `FinishedIsDelivered`, `AwaitedIsServed`, `StampedIsDelivered`,
`EveryTurnEnds`), since fairness and ENABLED are out of the prover's reach; every safety
property of the runs that pass is stated by a theorem.

`LoadedStays`, and the theorems of `Parts_proofs`, are proved and belong to no run.

## 5. Not modelled, and why

Parts of the capture path that no module covers:

* the eager (non-aperture) hooks and their workers: a forward hook that copies and
  returns, without the interleavings that the aperture brought;
* selective drains that compact rows, the legacy, synchronous and mmap drains, the
  whole-run sidecar of Q/K and the score capture: variants of the modelled drain whose
  difference is which bytes are written;
* back-pressure of the two Q/K rings: the same wait as in `ApertureDrain`, on two
  cursors moved together;
* the child-process mode of the offload worker and its collector; a second use of a
  request id; ids that are prefixes of others; `finalize_all`; the consumer's death in
  per-request mode;
* tensor-parallel run directories in the gather, its child's spawn and close, and the
  progress clock of `wait_delivered`;
* the writer process (a bounded queue into a child whose consumer class
  `_capture_consumer` is not in the repository) and `ServerAnalyzeProcess` (started by
  nothing in the sources);
* the HTTP read route, splitting a budget over two subsystems, and reading of knobs;
* admission and eager steering, and the vector arithmetic.

Not state at all, or not this system's logic: file formats, packing and quantisation,
CPU budget and core census, command-line and configuration parsing, the engine
patches, analyzers' numerics, notebooks, examples, documentation, CI. They are most of
the repository's lines (the notebooks, the plugin's argument handling and patches, the
formats), so the share of lines the map names stays far below that of the concurrent
core, which it covers.

What would come next, in order: the offload child process; reuse of request ids.

## 6. Where the code and its documentation differ

Two runs end in a violation on purpose:

* `drain_dummy_pass`: a dummy batch routes every token to slot 0
  (`hooks/install.py:606`), which the aperture layout made a real slot
  (`hooks/install_hs.py:264`). A row pending there is lost, though
  `src/docs/configs.md:294` says "Capture blocks; it never silently drops rows."
  `DummyPasses` is off in `drain_safety`; in `drain_faults` the invariant exempts
  exactly slot 0.
* `qk_cached`: the reader of a request's files looks at the computed count of the
  first entry only (`delivery/delivered_probes.py:336`). A prefill request that is
  preempted while decoding and resumed behind a cached prefix gets a key history in
  which positions are missing, though the other reader refuses such an artifact
  (`aperture/aperture_reader.py:125`).

Observed while modelling, without a run. Where a constant or a bound keeps a run clear
of one of them, it is named:

* `stop` does not look whether its bounded join succeeded
  (`aperture/aperture_drain_hs.py:1428`), so `close` may return normally with steps
  unwritten; `CloseWritesEveryStep` is checked without that timeout.
* After a failed flush `stop` publishes a further segment
  (`aperture/aperture_run_index.py:487`), though the log at line 496 says that the
  chain stops. The reader refuses such a chain unless the counts happen to agree;
  `CompleteMeansEveryRow` holds in all cases.
* `mark_host_aborted` marks only a request that has an entry in the host index
  (`aperture/aperture_drain_hs.py:969`): a clear before the first row was drained
  leaves the rows that arrive later, one between the finish and the fetch leaves a mark
  for ever. `DiskClearLeavesNothing` is about requests routed to disk.
* A failed sidecar write is logged as "delivery skipped"
  (`aperture/aperture_drain_hs.py:378`), but the directory is submitted and the client
  told that it has landed (`:1365`): `SidecarFailures` is FALSE in `per_request`.
* The Q/K directory whose transfer lands after its client's confirm timed out stays.
* `flush_disk` writes again into the directory of a `run_id` used before
  (`src/mia/workers/hs_capture_worker.py:600`).
* The gpu steering backend steers a request whose phase is not valid until a gated
  request has been seen (`src/mia/workers/steer_worker.py:215`), so every request of
  the run has a valid phase. Its pinned slot tables have no event: the host must not be
  more than one step ahead, which is the run's `Ahead` for it.
* A completion retried under the same id does not wait for its prompts' turns, since
  `_TURNS` keeps the ended ones (`delivery/delivery_route.py:305`): the run's responses
  have different ids.
* A server killed between writing the artifact and the manifest leaves a run whose
  manifest names another response's file (`delivery/run_artifact.py:227`):
  `ReaderGetsItsResponse` exempts what it says it does.
* With `DELIVER=1` set by hand and an mmap or legacy write mode, the parent stamps the
  hybrid and the child's `apply` raises; with `GATHER` unset a child arms it
  (the exception in `ChildAgrees`).
* A cancelled sweep of held-back flushes loses the ones it had not reached
  (`_plugin.py:1504`): `NothingIsLeftBehind` is about callers that were not cut short.
