--------------------------- MODULE ApertureDrain ---------------------------
(***************************************************************************)
(* The hidden-state capture path of one worker, from the engine step that  *)
(* captures rows to the files a reader opens (shared-file mode, off-loop   *)
(* drain, every installed layer drained):                                  *)
(*                                                                         *)
(*   engine    reserves ring rows while it routes a step, launches the     *)
(*             forward, enqueues the step (core/hooks/install_hs.py);      *)
(*   GPU       runs the launched kernels in order; a capture kernel        *)
(*             scatters its rows into ring slots;                          *)
(*   consumer  the drain thread: copies a step's rows to host buffers,     *)
(*             has the writer pool append them to one file per layer,      *)
(*             commits the step's sidecar block, frees the ring rows       *)
(*             (core/aperture/aperture_drain_hs.py);                       *)
(*   closer    flush_aperture or atexit, on the engine's own thread:       *)
(*             stops the consumer, closes the files, writes the sidecar,   *)
(*             gives the run directory's lock back.                        *)
(*                                                                         *)
(* A row's value is its logical index, so a file that should hold the rows *)
(* of a step holds their indexes, and Junk is any other value.             *)
(* The Bug operators are no part of Next: each is a mistaken version of    *)
(* the definition after it, which the checks are tried on.                 *)
(***************************************************************************)
EXTENDS CaptureAperture, FiniteSets

CONSTANTS
  Layers,         \* installed layers, one raw file each
  StepCap,        \* most rows one step can capture (registry.cap)
  MaxRows,        \* bound: rows reserved in the whole run
  MaxInFlight,    \* bound: kernels launched and not yet run
  DummyPasses,    \* does the engine run dummy batches (idle DP rank, profile)?
  WriteFailures,  \* can a pwrite or a device copy fail?
  Timeouts        \* which waits may time out: "reserve", "join", "lock"

ASSUME ApertureDrainAssumption ==
  /\ IsFiniteSet(Layers) /\ Layers # {}
  /\ StepCap \in Nat \ {0}
  /\ MaxRows \in Nat
  /\ MaxInFlight \in Nat \ {0}
  /\ DummyPasses \in BOOLEAN
  /\ WriteFailures \in BOOLEAN
  /\ Timeouts \subseteq {"reserve", "join", "lock"}

VARIABLES
  write, drain,   \* CaptureAperture._write, ._drain
  slot,           \* the ring's contents
  gpu,            \* kernels launched and not yet run, in stream order
  engine,         \* where the engine thread is
  stepStart,      \* registry._hs_step_start, or NoRow
  stepRows,       \* registry._hs_step_rows
  need,           \* rows a blocked reservation waits for
  queue,          \* the consumer's queue.Queue
  consumer,       \* where the consumer thread is
  item,           \* the step it holds, or NoItem
  cursor,         \* the file row its step starts at
  copied,         \* layers whose rows are in their host buffer
  written,        \* layers whose append has returned
  failed,         \* layers whose copy or append has failed
  host,           \* host buffers
  file,           \* raw files, up to each sink's offset
  fileRows,       \* _fr: rows every file is taken to hold
  blocks,         \* the sidecar's committed blocks
  ioLock,         \* _io_lock's holder
  started,        \* _started
  closeCall,      \* who is closing, and where its thread goes afterwards
  stopError,      \* close() keeps the consumer's error to raise it last
  wpClosed,       \* the raw files are closed
  closed,         \* _closed
  runLock,        \* the run directory's lock is held
  meta,           \* sidecar blocks on disk
  outcome         \* how the closing calls have ended so far

ringVars == <<write, drain, slot, gpu>>
engineVars == <<engine, stepStart, stepRows, need>>
consumerVars == <<consumer, item, cursor, copied, written, failed, host>>
diskVars == <<file, fileRows, blocks>>
closeVars == <<started, closeCall, stopError, wpClosed, closed, runLock, meta,
               outcome>>
vars == <<ringVars, engineVars, queue, consumerVars, diskVars, ioLock,
          closeVars>>

NoRow == -1
Junk == -1
NoItem == [kind |-> "none", start |-> NoRow, n |-> 0]
StepItem(start, n) == [kind |-> "step", start |-> start, n |-> n]

\* Rows the engine has handed to the drain (its own step's are still its own).
Enqueued == write - stepRows

\* The _STOP marker; "start" only remembers where in the stream it was put.
StopItem == [kind |-> "stop", start |-> Enqueued, n |-> 0]

\* A launched forward scatters rows start .. start+n-1; a dummy pass none.
Kernel(start, n) == [start |-> start, n |-> n]
DummyKernel == Kernel(NoRow, 0)

Init ==
  /\ write = 0 /\ drain = 0
  /\ slot = [p \in Slots |-> Junk]
  /\ gpu = <<>>
  /\ engine = "idle" /\ stepStart = NoRow /\ stepRows = 0 /\ need = 0
  /\ queue = <<>>
  /\ consumer = "get" /\ item = NoItem /\ cursor = 0
  /\ copied = {} /\ written = {} /\ failed = {}
  /\ host = [L \in Layers |-> <<>>]
  /\ file = [L \in Layers |-> <<>>]
  /\ fileRows = 0 /\ blocks = <<>>
  /\ ioLock = "free"
  /\ started = TRUE /\ closeCall = [by |-> "none", resume |-> "idle"]
  /\ stopError = FALSE /\ wpClosed = FALSE /\ closed = FALSE
  /\ runLock = TRUE /\ meta = <<>> /\ outcome = "open"

-----------------------------------------------------------------------------
(* The engine: wrapped_prepare_inputs, _build_routing_hs and               *)
(* wrapped_execute_model.                                                  *)

\* Routing starts with the step's fields cleared.
StartStep ==
  /\ engine = "idle"
  /\ engine' = "routing" /\ stepStart' = NoRow /\ stepRows' = 0
  /\ UNCHANGED <<ringVars, need, queue, consumerVars, diskVars, ioLock, closeVars>>

\* CaptureAperture.reserve and the caller's bookkeeping.
Admit(n) ==
  /\ Reservable(n, write, drain)
  /\ write' = write + n
  /\ stepStart' = IF stepStart = NoRow THEN write ELSE stepStart
  /\ stepRows' = stepRows + n
  /\ UNCHANGED <<drain, slot, gpu>>

\* One captured request of the step: a row per token, or its last token's.
ReserveRows(n) ==
  /\ engine = "routing"
  /\ stepRows + n <= StepCap
  /\ write + n <= MaxRows
  /\ \/ Admit(n) /\ UNCHANGED <<engine, need>>
     \/ /\ ~Reservable(n, write, drain)
        /\ engine' = "blocked" /\ need' = n
        /\ UNCHANGED <<ringVars, stepStart, stepRows>>
  /\ UNCHANGED <<queue, consumerVars, diskVars, ioLock, closeVars>>

\* The poll loop of _aperture_reserve_or_block: reserve again,
RetryReserve ==
  /\ engine = "blocked"
  /\ Admit(need)
  /\ engine' = "routing" /\ need' = 0
  /\ UNCHANGED <<queue, consumerVars, diskVars, ioLock, closeVars>>

IsAlive == started /\ consumer \notin {"exited", "dead"}

\* ... or find the consumer dead, or run past the deadline, and raise
\* ApertureBackpressureError, which ends the engine.
ReserveGivesUp ==
  /\ engine = "blocked"
  /\ ~IsAlive \/ "reserve" \in Timeouts
  /\ engine' = "dead" /\ need' = 0
  /\ UNCHANGED <<ringVars, stepStart, stepRows, queue, consumerVars, diskVars,
                 ioLock, closeVars>>

\* Routing or the forward raises: the reserved rows are never enqueued.
StepRaises ==
  /\ engine = "routing"
  /\ engine' = "dead"
  /\ UNCHANGED <<ringVars, stepStart, stepRows, need, queue, consumerVars,
                 diskVars, ioLock, closeVars>>

\* (Mistake: a step is dropped when the queue holds one already.)
BugForwardDropsStep ==
  /\ engine = "routing"
  /\ Len(gpu) < MaxInFlight
  /\ IF stepRows > 0
     THEN /\ gpu' = Append(gpu, Kernel(stepStart, stepRows))
          /\ queue' = IF queue = <<>> THEN <<StepItem(stepStart, stepRows)>> ELSE queue
     ELSE UNCHANGED <<gpu, queue>>
  /\ engine' = "idle" /\ stepStart' = NoRow /\ stepRows' = 0
  /\ UNCHANGED <<write, drain, slot, need, consumerVars, diskVars, ioLock, closeVars>>

\* The forward is launched, its event recorded and the step enqueued, then
\* the step's fields are cleared.  A step that captures nothing enqueues nothing.
RunForward ==
  /\ engine = "routing"
  /\ Len(gpu) < MaxInFlight
  /\ IF stepRows > 0
     THEN /\ gpu' = Append(gpu, Kernel(stepStart, stepRows))
          /\ queue' = Append(queue, StepItem(stepStart, stepRows))
     ELSE UNCHANGED <<gpu, queue>>
  /\ engine' = "idle" /\ stepStart' = NoRow /\ stepRows' = 0
  /\ UNCHANGED <<write, drain, slot, need, consumerVars, diskVars, ioLock, closeVars>>

\* _run_dummy_pass: the forward runs with a zeroed capture index.
DummyPass ==
  /\ DummyPasses
  /\ engine = "idle"
  /\ Len(gpu) < MaxInFlight
  /\ gpu' = Append(gpu, DummyKernel)
  /\ UNCHANGED <<write, drain, slot, engineVars, queue, consumerVars, diskVars,
                 ioLock, closeVars>>

-----------------------------------------------------------------------------
(* The GPU: kernels run in the order they were launched.                   *)

\* The slot _stale_view_guard's zero_() sends every row of a dummy pass to.
StaleViewSlot == 0

\* capture_hs_fused: row j of the step goes to the slot its index names.
Scatter(k) ==
  IF k.n = 0
  THEN [slot EXCEPT ![StaleViewSlot] = Junk]
  ELSE [p \in Slots |->
          IF \E l \in RowsFrom(k.start, k.n) : PhysicalSlot(l) = p
          THEN CHOOSE l \in RowsFrom(k.start, k.n) : PhysicalSlot(l) = p
          ELSE slot[p]]

RunKernel ==
  /\ gpu # <<>>
  /\ slot' = Scatter(Head(gpu))
  /\ gpu' = Tail(gpu)
  /\ UNCHANGED <<write, drain, engineVars, queue, consumerVars, diskVars,
                 ioLock, closeVars>>

-----------------------------------------------------------------------------
(* The consumer thread: OffLoopApertureDrain._run and _drain_item_fast.    *)

\* self._q.get(), and the FIFO assertion on the step it returns.
TakeItem ==
  /\ consumer = "get"
  /\ queue # <<>>
  /\ queue' = Tail(queue)
  /\ LET h == Head(queue)
     IN  IF h.kind = "stop"
         THEN consumer' = "exited" /\ UNCHANGED item
         ELSE /\ item' = h
              /\ consumer' = IF h.start = drain THEN "lock" ELSE "dead"
  /\ UNCHANGED <<ringVars, engineVars, cursor, copied, written, failed, host,
                 diskVars, ioLock, closeVars>>

\* (Mistake: closed files are not looked at.)
BugBeginsOnClosedFiles ==
  /\ consumer = "lock"
  /\ ioLock = "free"
  /\ consumer' = "store"
  /\ ioLock' = "consumer"
  /\ cursor' = fileRows
  /\ fileRows' = fileRows + item.n
  /\ copied' = {} /\ written' = {} /\ failed' = {}
  /\ UNCHANGED <<ringVars, engineVars, queue, item, host, file, blocks, closeVars>>

\* Under the io lock: refuse a step that reaches closed files, else start it
\* at the files' current row.
BeginItem ==
  /\ consumer = "lock"
  /\ ioLock = "free"
  /\ IF wpClosed
     THEN /\ consumer' = "dead"
          /\ UNCHANGED <<cursor, copied, written, failed, fileRows, ioLock>>
     ELSE /\ consumer' = "store"
          /\ ioLock' = "consumer"
          /\ cursor' = fileRows
          /\ fileRows' = fileRows + item.n
          /\ copied' = {} /\ written' = {} /\ failed' = {}
  /\ UNCHANGED <<ringVars, engineVars, queue, item, host, file, blocks, closeVars>>

\* (Mistake: the copy does not wait for the event.)
BugEventIgnored(it) == TRUE

\* The event recorded after the step's forward has fired.
EventFired(it) == \A i \in 1 .. Len(gpu) : gpu[i].start # it.start

\* One layer's rows copied from the ring's segments to its host buffer, on the
\* drain's stream behind the event, and given to the writer pool.
CopyLayer(L) ==
  /\ consumer = "store"
  /\ L \in Layers \ (copied \cup failed)
  /\ EventFired(item)
  /\ host' = [host EXCEPT ![L] =
                [j \in 1 .. item.n |-> slot[PhysicalSlot(item.start + j - 1)]]]
  /\ copied' = copied \cup {L}
  /\ UNCHANGED <<ringVars, engineVars, queue, consumer, item, cursor, written,
                 failed, diskVars, ioLock, closeVars>>

\* RawFileSink.write on a pool thread: append, then advance the offset.
WriteLayer(L) ==
  /\ consumer = "store"
  /\ L \in copied \ (written \cup failed)
  /\ file' = [file EXCEPT ![L] = @ \o host[L]]
  /\ written' = written \cup {L}
  /\ UNCHANGED <<ringVars, engineVars, queue, consumer, item, cursor, copied,
                 failed, host, fileRows, blocks, ioLock, closeVars>>

\* ... or the pwrite fails and the offset stays.
WriteFails(L) ==
  /\ WriteFailures
  /\ consumer = "store"
  /\ L \in copied \ (written \cup failed)
  /\ failed' = failed \cup {L}
  /\ UNCHANGED <<ringVars, engineVars, queue, consumer, item, cursor, copied,
                 written, host, diskVars, ioLock, closeVars>>

\* A device error while waiting for a copy: the layers not yet given to the
\* pool never are (join_writes_quietly waits for the others).
CopyFails ==
  /\ WriteFailures
  /\ consumer = "store"
  /\ Layers \ (copied \cup failed) # {}
  /\ failed' = failed \cup (Layers \ copied)
  /\ UNCHANGED <<ringVars, engineVars, queue, consumer, item, cursor, copied,
                 written, host, diskVars, ioLock, closeVars>>

\* (Mistake: the block is committed when the writes are submitted.)
BugCommitsOnSubmit ==
  /\ consumer = "store"
  /\ copied = Layers
  /\ blocks' = Append(blocks, [start |-> item.start, n |-> item.n, cursor |-> cursor])
  /\ ioLock' = "free"
  /\ consumer' = "advance"
  /\ UNCHANGED <<ringVars, engineVars, queue, item, cursor, copied, written,
                 failed, host, file, fileRows, closeVars>>

\* join_writes returned: commit the sidecar block, release the lock.
CommitItem ==
  /\ consumer = "store"
  /\ written = Layers
  /\ blocks' = Append(blocks, [start |-> item.start, n |-> item.n, cursor |-> cursor])
  /\ ioLock' = "free"
  /\ consumer' = "advance"
  /\ UNCHANGED <<ringVars, engineVars, queue, item, cursor, copied, written,
                 failed, host, file, fileRows, closeVars>>

\* (Mistake: the error is swallowed, the step's rows are freed.)
BugSwallowsWriteError ==
  /\ consumer = "store"
  /\ failed # {}
  /\ written \cup failed = Layers
  /\ ioLock' = "free"
  /\ consumer' = "advance"
  /\ UNCHANGED <<ringVars, engineVars, queue, item, cursor, copied, written,
                 failed, host, diskVars, closeVars>>

\* (Mistake: the thread dies with the lock.)
BugDiesWithLock ==
  /\ consumer = "store"
  /\ failed # {}
  /\ written \cup failed = Layers
  /\ consumer' = "dead"
  /\ UNCHANGED <<ringVars, engineVars, queue, item, cursor, copied, written,
                 failed, host, diskVars, ioLock, closeVars>>

\* join_writes raised: the exception ends the thread.
AbandonItem ==
  /\ consumer = "store"
  /\ failed # {}
  /\ written \cup failed = Layers
  /\ ioLock' = "free"
  /\ consumer' = "dead"
  /\ UNCHANGED <<ringVars, engineVars, queue, item, cursor, copied, written,
                 failed, host, diskVars, closeVars>>

\* aperture.advance_drain(item.n_rows), after the lock is released.
FreeItem ==
  /\ consumer = "advance"
  /\ drain' = drain + item.n
  /\ item' = NoItem
  /\ consumer' = IF drain + item.n <= write THEN "get" ELSE "dead"
  /\ UNCHANGED <<write, slot, gpu, engineVars, queue, cursor, copied, written,
                 failed, host, diskVars, ioLock, closeVars>>

-----------------------------------------------------------------------------
(* The closer: flush_aperture (stop, then close) or atexit (close, which   *)
(* stops a started consumer first).  Both run on the engine's thread.      *)

AskStop ==
  IF IsAlive THEN engine' = "joining" /\ queue' = Append(queue, StopItem)
             ELSE engine' = "stopped" /\ UNCHANGED queue

BeginFlush ==
  /\ engine \in {"idle", "dead"}
  /\ ~closed
  /\ closeCall' = [by |-> "flush", resume |-> engine]
  /\ AskStop
  /\ UNCHANGED <<ringVars, stepStart, stepRows, need, consumerVars, diskVars,
                 ioLock, started, stopError, wpClosed, closed, runLock, meta, outcome>>

\* (Mistake: the run directory is released before the consumer is stopped.)
BugReleasesFirst ==
  /\ engine \in {"idle", "dead"}
  /\ ~closed
  /\ closeCall' = [by |-> "close", resume |-> engine]
  /\ IF started THEN AskStop ELSE engine' = "closing" /\ UNCHANGED queue
  /\ runLock' = FALSE
  /\ UNCHANGED <<ringVars, stepStart, stepRows, need, consumerVars, diskVars,
                 ioLock, started, stopError, wpClosed, closed, meta, outcome>>

BeginClose ==
  /\ engine \in {"idle", "dead"}
  /\ ~closed
  /\ closeCall' = [by |-> "close", resume |-> engine]
  /\ IF started THEN AskStop ELSE engine' = "closing" /\ UNCHANGED queue
  /\ UNCHANGED <<ringVars, stepStart, stepRows, need, consumerVars, diskVars,
                 ioLock, started, stopError, wpClosed, closed, runLock, meta, outcome>>

\* (Mistake: the thread is told to stop and not waited for.)
BugJoinsAtOnce ==
  /\ engine = "joining"
  /\ engine' = "stopped"
  /\ UNCHANGED <<ringVars, stepStart, stepRows, need, queue, consumerVars,
                 diskVars, ioLock, closeVars>>

\* self._thread.join(timeout=join_s)
JoinReturns ==
  /\ engine = "joining"
  /\ consumer \in {"exited", "dead"} \/ "join" \in Timeouts
  /\ engine' = "stopped"
  /\ UNCHANGED <<ringVars, stepStart, stepRows, need, queue, consumerVars,
                 diskVars, ioLock, closeVars>>

\* The end of stop(): raise the consumer's error, if it has one by now.  A
\* flush passes it on; close() goes on and raises it after the files.
StopReturns ==
  /\ engine = "stopped"
  /\ started' = FALSE
  /\ IF consumer = "dead" /\ closeCall.by = "flush"
     THEN engine' = closeCall.resume /\ outcome' = "raised" /\ UNCHANGED stopError
     ELSE engine' = "closing" /\ stopError' = (consumer = "dead") /\ UNCHANGED outcome
  /\ UNCHANGED <<ringVars, stepStart, stepRows, need, queue, consumerVars,
                 diskVars, ioLock, closeCall, wpClosed, closed, runLock, meta>>

\* _close_write_path takes the io lock,
LockForClose ==
  /\ engine = "closing"
  /\ ioLock = "free"
  /\ ioLock' = "closer"
  /\ engine' = "sealing"
  /\ UNCHANGED <<ringVars, stepStart, stepRows, need, queue, consumerVars,
                 diskVars, closeVars>>

\* ... or gives up on it after join_s seconds.
LockTimesOut ==
  /\ "lock" \in Timeouts
  /\ engine = "closing"
  /\ ioLock = "consumer"
  /\ engine' = "sealing"
  /\ UNCHANGED <<ringVars, stepStart, stepRows, need, queue, consumerVars,
                 diskVars, ioLock, closeVars>>

\* The rest of _close_write_path: close the files if it has the lock, write
\* the sidecar, release the run directory.
SealFiles ==
  /\ engine = "sealing"
  /\ wpClosed' = (ioLock = "closer")
  /\ meta' = blocks
  /\ closed' = TRUE
  /\ runLock' = FALSE
  /\ ioLock' = IF ioLock = "closer" THEN "free" ELSE ioLock
  /\ outcome' = IF stopError \/ outcome = "raised" THEN "raised" ELSE "ok"
  /\ engine' = closeCall.resume
  /\ UNCHANGED <<ringVars, stepStart, stepRows, need, queue, consumerVars,
                 diskVars, started, closeCall, stopError>>

-----------------------------------------------------------------------------
Engine == \/ StartStep \/ RetryReserve \/ ReserveGivesUp \/ StepRaises
          \/ RunForward \/ DummyPass
          \/ \E n \in 1 .. StepCap : ReserveRows(n)

Consumer == \/ TakeItem \/ BeginItem \/ CopyFails
            \/ CommitItem \/ AbandonItem \/ FreeItem
            \/ \E L \in Layers : CopyLayer(L) \/ WriteLayer(L) \/ WriteFails(L)

Closer == \/ BeginFlush \/ BeginClose \/ JoinReturns \/ StopReturns
          \/ LockForClose \/ LockTimesOut \/ SealFiles

Next == Engine \/ RunKernel \/ Consumer \/ Closer

Spec == Init /\ [][Next]_vars

\* The scheduling the code relies on: the GPU runs what was launched, the two
\* threads run, and a blocked engine keeps polling.  Nothing makes the engine
\* start steps or close.
Fairness == /\ WF_vars(RunKernel)
            /\ WF_vars(Consumer)
            /\ WF_vars(RetryReserve \/ (ReserveGivesUp /\ ~IsAlive))
            /\ WF_vars(JoinReturns \/ StopReturns \/ LockForClose \/ SealFiles)

FairSpec == Spec /\ Fairness

-----------------------------------------------------------------------------
Kernels == [start : Int, n : Nat]
QueueItems == [kind : {"step", "stop"}, start : Int, n : Nat]
Items == [kind : {"none", "step"}, start : Int, n : Nat]
SidecarBlocks == [start : Int, n : Nat, cursor : Nat]

RingType ==
  /\ write \in Nat /\ drain \in Nat
  /\ slot \in [Slots -> Int]
  /\ gpu \in Seq(Kernels)

EngineType ==
  /\ engine \in {"idle", "routing", "blocked", "dead", "joining", "stopped",
                 "closing", "sealing"}
  /\ stepStart \in Int /\ stepRows \in Nat /\ need \in Nat

QueueType == queue \in Seq(QueueItems)

ConsumerType ==
  /\ consumer \in {"get", "lock", "store", "advance", "exited", "dead"}
  /\ item \in Items
  /\ cursor \in Nat
  /\ copied \subseteq Layers /\ written \subseteq Layers /\ failed \subseteq Layers
  /\ host \in [Layers -> Seq(Int)]
  /\ ioLock \in {"free", "consumer", "closer"}

DiskType ==
  /\ file \in [Layers -> Seq(Int)]
  /\ fileRows \in Nat
  /\ blocks \in Seq(SidecarBlocks)

CloseType ==
  /\ started \in BOOLEAN
  /\ closeCall \in [by : {"none", "flush", "close"}, resume : {"idle", "dead"}]
  /\ stopError \in BOOLEAN /\ wpClosed \in BOOLEAN /\ closed \in BOOLEAN
  /\ runLock \in BOOLEAN
  /\ meta \in Seq(SidecarBlocks)
  /\ outcome \in {"open", "raised", "ok"}

TypeOK == /\ RingType /\ EngineType /\ QueueType
          /\ ConsumerType /\ DiskType /\ CloseType

-----------------------------------------------------------------------------
(* Safety. *)

\* The one exemption: with dummy passes, a row that lives in the slot their
\* zeroed index names may be overwritten.
Exempt(l) == DummyPasses /\ PhysicalSlot(l) = StaleViewSlot

\* Row l is not among the rows of a kernel still to run.
Scattered(l) == \A i \in 1 .. Len(gpu) : l \notin RowsFrom(gpu[i].start, gpu[i].n)

\* Rows captured and not yet freed: none is overwritten in its ring slot,
\* neither by the rows of a later step that wraps onto it nor by a kernel that
\* runs late (reserve, segments_at, the post-forward event).
PendingRowsIntact ==
  \A l \in drain .. (Enqueued - 1) :
    Scattered(l) => slot[PhysicalSlot(l)] = l \/ Exempt(l)

\* The cursors never pass one another and never lap, and the step the consumer
\* holds starts at the drain cursor: the assertions of advance_drain and
\* _drain_item_fast never fail.
StepsDrainInOrder ==
  /\ drain <= Enqueued /\ Enqueued <= write /\ write - drain <= NSlots
  /\ item.kind = "step" => item.start = drain /\ item.start + item.n <= Enqueued

\* Row l is at position pos of layer L's file.
StoredAt(L, pos, l) ==
  pos <= Len(file[L]) /\ (file[L][pos] = l \/ Exempt(l))

\* A committed sidecar block names rows that every layer's file holds, at the
\* place the block's cursor gives, whatever writes failed and whichever layer
\* was written first.
SidecarNamesStoredRows ==
  \A i \in 1 .. Len(blocks) : \A L \in Layers : \A j \in 1 .. blocks[i].n :
    StoredAt(L, blocks[i].cursor + j, blocks[i].start + j - 1)

\* What the documents say of every captured row, dummy passes or not: "Capture
\* blocks; it never silently drops rows" (docs/configs.md:294).
CapturedRowsSurvive ==
  \A l \in drain .. (Enqueued - 1) : Scattered(l) => slot[PhysicalSlot(l)] = l

-----------------------------------------------------------------------------
(* Steps that must never happen. *)

\* The rows of the sidecar on disk after this step.
RowsNamed(bs) == UNION { RowsFrom(bs[i].start, bs[i].n) : i \in 1 .. Len(bs) }

\* A close that returns normally leaves every enqueued row named by the sidecar
\* on disk: "so every enqueued step is written" (aperture_drain_hs.py:1405).
CloseWritesEveryStep ==
  [][ (~closed /\ closed' /\ outcome' = "ok")
        => RowsNamed(meta') = RowsFrom(0, Enqueued) ]_vars

\* No byte reaches a raw file after the closer closed it: a drain step and the
\* closing of the files exclude one another through _io_lock, also when the
\* consumer outlives the join.
FilesStayClosed == [][ wpClosed => UNCHANGED file ]_vars

\* Once the run directory's lock is given back this drain writes its files no
\* more: the lock is "for one live drain" (aperture_sink.py:67).
OneLiveDrain == [][ ~runLock => UNCHANGED file ]_vars

-----------------------------------------------------------------------------
(* Liveness, under FairSpec. *)

\* Every enqueued row is stored and its ring slot freed, unless the consumer
\* has ended (the queue, the event and the writer pool lose no step).
EnqueuedRowsSettle ==
  \A l \in 0 .. (MaxRows - 1) :
    (l < Enqueued) ~> (l < drain \/ consumer \in {"exited", "dead"})

\* A reservation that blocks is admitted in the end, or raises because the
\* consumer is dead: backpressure never waits for ever, though the step holds
\* rows of its own that nobody can drain yet.
BlockedEngineResumes == engine = "blocked" ~> engine # "blocked"

\* stop() and _close_write_path return: the join and the io lock are not waited
\* for in a circle, also when the consumer died in the middle of a step.
CloseReturns == engine = "joining" ~> engine \in {"idle", "dead"}

-----------------------------------------------------------------------------
(* The capture path implements CaptureLog. *)

StoredRows ==
  LET n == IF blocks = <<>> THEN 0
           ELSE blocks[Len(blocks)].cursor + blocks[Len(blocks)].n
  IN  [i \in 1 .. n |-> [L \in Layers |-> file[L][i]]]

Log == INSTANCE CaptureLog
         WITH accepted <- Enqueued, log <- StoredRows, status <- outcome

\* Rows are stored once each, in order, in every layer, and a normal close has
\* stored them all: every step of the drain is a step of CaptureLog or none.
ImplementsCaptureLog == Log!LogSpec

-----------------------------------------------------------------------------
(* DrainInv: what every step preserves, from which the safety invariants   *)
(* follow.  It says where the rows of the run are: below drain they are    *)
(* freed, [drain, Front) is the step the consumer holds, [Front, Enqueued) *)
(* are the queued steps, one after the other, and [Enqueued, write) is the *)
(* step the engine is routing.                                             *)

End(it) == it.start + it.n

Front == IF item.kind = "step" THEN End(item) ELSE drain

Closing == engine \in {"joining", "stopped", "closing", "sealing"}

EngineInv ==
  /\ stepRows <= write
  /\ stepStart = IF stepRows > 0 THEN Enqueued ELSE NoRow
  /\ (engine = "idle" \/ (Closing /\ closeCall.resume = "idle")) => stepRows = 0
  /\ engine = "blocked" => need > 0

\* The items of q cover [lo, hi), each starting where the one before it ends.
Chain(q, lo, hi) ==
  /\ \A i \in 1 .. Len(q) : lo <= q[i].start /\ End(q[i]) <= hi
  /\ \A i, j \in 1 .. Len(q) : i < j => End(q[i]) <= q[j].start
  /\ \A i \in 1 .. (Len(q) - 1) : q[i + 1].start = End(q[i])
  /\ IF q = <<>> THEN lo = hi ELSE q[1].start = lo /\ End(q[Len(q)]) = hi

QueueInv == /\ Chain(queue, Front, Enqueued)
            /\ \A i \in 1 .. Len(queue) : queue[i].kind = "stop" => queue[i].n = 0

ItemInv ==
  /\ Front <= Enqueued /\ write - drain <= NSlots
  /\ item.kind = "step" => item.start = drain
  /\ consumer \in {"get", "exited"} => item.kind = "none"
  /\ consumer \in {"lock", "store", "advance"} => item.kind = "step"

\* No kernel starts strictly inside an item: kernel k runs before it, after it,
\* or is its own.
Apart(k, it) == k.start <= it.start \/ End(it) <= k.start

KernelFits(k) ==
  /\ k.n = 0 => DummyPasses
  /\ k.n > 0 =>
       /\ drain <= k.start /\ End(k) <= Enqueued
       /\ item.kind = "step" => Apart(k, item)
       /\ \A j \in 1 .. Len(queue) : Apart(k, queue[j])
       /\ consumer \in {"store", "advance"} /\ copied # {} => Front <= k.start

KernelInv == \A i \in 1 .. Len(gpu) : KernelFits(gpu[i])

\* The step being stored: what is copied, what is written, and where.
StoreInv ==
  /\ consumer = "store" => written \subseteq copied
  /\ consumer = "advance" => copied # {}
  /\ consumer \in {"get", "lock", "advance", "exited"} =>
       \A L \in Layers : Len(file[L]) = fileRows
  /\ consumer = "store" =>
       /\ fileRows = cursor + item.n
       /\ \A L \in Layers : Len(file[L]) = IF L \in written THEN fileRows ELSE cursor
       /\ \A L \in copied :
            /\ Len(host[L]) = item.n
            /\ \A j \in 1 .. item.n : \/ host[L][j] = item.start + j - 1
                                     \/ Exempt(item.start + j - 1)
       /\ \A L \in written : \A j \in 1 .. item.n :
            StoredAt(L, cursor + j, item.start + j - 1)

\* The consumer stores rows only under the io lock, and the closer closes the
\* files only under it.
IoLockInv ==
  /\ consumer = "store" <=> ioLock = "consumer"
  /\ ioLock = "closer" => engine = "sealing"
  /\ wpClosed => consumer # "store" /\ closed
  /\ closed => ~Closing

DrainInv == /\ TypeOK /\ EngineInv /\ QueueInv /\ ItemInv /\ KernelInv
            /\ StoreInv /\ IoLockInv /\ PendingRowsIntact /\ SidecarNamesStoredRows

=============================================================================
