--------------------------- MODULE RunIndexChain ---------------------------
(***************************************************************************)
(* The run index of a shared-file capture (core/aperture/                  *)
(* aperture_run_index.py): which rows of the layer files belong to which   *)
(* request, published while the run goes on.  Three threads share it       *)
(* without a common lock:                                                  *)
(*                                                                         *)
(*   consumer  the drain thread; commits a step's block to the sidecar     *)
(*             log, then moves the index's watermark; notes finishes;      *)
(*   flusher   RunIndexFlusher; every interval it publishes the rows       *)
(*             between the last watermark and this one as one more segment *)
(*             file, with a stamp for each request that is complete;       *)
(*   reader    the gather process; feeds the segments to a ChainCursor     *)
(*             and delivers a request when it reads its stamp.             *)
(*                                                                         *)
(* A segment's run lists are the set of rows they expand to.  The Bug      *)
(* operators are mistaken versions of the definition after them, no part   *)
(* of Next.                                                                *)
(***************************************************************************)
EXTENDS Integers, Sequences, FiniteSets

CONSTANTS
  Reqs,           \* request ids, each used once
  MaxSteps,       \* bound: steps that reach the drain
  MaxStepRows,    \* bound: rows of one step
  WriteFailures   \* can write_segment fail?

ASSUME RunIndexAssumption ==
  /\ IsFiniteSet(Reqs) /\ Reqs # {}
  /\ MaxSteps \in Nat /\ MaxStepRows \in Nat \ {0}
  /\ WriteFailures \in BOOLEAN

VARIABLES
  blocks,      \* HsSidecarLog.blocks: [start, owner], owner[j] owns row start+j-1
  rowsTotal,   \* RunIndex.rows_total
  finished,    \* RunIndex._finished: [req, w]
  asked,       \* RunIndex._asked
  consumer,    \* "run", "noting" (a step), "finishing" (a request), "ended"
  finishing,   \* the request being finished
  done,        \* requests whose finish has been noted
  mustStamp,   \* those of them that asked for capture or have rows
  flusher,     \* "wait", "slice", "stamp", "write", "off"
  stopping,    \* stop() was called
  final,       \* the flush under way is the final one
  finalDone,   \* the final flush has been tried (_stopped)
  wm,          \* the flush's watermark
  reqRows,     \* the flush's encoded rows, per request
  stamps,      \* the flush's stamps: [req, w, total]
  since, seq, blockLo,   \* RunIndexFlusher._since, ._seq, ._block_lo
  rowCount,    \* RunIndexFlusher._rows, NoCount where absent
  flushFailed, \* a flush has raised
  segments,    \* the segment files, in seq order
  reader       \* the gather's ChainCursor

indexVars == <<blocks, rowsTotal, finished, asked>>
consumerVars == <<consumer, finishing, done, mustStamp>>
flushVars == <<flusher, final, wm, reqRows, stamps>>
chainVars == <<since, seq, blockLo, rowCount, flushFailed, segments>>
stopVars == <<stopping, finalDone>>
vars == <<indexVars, consumerVars, flushVars, chainVars, stopVars, reader>>

NoReq == "none"
Absent == -1
NoRows == [r \in Reqs |-> {}]

Init ==
  /\ blocks = <<>> /\ rowsTotal = 0 /\ finished = <<>> /\ asked = {}
  /\ consumer = "run" /\ finishing = NoReq /\ done = {} /\ mustStamp = {}
  /\ flusher = "wait" /\ final = FALSE /\ wm = 0
  /\ reqRows = NoRows /\ stamps = {}
  /\ since = 0 /\ seq = 0 /\ blockLo = 0
  /\ rowCount = [r \in Reqs |-> Absent]
  /\ flushFailed = FALSE /\ segments = <<>>
  /\ stopping = FALSE /\ finalDone = FALSE
  /\ reader = [seq |-> 0, lo |-> 0, rows |-> NoRows, count |-> [r \in Reqs |-> 0],
               complete |-> {}, refused |-> FALSE]

\* The rows of request r in the blocks bs, within the window [lo, hi).
RowsIn(bs, r, lo, hi) ==
  UNION { { b.start + j - 1 : j \in { k \in 1 .. Len(b.owner) :
                 b.owner[k] = r /\ b.start + k - 1 >= lo /\ b.start + k - 1 < hi } }
          : b \in { bs[i] : i \in 1 .. Len(bs) } }

CommittedRows == IF blocks = <<>> THEN 0
                 ELSE blocks[Len(blocks)].start + Len(blocks[Len(blocks)].owner)

RowsOf(r) == RowsIn(blocks, r, 0, CommittedRows)

-----------------------------------------------------------------------------
(* The consumer thread, after join_writes has returned. *)

\* self._sidecar.commit(block): the rows of the requests in the step.
CommitStep(owner) ==
  /\ consumer = "run"
  /\ Len(blocks) < MaxSteps
  /\ \A j \in DOMAIN owner : owner[j] \notin done
  /\ blocks' = Append(blocks, [start |-> CommittedRows, owner |-> owner])
  /\ consumer' = "noting"
  /\ UNCHANGED <<rowsTotal, finished, asked, finishing, done, mustStamp,
                 flushVars, chainVars, stopVars, reader>>

\* RunIndex.note_step: the watermark follows the committed block.
NoteStep ==
  /\ consumer = "noting"
  /\ rowsTotal' = CommittedRows
  /\ consumer' = "run"
  /\ UNCHANGED <<blocks, finished, asked, finishing, done, mustStamp,
                 flushVars, chainVars, stopVars, reader>>

\* RunIndex.note_finish: note that the request had asked,
NoteAsked(r, hadAsked) ==
  /\ consumer = "run"
  /\ r \notin done
  /\ asked' = IF hadAsked THEN asked \cup {r} ELSE asked
  /\ finishing' = r
  /\ consumer' = "finishing"
  /\ mustStamp' = IF hadAsked \/ RowsOf(r) # {} THEN mustStamp \cup {r} ELSE mustStamp
  /\ UNCHANGED <<blocks, rowsTotal, finished, done, flushVars, chainVars,
                 stopVars, reader>>

\* ... then queue its finish at the current watermark.
QueueFinish ==
  /\ consumer = "finishing"
  /\ finished' = Append(finished, [req |-> finishing, w |-> rowsTotal])
  /\ done' = done \cup {finishing}
  /\ finishing' = NoReq
  /\ consumer' = "run"
  /\ UNCHANGED <<blocks, rowsTotal, asked, mustStamp, flushVars, chainVars,
                 stopVars, reader>>

\* The consumer takes its stop marker.
ConsumerEnds ==
  /\ consumer = "run"
  /\ consumer' = "ended"
  /\ UNCHANGED <<indexVars, finishing, done, mustStamp, flushVars, chainVars,
                 stopVars, reader>>

-----------------------------------------------------------------------------
(* RunIndexFlusher.flush_once, one at a time under its lock, from the      *)
(* cadence thread or, at the end, from stop().                             *)

\* snapshot(): the watermark is read first.
ReadWatermark ==
  /\ flusher = "wait"
  /\ \/ ~stopping /\ final' = FALSE
     \/ stopping /\ ~finalDone /\ final' = TRUE
  /\ wm' = rowsTotal
  /\ flusher' = "slice"
  /\ UNCHANGED <<indexVars, consumerVars, reqRows, stamps, chainVars, stopVars, reader>>

\* (Mistake: a finish at the watermark is not news.)
BugFinishedBelow(w) == finished # <<>> /\ finished[1].w < w

HasFinished(w) == finished # <<>> /\ finished[1].w <= w

\* The end of a flush: the cadence thread goes back to waiting (or returns), or
\* stop() is done; the flush's locals are gone.
FlushEnds(next) ==
  /\ flusher' = IF final THEN "off" ELSE next
  /\ finalDone' = (finalDone \/ final)
  /\ final' = FALSE /\ wm' = 0 /\ reqRows' = NoRows /\ stamps' = {}

\* Then the blocks are sliced; nothing new to say ends the flush, else the
\* window's rows are encoded and counted.
SliceAndEncode ==
  /\ flusher = "slice"
  /\ LET bs == SubSeq(blocks, blockLo + 1, Len(blocks))
         rows == [r \in Reqs |-> RowsIn(bs, r, since, wm)]
     IN  IF wm = since /\ ~final /\ ~HasFinished(wm)
         THEN FlushEnds("wait") /\ UNCHANGED rowCount
         ELSE /\ reqRows' = rows
              /\ rowCount' = [r \in Reqs |->
                    IF rows[r] = {} THEN rowCount[r]
                    ELSE Cardinality(rows[r])
                           + (IF rowCount[r] = Absent THEN 0 ELSE rowCount[r])]
              /\ flusher' = "stamp"
              /\ UNCHANGED <<finalDone, final, wm, stamps>>
  /\ UNCHANGED <<indexVars, consumerVars, since, seq, blockLo,
                 flushFailed, segments, stopping, reader>>

\* take_finished(wm): the finishes at the head of the queue that wm covers.
Covered == { i \in 1 .. Len(finished) : \A k \in 1 .. i : finished[k].w <= wm }

\* Each gets a stamp with its row total, or 0 if it asked and has no rows; one
\* that never asked and has none gets no stamp.
TakeStamps ==
  /\ flusher = "stamp"
  /\ LET taken == { finished[i] : i \in Covered }
         total(r) == IF rowCount[r] = Absent THEN 0 ELSE rowCount[r]
         new == { [req |-> f.req, w |-> f.w, total |-> total(f.req)] :
                    f \in { g \in taken : rowCount[g.req] # Absent \/ g.req \in asked } }
         reqs == { f.req : f \in taken }
     IN  /\ finished' = SubSeq(finished, Cardinality(Covered) + 1, Len(finished))
         /\ asked' = asked \ reqs
         /\ rowCount' = [r \in Reqs |-> IF r \in reqs THEN Absent ELSE rowCount[r]]
         /\ IF wm = since /\ ~final /\ new = {}
            THEN FlushEnds("wait")
            ELSE /\ flusher' = "write"
                 /\ stamps' = new
                 /\ UNCHANGED <<finalDone, final, wm, reqRows>>
  /\ UNCHANGED <<blocks, rowsTotal, consumerVars, since, seq,
                 blockLo, flushFailed, segments, stopping, reader>>

\* (Mistakes: the last block is dropped as well; it is kept by its number.)
BugBlocksDoneOneMore ==
  LET n == Len(blocks) - blockLo
  IN  Cardinality({ k \in 1 .. n : \A i \in 1 .. k : blocks[blockLo + i].start <= wm })

BugBlocksDoneAllButOne == Len(blocks) - blockLo - 1

\* The last sliced block that starts at or below the watermark is kept, the
\* ones before it are never read again.
BlocksDone ==
  LET n == Len(blocks) - blockLo
      later == { k \in 1 .. (n - 1) : \A i \in 1 .. k : blocks[blockLo + 1 + i].start <= wm }
  IN  Cardinality(later)

\* write_segment: a temporary file renamed into place, so a reader sees all of
\* the segment or none; then the chain moves on.
WriteSegment ==
  /\ flusher = "write"
  /\ segments' = Append(segments, [seq |-> seq, since |-> since, upTo |-> wm,
                                   rows |-> reqRows, stamps |-> stamps])
  /\ blockLo' = blockLo + BlocksDone
  /\ since' = wm
  /\ seq' = seq + 1
  /\ FlushEnds("wait")
  /\ UNCHANGED <<indexVars, consumerVars, rowCount, flushFailed, stopping, reader>>

\* ... or it raises, the stamps and the row counts already taken.  The cadence
\* thread returns; stop() logs it.
SegmentFails ==
  /\ WriteFailures
  /\ flusher = "write"
  /\ FlushEnds("off")
  /\ flushFailed' = TRUE
  /\ UNCHANGED <<indexVars, consumerVars, since, seq, blockLo, rowCount, segments,
                 stopping, reader>>

\* stop(), called by _close_write_path after the consumer was joined: the
\* cadence thread is told to end; the final flush waits for its lock.
Stop ==
  /\ consumer = "ended"
  /\ ~stopping
  /\ stopping' = TRUE
  /\ UNCHANGED <<indexVars, consumerVars, flushVars, chainVars, finalDone, reader>>

\* The final flush of a cadence thread that had already ended.
FinalFlushAfterEnd ==
  /\ flusher = "off" /\ stopping /\ ~finalDone
  /\ final' = TRUE
  /\ wm' = rowsTotal
  /\ flusher' = "slice"
  /\ UNCHANGED <<indexVars, consumerVars, reqRows, stamps, chainVars, stopVars, reader>>

-----------------------------------------------------------------------------
(* The reader: ChainCursor.feed, one segment file after the other. *)

Admissible(g) ==
  LET rows == [r \in Reqs |-> reader.count[r] + Cardinality(g.rows[r])]
  IN  /\ g.seq = reader.seq
      /\ g.since = reader.lo
      /\ g.since <= g.upTo
      /\ \A s \in g.stamps : /\ s.req \notin reader.complete
                             /\ s.w <= g.upTo
                             /\ rows[s.req] = s.total

ReadSegment ==
  /\ ~reader.refused
  /\ reader.seq < Len(segments)
  /\ LET g == segments[reader.seq + 1]
     IN  reader' = IF Admissible(g)
                   THEN [seq |-> reader.seq + 1, lo |-> g.upTo,
                         rows |-> [r \in Reqs |-> reader.rows[r] \cup g.rows[r]],
                         count |-> [r \in Reqs |-> reader.count[r] + Cardinality(g.rows[r])],
                         complete |-> reader.complete \cup { s.req : s \in g.stamps },
                         refused |-> FALSE]
                   ELSE [reader EXCEPT !.refused = TRUE]
  /\ UNCHANGED <<indexVars, consumerVars, flushVars, chainVars, stopVars>>

-----------------------------------------------------------------------------
Owners == UNION { [1 .. n -> Reqs] : n \in 1 .. MaxStepRows }

Consumer == \/ \E owner \in Owners : CommitStep(owner)
            \/ \E r \in Reqs, a \in BOOLEAN : NoteAsked(r, a)
            \/ NoteStep \/ QueueFinish \/ ConsumerEnds

Flusher == \/ ReadWatermark \/ SliceAndEncode \/ TakeStamps \/ WriteSegment
           \/ SegmentFails \/ FinalFlushAfterEnd

Next == Consumer \/ Flusher \/ Stop \/ ReadSegment

Spec == Init /\ [][Next]_vars

\* The threads run, and the reader polls.
FairSpec == /\ Spec
            /\ WF_vars(NoteStep \/ QueueFinish)
            /\ WF_vars(Flusher)
            /\ WF_vars(ReadSegment)

-----------------------------------------------------------------------------
(* Properties. *)

Stamps == [req : Reqs, w : Nat, total : Nat]

TypeOK ==
  /\ blocks \in Seq([start : Nat, owner : Seq(Reqs)])
  /\ rowsTotal \in Nat
  /\ finished \in Seq([req : Reqs, w : Nat])
  /\ asked \subseteq Reqs /\ done \subseteq Reqs /\ mustStamp \subseteq Reqs
  /\ consumer \in {"run", "noting", "finishing", "ended"}
  /\ finishing \in Reqs \cup {NoReq} /\ (consumer = "finishing" => finishing \in Reqs)
  /\ flusher \in {"wait", "slice", "stamp", "write", "off"}
  /\ {stopping, final, finalDone, flushFailed} \subseteq BOOLEAN
  /\ {wm, since, seq, blockLo} \subseteq Nat
  /\ reqRows \in [Reqs -> SUBSET Nat] /\ stamps \subseteq Stamps
  /\ rowCount \in [Reqs -> Nat \cup {Absent}]
  /\ segments \in Seq([seq : Nat, since : Nat, upTo : Nat, rows : [Reqs -> SUBSET Nat],
                       stamps : SUBSET Stamps])
  /\ reader \in [seq : Nat, lo : Nat, rows : [Reqs -> SUBSET Nat], count : [Reqs -> Nat],
                 complete : SUBSET Reqs, refused : BOOLEAN]

\* The segments hold each row below the chain's watermark once, under the
\* request that owns it, and no row above it, though the flusher reads the
\* watermark and the blocks without a lock, keeps only a suffix of the blocks,
\* and tries a window again after a failed write.
ChainHoldsEveryRowOnce ==
  \A r \in Reqs :
    /\ UNION { segments[i].rows[r] : i \in 1 .. Len(segments) } = RowsIn(blocks, r, 0, since)
    /\ \A i, j \in 1 .. Len(segments) : i # j => segments[i].rows[r] \cap segments[j].rows[r] = {}

\* When the gather takes a request for complete it has been given every row of
\* that request, once each; also when a flush failed half-way.
CompleteMeansEveryRow ==
  \A r \in reader.complete : /\ reader.rows[r] = RowsOf(r)
                              /\ reader.count[r] = Cardinality(RowsOf(r))

\* A finished request that asked for capture, or has rows, is stamped in the
\* end and the gather reads it complete, unless a flush has raised.
FinishedIsDelivered ==
  \A r \in Reqs : (r \in done /\ r \in mustStamp) ~> (r \in reader.complete \/ flushFailed)

\* The inductive invariant.  The blocks follow each other without a gap and the
\* watermark is behind them only while a step is noted.
BlocksInv ==
  /\ \A i \in DOMAIN blocks : blocks[i].start + Len(blocks[i].owner) <= CommittedRows
  /\ \A i \in 1 .. Len(blocks) - 1 : blocks[i + 1].start = blocks[i].start + Len(blocks[i].owner)
  /\ rowsTotal <= CommittedRows /\ (consumer # "noting" => rowsTotal = CommittedRows)

\* The window of a flush lies between two watermarks, the blocks it does not
\* read end below it, and what it has encoded are the rows in it.
WindowInv ==
  /\ since <= rowsTotal
  /\ flusher \in {"slice", "stamp", "write"} => since <= wm /\ wm <= rowsTotal
  /\ blockLo <= Len(blocks)
  /\ \A i \in 1 .. blockLo : blocks[i].start + Len(blocks[i].owner) <= since
  /\ flusher \in {"stamp", "write"} => \A r \in Reqs : reqRows[r] = RowsIn(blocks, r, since, wm)

\* A request that is done has all its rows below w.
AllBelow(r, w) == r \in done /\ \A x \in RowsOf(r) : x < w

StampInv ==
  /\ \A i \in DOMAIN finished : AllBelow(finished[i].req, finished[i].w)
  /\ flusher = "write" \/ stamps = {}
  /\ \A s \in stamps : AllBelow(s.req, s.w) /\ s.w <= wm
  /\ \A i \in DOMAIN segments : \A s \in segments[i].stamps :
       AllBelow(s.req, s.w) /\ s.w <= segments[i].upTo

\* Windows follow each other, and the reader is behind the last one.
SegmentInv ==
  /\ \A i \in DOMAIN segments :
       /\ segments[i].upTo <= since
       /\ \A r \in Reqs : segments[i].rows[r]
                          = RowsIn(blocks, r, segments[i].since, segments[i].upTo)
  /\ \A i, j \in DOMAIN segments : i < j => segments[i].upTo <= segments[j].since

ReaderInv ==
  /\ reader.seq <= Len(segments) /\ reader.lo <= since
  /\ \A r \in Reqs : /\ reader.rows[r] = RowsIn(blocks, r, 0, reader.lo)
                      /\ reader.count[r] = Cardinality(reader.rows[r])
  /\ \A r \in reader.complete : AllBelow(r, reader.lo)

\* Together: what the flusher and the reader hold agrees with the blocks at every
\* step of every thread.
IndexInv == /\ TypeOK /\ BlocksInv /\ WindowInv /\ StampInv /\ SegmentInv /\ ReaderInv
            /\ ChainHoldsEveryRowOnce

=============================================================================
