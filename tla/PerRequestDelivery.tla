------------------------- MODULE PerRequestDelivery -------------------------
(***************************************************************************)
(* Per-request delivery of hidden states (MIA_APERTURE_PER_REQUEST=1):     *)
(* each request's rows are collected apart and given to its client, in     *)
(* memory (RPC) or as a directory copied to the client's path (disk).      *)
(*                                                                         *)
(*   worker    the engine worker's one thread: steps, and the RPCs that    *)
(*             route, fetch, confirm and clear a request                   *)
(*             (workers/hs_capture_worker.py);                             *)
(*   consumer  the drain thread: sorts a step's rows into the host index   *)
(*             or a staging directory, and on a finish hands them on       *)
(*             (core/aperture/aperture_drain_hs.py);                       *)
(*   offload   copies finished directories (OffloadProcess);               *)
(*   client    the async generate() of core/_plugin.py: polls for its      *)
(*             delivery and always clears the request when it ends, served *)
(*             or not.                                                     *)
(*                                                                         *)
(* One lock, _index_lock, guards the shared tables; an action is at most   *)
(* one section under it.  A request is named by the client's id, used  *)
(* once, and its rows are numbered.  A step captures one row of each       *)
(* request in it, for one layer.  The Bug operators are mistaken versions  *)
(* of the definition after them, no part of Next.                          *)
(***************************************************************************)
EXTENDS OffloadProcess, FiniteSets

CONSTANTS
  MaxRows,        \* bound: rows captured for each id
  WriteFailures,  \* can writing to a staging directory fail?
  SidecarFailures,  \* can writing its sidecar at the end fail?
  CopyFailures,   \* can an attempt at a transfer fail?
  NoteUnstaged    \* _note_unstaged_finish (layers sharded over ranks)

ASSUME PerRequestAssumption ==
  /\ IsFiniteSet(Reqs) /\ Reqs # {} /\ NoReq \notin Reqs
  /\ MaxRows \in [Reqs -> Nat]
  /\ {WriteFailures, SidecarFailures, CopyFailures, NoteUnstaged} \subseteq BOOLEAN

VARIABLES
  client,        \* "new", "running", "awaiting", "served", "cleared"
  transport,     \* "rpc" or "disk", where the client asked its rows to go
  running,       \* requests the engine schedules
  ended,         \* those it has ended whose finish is not yet enqueued
  captured,      \* rows captured under the id
  got,           \* rows the client received by RPC
  confirmed,     \* clients told that their directory has landed
  worker,        \* the worker thread: [at, req, src], src used by a clear
  queue,         \* the drain's queue
  consumer,      \* the drain thread: [at, item, routes, todo, staged, req]
  routed,        \* _disk_routed
  staging,       \* _disk_staging
  deliveredSrc,  \* _disk_delivered_src
  pending,       \* _disk_reclaim_pending
  diskAborted, hostAborted,   \* _disk_aborted, _host_aborted
  unstaged,      \* _disk_unstaged
  index,         \* PerRequestIndex: rows of each live entry
  deliverable,   \* PerRequestIndex._deliverable
  stash,         \* _aperture_perreq_stash
  dirs,          \* staging directories on disk
  dirRows,       \* rows in the raw files of each
  sidecar,       \* those that have their sidecar, without which no row is found
  destRows,      \* rows that can be found at each client's path
  broken         \* requests whose staging met a failed write (for properties)

clientVars == <<client, transport, got, confirmed>>
engineVars == <<running, ended, captured>>
tableVars == <<routed, staging, deliveredSrc, pending, diskAborted, hostAborted,
               unstaged>>
hostVars == <<index, deliverable, stash>>
dirVars == <<dirs, dirRows, sidecar, destRows, broken>>
vars == <<clientVars, engineVars, worker, queue, consumer, tableVars, hostVars,
          dirVars, offloadVars>>

Empty == [r \in Reqs |-> {}]
RowsItem(rows) == [kind |-> "rows", rows |-> rows, req |-> NoReq]
FinishItem(r) == [kind |-> "finish", rows |-> <<>>, req |-> r]
NoItem == [kind |-> "none", rows |-> <<>>, req |-> NoReq]
IdleWorker == [at |-> "idle", req |-> NoReq, src |-> FALSE]
IdleConsumer == [at |-> "get", item |-> NoItem, routes |-> {}, todo |-> {},
                 staged |-> {}, req |-> NoReq]

RowsOf(r) == 0 .. captured[r] - 1

Init ==
  /\ client = [r \in Reqs |-> "new"]
  /\ transport = [r \in Reqs |-> "rpc"]
  /\ running = {} /\ ended = {}
  /\ captured = [r \in Reqs |-> 0]
  /\ got = Empty /\ confirmed = {}
  /\ worker = IdleWorker /\ queue = <<>> /\ consumer = IdleConsumer
  /\ routed = {} /\ staging = {} /\ deliveredSrc = {} /\ pending = {}
  /\ diskAborted = {} /\ hostAborted = {} /\ unstaged = {}
  /\ index = Empty /\ deliverable = {} /\ stash = Empty
  /\ dirs = {} /\ dirRows = Empty /\ sidecar = {} /\ destRows = Empty /\ broken = {}
  /\ OffloadInit

-----------------------------------------------------------------------------
(* The worker thread: engine steps. *)

\* A client starts: route_to_disk if its rows go to disk, then add_request.
Start(r) ==
  /\ worker.at = "idle"
  /\ client[r] = "new"
  /\ client' = [client EXCEPT ![r] = "running"]
  /\ running' = running \cup {r}
  /\ \/ transport' = [transport EXCEPT ![r] = "disk"] /\ routed' = routed \cup {r}
     \/ transport' = [transport EXCEPT ![r] = "rpc"] /\ UNCHANGED routed
  /\ UNCHANGED <<got, confirmed, ended, captured, worker, queue, consumer, staging,
                 deliveredSrc, pending, diskAborted, hostAborted, unstaged, hostVars,
                 dirVars, offloadVars>>

\* wrapped_execute_model: the step's rows are enqueued, then the finishes of the
\* requests the scheduler ended before it.
ExecuteModel(S, F) ==
  /\ worker.at = "idle"
  /\ S \cup F # {}
  /\ \A r \in S : captured[r] < MaxRows[r]
  /\ captured' = [r \in Reqs |-> captured[r] + (IF r \in S THEN 1 ELSE 0)]
  /\ \E fs \in { q \in [1 .. Cardinality(F) -> F] :
                   \A i, j \in 1 .. Cardinality(F) : i # j => q[i] # q[j] } :
       queue' = queue
                  \o (IF S = {} THEN <<>> ELSE << RowsItem([r \in S |-> captured[r]]) >>)
                  \o [i \in 1 .. Cardinality(F) |-> FinishItem(fs[i])]
  /\ ended' = ended \ F
  /\ UNCHANGED <<clientVars, running, worker, consumer, tableVars, hostVars,
                 dirVars, offloadVars>>

\* The scheduler ends a request: it is complete, or its client has gone.
EndRequest(r) ==
  /\ worker.at = "idle"
  /\ r \in running
  /\ running' = running \ {r}
  /\ ended' = ended \cup {r}
  /\ client' = [client EXCEPT ![r] = IF @ = "running" THEN "awaiting" ELSE @]
  /\ UNCHANGED <<transport, got, confirmed, captured, worker, queue,
                 consumer, tableVars, hostVars, dirVars, offloadVars>>

-----------------------------------------------------------------------------
(* The worker thread: RPCs of a client that waits. *)

\* _drain_aperture_into_stash: every deliverable entry moves to the stash.
Stashed == [q \in Reqs |-> IF q \in deliverable THEN index[q] ELSE stash[q]]
LeftInIndex == [q \in Reqs |-> IF q \in deliverable THEN {} ELSE index[q]]

\* get_aperture_per_request
Get(r) ==
  /\ worker.at = "idle"
  /\ client[r] = "awaiting" /\ transport[r] = "rpc"
  /\ index' = LeftInIndex
  /\ deliverable' = {}
  /\ stash' = [Stashed EXCEPT ![r] = {}]
  /\ got' = [got EXCEPT ![r] = Stashed[r]]
  /\ client' = [client EXCEPT ![r] = IF Stashed[r] # {} THEN "served" ELSE @]
  /\ UNCHANGED <<transport, confirmed, engineVars, worker, queue, consumer,
                 tableVars, dirVars, offloadVars>>

\* confirm_aperture_delivery with no timeout, and unlink_delivered_source.
Confirm(r) ==
  /\ worker.at = "idle"
  /\ client[r] = "awaiting" /\ transport[r] = "disk"
  /\ r \notin unstaged
  /\ Delivered(r)
  /\ confirmed' = confirmed \cup {r}
  /\ client' = [client EXCEPT ![r] = "served"]
  /\ deliveredSrc' = deliveredSrc \ {r}
  /\ dirs' = IF r \in deliveredSrc THEN dirs \ {r} ELSE dirs
  /\ UNCHANGED <<transport, got, engineVars, worker, queue, consumer, routed,
                 staging, pending, diskAborted, hostAborted, unstaged, hostVars,
                 dirRows, sidecar, destRows, broken, offloadVars>>

-----------------------------------------------------------------------------
(* The worker thread: clear_aperture_request, at the end of every client,  *)
(* in four sections between which the consumer runs.                       *)

\* clear_request_disk, under the lock.
ClearDisk(r) ==
  /\ worker.at = "idle"
  /\ client[r] \in {"running", "awaiting", "served"}
  /\ client' = [client EXCEPT ![r] = "cleared"]
  /\ routed' = routed \ {r}
  /\ deliveredSrc' = deliveredSrc \ {r}
  /\ unstaged' = unstaged \ {r}
  /\ diskAborted' = IF r \in staging \cup routed THEN diskAborted \cup {r} ELSE diskAborted
  /\ worker' = [at |-> "settle", req |-> r, src |-> r \in deliveredSrc]
  /\ UNCHANGED <<transport, got, confirmed, engineVars, queue, consumer,
                 staging, pending, hostAborted, hostVars, dirVars, offloadVars>>

\* (Mistake: the transfer is taken for settled.)
BugClearSource ==
  /\ worker.at = "settle"
  /\ dirs' = IF worker.src THEN dirs \ {worker.req} ELSE dirs
  /\ worker' = [worker EXCEPT !.at = "mark"]
  /\ UNCHANGED <<clientVars, engineVars, queue, consumer, tableVars, hostVars, dirRows,
                 sidecar, destRows, broken, offloadVars>>

\* A delivered source is removed if its transfer has settled, else later.
ClearSource ==
  /\ worker.at = "settle"
  /\ LET now == worker.src /\ Settled(worker.req)
     IN  /\ dirs' = IF now THEN dirs \ {worker.req} ELSE dirs
         /\ pending' = IF worker.src /\ ~now THEN pending \cup {worker.req} ELSE pending
  /\ worker' = [worker EXCEPT !.at = "mark"]
  /\ UNCHANGED <<clientVars, engineVars, queue, consumer, routed, staging, deliveredSrc,
                 diskAborted, hostAborted, unstaged, hostVars, dirRows, sidecar,
                 destRows, broken, offloadVars>>

\* mark_host_aborted: only a request that has an entry is marked.
MarkHost ==
  /\ worker.at = "mark"
  /\ hostAborted' = IF index[worker.req] # {} THEN hostAborted \cup {worker.req}
                                             ELSE hostAborted
  /\ worker' = [worker EXCEPT !.at = "free"]
  /\ UNCHANGED <<clientVars, engineVars, queue, consumer, routed, staging, deliveredSrc,
                 pending, diskAborted, unstaged, hostVars, dirVars, offloadVars>>

\* (Mistake: the entry is freed and left in the list of deliverable ones.)
BugFreeHost ==
  /\ worker.at = "free"
  /\ index' = [index EXCEPT ![worker.req] = {}]
  /\ stash' = [stash EXCEPT ![worker.req] = {}]
  /\ worker' = IdleWorker
  /\ UNCHANGED <<clientVars, engineVars, queue, consumer, tableVars, deliverable, dirVars,
                 offloadVars>>

\* The entry and the stashed payload are dropped.
FreeHost ==
  /\ worker.at = "free"
  /\ index' = [LeftInIndex EXCEPT ![worker.req] = {}]
  /\ deliverable' = {}
  /\ stash' = [Stashed EXCEPT ![worker.req] = {}]
  /\ worker' = IdleWorker
  /\ UNCHANGED <<clientVars, engineVars, queue, consumer, tableVars, dirVars, offloadVars>>

-----------------------------------------------------------------------------
(* The consumer thread. *)

\* The next item; a step's routes are read once for all its entries.
TakeItem ==
  /\ consumer.at = "get"
  /\ queue # <<>>
  /\ queue' = Tail(queue)
  /\ LET it == Head(queue)
     IN  consumer' = IF it.kind = "rows"
                     THEN [at |-> "demux", item |-> it, routes |-> routed,
                           todo |-> DOMAIN it.rows, staged |-> {}, req |-> NoReq]
                     ELSE [IdleConsumer EXCEPT !.at = "finish", !.item = it, !.req = it.req]
  /\ UNCHANGED <<clientVars, engineVars, worker, tableVars, hostVars, dirVars, offloadVars>>

DemuxHost(r) ==
  /\ consumer.at = "demux"
  /\ r \in consumer.todo \ consumer.routes
  /\ consumer' = [consumer EXCEPT !.todo = @ \ {r}, !.staged = @ \cup {r}]
  /\ UNCHANGED <<clientVars, engineVars, worker, queue, tableVars, hostVars, dirVars,
                 offloadVars>>

\* _disk_write, under the lock: an aborted or unrouted request is skipped, a new
\* one gets its directory (or making it fails).
DemuxDisk(r) ==
  /\ consumer.at = "demux"
  /\ r \in consumer.todo \cap consumer.routes
  /\ \/ /\ r \in diskAborted \/ r \notin routed
        /\ consumer' = [consumer EXCEPT !.todo = @ \ {r}]
        /\ UNCHANGED <<staging, dirs, diskAborted, broken>>
     \/ /\ r \in routed \ diskAborted
        /\ staging' = staging \cup {r}
        /\ dirs' = dirs \cup {r}
        /\ consumer' = [consumer EXCEPT !.at = "append", !.req = r]
        /\ UNCHANGED <<diskAborted, broken>>
     \/ /\ WriteFailures
        /\ r \in routed \ (diskAborted \cup staging)
        /\ diskAborted' = diskAborted \cup {r}
        /\ broken' = broken \cup {r}
        /\ consumer' = [consumer EXCEPT !.todo = @ \ {r}]
        /\ UNCHANGED <<staging, dirs>>
  /\ UNCHANGED <<clientVars, engineVars, worker, queue, routed, deliveredSrc, pending,
                 hostAborted, unstaged, hostVars, dirRows, sidecar, destRows, offloadVars>>

\* stg.append, outside the lock.
AppendRows ==
  /\ consumer.at = "append"
  /\ dirRows' = [dirRows EXCEPT ![consumer.req] = @ \cup {consumer.item.rows[consumer.req]}]
  /\ consumer' = [consumer EXCEPT !.at = "demux", !.todo = @ \ {consumer.req}, !.req = NoReq]
  /\ UNCHANGED <<clientVars, engineVars, worker, queue, tableVars, hostVars, dirs,
                 sidecar, destRows, broken, offloadVars>>

\* (Mistake: a failed write is logged and nothing else.)
BugAppendFails ==
  /\ WriteFailures
  /\ consumer.at = "append"
  /\ broken' = broken \cup {consumer.req}
  /\ consumer' = [consumer EXCEPT !.at = "demux", !.todo = @ \ {consumer.req}, !.req = NoReq]
  /\ UNCHANGED <<clientVars, engineVars, worker, queue, tableVars, hostVars, dirs, dirRows,
                 sidecar, destRows, offloadVars>>

\* ... it raises, and the request's delivery is given up.
AppendFails ==
  /\ WriteFailures
  /\ consumer.at = "append"
  /\ diskAborted' = IF consumer.req \in staging \cup routed
                    THEN diskAborted \cup {consumer.req} ELSE diskAborted
  /\ broken' = broken \cup {consumer.req}
  /\ consumer' = [consumer EXCEPT !.at = "demux", !.todo = @ \ {consumer.req}, !.req = NoReq]
  /\ UNCHANGED <<clientVars, engineVars, worker, queue, routed, staging, deliveredSrc,
                 pending, hostAborted, unstaged, hostVars, dirs, dirRows, sidecar,
                 destRows, offloadVars>>

\* (Mistake: a new row takes the place of those before it.)
BugNoteRows ==
  /\ consumer.at = "demux" /\ consumer.todo = {}
  /\ index' = [r \in Reqs |->
                 IF r \in consumer.staged \ (hostAborted \cup diskAborted)
                 THEN {consumer.item.rows[r]} ELSE index[r]]
  /\ consumer' = [IdleConsumer EXCEPT !.at = "reclaim"]
  /\ UNCHANGED <<clientVars, engineVars, worker, queue, tableVars, deliverable, stash,
                 dirVars, offloadVars>>

\* The rows for the host index are noted at the end, those of aborted requests not.
NoteRows ==
  /\ consumer.at = "demux" /\ consumer.todo = {}
  /\ index' = [r \in Reqs |->
                 IF r \in consumer.staged \ (hostAborted \cup diskAborted)
                 THEN index[r] \cup {consumer.item.rows[r]} ELSE index[r]]
  /\ consumer' = [IdleConsumer EXCEPT !.at = "reclaim"]
  /\ UNCHANGED <<clientVars, engineVars, worker, queue, tableVars, deliverable, stash,
                 dirVars, offloadVars>>

\* (Mistake: a finish does not look for an abort.)
BugHandleFinish ==
  /\ consumer.at = "finish"
  /\ LET r == consumer.req
         disk == r \in routed \cup staging
     IN  /\ consumer' = [consumer EXCEPT !.at = IF disk THEN "submit" ELSE "host"]
         /\ routed' = routed \ {r}
         /\ staging' = staging \ {r}
         /\ deliveredSrc' = IF disk THEN deliveredSrc \cup {r} ELSE deliveredSrc
  /\ UNCHANGED <<clientVars, engineVars, worker, queue, pending, unstaged, diskAborted,
                 hostAborted, hostVars, dirVars, offloadVars>>

\* _handle_finish, its first section: what becomes of the request.
HandleFinish ==
  /\ consumer.at = "finish"
  /\ LET r == consumer.req
         aborted == r \in diskAborted
         disk == ~aborted /\ r \in routed
         next == IF aborted THEN (IF r \in staging THEN "discard" ELSE "reclaim")
                 ELSE IF disk THEN (IF r \in staging THEN "submit" ELSE "reclaim")
                 ELSE "host"
     IN  /\ consumer' = [consumer EXCEPT !.at = next]
         /\ diskAborted' = diskAborted \ {r}
         /\ hostAborted' = IF aborted THEN hostAborted \ {r} ELSE hostAborted
         /\ routed' = routed \ {r}
         /\ staging' = IF aborted \/ disk THEN staging \ {r} ELSE staging
         /\ deliveredSrc' = IF aborted THEN deliveredSrc \ {r}
                            ELSE IF disk /\ r \in staging THEN deliveredSrc \cup {r}
                            ELSE deliveredSrc
         /\ unstaged' = IF disk /\ r \notin staging /\ NoteUnstaged
                        THEN unstaged \cup {r} ELSE unstaged
  /\ UNCHANGED <<clientVars, engineVars, worker, queue, pending, hostVars, dirVars,
                 offloadVars>>

DiscardStaging ==
  /\ consumer.at = "discard"
  /\ dirs' = dirs \ {consumer.req}
  /\ consumer' = [consumer EXCEPT !.at = "reclaim"]
  /\ UNCHANGED <<clientVars, engineVars, worker, queue, tableVars, hostVars, dirRows,
                 sidecar, destRows, broken, offloadVars>>

\* stg.close(), which writes the sidecar or logs that it cannot, and
\* self._offload.submit() either way.
SubmitStaging ==
  /\ consumer.at = "submit"
  /\ \/ sidecar' = sidecar \cup ({consumer.req} \cap dirs) /\ UNCHANGED broken
     \/ SidecarFailures /\ broken' = broken \cup {consumer.req} /\ UNCHANGED sidecar
  /\ Submit(consumer.req)
  /\ consumer' = [consumer EXCEPT !.at = "reclaim"]
  /\ UNCHANGED <<clientVars, engineVars, worker, queue, tableVars, hostVars, dirs, dirRows,
                 destRows>>

\* _handle_finish, its second section, for a request with no route.
FinishHost ==
  /\ consumer.at = "host"
  /\ LET r == consumer.req
     IN  IF r \in hostAborted
         THEN /\ index' = [index EXCEPT ![r] = {}]
              /\ hostAborted' = hostAborted \ {r}
              /\ UNCHANGED deliverable
         ELSE /\ deliverable' = IF index[r] # {} THEN deliverable \cup {r} ELSE deliverable
              /\ UNCHANGED <<index, hostAborted>>
  /\ consumer' = [consumer EXCEPT !.at = "reclaim"]
  /\ UNCHANGED <<clientVars, engineVars, worker, queue, routed, staging, deliveredSrc,
                 pending, diskAborted, unstaged, stash, dirVars, offloadVars>>

\* _reclaim_settled_pending, after every item.
ReclaimSettled ==
  /\ consumer.at = "reclaim"
  /\ LET gone == { r \in pending : Settled(r) }
     IN  pending' = pending \ gone /\ dirs' = dirs \ gone
  /\ consumer' = IdleConsumer
  /\ UNCHANGED <<clientVars, engineVars, worker, queue, routed, staging, deliveredSrc,
                 diskAborted, hostAborted, unstaged, hostVars, dirRows, sidecar, destRows,
                 broken, offloadVars>>

-----------------------------------------------------------------------------
(* The offload worker: an attempt copies the directory, or fails. *)

OffloadTakes == /\ TakeJob
                /\ UNCHANGED <<clientVars, engineVars, worker, queue, consumer, tableVars,
                               hostVars, dirVars>>

CopyDirectory ==
  /\ transfer \in dirs
  /\ destRows' = IF transfer \in sidecar
                 THEN [destRows EXCEPT ![transfer] = dirRows[transfer]] ELSE destRows
  /\ Settle("done")
  /\ UNCHANGED <<clientVars, engineVars, worker, queue, consumer, tableVars, hostVars,
                 dirs, dirRows, sidecar, broken>>

CopyFails ==
  /\ CopyFailures \/ transfer \notin dirs
  /\ Retry \/ GivesUp
  /\ UNCHANGED <<clientVars, engineVars, worker, queue, consumer, tableVars, hostVars,
                 dirVars>>

-----------------------------------------------------------------------------
Requests == \/ \E S \in SUBSET running, F \in SUBSET ended : ExecuteModel(S, F)
            \/ \E r \in Reqs : \/ Start(r) \/ EndRequest(r) \/ Get(r)
                               \/ Confirm(r) \/ ClearDisk(r)

Clearing == ClearSource \/ MarkHost \/ FreeHost

Consumer == \/ TakeItem \/ AppendRows \/ AppendFails \/ NoteRows
            \/ HandleFinish \/ DiscardStaging \/ SubmitStaging \/ FinishHost
            \/ ReclaimSettled
            \/ \E r \in Reqs : DemuxHost(r) \/ DemuxDisk(r)

Offload == OffloadTakes \/ CopyDirectory \/ CopyFails

Next == Requests \/ Clearing \/ Consumer \/ Offload

Spec == Init /\ [][Next]_vars

\* The threads run; the engine steps once more after a request has ended
\* (vLLM delivers finished_req_ids with the next step); a waiting client polls.
Fairness ==
  /\ WF_vars(Consumer) /\ WF_vars(Offload) /\ WF_vars(Clearing)
  /\ WF_vars(\E F \in SUBSET ended : F # {} /\ ExecuteModel({}, F))
  /\ \A r \in Reqs : WF_vars(Get(r)) /\ WF_vars(Confirm(r))

FairSpec == Spec /\ Fairness

-----------------------------------------------------------------------------
(* Properties *)

\* What a step captured of each request in it.
RowNumbers == UNION {0 .. MaxRows[r] - 1 : r \in Reqs}
RowMaps == UNION {[S -> RowNumbers] : S \in SUBSET Reqs}
Items == [kind : {"rows", "finish", "none"}, rows : RowMaps, req : Reqs \cup {NoReq}]

Stages == {"get", "demux", "append", "finish", "discard", "submit", "host", "reclaim"}
RowSets == [Reqs -> SUBSET Nat]

ClientType ==
  /\ client \in [Reqs -> {"new", "running", "awaiting", "served", "cleared"}]
  /\ transport \in [Reqs -> {"rpc", "disk"}]
  /\ got \in RowSets /\ confirmed \subseteq Reqs
EngineType ==
  /\ running \subseteq Reqs /\ ended \subseteq Reqs
  /\ captured \in [Reqs -> Nat] /\ \A r \in Reqs : captured[r] <= MaxRows[r]
WorkerType ==
  worker \in [at : {"idle", "settle", "mark", "free"}, req : Reqs \cup {NoReq}, src : BOOLEAN]
DrainType ==
  /\ queue \in Seq(Items)
  /\ consumer \in [at : Stages, item : Items, routes : SUBSET Reqs, todo : SUBSET Reqs,
                   staged : SUBSET Reqs, req : Reqs \cup {NoReq}]
TableType ==
  /\ routed \subseteq Reqs /\ staging \subseteq Reqs /\ deliveredSrc \subseteq Reqs
  /\ pending \subseteq Reqs /\ diskAborted \subseteq Reqs /\ hostAborted \subseteq Reqs
  /\ unstaged \subseteq Reqs
HostType == index \in RowSets /\ stash \in RowSets /\ deliverable \subseteq Reqs
DirType ==
  /\ dirRows \in RowSets /\ destRows \in RowSets
  /\ dirs \subseteq Reqs /\ sidecar \subseteq Reqs /\ broken \subseteq Reqs
OffloadType ==
  /\ jobs \in Seq(Reqs) /\ transfer \in Reqs \cup {NoReq} /\ attempt \in 0 .. MaxRetries
  /\ inflight \subseteq Reqs /\ event \subseteq Reqs
  /\ result \in [Reqs -> {"none", "done", "failed"}]

TypeOK == /\ ClientType /\ EngineType /\ WorkerType /\ DrainType /\ TableType
          /\ HostType /\ DirType /\ OffloadType

\* The source directory of a transfer that is queued or under way is there, with
\* every row of the request: no confirm, clear or reclaim takes it away before the
\* offload worker is done with it (_reclaim_settled_pending, clear_request_disk).
SourceOutlivesTransfer ==
  \A r \in Reqs : r \in inflight => r \in dirs /\ dirRows[r] = RowsOf(r)

\* A request whose staging directory could not be written whole is not delivered
\* (_demux_into_index: "that request's disk delivery is dropped"; close:
\* "delivery skipped").
BrokenIsNotDelivered == confirmed \cap broken = {}

\* A client served in memory has every row captured for it, whatever order the
\* drain, the finish and its polls came in; and an entry listed as deliverable is
\* there and whole, unless its client is clearing it: pop_deliverable, which looks
\* each one up, never meets a missing one (get_aperture_per_request, finish).
HostRowsAreWhole ==
  /\ \A r \in Reqs : got[r] # {} => got[r] = RowsOf(r)
  /\ \A r \in deliverable :
       /\ index[r] # {}
       /\ client[r] # "cleared" => index[r] = RowsOf(r)

\* No item of r is on its way to the consumer or in its hands.
NothingQueued(r) == /\ \A i \in 1 .. Len(queue) : queue[i].req # r /\ r \notin DOMAIN queue[i].rows
                    /\ consumer.item.req # r /\ r \notin DOMAIN consumer.item.rows

\* A cleared request of which nothing is still to come: no engine step, queued
\* item or clear under way concerns it.
Quiet(r) ==
  /\ client[r] = "cleared"
  /\ r \notin running \cup ended
  /\ worker.req # r /\ consumer.req # r
  /\ NothingQueued(r)

InNoTable(r) ==
  /\ r \notin routed \cup staging \cup deliveredSrc \cup diskAborted \cup hostAborted
              \cup unstaged
  /\ index[r] = {} /\ stash[r] = {}

\* However its clear interleaves with the drain's consumer, a request routed to disk
\* leaves no table entry behind, and no directory that is not due to be reclaimed
\* (clear_request_disk, _handle_finish).
DiskClearLeavesNothing ==
  \A r \in Reqs :
    Quiet(r) /\ transport[r] = "disk" => InNoTable(r) /\ (r \in dirs => r \in pending)

\* A client that waits for a request that has ended, with rows to deliver, is served
\* or stops waiting, unless writing or copying its rows has failed.
AwaitedIsServed ==
  \A r \in Reqs :
    client[r] = "awaiting" /\ RowsOf(r) # {}
      ~> client[r] # "awaiting" \/ result[r] = "failed" \/ r \in broken
-----------------------------------------------------------------------------
(* The invariant the safety properties rest on. *)

FinishQueued(r) == \E i \in 1 .. Len(queue) : queue[i].req = r
NoRowsQueued(r) == \A i \in 1 .. Len(queue) : r \notin DOMAIN queue[i].rows
RowQueued(r, x) ==
  \E i \in 1 .. Len(queue) : r \in DOMAIN queue[i].rows /\ queue[i].rows[r] = x

\* The engine has r, or its finish waits for the consumer.
Handling(r) == consumer.at \in {"finish", "discard", "submit", "host"} /\ consumer.req = r
Enlisted(r) == r \in running \cup ended \/ FinishQueued(r)
Coming(r) == Enlisted(r) \/ (consumer.at = "finish" /\ consumer.req = r)
Unfinished(r) == client[r] = "new" \/ Enlisted(r) \/ Handling(r)

\* A row number is one that was captured.
RowsInv ==
  /\ \A r \in Reqs : got[r] \cup index[r] \cup stash[r] \cup dirRows[r] \cup destRows[r]
                      \subseteq RowsOf(r)
  /\ \A i \in 1 .. Len(queue) : \A r \in DOMAIN queue[i].rows : queue[i].rows[r] < captured[r]
  /\ \A r \in DOMAIN consumer.item.rows : consumer.item.rows[r] < captured[r]

\* A request's rows come before its finish, and that comes once.
QueueInv ==
  /\ running \cap ended = {}
  /\ \A r \in Reqs : client[r] = "new" => captured[r] = 0 /\ ~Enlisted(r) /\ ~Handling(r)
  /\ \A r \in running \cup ended : ~FinishQueued(r) /\ ~Handling(r)
  /\ \A i \in 1 .. Len(queue) :
       /\ \/ queue[i].kind = "rows" /\ queue[i].req = NoReq
          \/ queue[i].kind = "finish" /\ queue[i].req \in Reqs /\ DOMAIN queue[i].rows = {}
       /\ \A r \in DOMAIN queue[i].rows : Enlisted(r)
  /\ \A i, j \in 1 .. Len(queue) : i < j /\ queue[i].req \in Reqs =>
       queue[j].req # queue[i].req /\ queue[i].req \notin DOMAIN queue[j].rows

ConsumerInv ==
  /\ consumer.todo \cup consumer.staged \subseteq DOMAIN consumer.item.rows
  /\ consumer.at \in {"demux", "append"} =>
       \A r \in DOMAIN consumer.item.rows :
         /\ Enlisted(r)
         /\ r \notin consumer.routes => r \notin routed
  /\ consumer.at \notin {"demux", "append"} => DOMAIN consumer.item.rows = {}
  /\ consumer.at = "append" => consumer.req \in consumer.todo \cap staging
  /\ \A r \in consumer.routes : transport[r] = "disk" /\ client[r] # "new"
  /\ consumer.staged \cap consumer.routes = {}
  /\ consumer.at \in {"finish", "discard", "submit", "host"} =>
       consumer.req \in Reqs /\ ~Enlisted(consumer.req) /\ NoRowsQueued(consumer.req)

\* Only what the consumer has handed over is in the offload worker's tables.
NotSubmitted(r) ==
  /\ r \notin inflight \cup event /\ result[r] = "none" /\ transfer # r
  /\ \A k \in 1 .. Len(jobs) : jobs[k] # r

OffloadInv ==
  /\ \A r \in Reqs : Unfinished(r) => NotSubmitted(r)
  /\ inflight \cap event = {}
  /\ SourceOutlivesTransfer
  /\ consumer.at = "submit" =>
       consumer.req \in dirs /\ dirRows[consumer.req] = RowsOf(consumer.req)

\* Where a captured row of r is kept until r has finished.
StagedOrComing(r, x) ==
  \/ x \in dirRows[r] \/ RowQueued(r, x)
  \/ r \in consumer.todo /\ consumer.item.rows[r] = x
IndexedOrComing(r, x) ==
  \/ x \in index[r] \/ RowQueued(r, x)
  \/ r \in consumer.todo \cup consumer.staged /\ consumer.item.rows[r] = x

\* Why a directory is still there.
DirAwaited(r) ==
  \/ r \in staging \cup deliveredSrc \cup pending
  \/ worker.at = "settle" /\ worker.req = r /\ worker.src
  \/ consumer.at = "discard" /\ consumer.req = r

\* Until its finish a request with a route has it or is aborted; one that is not
\* aborted has every row in its directory, in the queue or in the consumer's hands.
DiskInv ==
  /\ \A r \in routed : transport[r] = "disk" /\ client[r] \notin {"new", "cleared"} /\ Coming(r)
  /\ \A r \in staging : transport[r] = "disk" /\ Coming(r) /\ r \in dirs
  /\ \A r \in diskAborted : transport[r] = "disk" /\ Coming(r)
  /\ \A r \in Reqs : transport[r] = "disk" /\ Coming(r) => r \in routed \cup diskAborted
  /\ \A r \in deliveredSrc : ~Coming(r) /\ client[r] \notin {"new", "cleared"}
  /\ \A r \in unstaged : client[r] \notin {"new", "cleared"}
  /\ \A r \in routed \ diskAborted : \A x \in RowsOf(r) : StagedOrComing(r, x)
  /\ \A r \in dirs : DirAwaited(r)

\* The same for a request that goes to the host index, while its client is there.
HostInv ==
  /\ worker.at # "idle" => worker.req \in Reqs /\ client[worker.req] = "cleared"
  /\ \A r \in hostAborted : client[r] = "cleared"
  /\ \A r \in Reqs : transport[r] = "disk" \/ client[r] = "new" =>
       index[r] = {} /\ stash[r] = {} /\ r \notin deliverable \cup hostAborted
  /\ \A r \in Reqs : Unfinished(r) => r \notin deliverable /\ stash[r] = {} /\ got[r] = {}
  /\ HostRowsAreWhole
  /\ \A r \in Reqs : stash[r] # {} /\ client[r] # "cleared" => stash[r] = RowsOf(r)
  /\ \A r \in Reqs :
       transport[r] = "rpc" /\ client[r] # "cleared" /\ (Enlisted(r) \/ Handling(r)) =>
         \A x \in RowsOf(r) : IndexedOrComing(r, x)

\* A request with a failed write is aborted until its finish, and then discarded.
BrokenInv ==
  /\ \A r \in broken :
       /\ NotSubmitted(r) /\ client[r] # "new"
       /\ Coming(r) => r \in diskAborted
       /\ consumer.req = r => consumer.at # "submit"
  /\ \A r \in confirmed : result[r] # "none"

DeliveryInv ==
  /\ TypeOK /\ RowsInv /\ QueueInv /\ ConsumerInv /\ OffloadInv /\ DiskInv /\ HostInv
  /\ ~SidecarFailures => BrokenInv
=============================================================================
