------------------------------ MODULE QkHistory ------------------------------
(***************************************************************************)
(* Per-request delivery of attention queries and keys: the history that    *)
(* one request's client gets.  Every captured step stores the keys of the  *)
(* positions it computes and, when its phase and mode ask for them, the    *)
(* queries of a pass and the length L of the history they attend to.  The  *)
(* keys of pass i are delivered as the first L_i of all rows stored, so    *)
(* they are right only when those rows are positions 0, 1, 2, ... once     *)
(* each: chunked prefill stores them so, a preemption that computes        *)
(* positions again, or skips cached ones, does not.                        *)
(*                                                                         *)
(*   engine    the scheduler (external): chunks, decode steps, preemption  *)
(*             and cached prefixes; the routing of hooks/install.py runs   *)
(*             before each forward, the wrapper enqueues after it;         *)
(*   consumer  the drain thread of core/aperture/aperture_drain_qk.py: the *)
(*             host index (RPC) or a staging directory (disk);             *)
(*   client    core/_plugin.py: fetches and assembles, or confirms and     *)
(*             reads the directory, and clears the request at the end or   *)
(*             when it is aborted.                                         *)
(*                                                                         *)
(* A row is named by its position.  The layers of a request are stored     *)
(* alike: one of them is modelled, and a write that fails fails for it.    *)
(* The ring and its back-pressure are in ApertureDrain.  The Bug operators *)
(* are mistaken versions of the definition after them, no part of Next.    *)
(***************************************************************************)
EXTENDS Integers, Sequences

CONSTANTS
  Asks,           \* what requests may ask: [hooks, mode, route]
  Prompt,         \* prompt length
  MaxGen,         \* bound: generated tokens
  Chunk,          \* the most prompt tokens one step computes
  Block,          \* cached prefixes are whole blocks
  MaxPreempts,    \* bound: preemptions
  CacheHits,      \* is prefix caching on? (off by default for this capture)
  WriteFailures,  \* can a write to the staging directory fail?
  Timeouts,       \* may a wait end before its delivery is there?
  Aborts          \* may the client go away before its answer?

Hooks == {"prefill", "decode", "both"}
Modes == {"all_tokens", "last_token"}
Routes == {"rpc", "disk"}

ASSUME QkAssumption ==
  /\ Asks \subseteq [hooks : Hooks, mode : Modes, route : Routes] /\ Asks # {}
  /\ {Prompt, MaxGen, Chunk, Block} \subseteq Nat \ {0} /\ MaxPreempts \in Nat
  /\ {CacheHits, WriteFailures, Timeouts, Aborts} \subseteq BOOLEAN

VARIABLES
  ask,          \* the request's own
  goal,         \* tokens it will have when it stops
  computed,     \* num_computed_tokens
  prefillLen,   \* it is prefilling below this
  tokens,       \* prompt and generated tokens known
  preempts,
  engine,       \* "running", "stopped", "finished": its finish is enqueued
  queue,        \* the drain's queue
  consumer,     \* [at, item, disk]: disk is its snapshot of routed
  routed, diskAborted, hostAborted,
                \* is it in _disk_routed, _disk_aborted, _host_aborted?
  staging,      \* in _disk_staging: NoStaging, or its files and entries
  index,        \* PerRequestIndex: NoEntry, or its rows
  kmeta,        \* _qk_kmeta: history lengths so far
  deliverable,  \* PerRequestIndex._deliverable
  stash,        \* _aperture_perreq_stash: NoAnswer or an assembled reply
  landed,       \* "no", "submitted", "landed", "failed": its transfer
  source,       \* the staging that was submitted
  dest,         \* what lies at the client's path
  client,       \* "waiting", "clearing", "marking", "freeing", "left"
  answer        \* what the client was given

engineVars == <<ask, goal, computed, prefillLen, tokens, preempts, engine>>
drainVars == <<routed, diskAborted, hostAborted, staging, index, kmeta, deliverable>>
clientVars == <<stash, client, answer>>
diskVars == <<landed, source, dest>>
vars == <<engineVars, queue, consumer, drainVars, clientVars, diskVars>>

NoItem == [kind |-> "none"]
FinishItem == [kind |-> "finish"]
Idle == [at |-> "get", item |-> NoItem, disk |-> FALSE]
NoStaging == [k |-> <<>>, q |-> <<>>, entries |-> <<>>, open |-> FALSE]
NewStaging == [NoStaging EXCEPT !.open = TRUE]
NoEntry == [k |-> <<>>, q |-> <<>>, ends |-> <<>>, nc |-> -1, finished |-> FALSE]
Nothing == [kind |-> "nothing", passes |-> <<>>]
Refused == [kind |-> "refused", passes |-> <<>>]
NoAnswer == [kind |-> "none", passes |-> <<>>]
TimedOut == [kind |-> "timeout", passes |-> <<>>]
Served(passes) == [kind |-> "probes", passes |-> passes]

LeastOf(a, b) == IF a <= b THEN a ELSE b
Positions(from, to) == [i \in 1 .. to - from |-> from + i - 1]
First(s, n) == SubSeq(s, 1, LeastOf(n, Len(s)))
LastOf(s) == s[Len(s)]

\* Lengths of the prefixes that may be found cached.
Cached == {c \in 0 .. goal : c % Block = 0 /\ (c = 0 \/ CacheHits)}

Init ==
  /\ ask \in Asks
  /\ goal \in Prompt + 1 .. Prompt + MaxGen
  /\ computed \in {c \in Cached : c < Prompt}
  /\ prefillLen = Prompt /\ tokens = Prompt /\ preempts = 0 /\ engine = "running"
  /\ queue = <<>> /\ consumer = Idle
  /\ routed = (ask.route = "disk") /\ diskAborted = FALSE /\ hostAborted = FALSE
  /\ staging = NoStaging /\ index = NoEntry /\ kmeta = <<>> /\ deliverable = FALSE
  /\ stash = NoAnswer /\ landed = "no" /\ source = NoStaging /\ dest = NoStaging
  /\ client = "waiting" /\ answer = NoAnswer

-----------------------------------------------------------------------------
(* The engine: a step with its routing, and preemption. *)

Prefilling == computed < prefillLen

\* Does routing keep the keys of this step?  (hooks_on = "decode" keeps those
\* of the prefill as well: they are the history of the first decode step.)
Captures == ask.hooks # "prefill" \/ Prefilling

\* (Mistake: the last token of a prompt is looked for one token late.)
BugEmitsQ(n) ==
  /\ ~(ask.hooks = "decode" /\ Prefilling)
  /\ ask.mode = "last_token" /\ Prefilling => computed + n > Prompt

\* Does it keep queries, for a step of n tokens?
EmitsQ(n) ==
  /\ ~(ask.hooks = "decode" /\ Prefilling)
  /\ ask.mode = "last_token" /\ Prefilling => computed + n >= Prompt

\* QKReqCaptureRecord of a step of n tokens, and the rows its forward stores.
RecordOf(n) ==
  LET k == Positions(computed, computed + n)
      q == IF ~EmitsQ(n) THEN <<>>
           ELSE IF ask.mode = "all_tokens" THEN k ELSE <<LastOf(k)>>
  IN  [kind |-> "rows", k |-> k, q |-> q, nc |-> computed,
       end |-> IF EmitsQ(n) THEN computed + n ELSE -1]

\* A forward pass over n tokens; the last of them known gives the next one.
Step(n) ==
  /\ engine = "running" /\ n <= tokens - computed
  /\ computed' = computed + n
  /\ tokens' = IF computed' = tokens THEN tokens + 1 ELSE tokens
  /\ engine' = IF tokens' = goal THEN "stopped" ELSE "running"
  /\ queue' = IF Captures THEN Append(queue, RecordOf(n)) ELSE queue
  /\ UNCHANGED <<ask, goal, prefillLen, preempts, consumer, drainVars, clientVars,
                 diskVars>>

\* The scheduler takes its blocks and lets it in again later: what is not
\* found cached is computed again, as a prefill of all known tokens.
Preempt(c) ==
  /\ engine = "running" /\ computed > 0 /\ preempts < MaxPreempts
  /\ c <= computed
  /\ computed' = c /\ prefillLen' = tokens /\ preempts' = preempts + 1
  /\ UNCHANGED <<ask, goal, tokens, engine, queue, consumer, drainVars, clientVars,
                 diskVars>>

\* The next execute_model call learns that it has finished, or was aborted.
EnqueueFinish ==
  /\ engine = "stopped"
  /\ engine' = "finished"
  /\ queue' = Append(queue, FinishItem)
  /\ UNCHANGED <<ask, goal, computed, prefillLen, tokens, preempts, consumer,
                 drainVars, clientVars, diskVars>>

-----------------------------------------------------------------------------
(* The consumer. *)

\* Take an item; for rows, read which requests are routed to disk.
TakeItem ==
  /\ consumer.at = "get" /\ queue # <<>>
  /\ consumer' = [at |-> Head(queue).kind, item |-> Head(queue),
                  disk |-> routed /\ Head(queue).kind = "rows"]
  /\ queue' = Tail(queue)
  /\ UNCHANGED <<engineVars, drainVars, clientVars, diskVars>>

\* _PerRequestQKDiskStaging.append: keys, then queries, then the entry.
WithRows(stg, item) ==
  [k |-> stg.k \o item.k, q |-> stg.q \o item.q, open |-> TRUE,
   entries |-> Append(stg.entries,
                 [kStart |-> Len(stg.k), kRows |-> Len(item.k),
                  qStart |-> Len(stg.q), qRows |-> Len(item.q),
                  end |-> item.end, nc |-> item.nc])]

\* Rows of a request routed to disk when the step was taken.
DemuxToDisk ==
  /\ consumer.at = "rows" /\ consumer.disk
  /\ IF diskAborted \/ ~routed THEN UNCHANGED staging
     ELSE staging' = WithRows(staging, consumer.item)
  /\ consumer' = Idle
  /\ UNCHANGED <<engineVars, queue, routed, diskAborted, hostAborted, index, kmeta,
                 deliverable, clientVars, diskVars>>

\* The write raises after the keys were stored: the request is given up.
DiskWriteFails ==
  /\ WriteFailures
  /\ consumer.at = "rows" /\ consumer.disk /\ ~diskAborted /\ routed
  /\ staging' = [staging EXCEPT !.k = @ \o consumer.item.k, !.open = TRUE]
  /\ diskAborted' = TRUE
  /\ consumer' = Idle
  /\ UNCHANGED <<engineVars, queue, routed, hostAborted, index, kmeta, deliverable,
                 clientVars, diskVars>>

\* (Mistake: the computed count of the first row is not kept.)
BugNoted(e, item, ends) ==
  [k |-> e.k \o item.k, q |-> e.q \o item.q, finished |-> e.finished,
   ends |-> ends, nc |-> e.nc]

\* PerRequestIndex.note_rows of the keys, with kmeta, and of the queries.
Noted(e, item, ends) ==
  [k |-> e.k \o item.k, q |-> e.q \o item.q, finished |-> e.finished,
   ends |-> ends, nc |-> IF e.nc = -1 THEN item.nc ELSE e.nc]

\* (Mistake: only the host index knows of the abort.)
BugIsAborted == hostAborted

\* All other rows go to the host index, unless their request was aborted.
IsAborted == hostAborted \/ diskAborted

DemuxToHost ==
  /\ consumer.at = "rows" /\ ~consumer.disk
  /\ IF IsAborted THEN UNCHANGED <<kmeta, index>>
     ELSE /\ kmeta' = IF consumer.item.end >= 0
                      THEN Append(kmeta, consumer.item.end) ELSE kmeta
          /\ index' = Noted(index, consumer.item, kmeta')
  /\ consumer' = Idle
  /\ UNCHANGED <<engineVars, queue, routed, diskAborted, hostAborted, staging,
                 deliverable, clientVars, diskVars>>

\* _handle_finish of a request aborted on its way to disk.
FinishAborted ==
  /\ consumer.at = "finish" /\ diskAborted
  /\ diskAborted' = FALSE /\ hostAborted' = FALSE /\ routed' = FALSE
  /\ staging' = NoStaging
  /\ kmeta' = <<>>
  /\ consumer' = Idle
  /\ UNCHANGED <<engineVars, queue, index, deliverable, clientVars, diskVars>>

\* ... of one routed to disk: close the staging and submit it.
FinishDisk ==
  /\ consumer.at = "finish" /\ ~diskAborted /\ routed
  /\ routed' = FALSE /\ staging' = NoStaging
  /\ IF staging.open THEN landed' = "submitted" /\ source' = staging
     ELSE UNCHANGED <<landed, source>>
  /\ consumer' = Idle
  /\ UNCHANGED <<engineVars, queue, diskAborted, hostAborted, index, kmeta,
                 deliverable, clientVars, dest>>

\* ... of any other: drop it when aborted, else make its entry deliverable.
FinishHost ==
  /\ consumer.at = "finish" /\ ~diskAborted /\ ~routed
  /\ IF hostAborted
     THEN index' = NoEntry /\ hostAborted' = FALSE /\ kmeta' = <<>>
          /\ UNCHANGED deliverable
     ELSE IF index.nc # -1
     THEN /\ index' = [index EXCEPT !.finished = TRUE]
          /\ deliverable' = TRUE
          /\ kmeta' = <<>>
          /\ UNCHANGED hostAborted
     ELSE UNCHANGED <<index, hostAborted, kmeta, deliverable>>
  /\ consumer' = Idle
  /\ UNCHANGED <<engineVars, queue, routed, diskAborted, staging, clientVars, diskVars>>

\* The offload process copies the submitted directory, or fails for good.
Transfer ==
  /\ landed = "submitted"
  /\ \/ landed' = "landed" /\ dest' = source
     \/ WriteFailures /\ landed' = "failed" /\ UNCHANGED dest
  /\ UNCHANGED <<engineVars, queue, consumer, drainVars, clientVars, source>>

-----------------------------------------------------------------------------
(* Assembly, and the client. *)

\* qk_pass_rows: queries of each pass.
PassRows(nq, ends, mode) ==
  IF mode = "last_token" THEN [i \in DOMAIN ends |-> 1]
  ELSE [i \in DOMAIN ends |->
          IF i = 1 THEN nq - (LastOf(ends) - ends[1]) ELSE ends[i] - ends[i - 1]]

SumTo(sizes, n) ==
  LET f[i \in 0 .. n] == IF i = 0 THEN 0 ELSE f[i - 1] + sizes[i] IN f[n]

\* qk_probes: k holds all key rows when the reader knows them (disk only); the
\* history lengths are those of the histories, not those recorded.
Probes(q, kAll, k) ==
  LET ends == [i \in DOMAIN kAll |-> Len(kAll[i])]
      sizes == PassRows(Len(q), ends, ask.mode)
  IN  IF kAll = <<>> THEN Nothing
      ELSE IF Len(k) # LastOf(ends) THEN Refused
      ELSE IF ~(ask.hooks = "decode" \/ ask.mode = "last_token" \/ sizes[1] = ends[1])
              \/ \E i \in DOMAIN sizes : sizes[i] <= 0
      THEN Refused
      ELSE Served([i \in DOMAIN kAll |->
             [k |-> kAll[i],
              q |-> SubSeq(q, SumTo(sizes, i - 1) + 1, SumTo(sizes, i))]])

Histories(k, ends) == [i \in DOMAIN ends |-> First(k, ends[i])]

\* (Mistake: the rows are not counted against the history.)
BugAssemble(e) ==
  IF e.nc > 0 THEN Refused
  ELSE IF e.q = <<>> THEN IF e.ends # <<>> THEN Refused ELSE Nothing
  ELSE LET kAll == Histories(e.k, e.ends) IN Probes(e.q, kAll, LastOf(kAll))

\* assemble_qk of the host index's entry, and qk_probes of its reply.
Assemble(e) ==
  IF e.nc > 0 THEN Refused
  ELSE IF e.q = <<>> THEN IF e.ends # <<>> THEN Refused ELSE Nothing
  ELSE IF e.ends # <<>> /\ Len(e.k) # LastOf(e.ends) THEN Refused
  ELSE LET kAll == Histories(e.k, e.ends) IN Probes(e.q, kAll, LastOf(kAll))

\* The rows of a file that the entries name, in their order: start and count
\* are the fields that say where an entry's rows are.
RowsNamed(file, entries, start, count) ==
  LET f[i \in 0 .. Len(entries)] ==
        IF i = 0 THEN <<>>
        ELSE f[i - 1] \o SubSeq(file, entries[i][start] + 1,
                                entries[i][start] + entries[i][count])
  IN  f[Len(entries)]

\* The history lengths that entries record, of those that have one.
EndsOf(entries) ==
  LET f[i \in 0 .. Len(entries)] ==
        IF i = 0 THEN <<>>
        ELSE IF entries[i].end < 0 THEN f[i - 1]
        ELSE Append(f[i - 1], entries[i].end)
  IN  f[Len(entries)]

\* load_multilayer_qk_aperture_artifact of the client's directory.
LoadArtifact(d) ==
  LET k == RowsNamed(d.k, d.entries, "kStart", "kRows")
      q == RowsNamed(d.q, d.entries, "qStart", "qRows")
  IN  IF d.entries[1].nc > 0 THEN Refused
      ELSE Probes(q, Histories(k, EndsOf(d.entries)), k)

\* The worker's fetch: what is deliverable is assembled, freed and stashed.
FetchedStash == IF deliverable THEN Assemble(index) ELSE stash

\* _qk_serve_rpc: the client polls until its reply is there.
Fetch ==
  /\ client = "waiting" /\ ask.route = "rpc"
  /\ deliverable \/ stash # NoAnswer
  /\ answer' = FetchedStash
  /\ stash' = NoAnswer /\ deliverable' = FALSE /\ index' = NoEntry
  /\ client' = "clearing"
  /\ UNCHANGED <<engineVars, queue, consumer, routed, diskAborted, hostAborted,
                 staging, kmeta, diskVars>>

\* _qk_serve_disk: confirm the directory, read it, drop it and answer.
Confirm ==
  /\ client = "waiting" /\ ask.route = "disk"
  /\ landed = "landed"
  /\ answer' = LoadArtifact(dest)
  /\ dest' = NoStaging
  /\ client' = "clearing"
  /\ UNCHANGED <<engineVars, queue, consumer, drainVars, stash, landed, source>>

\* The request has ended and its delivery does not come in time: an error on
\* disk, where the client's path is dropped, and no history by RPC.
WaitTimesOut ==
  /\ Timeouts /\ client = "waiting" /\ engine # "running"
  /\ landed # "landed" /\ ~deliverable /\ stash = NoAnswer
  /\ answer' = TimedOut
  /\ dest' = NoStaging
  /\ client' = "clearing"
  /\ UNCHANGED <<engineVars, queue, consumer, drainVars, stash, landed, source>>

\* The client goes away: the engine stops its request.
Abort ==
  /\ Aborts /\ client = "waiting"
  /\ client' = "clearing"
  /\ engine' = IF engine = "running" THEN "stopped" ELSE engine
  /\ UNCHANGED <<ask, goal, computed, prefillLen, tokens, preempts, queue, consumer,
                 drainVars, stash, answer, diskVars>>

\* clear_aperture_request: clear_request_disk, then mark_host_aborted, then the
\* fetch that also frees the request's entry and its stash.
ClearDisk ==
  /\ client = "clearing"
  /\ routed' = FALSE
  /\ diskAborted' = (diskAborted \/ staging.open \/ routed)
  /\ client' = "marking"
  /\ UNCHANGED <<engineVars, queue, consumer, hostAborted, staging, index, kmeta,
                 deliverable, stash, answer, diskVars>>

MarkHost ==
  /\ client = "marking"
  /\ hostAborted' = (hostAborted \/ index.nc # -1)
  /\ client' = "freeing"
  /\ UNCHANGED <<engineVars, queue, consumer, routed, diskAborted, staging, index,
                 kmeta, deliverable, stash, answer, diskVars>>

FreeHost ==
  /\ client = "freeing"
  /\ index' = NoEntry /\ deliverable' = FALSE /\ stash' = NoAnswer
  /\ client' = "left"
  /\ UNCHANGED <<engineVars, queue, consumer, routed, diskAborted, hostAborted,
                 staging, kmeta, answer, diskVars>>

Engine == (\E n \in 1 .. Chunk : Step(n)) \/ (\E c \in Cached : Preempt(c)) \/ EnqueueFinish
Consumer == \/ TakeItem \/ DemuxToDisk \/ DiskWriteFails \/ DemuxToHost
            \/ FinishAborted \/ FinishDisk \/ FinishHost
Client == Fetch \/ Confirm \/ WaitTimesOut \/ Abort \/ ClearDisk \/ MarkHost \/ FreeHost

Next == Engine \/ Consumer \/ Transfer \/ Client

Spec == Init /\ [][Next]_vars

-----------------------------------------------------------------------------
(* Properties. *)

Rows == Seq(Nat)

\* What is queued for the rows of a step, and what is kept of them.
RowItems == [kind : {"rows"}, k : Rows \ {<<>>}, q : Rows, nc : 0 .. goal,
             end : {-1} \cup 1 .. goal]
Stagings == [k : Rows, q : Rows, open : BOOLEAN,
             entries : Seq([kStart : Nat, kRows : Nat, qStart : Nat, qRows : Nat,
                            end : {-1} \cup 1 .. goal, nc : 0 .. goal])]
IndexEntries == [k : Rows, q : Rows, ends : Seq(1 .. goal), nc : {-1} \cup 0 .. goal,
                 finished : BOOLEAN]
AnswerKinds == {"none", "probes", "refused", "nothing", "timeout"}

EngineType ==
  /\ ask \in Asks /\ goal \in Prompt + 1 .. Prompt + MaxGen
  /\ computed \in 0 .. tokens /\ tokens \in Prompt .. goal
  /\ prefillLen \in Prompt .. tokens /\ preempts \in 0 .. MaxPreempts
  /\ engine \in {"running", "stopped", "finished"}
  /\ engine = "running" => computed < tokens /\ tokens < goal

QueueType ==
  /\ queue \in Seq(RowItems \cup {FinishItem})
  /\ consumer \in [at : {"rows"}, item : RowItems, disk : BOOLEAN]
                 \cup [at : {"finish"}, item : {FinishItem}, disk : BOOLEAN] \cup {Idle}

DrainType ==
  /\ routed \in BOOLEAN /\ diskAborted \in BOOLEAN /\ hostAborted \in BOOLEAN
  /\ staging \in Stagings
  /\ index \in IndexEntries /\ (index.nc = -1 <=> index.k = <<>>)
  /\ kmeta \in Seq(1 .. goal) /\ deliverable \in BOOLEAN

ClientType ==
  /\ landed \in {"no", "submitted", "landed", "failed"}
  /\ source \in Stagings /\ dest \in Stagings
  /\ client \in {"waiting", "clearing", "marking", "freeing", "left"}
  /\ stash.kind \in AnswerKinds /\ answer.kind \in AnswerKinds

\* The variables keep their types; an entry has a first num_computed exactly
\* when it holds keys, and no history is longer than the request.
TypeOK == EngineType /\ QueueType /\ DrainType /\ ClientType

\* A history that is delivered is exact, whatever was preempted or found
\* cached: the keys of a pass are those of positions 0 .. L - 1, each once and
\* in order, and its queries are those of the last positions of that history.
HistoryIsExact ==
  \A i \in DOMAIN answer.passes :
    LET p == answer.passes[i]
    IN  /\ p.k = Positions(0, Len(p.k))
        /\ p.q # <<>>
        /\ p.q = Positions(Len(p.k) - Len(p.q), Len(p.k))

\* The positions whose queries an undisturbed request asks for.
Wanted ==
  LET from == IF ask.hooks = "decode" THEN Prompt
              ELSE IF ask.mode = "last_token" THEN Prompt - 1 ELSE 0
      to == IF ask.hooks = "prefill" THEN Prompt ELSE goal - 1
  IN  Positions(from, to)

\* All queries of an answer, pass after pass.
QueriesOf(passes) ==
  LET f[i \in 0 .. Len(passes)] == IF i = 0 THEN <<>> ELSE f[i - 1] \o passes[i].q
  IN  f[Len(passes)]

\* A request that is answered in time and met no preemption and no cached
\* prefix is not refused, and gets every query it asked for once, in order: chunked prefill,
\* which splits its passes at will, loses and repeats none.
UndisturbedIsServed ==
  answer \notin {NoAnswer, TimedOut} /\ preempts = 0 /\ ~CacheHits
    => answer.kind # "refused" /\ QueriesOf(answer.passes) = Wanted

\* A request cleared on its way to disk leaves nothing behind once the drain
\* has met its finish: no staging, no mark, no entry in the host index.
DiskClearLeavesNothing ==
  ask.route = "disk" /\ client = "left" /\ engine = "finished"
    /\ queue = <<>> /\ consumer = Idle
    => ~staging.open /\ ~diskAborted /\ ~routed /\ index = NoEntry /\ kmeta = <<>>
=============================================================================
