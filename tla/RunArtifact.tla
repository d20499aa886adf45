---------------------------- MODULE RunArtifact ----------------------------
(***************************************************************************)
(* A run artifact in hybrid mode (delivery_route.py, run_artifact.py, the  *)
(* save_to_disk part of _plugin.py and client.py).                         *)
(*                                                                         *)
(* A response is one completion of several prompts that share a run_id.    *)
(* The server writes each prompt, when its delivery is there, into the     *)
(* run: it waits for the turn of the prompt, takes the run's lock, reads   *)
(* the manifest, writes the artifact file and then the manifest.  Another  *)
(* response of the same run_id replaces the run.  A client that got its    *)
(* response waits until the manifest names it and reads the artifact.      *)
(*                                                                         *)
(* All responses name one run.  A key is <<unit, i>>, the i-th prompt of   *)
(* the response id `unit`; the rows of prompt i of response r are <<r, i>>,*)
(* which also stands for the nonce of that write.                          *)
(***************************************************************************)
EXTENDS Integers, Sequences, FiniteSets, SequencesExt

CONSTANTS
  Resps,        \* responses, in the order of their ids
  UnitOf,       \* response id of each: a client may send an id again
  NPrompts,     \* prompts of a completion
  Rowless,      \* the writes <<r, i>> that captured no row
  NoOne,        \* no writer, no file
  Aborts,       \* a client may disconnect
  Failures,     \* a delivery may never come; an earlier prompt's turn may last too long
  Crashes       \* the server may be killed and started again

ASSUME ArtifactAssumption ==
  /\ UnitOf \in [Resps -> Nat] /\ NPrompts \in Nat \ {0}
  /\ Rowless \subseteq Resps \X (0 .. NPrompts - 1)
  /\ NoOne \notin Resps \X (0 .. NPrompts - 1)
  /\ {Aborts, Failures, Crashes} \subseteq BOOLEAN

VARIABLES
  pc,        \* of each write: see Stages
  start,     \* when the response arrived (time_ns at its first step)
  stamp,     \* when the prompt finished
  clock,     \* the clock both are read from
  ended,     \* _TURNS: by response id, the prompts that ended their turn
  missing,   \* the earlier prompts a write waits for
  late,      \* writes that stopped waiting for an earlier prompt
  lock,      \* the writer that holds the run's lock
  restart,   \* the holder's append begins the run anew
  man,       \* the manifest file
  data,      \* the artifact file: the rows of its requests, in order
  torn,      \* the server died between the artifact and the manifest
  got        \* what each client read

vars == <<pc, start, stamp, clock, ended, missing, late, lock, restart, man, data,
          torn, got>>

Prompts == 0 .. NPrompts - 1
Writes == Resps \X Prompts
Units == {UnitOf[r] : r \in Resps}

Stages == {"new", "gen", "wait", "turn", "ready", "locked", "wrote",   \* on the way
           "written", "skipped", "failed", "aborted"}                 \* ended
Ended(w) == pc[w] \in {"written", "skipped", "failed", "aborted"}

KeyOf(w) == <<UnitOf[w[1]], w[2]>>

Init ==
  /\ pc = [w \in Writes |-> "new"]
  /\ start = [r \in Resps |-> 0] /\ stamp = [w \in Writes |-> 0] /\ clock = 0
  /\ ended = [u \in Units |-> {}] /\ missing = [w \in Writes |-> {}] /\ late = {}
  /\ lock = NoOne /\ restart = FALSE
  /\ man = <<>> /\ data = <<>> /\ torn = FALSE
  /\ got = [r \in Resps |-> NoOne]

-----------------------------------------------------------------------------
(* Responses *)

\* A response with this id may come while an earlier one is still running.
Arrive(r) ==
  /\ pc[<<r, 0>>] = "new"
  /\ clock' = clock + 1
  /\ start' = [start EXCEPT ![r] = clock + 1]
  /\ pc' = [w \in Writes |-> IF w[1] = r THEN "gen" ELSE pc[w]]
  /\ UNCHANGED <<stamp, ended, missing, late, lock, restart, man, data, torn, got>>

\* The prompt has its last token: spawn_writer starts the task that writes it.
Finish(w) ==
  /\ pc[w] = "gen"
  /\ clock' = clock + 1
  /\ stamp' = [stamp EXCEPT ![w] = clock + 1]
  /\ pc' = [pc EXCEPT ![w] = "wait"]
  /\ UNCHANGED <<start, ended, missing, late, lock, restart, man, data, torn, got>>

EndTurn(w) == ended' = [ended EXCEPT ![UnitOf[w[1]]] = @ \cup {w[2]}]

\* The client went away: every prompt that still generates ends its turn.
Abort(r) ==
  LET gone == {i \in Prompts : pc[<<r, i>>] = "gen"} IN
  /\ Aborts
  /\ gone # {}
  /\ pc' = [w \in Writes |-> IF w[1] = r /\ w[2] \in gone THEN "aborted" ELSE pc[w]]
  /\ ended' = [ended EXCEPT ![UnitOf[r]] = @ \cup gone]
  /\ UNCHANGED <<start, stamp, clock, missing, late, lock, restart, man, data, torn, got>>

-----------------------------------------------------------------------------
(* The writer task *)

\* (Mistake: the prompt just before is not waited for.)
BugEarlier(w) == 0 .. w[2] - 2

Earlier(w) == 0 .. w[2] - 1

Awaited(w) == Earlier(w) \ ended[UnitOf[w[1]]]

\* await_delivery returned; await_turn notes whom it waits for.
Delivered(w) ==
  /\ pc[w] = "wait"
  /\ missing' = [missing EXCEPT ![w] = Awaited(w)]
  /\ pc' = [pc EXCEPT ![w] = "turn"]
  /\ UNCHANGED <<start, stamp, clock, ended, late, lock, restart, man, data, torn, got>>

\* await_delivery timed out; the finally clause ends the turn.
NotDelivered(w) ==
  /\ Failures
  /\ pc[w] = "wait"
  /\ pc' = [pc EXCEPT ![w] = "failed"]
  /\ EndTurn(w)
  /\ UNCHANGED <<start, stamp, clock, missing, late, lock, restart, man, data, torn, got>>

TurnComes(w) ==
  /\ pc[w] = "turn"
  /\ missing[w] \subseteq ended[UnitOf[w[1]]]
  /\ pc' = [pc EXCEPT ![w] = "ready"]
  /\ missing' = [missing EXCEPT ![w] = {}]
  /\ UNCHANGED <<start, stamp, clock, ended, late, lock, restart, man, data, torn, got>>

\* ORDER_WAIT_S passed.
TurnTimesOut(w) ==
  /\ Failures
  /\ pc[w] = "turn"
  /\ ~(missing[w] \subseteq ended[UnitOf[w[1]]])
  /\ late' = late \cup {w}
  /\ pc' = [pc EXCEPT ![w] = "ready"]
  /\ missing' = [missing EXCEPT ![w] = {}]
  /\ UNCHANGED <<start, stamp, clock, ended, lock, restart, man, data, torn, got>>

-----------------------------------------------------------------------------
(* run_artifact.append.  man is <<>> or <<m>>, data likewise. *)

Listed(m) == {m.requests[k] : k \in DOMAIN m.requests}

\* Every key of the write that the manifest lists is there under another nonce.
Reused(w) == man # <<>> /\ KeyOf(w) \in Listed(man[1])
             /\ w \notin {man[1].nonces[k] : k \in DOMAIN man[1].requests}
SameUnit(w) == man # <<>> /\ man[1].unit = UnitOf[w[1]]

Replaces(w) == Reused(w) \/ ~SameUnit(w)

\* (Mistake: only writes of the same completion are compared.)
BugOutdated(w) ==
  man # <<>> /\ ~Replaces(w) /\ stamp[w] < man[1].start

\* A newer response has written the run, or began it after this one had finished.
Outdated(w) ==
  man # <<>> /\ IF Replaces(w) THEN man[1].stamp > stamp[w] ELSE stamp[w] < man[1].start

\* The manifest names rows and the artifact is gone: refuse to restart it.
Gone(w) ==
  /\ ~Replaces(w) /\ data = <<>>
  /\ \E k \in DOMAIN man[1].requests : man[1].nonces[k] \notin Rowless

LockRun(w) ==
  /\ pc[w] = "ready"
  /\ lock = NoOne
  /\ IF Outdated(w) \/ Gone(w)
     THEN /\ pc' = [pc EXCEPT ![w] = IF Outdated(w) THEN "skipped" ELSE "failed"]
          /\ EndTurn(w)
          /\ UNCHANGED <<lock, restart>>
     ELSE /\ pc' = [pc EXCEPT ![w] = "locked"]
          /\ lock' = w
          /\ restart' = Replaces(w)
          /\ UNCHANGED ended
  /\ UNCHANGED <<start, stamp, clock, missing, late, man, data, torn, got>>

\* The merged rows replace the file; the stale file of a replaced run is removed
\* when this write has no rows.
NewData(w) ==
  LET kept == IF restart \/ data = <<>> THEN <<>> ELSE data[1] IN
  IF w \in Rowless THEN IF restart THEN <<>> ELSE data
  ELSE <<Append(kept, w)>>

WriteArtifact(w) ==
  /\ pc[w] = "locked"
  /\ data' = NewData(w)
  /\ pc' = [pc EXCEPT ![w] = "wrote"]
  /\ UNCHANGED <<start, stamp, clock, ended, missing, late, lock, restart, man, torn, got>>

SmallerOf(a, b) == IF a < b THEN a ELSE b
LargerOf(a, b) == IF a < b THEN b ELSE a

NewManifest(w) ==
  IF restart
  THEN <<[unit |-> UnitOf[w[1]], stamp |-> stamp[w], start |-> start[w[1]],
          requests |-> <<KeyOf(w)>>, nonces |-> <<w>>]>>
  ELSE <<[man[1] EXCEPT !.stamp = LargerOf(@, stamp[w]),
                        !.start = SmallerOf(@, start[w[1]]),
                        !.requests = Append(@, KeyOf(w)),
                        !.nonces = Append(@, w)]>>

WriteManifest(w) ==
  /\ pc[w] = "wrote"
  /\ man' = NewManifest(w)
  /\ lock' = NoOne /\ restart' = FALSE
  /\ torn' = FALSE
  /\ pc' = [pc EXCEPT ![w] = "written"]
  /\ EndTurn(w)
  /\ UNCHANGED <<start, stamp, clock, missing, late, data, got>>

-----------------------------------------------------------------------------
(* The server process, the clients *)

ServerDies ==
  /\ \E w \in Writes : pc[w] # "new" /\ ~Ended(w)
  /\ pc' = [w \in Writes |-> IF pc[w] = "new" \/ Ended(w) THEN pc[w] ELSE "failed"]
  /\ torn' = (torn \/ \E w \in Writes : pc[w] = "wrote")
  /\ ended' = [u \in Units |-> {}]
  /\ missing' = [w \in Writes |-> {}]
  /\ restart' = FALSE
  /\ UNCHANGED <<start, stamp, clock, late, man, data, got>>

\* (Mistake: a lock that is a file instead of a flock outlives its process.)
BugCrash == Crashes /\ ServerDies /\ UNCHANGED lock

\* A killed server loses its requests, its writer tasks and its turns; the
\* kernel drops its lock and the files stay.
Crash == Crashes /\ ServerDies /\ lock' = NoOne

\* The response came back to its client.
Answered(r) == \A i \in Prompts : pc[<<r, i>>] \notin {"new", "gen", "aborted"}
                                  /\ stamp[<<r, i>>] > 0

\* The manifest names exactly the prompts of the response, each under its nonce.
Holds(r) ==
  /\ man # <<>>
  /\ Listed(man[1]) = {KeyOf(<<r, i>>) : i \in Prompts}
  /\ \A i \in Prompts : <<r, i>> \in {man[1].nonces[k] : k \in DOMAIN man[1].nonces}

\* (Mistake: the reader takes no shared lock.)
BugMayRead == TRUE

MayRead == lock = NoOne

\* analyze(): under the shared lock the manifest is looked at again and the
\* files are linked.  A run that is not there in time is an error, not a result.
ReadRun(r) ==
  /\ got[r] = NoOne
  /\ Answered(r)
  /\ MayRead
  /\ Holds(r)
  /\ got' = [got EXCEPT ![r] = IF data = <<>> THEN <<>> ELSE data[1]]
  /\ UNCHANGED <<pc, start, stamp, clock, ended, missing, late, lock, restart, man,
                 data, torn>>

Writer(w) == \/ Finish(w) \/ Delivered(w) \/ NotDelivered(w)
             \/ TurnComes(w) \/ TurnTimesOut(w)
             \/ LockRun(w) \/ WriteArtifact(w) \/ WriteManifest(w)

Next ==
  \/ \E r \in Resps : Arrive(r) \/ Abort(r) \/ ReadRun(r)
  \/ \E w \in Writes : Writer(w)
  \/ Crash

Spec == Init /\ [][Next]_vars

\* Requests finish, a delivery comes or times out, the event loop runs the tasks
\* and nobody takes the lock for ever from the same task.
Fairness == \A w \in Writes : WF_vars(Writer(w))

FairSpec == Spec /\ Fairness

-----------------------------------------------------------------------------
(* Properties *)

Manifests ==
  [unit : Units, stamp : Nat, start : Nat, requests : Seq(Units \X Prompts),
   nonces : Seq(Writes)]

TypeOK ==
  /\ pc \in [Writes -> Stages]
  /\ start \in [Resps -> Nat] /\ stamp \in [Writes -> Nat] /\ clock \in Nat
  /\ ended \in [Units -> SUBSET Prompts] /\ missing \in [Writes -> SUBSET Prompts]
  /\ late \subseteq Writes /\ lock \in Writes \cup {NoOne} /\ restart \in BOOLEAN
  /\ man = <<>> \/ man[1] \in Manifests
  /\ data = <<>> \/ data[1] \in Seq(Writes)
  /\ torn \in BOOLEAN /\ got \in [Resps -> Seq(Writes) \cup {NoOne}]

RowsOf(r) == {<<r, i>> : i \in Prompts} \ Rowless

\* What a client reads are the rows of its own response, all of them once, in
\* the order of its prompts: other responses replace the run meanwhile, and older
\* ones write into it late.  A prompt whose turn timed out may be out of order; a
\* server killed between the two files leaves one run's manifest with another
\* run's artifact (README).
ReaderGetsItsResponse ==
  [][\A r \in Resps :
       got'[r] # got[r] /\ ~torn =>
         /\ ToSet(got'[r]) = RowsOf(r) /\ IsInjective(got'[r])
         /\ (\A i \in Prompts : <<r, i>> \notin late) =>
              \A j, k \in DOMAIN got'[r] : j < k => got'[r][j][2] < got'[r][k][2]]_vars

\* await_turn returns when every earlier prompt of its completion has ended its
\* turn, unless it gave up (delivery_route.py:314).
TurnsAreKept ==
  \A w \in Writes : pc[w] \in {"ready", "locked", "wrote", "written"} /\ w \notin late =>
    \A j \in Prompts : j < w[2] => Ended(<<w[1], j>>)

\* r came after every other response had finished or gone, and lost none of its
\* prompts on the way.
CameLast(r) ==
  /\ start[r] > 0
  /\ \A w \in Writes : w[1] # r =>
       IF stamp[w] > 0 THEN stamp[w] < start[r] ELSE pc[w] \in {"new", "aborted", "failed"}
  /\ \A i \in Prompts : <<r, i>> \notin late /\ pc[<<r, i>>] \notin {"failed", "aborted"}

\* The run is that of the response that came last, though older writes may still
\* be waiting for their deliveries: none is refused as older, none is replaced.
LastResponseIsHeld ==
  \A r \in Resps :
    (CameLast(r) /\ (\A i \in Prompts : Ended(<<r, i>>))
       /\ \A w \in Writes : pc[w] # "new" => start[w[1]] <= start[r])
    => Holds(r)

\* Every prompt that arrived ends its turn in the end: no write waits for ever
\* for an earlier prompt, for the lock or for its delivery.
EveryTurnEnds == <>[](\A w \in Writes : pc[w] = "new" \/ Ended(w))

-----------------------------------------------------------------------------
(* The invariant the safety properties rest on. *)

\* One writer at a time is in the run's files, and one that does not begin the run
\* anew found a manifest to extend.
HoldInv ==
  /\ \A w \in Writes : pc[w] \in {"locked", "wrote"} <=> lock = w
  /\ \A w \in Writes : lock = w => (restart <=> Replaces(w))

\* The prompts of a response arrive together, and finish after that.
ClockInv ==
  /\ \A w \in Writes : pc[w] = "new" <=> start[w[1]] = 0
  /\ \A w \in Writes : pc[w] \in {"new", "gen"} => stamp[w] = 0
  /\ \A w \in Writes : pc[w] \notin {"new", "gen", "failed", "aborted"} => stamp[w] > 0
  /\ \A w \in Writes : stamp[w] > 0 => start[w[1]] < stamp[w]
  /\ \A r \in Resps : start[r] <= clock
  /\ \A w \in Writes : stamp[w] <= clock

\* A response id is not sent again.
IdsDiffer == \A r, s \in Resps : UnitOf[r] = UnitOf[s] => r = s

\* Whoever ended its turn has ended, and a writer waits for all the others.
TurnInv ==
  /\ \A w \in Writes : w[2] \in ended[UnitOf[w[1]]] => Ended(w)
  /\ \A w \in Writes : pc[w] = "turn" =>
       \A j \in Prompts : j < w[2] => Ended(<<w[1], j>>) \/ j \in missing[w]
  /\ TurnsAreKept

\* The manifest is that of one response and lists writes it has completed.
ManifestInv ==
  man # <<>> =>
    LET m == man[1] IN
    /\ m.requests # <<>> /\ Len(m.nonces) = Len(m.requests)
    /\ \A k \in 1 .. Len(m.requests) :
         LET w == m.nonces[k] IN
         /\ pc[w] = "written" /\ m.requests[k] = KeyOf(w)
         /\ UnitOf[w[1]] = m.unit /\ start[w[1]] = m.start
         /\ stamp[w] <= m.stamp
    /\ \E k \in 1 .. Len(m.requests) : stamp[m.nonces[k]] = m.stamp

\* The manifest is that of r.
Owns(r) == man # <<>> /\ man[1].unit = UnitOf[r]

\* Nothing of another response has finished since r came.
Newest(r) ==
  start[r] > 0 /\ \A w \in Writes : w[1] # r /\ stamp[w] > 0 => stamp[w] < start[r]

\* Then no write of r is refused as older, the manifest lists those it has
\* completed, and no other response is about to replace it.
KeepsRun(r) ==
  /\ \A i \in Prompts : pc[<<r, i>>] # "skipped"
  /\ \A i \in Prompts : pc[<<r, i>>] = "written" =>
       Owns(r) /\ \E k \in 1 .. Len(man[1].nonces) : man[1].nonces[k] = <<r, i>>
  /\ \A w \in Writes : lock = w /\ Owns(r) => w[1] = r

NewestInv == \A r \in Resps : Newest(r) => KeepsRun(r)

\* The rows in the artifact file, and the writes that the manifest lists.
Rows == IF data = <<>> THEN <<>> ELSE data[1]
Nonces == IF man = <<>> THEN <<>> ELSE man[1].nonces

\* d holds the rows of the writes n that have rows, in the order of n.
RowsAreOf(d, n) ==
  /\ ToSet(d) = ToSet(n) \ Rowless
  /\ \A i, j \in DOMAIN d : \A a, b \in DOMAIN n :
       d[i] = n[a] /\ d[j] = n[b] => (i < j <=> a < b)

\* The artifact file holds what the manifest lists, or is about to: only a server
\* killed between the two files parts them, and then no write is left that would
\* extend this run.  The listed writes follow the prompts, but for the late ones.
DataInv ==
  /\ torn /\ man # <<>> => \A w \in Writes : UnitOf[w[1]] = man[1].unit => Ended(w)
  /\ ~torn /\ (\A w \in Writes : pc[w] # "wrote") => RowsAreOf(Rows, Nonces)
  /\ \A w \in Writes : pc[w] = "wrote" =>
       RowsAreOf(Rows, Append(IF restart THEN <<>> ELSE Nonces, w))
  /\ \A a, b \in DOMAIN Nonces :
       a < b /\ Nonces[a] \notin late => Nonces[a][2] < Nonces[b][2]

ArtifactInv ==
  /\ TypeOK /\ HoldInv /\ ClockInv
  /\ IdsDiffer => TurnInv /\ ManifestInv /\ NewestInv /\ DataInv
=============================================================================
