--------------------------- MODULE DiskFlushProbe ---------------------------
(***************************************************************************)
(* Held-back flushes (delivery/disk_flush_probe.py and its caller          *)
(* _flush_disk_coalesced in _plugin.py).  A finished request whose capture *)
(* the aperture owns has nothing in the worker's eager bucket, so its      *)
(* flush_disk call is held back; one request in Probe of a class is        *)
(* flushed all the same.  If that one wrote anything the assumption was    *)
(* wrong: the probe is disarmed and everything held back is flushed.       *)
(*                                                                         *)
(* The callers are coroutines of one event loop: what happens between two  *)
(* awaits is one step, and the calls of several requests interleave at     *)
(* their awaits.  A caller may be cancelled, or its call may raise, at any *)
(* await.  The order of the flushes of one sweep is left open.             *)
(***************************************************************************)
EXTENDS Integers

CONSTANTS
  Requests,  \* the requests that finish
  ClassOf,   \* the class of each; NoClass if its flush is never held back
  NoClass,
  Probe,     \* MIA_APERTURE_DISK_FLUSH_PROBE
  Writes     \* the requests whose flush finds rows to write

Classes == {ClassOf[r] : r \in Requests} \ {NoClass}

VARIABLES
  call,      \* of each request: new, own (its flush is under way), probe, sweep,
             \* and then held, done or gone (cancelled or failed)
  probed,    \* the requests decide() took for a probe
  seen,      \* _Class.seen
  pending,   \* the requests in _Class.pending, of all classes
  left,      \* of each sweeping caller: the held-back requests still to flush
  disarmed,
  flushed    \* the requests whose flush_disk ran in the workers

vars == <<call, probed, seen, pending, left, disarmed, flushed>>

Init ==
  /\ call = [r \in Requests |-> "new"]
  /\ probed = {} /\ pending = {} /\ flushed = {}
  /\ seen = [k \in Classes |-> 0]
  /\ left = [r \in Requests |-> {}]
  /\ disarmed = FALSE

\* The request finishes with a flush of its own: no class, or the skip is off.
FlushOwn(r) ==
  /\ call[r] = "new"
  /\ ClassOf[r] = NoClass \/ disarmed
  /\ call' = [call EXCEPT ![r] = "own"]
  /\ UNCHANGED <<probed, seen, pending, left, disarmed, flushed>>

\* DiskFlushProbe.decide, armed
Decide(r) ==
  /\ call[r] = "new" /\ ClassOf[r] # NoClass /\ ~disarmed
  /\ seen' = [seen EXCEPT ![ClassOf[r]] = @ + 1]
  /\ IF seen[ClassOf[r]] % Probe = 0
     THEN /\ call' = [call EXCEPT ![r] = "probe"]
          /\ probed' = probed \cup {r}
          /\ UNCHANGED pending
     ELSE /\ call' = [call EXCEPT ![r] = "held"]
          /\ pending' = pending \cup {r}
          /\ UNCHANGED probed
  /\ UNCHANGED <<left, disarmed, flushed>>

\* The flush of a request of its own, or of a probe that changes nothing.
FlushReturns(r) ==
  /\ \/ call[r] = "own"
     \/ call[r] = "probe" /\ (r \notin Writes \/ disarmed)
  /\ flushed' = flushed \cup {r}
  /\ call' = [call EXCEPT ![r] = "done"]
  /\ UNCHANGED <<probed, seen, pending, left, disarmed>>

\* note_result disarms; drain_all takes what was held back.
ProbeWrote(r) ==
  /\ call[r] = "probe" /\ r \in Writes /\ ~disarmed
  /\ flushed' = flushed \cup {r}
  /\ disarmed' = TRUE
  /\ left' = [left EXCEPT ![r] = pending]
  /\ pending' = {}
  /\ call' = [call EXCEPT ![r] = "sweep"]
  /\ UNCHANGED <<probed, seen>>

\* One call of the sweep returns.
SweepOne(r, s) ==
  /\ call[r] = "sweep" /\ s \in left[r]
  /\ flushed' = flushed \cup {s}
  /\ left' = [left EXCEPT ![r] = @ \ {s}]
  /\ UNCHANGED <<call, probed, seen, pending, disarmed>>

SweepEnds(r) ==
  /\ call[r] = "sweep" /\ left[r] = {}
  /\ call' = [call EXCEPT ![r] = "done"]
  /\ UNCHANGED <<probed, seen, pending, left, disarmed, flushed>>

\* The caller is cancelled at an await, or its call raises; what it had asked of
\* the workers may still have run, the rest of a sweep has not.
Leaves(r) ==
  /\ call[r] \in {"own", "probe", "sweep"}
  /\ call' = [call EXCEPT ![r] = "gone"]
  /\ \/ UNCHANGED flushed
     \/ call[r] # "sweep" /\ flushed' = flushed \cup {r}
     \/ call[r] = "sweep" /\ \E s \in left[r] : flushed' = flushed \cup {s}
  /\ UNCHANGED <<probed, seen, pending, left, disarmed>>

Next == \E r \in Requests :
  \/ FlushOwn(r) \/ Decide(r) \/ FlushReturns(r) \/ ProbeWrote(r)
  \/ SweepEnds(r) \/ Leaves(r) \/ \E s \in Requests : SweepOne(r, s)

Spec == Init /\ [][Next]_vars

-----------------------------------------------------------------------------

States == {"new", "own", "probe", "sweep", "held", "done", "gone"}

TypeOK ==
  /\ call \in [Requests -> States]
  /\ probed \subseteq Requests /\ pending \subseteq Requests /\ flushed \subseteq Requests
  /\ seen \in [Classes -> Nat]
  /\ left \in [Requests -> SUBSET Requests]
  /\ disarmed \in BOOLEAN

\* A request whose flush was held back is accounted for until it is flushed.
HeldIsKept ==
  \A r \in Requests : call[r] = "held" =>
    r \in flushed \/ r \in pending \/ \E s \in Requests : r \in left[s]

\* The assumption falls with the first probe that comes back with rows, and
\* then nothing is held back any more.
WritingProbeDisarms ==
  /\ \A r \in probed \cap Writes : call[r] \in {"sweep", "done"} => disarmed
  /\ disarmed => pending = {}

\* After that, once every call has returned and none was cut short, the workers
\* have flushed every request that finished.
NothingStaysBehind ==
  disarmed /\ (\A r \in Requests : call[r] \in {"new", "held", "done"})
    => \A r \in Requests : call[r] # "new" => r \in flushed

\* A class holds nothing back before one of its requests was a probe.
ProbeComesFirst ==
  \A r \in pending : \E s \in probed : ClassOf[s] = ClassOf[r]

FlushInv ==
  /\ TypeOK /\ HeldIsKept /\ WritingProbeDisarms
  /\ \A r \in Requests : left[r] # {} => call[r] \in {"sweep", "gone"}
  /\ \A r \in Requests : call[r] \in {"sweep", "done"} => r \in flushed
  /\ \A r \in Requests : call[r] \in {"probe", "sweep"} => r \in probed
  /\ \A r \in Requests : call[r] \in {"new", "own", "held"} => r \notin probed
  /\ \A r \in pending : ClassOf[r] # NoClass
  /\ \A k \in Classes : seen[k] > 0 => \E s \in probed : ClassOf[s] = k
  /\ \A r \in pending : seen[ClassOf[r]] > 0

=============================================================================
