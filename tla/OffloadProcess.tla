--------------------------- MODULE OffloadProcess ---------------------------
(***************************************************************************)
(* The worker that ships a finished request's directory to its client      *)
(* (core/delivery/offload_process.py, thread mode): a queue of jobs, one   *)
(* transfer at a time with retries, and per request id the in-flight set,  *)
(* the event and the result that wait() and settled() look at.  What a     *)
(* transfer reads and writes belongs to the module that extends this one.  *)
(***************************************************************************)
EXTENDS Naturals, Sequences

CONSTANTS
  Reqs,          \* request ids, as the clients name them
  MaxRetries     \* attempts at one transfer

ASSUME OffloadAssumption == MaxRetries \in Nat \ {0}

VARIABLES
  jobs,          \* _q
  transfer,      \* the request whose directory is being copied, or NoReq
  attempt,       \* attempts begun at it
  inflight,      \* _inflight
  event,         \* requests whose event is set
  result         \* _result, "none" where absent

offloadVars == <<jobs, transfer, attempt, inflight, event, result>>

NoReq == "none"

OffloadInit ==
  /\ jobs = <<>> /\ transfer = NoReq /\ attempt = 0
  /\ inflight = {} /\ event = {}
  /\ result = [r \in Reqs |-> "none"]

\* submit: refused (ValueError) while the id is in flight.
Submit(r) ==
  IF r \in inflight
  THEN UNCHANGED offloadVars
  ELSE /\ inflight' = inflight \cup {r}
       /\ event' = event \ {r}
       /\ jobs' = Append(jobs, r)
       /\ UNCHANGED <<transfer, attempt, result>>

TakeJob ==
  /\ transfer = NoReq
  /\ jobs # <<>>
  /\ transfer' = Head(jobs)
  /\ jobs' = Tail(jobs)
  /\ attempt' = 1
  /\ UNCHANGED <<inflight, event, result>>

\* (Mistake: the event is set and the result is not noted.)
BugSettle(outcome) ==
  /\ transfer # NoReq
  /\ inflight' = inflight \ {transfer}
  /\ event' = event \cup {transfer}
  /\ transfer' = NoReq /\ attempt' = 0
  /\ UNCHANGED <<jobs, result>>

\* _mark_done, _mark_failed
Settle(outcome) ==
  /\ transfer # NoReq
  /\ inflight' = inflight \ {transfer}
  /\ event' = event \cup {transfer}
  /\ result' = [result EXCEPT ![transfer] = outcome]
  /\ transfer' = NoReq /\ attempt' = 0
  /\ UNCHANGED jobs

\* (Mistake: one attempt too many.)
BugRetry ==
  /\ transfer # NoReq
  /\ attempt <= MaxRetries
  /\ attempt' = attempt + 1
  /\ UNCHANGED <<jobs, transfer, inflight, event, result>>

\* An attempt raised, and it was not the last one.
Retry ==
  /\ transfer # NoReq
  /\ attempt < MaxRetries
  /\ attempt' = attempt + 1
  /\ UNCHANGED <<jobs, transfer, inflight, event, result>>

GivesUp == attempt = MaxRetries /\ Settle("failed")

\* wait(id, timeout = 0)
Delivered(r) == r \in event /\ result[r] = "done"

\* settled(id)
Settled(r) == result[r] # "none" /\ r \notin inflight

=============================================================================
