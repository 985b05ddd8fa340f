--------------------------- MODULE LifecycleWorker ---------------------------
(***************************************************************************)
(* The expiry worker of app/processing/lifecycle_worker.py, from start to  *)
(* stop, over an incidents table reduced to what a sweep looks at: whether *)
(* an incident is OPEN, whether its window has run out, and whether        *)
(* another transaction has its row locked.  IncidentStore models the       *)
(* sweep's transaction statement by statement; here it is what the worker  *)
(* makes of its outcome that matters, sweep after sweep.                   *)
(***************************************************************************)
EXTENDS Integers, FiniteSets

CONSTANTS
  Ids,            \* incident ids; naturals, in the order of ORDER BY id
  Poisonings,     \* which incidents' rule names a note may be unable to quote
  BatchSize,      \* lifecycle_batch_size
  MaxRefreshes,   \* bound on the problems that refresh a stale incident
  MaxLocks,       \* bound on the transactions that lock a row
  MaxFailures     \* bound on the sweeps that fail for the database's sake

ASSUME WorkerAssumption ==
  /\ Ids \subseteq Nat /\ IsFiniteSet(Ids)
  /\ Poisonings \subseteq SUBSET Ids
  /\ BatchSize \in Nat \ {0}
  /\ MaxRefreshes \in Nat
  /\ MaxLocks \in Nat
  /\ MaxFailures \in Nat

VARIABLES
  incident,    \* "fresh", "stale" (both OPEN) or "closed"
  poisoned,    \* incidents whose rule name DecisionContext refuses in a note
  locked,      \* rows other transactions hold
  worker,      \* the task: "off", "ready", "sweeping", "waiting", "ended"
  batch,       \* rows the running sweep has locked
  stopping,    \* the stop event is set and stop() waits for the task
  healthy,     \* what the readiness check reads
  expired,     \* expired_total
  refreshes, locks, failures

vars == <<incident, poisoned, locked, worker, batch, stopping, healthy, expired,
          refreshes, locks, failures>>
table == <<incident, poisoned, locked, refreshes, locks>>

TypeOK ==
  /\ incident \in [Ids -> {"fresh", "stale", "closed"}]
  /\ poisoned \in Poisonings
  /\ locked \in SUBSET Ids
  /\ worker \in {"off", "ready", "sweeping", "waiting", "ended"}
  /\ batch \in SUBSET Ids
  /\ stopping \in BOOLEAN
  /\ healthy \in BOOLEAN
  /\ expired \in Nat
  /\ refreshes \in 0..MaxRefreshes
  /\ locks \in 0..MaxLocks
  /\ failures \in 0..MaxFailures

Init ==
  /\ incident \in [Ids -> {"fresh", "stale"}]
  /\ poisoned \in Poisonings
  /\ locked = {}
  /\ worker = "off"
  /\ batch = {}
  /\ stopping = FALSE
  /\ healthy = FALSE
  /\ expired = 0
  /\ refreshes = 0 /\ locks = 0 /\ failures = 0

------------------------------------------------------------------------------
\* The other transactions.

\* The window runs out.
Age(i) ==
  /\ incident[i] = "fresh"
  /\ incident' = [incident EXCEPT ![i] = "stale"]
  /\ UNCHANGED <<poisoned, locked, worker, batch, stopping, healthy, expired, refreshes, locks, failures>>

\* A problem, a recovery, an operator or the dispatcher locks the row.
LockRow(i) ==
  /\ locks < MaxLocks
  /\ incident[i] # "closed"
  /\ i \notin locked \cup batch
  /\ locked' = locked \cup {i}
  /\ locks' = locks + 1
  /\ UNCHANGED <<incident, poisoned, worker, batch, stopping, healthy, expired, refreshes, failures>>

\* It ends: a problem has moved last_update_time, a recovery or an operator has
\* closed the incident, or neither.
Release(i) ==
  /\ i \in locked
  /\ locked' = locked \ {i}
  /\ \/ /\ refreshes < MaxRefreshes
        /\ incident' = [incident EXCEPT ![i] = "fresh"]
        /\ refreshes' = refreshes + 1
     \/ incident' = [incident EXCEPT ![i] = "closed"] /\ UNCHANGED refreshes
     \/ UNCHANGED <<incident, refreshes>>
  /\ UNCHANGED <<poisoned, worker, batch, stopping, healthy, expired, locks, failures>>

------------------------------------------------------------------------------
\* start, and the body of _run and _run_sweep.

Start ==
  /\ worker = "off"
  /\ ~stopping
  /\ worker' = "ready"
  /\ UNCHANGED <<table, batch, stopping, healthy, expired, failures>>

\* FOR UPDATE SKIP LOCKED.
Overdue == {i \in Ids \ locked : incident[i] = "stale"}

\* MUTANT: the limit applies before the staleness filter.
FirstRows == {i \in Overdue : Cardinality({j \in Ids : j < i}) < BatchSize}

\* ORDER BY id LIMIT n.
Batch == {i \in Overdue : Cardinality({j \in Overdue : j < i}) < BatchSize}

SweepBegins ==
  /\ worker = "ready"
  /\ ~stopping
  /\ worker' = "sweeping"
  /\ batch' = Batch
  /\ UNCHANGED <<table, stopping, healthy, expired, failures>>

\* One incident refused rolls the whole batch back.
Refused == batch \cap poisoned # {}

Closed == [i \in Ids |-> IF i \in batch THEN "closed" ELSE incident[i]]

SweepCommits ==
  /\ worker = "sweeping"
  /\ ~Refused
  /\ incident' = Closed
  /\ expired' = expired + Cardinality(batch)
  /\ healthy' = TRUE
  /\ worker' = "waiting"
  /\ batch' = {}
  /\ UNCHANGED <<poisoned, locked, stopping, refreshes, locks, failures>>

\* MUTANT: a failing sweep is logged and nothing else.
SweepFailsSilently ==
  /\ worker = "sweeping"
  /\ \/ Refused /\ UNCHANGED failures
     \/ ~Refused /\ failures < MaxFailures /\ failures' = failures + 1
  /\ worker' = "waiting"
  /\ batch' = {}
  /\ UNCHANGED <<table, healthy, stopping, expired>>

SweepRaises ==
  /\ worker = "sweeping"
  /\ \/ Refused /\ UNCHANGED failures
     \/ ~Refused /\ failures < MaxFailures /\ failures' = failures + 1
  /\ healthy' = FALSE
  /\ worker' = "waiting"
  /\ batch' = {}
  /\ UNCHANGED <<table, stopping, expired>>

\* The wait for the stop event times out after the interval, or sees it.
Wakes ==
  /\ worker = "waiting"
  /\ worker' = IF stopping THEN "ended" ELSE "ready"
  /\ UNCHANGED <<table, batch, stopping, healthy, expired, failures>>

\* The loop's condition, when the event is set before the first sweep.
Leaves ==
  /\ worker = "ready"
  /\ stopping
  /\ worker' = "ended"
  /\ UNCHANGED <<table, batch, stopping, healthy, expired, failures>>

------------------------------------------------------------------------------
\* stop.

Stop ==
  /\ worker # "off"
  /\ ~stopping
  /\ stopping' = TRUE
  /\ UNCHANGED <<table, worker, batch, healthy, expired, failures>>

\* MUTANT: stop waits for a sweep however long it takes.
StopWaits == FALSE /\ UNCHANGED vars

\* The sweep outlasts the timeout and is cancelled: it rolls back, unless its
\* COMMIT has already reached the server.
StopTimesOut ==
  /\ stopping
  /\ worker = "sweeping"
  /\ \/ UNCHANGED incident
     \/ ~Refused /\ incident' = Closed
  /\ worker' = "ended"
  /\ batch' = {}
  /\ UNCHANGED <<poisoned, locked, stopping, healthy, expired, refreshes, locks, failures>>

\* The task is done: stop forgets it and returns.
StopReturns ==
  /\ stopping
  /\ worker = "ended"
  /\ worker' = "off"
  /\ UNCHANGED <<table, batch, stopping, healthy, expired, failures>>

Table  == \E i \in Ids : Age(i) \/ LockRow(i) \/ Release(i)
Sweep  == SweepCommits \/ SweepRaises
Worker == SweepBegins \/ Wakes \/ Leaves \/ StopTimesOut \/ StopReturns

Next == Table \/ Start \/ Stop \/ Sweep \/ Worker

\* Timers fire and tasks that are ready run, but a sweep may hang for ever on
\* the database, and nobody has to start or to stop the worker.
Spec == Init /\ [][Next]_vars /\ WF_vars(Worker)

\* The database answers every sweep, the transactions that hold rows end, and
\* lifespan starts the worker.
DatabaseAnswers ==
  WF_vars(Sweep) /\ WF_vars(Start) /\ \A i \in Ids : WF_vars(Release(i))

FairSpec == Spec /\ DatabaseAnswers

------------------------------------------------------------------------------
\* LCY-05: the same for an incident whose own rule name is harmless, whatever
\* the rules of the others are called.
HarmlessIsExpired ==
  \A i \in Ids :
    incident[i] = "stale" /\ i \notin poisoned ~> (incident[i] # "stale" \/ stopping)

==============================================================================
