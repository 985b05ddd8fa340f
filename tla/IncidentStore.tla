---------------------------- MODULE IncidentStore ----------------------------
(***************************************************************************)
(* app/persistence/incidents.py under concurrency: every request is one    *)
(* PostgreSQL transaction at READ COMMITTED, advanced one statement at a   *)
(* time, and requests interleave between statements.                       *)
(*                                                                         *)
(* PostgreSQL is modelled from how the code uses it:                       *)
(*   - a statement sees the rows committed when it starts;                 *)
(*   - INSERT .. ON CONFLICT DO NOTHING waits for a transaction that has   *)
(*     written the conflicting row, but not for one that only locked it;   *)
(*   - SELECT .. FOR UPDATE takes the row locks one at a time, waits for   *)
(*     the holder, re-evaluates its WHERE clause on the version the holder *)
(*     left, and drops the row if it no longer matches; SKIP LOCKED drops  *)
(*     it instead of waiting;                                              *)
(*   - a transaction's writes and its audit row appear together at COMMIT, *)
(*     or not at all; a cycle of waiting transactions loses one member.    *)
(***************************************************************************)
EXTENDS IncidentAggregation

CONSTANTS
  Ids, NoAudit, Inputs,   \* as in IncidentLedger
  Txs,             \* the transactions
  Workloads,       \* what the transactions may be asked to do
  SweepLimit,      \* lifecycle_expiration_batch_limit
  MaxClock,        \* bound on the database clock a sweep may read
  PoisonedNames,   \* hosts and services DecisionContext refuses in a note
  PoisonedKeys,    \* likewise for the rule name of a (rule, group)
  Faults           \* whether a statement or a COMMIT may fail

ProblemRequests  == [kind : {"problem"}, key : Keys, in : Inputs]
RecoveryRequests == [kind : {"recovery"}, object : Objects]
OperatorRequests == [kind : {"ack", "close"}, id : Ids]
SweepRequests    == [kind : {"expire"}, now : 0..MaxClock]
DeliveryRequests ==
  [kind : {"delivery"}, id : Ids, plugin : Plugins, result : Results \ {"none"}]

AllRequests == ProblemRequests \cup RecoveryRequests \cup OperatorRequests
                 \cup SweepRequests \cup DeliveryRequests

ASSUME StoreAssumption ==
  /\ Ids \subseteq Nat
  /\ Inputs \subseteq ProblemInputs
  /\ Workloads \subseteq [Txs -> AllRequests]
  /\ SweepLimit \in Nat \ {0}
  /\ MaxClock \in Nat
  /\ Faults \in BOOLEAN

VARIABLES
  rows,     \* the committed incidents table
  audit,    \* the committed incident_events row of each request
  draft,    \* the incident_events row a transaction has inserted
  pc,       \* the statement the transaction is about to execute
  request,
  snap,     \* rows its FOR UPDATE still has to visit
  held,     \* rows it has locked or inserted
  image     \* its version of the rows it holds: read, then overwritten

vars == <<rows, audit, draft, pc, request, snap, held, image>>

\* What other sessions can see.
Ledger == INSTANCE IncidentLedger

ASSUME NoAuditAssumption == NoAudit \notin Ledger!AuditRows

Steps  == {"idle", "insert", "select", "lock", "commit", "done", "failed"}
Active == {"insert", "select", "lock", "commit"}

Exists(id)   == rows[id] # NoRow
IsOpen(id)   == Exists(id) /\ rows[id].status = "OPEN"
OpenFor(key) == {id \in Ids : IsOpen(id) /\ rows[id].key = key}

\* The WHERE clause of the request's SELECT .. FOR UPDATE.
Matches(r, id, row) ==
  /\ row # NoRow
  /\ \/ r.kind = "problem" /\ row.status = "OPEN" /\ row.key = r.key
     \/ r.kind = "recovery" /\ row.status = "OPEN" /\ Affected(row, r.object)
     \/ r.kind \in {"ack", "close"} /\ id = r.id /\ row.status = "OPEN"
     \/ r.kind = "expire" /\ row.status = "OPEN" /\ IsStale(row, r.now)
     \/ r.kind = "delivery" /\ id = r.id

\* The row the request writes over the version it has read.
Effect(r, row) ==
  CASE r.kind = "problem"            -> ApplyProblem(row, r.in)
    [] r.kind = "recovery"           -> ApplyRecovery(row, r.object)
    [] r.kind = "ack"                -> ApplyAck(row)
    [] r.kind \in {"close", "expire"} -> ApplyClose(row)
    [] r.kind = "delivery"           -> ApplyDelivery(row, r.plugin, r.result)

NoImage == [id \in Ids |-> NoRow]

Init ==
  /\ rows = [id \in Ids |-> NoRow]
  /\ audit = [t \in Txs |-> NoAudit]
  /\ pc = [t \in Txs |-> "idle"]
  /\ request \in Workloads
  /\ snap = [t \in Txs |-> {}]
  /\ held = [t \in Txs |-> {}]
  /\ draft = [t \in Txs |-> NoAudit]
  /\ image = [t \in Txs |-> NoImage]

------------------------------------------------------------------------------
\* Starting a transaction.  now() is fixed here for the whole of it, and says
\* nothing of the timestamps the events carry.
Begin(t) ==
  /\ pc[t] = "idle"
  /\ \/ request[t].kind # "expire" /\ UNCHANGED request
     \/ \E now \in 0..MaxClock :
          request[t].kind = "expire" /\ request' = [request EXCEPT ![t].now = now]
  /\ pc' = [pc EXCEPT ![t] = IF request[t].kind = "problem" THEN "insert" ELSE "select"]
  /\ UNCHANGED <<rows, audit, draft, snap, held, image>>

\* Another transaction has written, and not yet committed, an OPEN row of key.
WriteInFlight(key) ==
  \E u \in Txs : \E id \in held[u] :
    /\ pc[u] = "commit"
    /\ image[u][id].key = key
    /\ IsOpen(id) \/ ~Exists(id)

\* _insert_problem_incident: the row is ours and the event is decided.
InsertWins(t, id) ==
  LET r == request[t]
  IN  /\ pc[t] = "insert"
      /\ ~WriteInFlight(r.key)
      /\ OpenFor(r.key) = {}
      /\ ~Exists(id) /\ \A u \in Txs : id \notin held[u]
      /\ held' = [held EXCEPT ![t] = {id}]
      /\ image' = [image EXCEPT ![t][id] = NewIncident(r.key, r.in)]
      /\ draft' = [draft EXCEPT ![t] = Ledger!AuditRow({id}, TRUE, InsertIntent(r.in))]
      /\ pc' = [pc EXCEPT ![t] = "commit"]
      /\ UNCHANGED <<rows, audit, request, snap>>

\* ON CONFLICT DO NOTHING: some other row is the OPEN incident.
InsertConflicts(t) ==
  /\ pc[t] = "insert"
  /\ ~WriteInFlight(request[t].key)
  /\ OpenFor(request[t].key) # {}
  /\ pc' = [pc EXCEPT ![t] = "select"]
  /\ UNCHANGED <<rows, audit, draft, request, snap, held, image>>

\* The SELECT .. FOR UPDATE starts: its snapshot decides which rows it visits.
Select(t) ==
  /\ pc[t] = "select"
  /\ snap' = [snap EXCEPT ![t] = {id \in Ids : Matches(request[t], id, rows[id])}]
  /\ pc' = [pc EXCEPT ![t] = "lock"]
  /\ UNCHANGED <<rows, audit, draft, request, held, image>>

LockedByOther(t, id) == \E u \in Txs \ {t} : id \in held[u]

\* ORDER BY id LIMIT for the sweep; the recoveries' SELECT has no ORDER BY.
Visits(t, id) ==
  /\ pc[t] = "lock"
  /\ id \in snap[t]
  /\ request[t].kind = "expire" =>
       /\ \A other \in snap[t] : id <= other
       /\ Cardinality(held[t]) < SweepLimit

\* MUTANT: SELECT without FOR UPDATE.
ReadUnlocked(t, id) ==
  /\ Visits(t, id)
  /\ snap' = [snap EXCEPT ![t] = @ \ {id}]
  /\ \/ /\ Matches(request[t], id, rows[id])
        /\ held' = [held EXCEPT ![t] = @ \cup {id}]
        /\ image' = [image EXCEPT ![t][id] = rows[id]]
     \/ /\ ~Matches(request[t], id, rows[id])
        /\ UNCHANGED <<held, image>>
  /\ UNCHANGED <<rows, audit, draft, pc, request>>

\* MUTANT: the WHERE clause is not evaluated again once the lock is granted.
LockUnchecked(t, id) ==
  /\ Visits(t, id)
  /\ ~LockedByOther(t, id)
  /\ snap' = [snap EXCEPT ![t] = @ \ {id}]
  /\ held' = [held EXCEPT ![t] = @ \cup {id}]
  /\ image' = [image EXCEPT ![t][id] = rows[id]]
  /\ UNCHANGED <<rows, audit, draft, pc, request>>

\* The next row: locked and read if it still matches, dropped otherwise.
Lock(t, id) ==
  /\ Visits(t, id)
  /\ ~LockedByOther(t, id)
  /\ snap' = [snap EXCEPT ![t] = @ \ {id}]
  /\ \/ /\ Matches(request[t], id, rows[id])
        /\ held' = [held EXCEPT ![t] = @ \cup {id}]
        /\ image' = [image EXCEPT ![t][id] = rows[id]]
     \/ /\ ~Matches(request[t], id, rows[id])
        /\ UNCHANGED <<held, image>>
  /\ UNCHANGED <<rows, audit, draft, pc, request>>

\* SKIP LOCKED.
Skip(t, id) ==
  /\ Visits(t, id)
  /\ request[t].kind = "expire"
  /\ LockedByOther(t, id)
  /\ snap' = [snap EXCEPT ![t] = @ \ {id}]
  /\ UNCHANGED <<rows, audit, draft, pc, request, held, image>>

\* The SELECT has returned.
Fetched(t) ==
  /\ pc[t] = "lock"
  /\ \/ snap[t] = {}
     \/ request[t].kind = "expire" /\ Cardinality(held[t]) = SweepLimit

\* _lifecycle_context validates its notes: they quote the recovered
\* object, and in a sweep the rule name of every expired incident.
ContextRefused(t) ==
  \/ /\ request[t].kind = "recovery"
     /\ held[t] # {}
     /\ {request[t].object.host, request[t].object.service} \cap PoisonedNames # {}
  \/ /\ request[t].kind = "expire"
     /\ \E id \in held[t] : image[t][id].key \in PoisonedKeys

\* scalar_one() on the locking SELECT of record_problem_incident.
IncidentVanished(t) == request[t].kind = "problem" /\ held[t] = {}

\* MUTANT: the audit row is decided on the updated incident.
AuditOfUpdated(t) ==
  LET r == request[t]
  IN  CASE r.kind = "problem" ->
             LET row == ApplyProblem(image[t][CHOOSE id \in held[t] : TRUE], r.in)
             IN  Ledger!AuditRow(held[t], IsCounted(row, r.in), UpdateIntent(row, r.in))
        [] r.kind = "recovery" -> Ledger!AuditRow(held[t], FALSE, "no_dispatch")
        [] OTHER -> NoAudit

\* The decision on the incident as it was read, and so before the UPDATE.
AuditOf(t) ==
  LET r == request[t]
  IN  CASE r.kind = "problem" ->
             LET row == image[t][CHOOSE id \in held[t] : TRUE]
             IN  Ledger!AuditRow(held[t], IsCounted(row, r.in), UpdateIntent(row, r.in))
        [] r.kind = "recovery" -> Ledger!AuditRow(held[t], FALSE, "no_dispatch")
        [] OTHER -> NoAudit

\* The UPDATEs and, for an accepted event, the INSERT of the audit row.
Write(t) ==
  /\ Fetched(t)
  /\ ~IncidentVanished(t)
  /\ ~ContextRefused(t)
  /\ image' = [image EXCEPT ![t] =
                 [id \in Ids |-> IF id \in held[t] THEN Effect(request[t], @[id])
                                                   ELSE NoRow]]
  /\ draft' = [draft EXCEPT ![t] = AuditOf(t)]
  /\ snap' = [snap EXCEPT ![t] = {}]
  /\ pc' = [pc EXCEPT ![t] = "commit"]
  /\ UNCHANGED <<rows, audit, request, held>>

Commit(t) ==
  /\ pc[t] = "commit"
  /\ rows' = [id \in Ids |-> IF id \in held[t] THEN image[t][id] ELSE rows[id]]
  /\ held' = [held EXCEPT ![t] = {}]
  /\ image' = [image EXCEPT ![t] = NoImage]
  /\ audit' = [audit EXCEPT ![t] = draft[t]]
  /\ draft' = [draft EXCEPT ![t] = NoAudit]
  /\ pc' = [pc EXCEPT ![t] = "done"]
  /\ UNCHANGED <<request, snap>>

\* MUTANT: the session commits on its way out, without the audit row.
CommitOnExit(t) ==
  /\ rows' = [id \in Ids |-> IF id \in held[t] THEN image[t][id] ELSE rows[id]]
  /\ held' = [held EXCEPT ![t] = {}]
  /\ image' = [image EXCEPT ![t] = NoImage]
  /\ snap' = [snap EXCEPT ![t] = {}]
  /\ draft' = [draft EXCEPT ![t] = NoAudit]
  /\ pc' = [pc EXCEPT ![t] = "failed"]
  /\ UNCHANGED <<audit, request>>

\* The session closes without a commit.
Rollback(t) ==
  /\ held' = [held EXCEPT ![t] = {}]
  /\ image' = [image EXCEPT ![t] = NoImage]
  /\ snap' = [snap EXCEPT ![t] = {}]
  /\ draft' = [draft EXCEPT ![t] = NoAudit]
  /\ pc' = [pc EXCEPT ![t] = "failed"]
  /\ UNCHANGED <<rows, audit, request>>

Raise(t) == Fetched(t) /\ (IncidentVanished(t) \/ ContextRefused(t)) /\ Rollback(t)

\* A statement or the COMMIT fails, or the request is cancelled.
Fail(t) == Faults /\ pc[t] \in Active /\ Rollback(t)

\* The transactions of S wait only for rows that others of S hold, and each is
\* waited for.
Deadlocked(S) ==
  \A t \in S :
    /\ pc[t] = "lock" /\ request[t].kind # "expire" /\ snap[t] # {}
    /\ \A id \in snap[t] : \E u \in S \ {t} : id \in held[u]
    /\ \E u \in S \ {t} : snap[u] \cap held[t] # {}

\* MUTANT: no deadlock detection.
NoVictim(t) == FALSE /\ Rollback(t)

Victim(t) ==
  /\ pc[t] = "lock"
  /\ \E S \in SUBSET Txs : t \in S /\ Deadlocked(S)
  /\ Rollback(t)

\* What PostgreSQL and the event loop do for a transaction that has begun.
Proceed(t) ==
  \/ InsertConflicts(t) \/ Select(t) \/ Write(t) \/ Commit(t) \/ Raise(t) \/ Victim(t)
  \/ \E id \in Ids : InsertWins(t, id) \/ Lock(t, id) \/ Skip(t, id)

Next == \E t \in Txs : Begin(t) \/ Proceed(t) \/ Fail(t)

\* The server keeps executing the statements of a transaction it has begun.
Spec     == Init /\ [][Next]_vars
FairSpec == Spec /\ \A t \in Txs : WF_vars(Proceed(t))

------------------------------------------------------------------------------
TypeOK ==
  /\ rows \in [Ids -> Rows \cup {NoRow}]
  /\ audit \in [Txs -> Ledger!AuditRows \cup {NoAudit}]
  /\ draft \in [Txs -> Ledger!AuditRows \cup {NoAudit}]
  /\ pc \in [Txs -> Steps]
  /\ request \in [Txs -> AllRequests]
  /\ snap \in [Txs -> SUBSET Ids]
  /\ held \in [Txs -> SUBSET Ids]
  /\ image \in [Txs -> [Ids -> Rows \cup {NoRow}]]

\* No lost update: no two transactions hold a row at once, and until a
\* transaction writes, every version it has read under FOR UPDATE is still the
\* committed one.
LockedReadIsCurrent ==
  \A t \in Txs : \A id \in held[t] :
    /\ ~LockedByOther(t, id)
    /\ pc[t] = "lock" => image[t][id] = rows[id]

\* A sweep closes an incident only if it is OPEN and overdue at the moment the
\* sweep commits: a problem that refreshes it while the sweep is running
\* prevents its expiry.
SweepClosesOnlyStale ==
  [][\A t \in Txs :
       pc[t] = "commit" /\ pc'[t] = "done" /\ request[t].kind = "expire" =>
         \A id \in held[t] : IsOpen(id) /\ IsStale(rows[id], request[t].now)]_vars

\* The store implements the ledger: whatever the interleaving, the lock waits,
\* the deadlocks and the failures, each commit is one ledger step and nothing
\* else is visible.
ImplementsLedger == Ledger!Spec

\* Every request that begins is answered: waiting for rows, conflicting inserts
\* and deadlocks never leave a transaction stuck.
RequestsEnd ==
  \A t \in Txs : pc[t] # "idle" ~> pc[t] \in {"done", "failed"}

\* AUD-02: every accepted event has an audit row when its request has ended.
AcceptedEventAudited ==
  \A t \in Txs :
    pc[t] \in {"done", "failed"} /\ request[t].kind = "problem"
      => audit[t] # NoAudit
==============================================================================
