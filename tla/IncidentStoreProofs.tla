------------------------- MODULE IncidentStoreProofs -------------------------
(***************************************************************************)
(* The concurrent store implements the ledger, for every set of groups,    *)
(* events, incidents and transactions and for every interleaving of their  *)
(* statements; on the way, what the row locks are good for.                *)
(*                                                                         *)
(* The first part shows that the operators of the instance Ledger are the  *)
(* ones the transactions apply.  The second is the inductive invariant:    *)
(* what a transaction that has written, and not yet committed, holds is a  *)
(* step of the ledger waiting to be taken.  The third carries over what is *)
(* proved of the ledger, and the fourth what is proved of one incident and *)
(* the history of its problems.                                            *)
(***************************************************************************)
EXTENDS StoreHistory, FiniteSetTheorems, TLAPS

\* The fields of a row; a table entry is a row or NoRow.
Fields ==
  {"key", "status", "event_count", "last_update", "crossed", "stamps", "seconds",
   "active", "acked", "delivery"}

IsRow(row) == row # NoRow => DOMAIN row = Fields

\* The part of the type invariant that the proofs need: it says nothing of
\* what the fields of a row hold.
WellTyped ==
  /\ rows = [id \in Ids |-> rows[id]] /\ \A id \in Ids : IsRow(rows[id])
  /\ audit \in [Txs -> Ledger!AuditRows \cup {NoAudit}]
  /\ draft \in [Txs -> Ledger!AuditRows \cup {NoAudit}]
  /\ pc \in [Txs -> Steps]
  /\ request \in [Txs -> AllRequests]
  /\ snap \in [Txs -> SUBSET Ids]
  /\ held \in [Txs -> SUBSET Ids]
  /\ DOMAIN image = Txs
  /\ \A t \in Txs : DOMAIN image[t] = Ids /\ \A id \in Ids : IsRow(image[t][id])

\* A row belongs to at most one transaction, from its lock or INSERT to the end.
Disjoint ==
  \A t, u \in Txs : \A id \in Ids : id \in held[t] /\ id \in held[u] => t = u

\* Only a transaction that has started to lock holds rows, and until it writes
\* they are the committed ones, and still match its WHERE clause.
Fresh ==
  \A t \in Txs :
    /\ pc[t] \notin {"lock", "commit"} => held[t] = {}
    /\ pc[t] = "lock" => \A id \in held[t] :
         image[t][id] = rows[id] /\ Matches(request[t], id, rows[id])

\* Only a problem begins with an INSERT.
Begun == \A t \in Txs : pc[t] = "insert" => request[t].kind = "problem"

\* An audit row is drafted with the writes and appears with the COMMIT.
Silent ==
  \A t \in Txs :
    /\ pc[t] # "done" => audit[t] = NoAudit
    /\ pc[t] # "commit" => draft[t] = NoAudit

\* Transaction t has inserted the incident id: it will be the first of its key.
Inserting(t, id) ==
  LET r == request[t]
  IN  /\ pc[t] = "commit" /\ r.kind = "problem"
      /\ held[t] = {id}
      /\ ~Exists(id)
      /\ OpenFor(r.key) = {}
      /\ image[t][id] = NewIncident(r.key, r.in)
      /\ draft[t] = Ledger!AuditRow({id}, TRUE, InsertIntent(r.in))

\* Transaction t has updated the rows it holds, which are as it has read them.
Updating(t) ==
  LET r == request[t]
  IN  /\ pc[t] = "commit"
      /\ \A id \in held[t] : /\ Matches(r, id, rows[id])
                             /\ image[t][id] = Effect(r, rows[id])
      /\ r.kind = "problem" =>
           \E id \in Ids :
             /\ held[t] = {id}
             /\ draft[t] = Ledger!AuditRow({id}, IsCounted(rows[id], r.in),
                                                 UpdateIntent(rows[id], r.in))
      /\ r.kind = "recovery" => draft[t] = Ledger!AuditRow(held[t], FALSE, "no_dispatch")
      /\ r.kind \notin {"problem", "recovery"} => draft[t] = NoAudit

Written ==
  \A t \in Txs : pc[t] = "commit" => Updating(t) \/ \E id \in Ids : Inserting(t, id)

\* Two INSERTs of one (rule, group) are never in flight together.
OneInsert ==
  \A t, u \in Txs : \A i, j \in Ids :
    Inserting(t, i) /\ Inserting(u, j) /\ request[t].key = request[u].key => t = u

\* At most one OPEN incident per (rule, group), in the committed table.
OneOpen ==
  \A i, j \in Ids : IsOpen(i) /\ IsOpen(j) /\ rows[i].key = rows[j].key => i = j

StoreInv == WellTyped /\ Disjoint /\ Fresh /\ Begun /\ Silent /\ Written /\ OneInsert /\ OneOpen

------------------------------------------------------------------------------
\* The ledger's operators.

\* The ledger counts as the store does.
LEMMA SameCardinality ==
  ASSUME NEW S
  PROVE  Ledger!Cardinality(S) = Cardinality(S)
BY DEF Ledger!Cardinality, Cardinality

\* The ledger's threshold window is the one the transactions compute.
LEMMA SameWindow ==
  ASSUME NEW row, NEW in
  PROVE  /\ Ledger!Retained(row, in) = Retained(row, in)
         /\ Ledger!IsReplay(row, in) = IsReplay(row, in)
         /\ Ledger!IsCounted(row, in) = IsCounted(row, in)
         /\ Ledger!WindowEnd(row, in) = WindowEnd(row, in)
         /\ Ledger!NextStamps(row, in) = NextStamps(row, in)
         /\ Ledger!WindowCrossed(row, in) = WindowCrossed(row, in)
<1>1. Ledger!WindowEnd(row, in) = WindowEnd(row, in)
  BY DEF Ledger!WindowEnd, WindowEnd, Ledger!Later, Later
<1>2. \A ts : Ledger!Inside(row, in, ts) = Inside(row, in, ts)
  BY <1>1 DEF Ledger!Inside, Inside, Ledger!WindowStart, WindowStart
<1>3. Ledger!Retained(row, in) = Retained(row, in)
  BY <1>2 DEF Ledger!Retained, Retained
<1>4. Ledger!IsReplay(row, in) = IsReplay(row, in)
  BY <1>3 DEF Ledger!IsReplay, IsReplay
<1>5. Ledger!IsCounted(row, in) = IsCounted(row, in)
  BY <1>2, <1>4 DEF Ledger!IsCounted, IsCounted
<1>6. \A stamps, n : Ledger!Newest(stamps, n) = Newest(stamps, n)
  BY SameCardinality DEF Ledger!Newest, Newest, Ledger!Newer, Newer
<1>7. Ledger!NextStamps(row, in) = NextStamps(row, in)
  BY <1>3, <1>5, <1>6 DEF Ledger!NextStamps, NextStamps
<1>8. Ledger!WindowCrossed(row, in) = WindowCrossed(row, in)
  BY <1>7, SameCardinality DEF Ledger!WindowCrossed, WindowCrossed
<1> QED
  BY <1>1, <1>3, <1>4, <1>5, <1>7, <1>8

\* The ledger applies the writes the transactions compute.
LEMMA SameWrites ==
  /\ \A key, in : Ledger!NewIncident(key, in) = NewIncident(key, in)
  /\ \A row, in : Ledger!ApplyProblem(row, in) = ApplyProblem(row, in)
  /\ \A row, object : Ledger!ApplyRecovery(row, object) = ApplyRecovery(row, object)
  /\ \A row : Ledger!ApplyAck(row) = ApplyAck(row)
  /\ \A row : Ledger!ApplyClose(row) = ApplyClose(row)
  /\ \A row, plugin, result :
       Ledger!ApplyDelivery(row, plugin, result) = ApplyDelivery(row, plugin, result)
<1>1. ASSUME NEW key, NEW in
      PROVE  Ledger!NewIncident(key, in) = NewIncident(key, in)
  BY DEF Ledger!NewIncident, NewIncident
<1>2. ASSUME NEW row, NEW in
      PROVE  Ledger!ApplyProblem(row, in) = ApplyProblem(row, in)
  <2>1. Ledger!NextCount(row, in) = NextCount(row, in)
    BY SameWindow DEF Ledger!NextCount, NextCount
  <2>2. Ledger!Latched(row, in) = Latched(row, in)
    BY SameWindow DEF Ledger!Latched, Latched
  <2>3. Ledger!PreservedDeliveries(row) = PreservedDeliveries(row)
    BY DEF Ledger!PreservedDeliveries, PreservedDeliveries
  <2> QED
    BY <2>1, <2>2, <2>3, SameWindow DEF Ledger!ApplyProblem, ApplyProblem
<1>3. ASSUME NEW row, NEW object
      PROVE  Ledger!ApplyRecovery(row, object) = ApplyRecovery(row, object)
  BY DEF Ledger!ApplyRecovery, ApplyRecovery, Ledger!Recovers, Recovers
<1>4. ASSUME NEW row
      PROVE  /\ Ledger!ApplyAck(row) = ApplyAck(row)
             /\ Ledger!ApplyClose(row) = ApplyClose(row)
  BY DEF Ledger!ApplyAck, ApplyAck, Ledger!ApplyClose, ApplyClose
<1>5. ASSUME NEW row, NEW plugin, NEW result
      PROVE  Ledger!ApplyDelivery(row, plugin, result) = ApplyDelivery(row, plugin, result)
  BY DEF Ledger!ApplyDelivery, ApplyDelivery
<1> QED
  BY <1>1, <1>2, <1>3, <1>4, <1>5

\* The ledger decides the notification as the transactions do.
LEMMA SameDecisions ==
  /\ \A in : Ledger!InsertIntent(in) = InsertIntent(in)
  /\ \A row, in : Ledger!UpdateIntent(row, in) = UpdateIntent(row, in)
  /\ \A row, in : Ledger!IsCounted(row, in) = IsCounted(row, in)
  /\ \A row, object : Ledger!Affected(row, object) = Affected(row, object)
<1>1. ASSUME NEW row, NEW in
      PROVE  Ledger!UpdateIntent(row, in) = UpdateIntent(row, in)
  BY SameWindow DEF Ledger!UpdateIntent, UpdateIntent,
                    Ledger!FirstTransition, FirstTransition
<1>2. ASSUME NEW row, NEW object
      PROVE  Ledger!Affected(row, object) = Affected(row, object)
  BY DEF Ledger!Affected, Affected, Ledger!Recovers, Recovers
<1> QED
  BY <1>1, <1>2, SameWindow DEF Ledger!InsertIntent, InsertIntent

\* The ledger reads the table as the store does.
LEMMA SameTable ==
  /\ \A id : Ledger!Exists(id) = Exists(id)
  /\ \A id : Ledger!IsOpen(id) = IsOpen(id)
  /\ \A key : Ledger!OpenFor(key) = OpenFor(key)
<1>1. \A id : Ledger!Exists(id) = Exists(id)
  BY DEF Ledger!Exists, Exists
<1>2. \A id : Ledger!IsOpen(id) = IsOpen(id)
  BY <1>1 DEF Ledger!IsOpen, IsOpen
<1>3. \A key : Ledger!OpenFor(key) = OpenFor(key)
  BY <1>2 DEF Ledger!OpenFor, OpenFor
<1> QED
  BY <1>1, <1>2, <1>3

------------------------------------------------------------------------------
\* The rows the writes leave.

\* Every write of a transaction leaves a row of the same key, and no write but
\* an INSERT makes an incident OPEN.
LEMMA EffectOnRow ==
  ASSUME NEW r \in AllRequests, NEW row, DOMAIN row = Fields
  PROVE  /\ DOMAIN Effect(r, row) = Fields
         /\ Effect(r, row).key = row.key
         /\ Effect(r, row).status = "OPEN" => row.status = "OPEN"
<1> USE DEF Fields
<1>1. CASE r.kind = "problem"
  BY <1>1 DEF Effect, ApplyProblem
<1>2. CASE r.kind = "recovery"
  BY <1>2 DEF Effect, ApplyRecovery
<1>3. CASE r.kind = "ack"
  BY <1>3 DEF Effect, ApplyAck
<1>4. CASE r.kind \in {"close", "expire"}
  BY <1>4 DEF Effect, ApplyClose
<1>5. CASE r.kind = "delivery"
  BY <1>5 DEF Effect, ApplyDelivery
<1> QED
  BY <1>1, <1>2, <1>3, <1>4, <1>5
     DEF AllRequests, ProblemRequests, RecoveryRequests, OperatorRequests,
         SweepRequests, DeliveryRequests

\* An INSERT writes an OPEN row of its key.
LEMMA InsertedRow ==
  ASSUME NEW key, NEW in
  PROVE  /\ DOMAIN NewIncident(key, in) = Fields
         /\ NewIncident(key, in).key = key
         /\ NewIncident(key, in).status = "OPEN"
BY DEF NewIncident, Fields

\* A request is of one of seven kinds, with what its kind needs.
LEMMA RequestKinds ==
  ASSUME NEW r \in AllRequests
  PROVE  /\ r.kind \in {"problem", "recovery", "ack", "close", "expire", "delivery"}
         /\ r.kind = "problem" => r.key \in Keys /\ r.in \in Inputs
         /\ r.kind = "recovery" => r.object \in Objects
         /\ r.kind \in {"ack", "close", "delivery"} => r.id \in Ids
         /\ r.kind = "delivery" => r.plugin \in Plugins /\ r.result \in Results \ {"none"}
BY DEF AllRequests, ProblemRequests, RecoveryRequests, OperatorRequests,
       SweepRequests, DeliveryRequests

\* An audit row is not the absence of one, in the ledger's terms.
LEMMA DraftType ==
  ASSUME NEW S \in SUBSET Ids, NEW counted \in BOOLEAN,
         NEW intent \in {"dispatch_planned", "no_dispatch"}
  PROVE  Ledger!AuditRow(S, counted, intent) \in Ledger!AuditRows
BY DEF Ledger!AuditRow, Ledger!AuditRows

------------------------------------------------------------------------------
\* Types.

\* A transaction that rolls back leaves well-formed state.
LEMMA RollbackType ==
  ASSUME WellTyped, NEW t \in Txs, Rollback(t)
  PROVE  WellTyped'
BY DEF WellTyped, Rollback, Steps, NoImage, IsRow, Exists

\* So does the commit of a transaction: it copies rows it has written.
LEMMA CommitType ==
  ASSUME WellTyped, NEW t \in Txs, Commit(t)
  PROVE  WellTyped'
BY DEF WellTyped, Commit, Steps, NoImage, IsRow

\* The rows and the audit row a transaction drafts are well formed.
LEMMA WriteType ==
  ASSUME WellTyped, Fresh, NEW t \in Txs, Write(t)
  PROVE  WellTyped'
<1> DEFINE r == request[t]
<1>1. /\ pc[t] = "lock" /\ r \in AllRequests /\ held[t] \in SUBSET Ids
  BY DEF Write, Fetched, WellTyped
<1>2. AuditOf(t) \in Ledger!AuditRows \cup {NoAudit}
  <2>1. CASE r.kind = "problem"
    <3> DEFINE row == image[t][CHOOSE id \in held[t] : TRUE]
    <3>1. IsCounted(row, r.in) \in BOOLEAN
      BY DEF IsCounted
    <3>2. UpdateIntent(row, r.in) \in {"dispatch_planned", "no_dispatch"}
      BY DEF UpdateIntent
    <3> HIDE DEF row
    <3>3. Ledger!AuditRow(held[t], IsCounted(row, r.in), UpdateIntent(row, r.in))
            \in Ledger!AuditRows
      BY <1>1, <3>1, <3>2, DraftType
    <3> QED
      BY <2>1, <3>3 DEF AuditOf, row
  <2>2. CASE r.kind = "recovery"
    BY <1>1, <2>2, DraftType DEF AuditOf
  <2>3. CASE r.kind \notin {"problem", "recovery"}
    BY <2>3 DEF AuditOf
  <2> QED
    BY <2>1, <2>2, <2>3
<1>3. DOMAIN image'[t] = Ids /\ \A id \in Ids : IsRow(image'[t][id])
  <2>1. image'[t] = [id \in Ids |-> IF id \in held[t] THEN Effect(r, image[t][id]) ELSE NoRow]
    BY DEF Write, WellTyped
  <2>2. ASSUME NEW id \in held[t]
        PROVE  DOMAIN Effect(r, image[t][id]) = Fields
    <3>1. image[t][id] = rows[id] /\ rows[id] # NoRow
      BY <1>1 DEF Fresh, Matches
    <3>2. DOMAIN image[t][id] = Fields
      BY <1>1, <3>1 DEF WellTyped, IsRow
    <3> QED
      BY <1>1, <3>2, EffectOnRow
  <2> QED
    BY <1>1, <2>1, <2>2 DEF IsRow
<1>4. DOMAIN image' = Txs /\ \A u \in Txs \ {t} : image'[u] = image[u]
  BY DEF Write, WellTyped
<1>5. ASSUME NEW u \in Txs
      PROVE  DOMAIN image'[u] = Ids /\ \A id \in Ids : IsRow(image'[u][id])
  <2>1. CASE u = t
    BY <2>1, <1>3 DEF IsRow
  <2>2. CASE u # t
    BY <2>2, <1>4 DEF WellTyped, IsRow
  <2> QED
    BY <2>1, <2>2
<1>6. draft' \in [Txs -> Ledger!AuditRows \cup {NoAudit}]
  BY <1>2 DEF Write, WellTyped
<1>7. /\ UNCHANGED <<rows, audit, request, held>>
      /\ pc' \in [Txs -> Steps] /\ snap' \in [Txs -> SUBSET Ids]
  BY DEF Write, WellTyped, Steps
<1> QED
  BY <1>4, <1>5, <1>6, <1>7 DEF WellTyped, IsRow

\* The inserted row and its audit row are well formed.
LEMMA InsertType ==
  ASSUME WellTyped, NEW t \in Txs, NEW id \in Ids, InsertWins(t, id)
  PROVE  WellTyped'
<1> DEFINE r == request[t]
<1>1. Ledger!AuditRow({id}, TRUE, InsertIntent(r.in)) \in Ledger!AuditRows
  BY DraftType DEF InsertIntent
<1>2. DOMAIN image' = Txs
      /\ \A u \in Txs : DOMAIN image'[u] = Ids /\ \A i \in Ids : IsRow(image'[u][i])
  <2> DEFINE new == NewIncident(r.key, r.in)
  <2>1. DOMAIN new = Fields
    BY InsertedRow
  <2> HIDE DEF new
  <2>2. image' = [image EXCEPT ![t][id] = new]
    BY DEF InsertWins, new
  <2> QED
    BY <2>1, <2>2 DEF WellTyped, IsRow
<1>3. draft' \in [Txs -> Ledger!AuditRows \cup {NoAudit}]
  BY <1>1 DEF InsertWins, WellTyped
<1>4. /\ UNCHANGED <<rows, audit, request, snap>>
      /\ pc' \in [Txs -> Steps] /\ held' \in [Txs -> SUBSET Ids]
  BY DEF InsertWins, WellTyped, Steps
<1> QED
  BY <1>2, <1>3, <1>4 DEF WellTyped, IsRow

\* A lock copies a committed row.
LEMMA LockType ==
  ASSUME WellTyped, NEW t \in Txs, NEW id \in Ids, Lock(t, id)
  PROVE  WellTyped'
<1>1. /\ UNCHANGED <<rows, audit, draft, pc, request>>
      /\ snap' = [snap EXCEPT ![t] = @ \ {id}]
  BY DEF Lock
<1>2. snap' \in [Txs -> SUBSET Ids]
  <2>1. snap \in [Txs -> SUBSET Ids]
    BY DEF WellTyped
  <2> QED
    BY <1>1, <2>1
<1>3. CASE Matches(request[t], id, rows[id])
  <2>1. /\ held' = [held EXCEPT ![t] = @ \cup {id}]
        /\ image' = [image EXCEPT ![t][id] = rows[id]]
    BY <1>3 DEF Lock
  <2>2. held \in [Txs -> SUBSET Ids] /\ IsRow(rows[id])
    BY DEF WellTyped
  <2>3. held' \in [Txs -> SUBSET Ids]
    BY <2>1, <2>2
  <2>4. /\ DOMAIN image = Txs
        /\ \A u \in Txs : DOMAIN image[u] = Ids /\ \A i \in Ids : IsRow(image[u][i])
    BY DEF WellTyped
  <2>5. DOMAIN image' = Txs
    BY <2>1, <2>4
  <2>6. ASSUME NEW u \in Txs
        PROVE  DOMAIN image'[u] = Ids /\ \A i \in Ids : IsRow(image'[u][i])
    <3>1. CASE u = t
      <4>1. image'[u] = [image[t] EXCEPT ![id] = rows[id]]
        BY <2>1, <2>4, <3>1
      <4> QED
        BY <2>2, <2>4, <4>1
    <3>2. CASE u # t
      <4>1. image'[u] = image[u]
        BY <2>1, <2>4, <3>2
      <4> QED
        BY <2>4, <4>1
    <3> QED
      BY <3>1, <3>2
  <2> QED
    BY <1>1, <1>2, <2>3, <2>5, <2>6 DEF WellTyped, IsRow
<1>4. CASE ~Matches(request[t], id, rows[id])
  <2>1. UNCHANGED <<held, image>>
    BY <1>4 DEF Lock
  <2> QED
    BY <1>1, <1>2, <2>1 DEF WellTyped, IsRow
<1> QED
  BY <1>3, <1>4

\* The steps before the first lock change no row, image or audit row.
LEMMA QuietType ==
  ASSUME WellTyped, NEW t \in Txs,
         \/ Begin(t) \/ InsertConflicts(t) \/ Select(t)
         \/ \E id \in Ids : Skip(t, id)
  PROVE  WellTyped'
<1>1. CASE Begin(t)
  <2>1. request' \in [Txs -> AllRequests]
    <3>1. CASE UNCHANGED request
      BY <3>1 DEF WellTyped
    <3>2. ASSUME NEW now \in 0..MaxClock, request[t].kind = "expire",
                 request' = [request EXCEPT ![t].now = now]
          PROVE  request' \in [Txs -> AllRequests]
      <4>1. request[t] \in SweepRequests
        BY <3>2 DEF WellTyped, AllRequests, ProblemRequests, RecoveryRequests,
                    OperatorRequests, SweepRequests, DeliveryRequests
      <4>2. [request[t] EXCEPT !.now = now] \in SweepRequests
        BY <4>1 DEF SweepRequests
      <4> QED
        BY <3>2, <4>2 DEF WellTyped, AllRequests
    <3> QED
      BY <1>1, <3>1, <3>2 DEF Begin
  <2> QED
    BY <1>1, <2>1 DEF Begin, WellTyped, Steps, IsRow
<1>2. CASE InsertConflicts(t)
  BY <1>2 DEF InsertConflicts, WellTyped, Steps, IsRow
<1>3. CASE Select(t)
  BY <1>3 DEF Select, WellTyped, Steps, IsRow
<1>4. ASSUME NEW id \in Ids, Skip(t, id)
      PROVE  WellTyped'
  BY <1>4 DEF Skip, WellTyped, Steps, IsRow
<1> QED
  BY <1>1, <1>2, <1>3, <1>4

------------------------------------------------------------------------------
\* The invariant, action by action.

\* The part of the invariant beyond the types.
Kept == Disjoint /\ Fresh /\ Begun /\ Silent /\ Written /\ OneInsert /\ OneOpen

\* A transaction that does not move, while the table stays, has the same
\* writes in flight.
LEMMA Bystander ==
  ASSUME NEW u, rows' = rows, pc'[u] = pc[u], request'[u] = request[u],
         held'[u] = held[u], image'[u] = image[u], draft'[u] = draft[u]
  PROVE  /\ Updating(u)' <=> Updating(u)
         /\ \A id : Inserting(u, id)' <=> Inserting(u, id)
BY DEF Updating, Inserting, Exists, OpenFor, IsOpen

\* A transaction that has not written, and has not just written, has none.
LEMMA NothingInFlight ==
  ASSUME NEW u, pc[u] # "commit"
  PROVE  ~Updating(u) /\ \A id : ~Inserting(u, id)
BY DEF Updating, Inserting

\* One transaction moves and has no writes in flight afterwards; the table
\* stays: then no INSERT is new, and the table is as it was.
LEMMA OthersStay ==
  ASSUME StoreInv, NEW t \in Txs, rows' = rows, pc'[t] # "commit",
         \A u \in Txs \ {t} :
           /\ pc'[u] = pc[u] /\ request'[u] = request[u] /\ held'[u] = held[u]
           /\ image'[u] = image[u] /\ draft'[u] = draft[u]
  PROVE  Written' /\ OneInsert' /\ OneOpen'
<1>1. \A u \in Txs \ {t} : /\ Updating(u)' <=> Updating(u)
                           /\ \A id : Inserting(u, id)' <=> Inserting(u, id)
  BY Bystander
<1>2. ~Updating(t)' /\ \A id : ~Inserting(t, id)'
  BY DEF Updating, Inserting
<1>3. Written'
  BY <1>1 DEF StoreInv, Written
<1>4. OneInsert'
  BY <1>1, <1>2 DEF StoreInv, OneInsert
<1>5. OneOpen'
  BY DEF StoreInv, OneOpen, IsOpen, Exists
<1> QED
  BY <1>3, <1>4, <1>5

\* The steps before the first lock, and SKIP LOCKED.
LEMMA QuietKeeps ==
  ASSUME StoreInv, NEW t \in Txs,
         \/ Begin(t) \/ InsertConflicts(t) \/ Select(t)
         \/ \E id \in Ids : Skip(t, id)
  PROVE  Kept'
<1>1. /\ UNCHANGED <<rows, audit, draft, held, image>>
      /\ pc[t] # "commit" /\ pc'[t] \notin {"commit", "done"}
      /\ pc'[t] = "lock" => pc[t] = "lock" \/ held[t] = {}
      /\ pc[t] = "lock" => pc'[t] = "lock" /\ request'[t] = request[t]
      /\ pc'[t] = "insert" => request'[t].kind = "problem"
      /\ pc[t] # "done"
      /\ \A u \in Txs \ {t} : pc'[u] = pc[u] /\ request'[u] = request[u]
  <2> USE DEF StoreInv, WellTyped, Fresh
  <2>1. CASE Begin(t)
    BY <2>1 DEF Begin
  <2>2. CASE InsertConflicts(t)
    BY <2>2 DEF InsertConflicts
  <2>3. CASE Select(t)
    BY <2>3 DEF Select
  <2>4. ASSUME NEW id \in Ids, Skip(t, id)
        PROVE  <1>1!:
    BY <2>4 DEF Skip, Visits
  <2> QED
    BY <2>1, <2>2, <2>3, <2>4
<1>2. Written' /\ OneInsert' /\ OneOpen'
  BY <1>1, OthersStay
<1>3. Disjoint'
  BY <1>1 DEF StoreInv, Disjoint
<1>4. Silent'
  BY <1>1 DEF StoreInv, Silent
<1>5. Fresh'
  <2> SUFFICES ASSUME NEW u \in Txs
               PROVE  /\ pc'[u] \notin {"lock", "commit"} => held'[u] = {}
                      /\ pc'[u] = "lock" => \A id \in held'[u] :
                           image'[u][id] = rows'[id] /\ Matches(request'[u], id, rows'[id])
    BY DEF Fresh
  <2>1. CASE u = t
    BY <2>1, <1>1 DEF StoreInv, Fresh
  <2>2. CASE u # t
    BY <2>2, <1>1 DEF StoreInv, Fresh
  <2> QED
    BY <2>1, <2>2
<1>6. Begun'
  BY <1>1 DEF StoreInv, Begun
<1> QED
  BY <1>2, <1>3, <1>4, <1>5, <1>6 DEF Kept

\* A lock is granted on a row nobody holds, and its version is the committed one.
LEMMA LockKeeps ==
  ASSUME StoreInv, NEW t \in Txs, NEW id \in Ids, Lock(t, id)
  PROVE  Kept'
<1>1. /\ UNCHANGED <<rows, audit, draft, pc, request>>
      /\ pc[t] = "lock"
      /\ \A u \in Txs \ {t} : held'[u] = held[u] /\ image'[u] = image[u] /\ id \notin held[u]
      /\ held'[t] \subseteq held[t] \cup {id}
  BY DEF Lock, Visits, LockedByOther, StoreInv, WellTyped
<1>2. Written' /\ OneInsert' /\ OneOpen'
  BY <1>1, OthersStay
<1>3. Disjoint'
  BY <1>1 DEF StoreInv, Disjoint
<1>4. Silent'
  BY <1>1 DEF StoreInv, Silent
<1>5. \A i \in held'[t] : image'[t][i] = rows[i] /\ Matches(request[t], i, rows[i])
  <2>1. CASE ~Matches(request[t], id, rows[id])
    BY <2>1, <1>1 DEF Lock, StoreInv, Fresh
  <2>2. CASE Matches(request[t], id, rows[id])
    <3>1. /\ held'[t] = held[t] \cup {id}
          /\ image'[t][id] = rows[id]
          /\ \A i \in held[t] : i # id => image'[t][i] = image[t][i]
      BY <2>2 DEF Lock, StoreInv, WellTyped
    <3> QED
      BY <2>2, <3>1, <1>1 DEF StoreInv, Fresh
  <2> QED
    BY <2>1, <2>2
<1>6. Fresh'
  BY <1>1, <1>5 DEF StoreInv, Fresh
<1>7. Begun'
  BY <1>1 DEF StoreInv, Begun
<1> QED
  BY <1>2, <1>3, <1>4, <1>6, <1>7 DEF Kept

\* A rollback releases the rows and forgets the writes.
LEMMA RollbackKeeps ==
  ASSUME StoreInv, NEW t \in Txs, pc[t] \in Active, Rollback(t)
  PROVE  Kept'
<1>1. /\ UNCHANGED <<rows, audit, request>>
      /\ held'[t] = {} /\ draft'[t] = NoAudit /\ pc'[t] = "failed" /\ pc[t] # "done"
      /\ \A u \in Txs \ {t} : /\ held'[u] = held[u] /\ image'[u] = image[u]
                              /\ draft'[u] = draft[u] /\ pc'[u] = pc[u]
  BY DEF Rollback, Active, StoreInv, WellTyped
<1>2. Written' /\ OneInsert' /\ OneOpen'
  BY <1>1, OthersStay
<1>3. Disjoint'
  BY <1>1 DEF StoreInv, Disjoint
<1>4. Silent'
  BY <1>1 DEF StoreInv, Silent
<1>5. Fresh'
  BY <1>1 DEF StoreInv, Fresh
<1>6. Begun'
  BY <1>1 DEF StoreInv, Begun
<1> QED
  BY <1>2, <1>3, <1>4, <1>5, <1>6 DEF Kept

\* An INSERT that wins is the only one of its key: a rival in flight would have
\* made it wait, and an OPEN incident would have been a conflict.
LEMMA InsertKeeps ==
  ASSUME StoreInv, NEW t \in Txs, NEW id \in Ids, InsertWins(t, id)
  PROVE  Kept'
<1> DEFINE r == request[t]
<1>1. /\ UNCHANGED <<rows, audit, request>>
      /\ pc[t] = "insert" /\ pc'[t] = "commit"
      /\ held'[t] = {id} /\ ~Exists(id) /\ \A u \in Txs : id \notin held[u]
      /\ \A u \in Txs \ {t} : /\ held'[u] = held[u] /\ image'[u] = image[u]
                              /\ draft'[u] = draft[u] /\ pc'[u] = pc[u]
  BY DEF InsertWins, StoreInv, WellTyped
<1>2. Inserting(t, id)'
  <2> DEFINE new == NewIncident(r.key, r.in)
             row == Ledger!AuditRow({id}, TRUE, InsertIntent(r.in))
  <2> HIDE DEF new, row
  <2>1. image' = [image EXCEPT ![t][id] = new] /\ draft' = [draft EXCEPT ![t] = row]
    BY DEF InsertWins, new, row
  <2>2. image'[t][id] = new /\ draft'[t] = row
    BY <2>1 DEF StoreInv, WellTyped
  <2>3. r.kind = "problem" /\ OpenFor(r.key) = {}
    BY <1>1 DEF InsertWins, StoreInv, Begun
  <2> QED
    BY <1>1, <2>2, <2>3 DEF Inserting, Exists, OpenFor, IsOpen, new, row
<1>3. \A i : Inserting(t, i)' => i = id
  BY <1>1 DEF Inserting
<1>4. \A u \in Txs \ {t} : /\ Updating(u)' <=> Updating(u)
                           /\ \A i : Inserting(u, i)' <=> Inserting(u, i)
  BY <1>1, Bystander
<1>5. ASSUME NEW u \in Txs, NEW i \in Ids, Inserting(u, i)
      PROVE  request[u].key # r.key
  <2>1. pc[u] = "commit" /\ i \in held[u] /\ ~Exists(i)
        /\ image[u][i].key = request[u].key
    BY <1>5, InsertedRow DEF Inserting
  <2>2. ~WriteInFlight(r.key)
    BY DEF InsertWins
  <2> QED
    BY <2>1, <2>2 DEF WriteInFlight
<1>6. Written'
  BY <1>1, <1>2, <1>4 DEF StoreInv, Written
<1>7. OneInsert'
  BY <1>1, <1>3, <1>4, <1>5 DEF StoreInv, OneInsert
<1>8. OneOpen'
  BY <1>1 DEF StoreInv, OneOpen, IsOpen, Exists
<1>9. Disjoint'
  BY <1>1 DEF StoreInv, Disjoint
<1>10. Silent'
  BY <1>1 DEF StoreInv, Silent
<1>11. Fresh'
  BY <1>1 DEF StoreInv, Fresh
<1>12. Begun'
  BY <1>1 DEF StoreInv, Begun
<1> QED
  BY <1>6, <1>7, <1>8, <1>9, <1>10, <1>11, <1>12 DEF Kept

\* The Write of a problem: its SELECT has locked one row.  OneOpen leaves it no
\* second one, and IncidentVanished does not leave it none.
LEMMA OneRowForAProblem ==
  ASSUME StoreInv, NEW t \in Txs, pc[t] = "lock", request[t].kind = "problem",
         ~IncidentVanished(t)
  PROVE  \E id \in Ids : held[t] = {id}
<1>1. PICK id \in held[t] : TRUE
  BY DEF IncidentVanished
<1>2. held[t] \subseteq Ids
  BY DEF StoreInv, WellTyped
<1>3. \A i \in held[t] : IsOpen(i) /\ rows[i].key = request[t].key
  BY DEF StoreInv, Fresh, Matches, IsOpen, Exists
<1>4. \A i \in held[t] : i = id
  BY <1>1, <1>2, <1>3 DEF StoreInv, OneOpen
<1> QED
  BY <1>1, <1>2, <1>4

\* What a transaction writes is the effect of its request on the rows it has
\* locked, and the decision on the incident as it was.
LEMMA WriteKeeps ==
  ASSUME StoreInv, NEW t \in Txs, Write(t)
  PROVE  Kept'
<1> DEFINE r == request[t]
<1>1. /\ UNCHANGED <<rows, audit, request, held>>
      /\ pc[t] = "lock" /\ pc'[t] = "commit"
      /\ \A u \in Txs \ {t} : image'[u] = image[u] /\ draft'[u] = draft[u] /\ pc'[u] = pc[u]
      /\ draft'[t] = AuditOf(t)
  BY DEF Write, Fetched, StoreInv, WellTyped
<1>2. r \in AllRequests /\ held[t] \subseteq Ids
  BY DEF StoreInv, WellTyped
<1>3. \A id \in held[t] : image[t][id] = rows[id] /\ Matches(r, id, rows[id])
  BY <1>1 DEF StoreInv, Fresh
<1>4. \A id \in held[t] : image'[t][id] = Effect(r, rows[id])
  BY <1>2, <1>3 DEF Write, StoreInv, WellTyped
<1>5. r.kind = "problem" =>
        \E id \in Ids : /\ held[t] = {id}
                        /\ AuditOf(t) = Ledger!AuditRow({id}, IsCounted(rows[id], r.in),
                                                              UpdateIntent(rows[id], r.in))
  <2> SUFFICES ASSUME r.kind = "problem"
               PROVE  \E id \in Ids :
                        /\ held[t] = {id}
                        /\ AuditOf(t) = Ledger!AuditRow({id}, IsCounted(rows[id], r.in),
                                                              UpdateIntent(rows[id], r.in))
    OBVIOUS
  <2>1. PICK id \in Ids : held[t] = {id}
    BY <1>1, OneRowForAProblem DEF Write
  <2>2. (CHOOSE i \in held[t] : TRUE) = id
    BY <2>1
  <2>3. image[t][id] = rows[id]
    BY <1>3, <2>1
  <2> QED
    BY <2>1, <2>2, <2>3 DEF AuditOf
<1>6. /\ r.kind = "recovery" => AuditOf(t) = Ledger!AuditRow(held[t], FALSE, "no_dispatch")
      /\ r.kind \notin {"problem", "recovery"} => AuditOf(t) = NoAudit
  BY DEF AuditOf
<1>7. Updating(t)'
  BY <1>1, <1>3, <1>4, <1>5, <1>6 DEF Updating
<1>8. \A u \in Txs \ {t} : /\ Updating(u)' <=> Updating(u)
                           /\ \A i : Inserting(u, i)' <=> Inserting(u, i)
  BY <1>1, Bystander
<1>9. \A i : ~Inserting(t, i)'
  <2> SUFFICES ASSUME NEW i, Inserting(t, i)'
               PROVE  FALSE
    OBVIOUS
  <2>1. held[t] = {i} /\ ~Exists(i)
    BY <1>1 DEF Inserting, Exists
  <2> QED
    BY <1>3, <2>1 DEF Matches, Exists
<1>10. Written'
  BY <1>1, <1>7, <1>8 DEF StoreInv, Written
<1>11. OneInsert'
  BY <1>1, <1>8, <1>9 DEF StoreInv, OneInsert
<1>12. OneOpen' /\ Disjoint' /\ Begun'
  BY <1>1 DEF StoreInv, OneOpen, IsOpen, Exists, Disjoint, Begun
<1>13. Silent'
  BY <1>1 DEF StoreInv, Silent
<1>14. Fresh'
  BY <1>1 DEF StoreInv, Fresh
<1> QED
  BY <1>10, <1>11, <1>12, <1>13, <1>14 DEF Kept

\* An incident that is OPEN after a commit was OPEN before, of the same key, or
\* is the one that has been inserted.
LEMMA OpenAfterCommit ==
  ASSUME StoreInv, NEW t \in Txs, Commit(t), NEW id \in Ids, IsOpen(id)'
  PROVE  \/ IsOpen(id) /\ rows'[id].key = rows[id].key
         \/ Inserting(t, id) /\ rows'[id].key = request[t].key
<1>1. rows'[id] = IF id \in held[t] THEN image[t][id] ELSE rows[id]
  BY DEF Commit
<1>2. pc[t] = "commit" /\ request[t] \in AllRequests /\ IsRow(rows[id])
  BY DEF Commit, StoreInv, WellTyped
<1>3. CASE id \notin held[t]
  BY <1>1, <1>3 DEF IsOpen, Exists
<1>4. CASE id \in held[t] /\ Updating(t)
  <2>1. rows'[id] = Effect(request[t], rows[id]) /\ rows[id] # NoRow
    BY <1>1, <1>4 DEF Updating, Matches
  <2>2. rows'[id].status = "OPEN"
    BY DEF IsOpen
  <2>3. DOMAIN rows[id] = Fields
    BY <1>2, <2>1 DEF IsRow
  <2>4. rows'[id].key = rows[id].key /\ rows[id].status = "OPEN"
    BY <1>2, <2>1, <2>2, <2>3, EffectOnRow
  <2> QED
    BY <2>1, <2>4 DEF IsOpen, Exists
<1>5. ASSUME id \in held[t], NEW i \in Ids, Inserting(t, i)
      PROVE  Inserting(t, id) /\ rows'[id].key = request[t].key
  BY <1>1, <1>5, InsertedRow DEF Inserting
<1> QED
  BY <1>2, <1>3, <1>4, <1>5 DEF StoreInv, Written

\* A commit shows what was in flight and disturbs nothing else that is.
LEMMA CommitKeeps ==
  ASSUME StoreInv, NEW t \in Txs, Commit(t)
  PROVE  Kept'
<1>1. /\ request' = request
      /\ pc[t] = "commit" /\ pc'[t] = "done"
      /\ held'[t] = {} /\ draft'[t] = NoAudit
      /\ \A u \in Txs \ {t} :
           /\ held'[u] = held[u] /\ image'[u] = image[u] /\ audit'[u] = audit[u]
           /\ draft'[u] = draft[u] /\ pc'[u] = pc[u]
  BY DEF Commit, StoreInv, WellTyped
<1>2. \A u \in Txs : held[u] \subseteq Ids
  BY DEF StoreInv, WellTyped
<1>3. \A u \in Txs \ {t} : \A id \in held[u] : rows'[id] = rows[id]
  BY <1>2 DEF Commit, StoreInv, Disjoint
<1>4. \A u \in Txs \ {t} : Updating(u) => Updating(u)'
  <2> SUFFICES ASSUME NEW u \in Txs \ {t}, Updating(u)
               PROVE  Updating(u)'
    OBVIOUS
  <2>1. pc'[u] = pc[u] /\ held'[u] = held[u] /\ image'[u] = image[u] /\ draft'[u] = draft[u]
    BY <1>1
  <2>2. \A id \in held[u] : rows'[id] = rows[id]
    BY <1>3
  <2> QED
    BY <1>1, <2>1, <2>2, ZenonT(30) DEF Updating
<1>5. \A u \in Txs \ {t} : \A id : Inserting(u, id)' => Inserting(u, id)
  <2> SUFFICES ASSUME NEW u \in Txs \ {t}, NEW id, Inserting(u, id)'
               PROVE  Inserting(u, id)
    OBVIOUS
  <2>1. /\ pc[u] = "commit" /\ request[u].kind = "problem" /\ held[u] = {id}
        /\ id \in Ids /\ ~Exists(id)
        /\ image[u][id] = NewIncident(request[u].key, request[u].in)
        /\ draft[u] = Ledger!AuditRow({id}, TRUE, InsertIntent(request[u].in))
    BY <1>1, <1>2, <1>3 DEF Inserting, Exists
  <2>2. ~Updating(u)
    BY <2>1 DEF Updating, Matches, Exists
  <2>3. PICK i \in Ids : Inserting(u, i)
    BY <2>1, <2>2 DEF StoreInv, Written
  <2>4. i = id
    BY <2>1, <2>3 DEF Inserting
  <2> QED
    BY <2>3, <2>4
<1>6. \A u \in Txs \ {t} : \A id \in Ids : Inserting(u, id) => Inserting(u, id)'
  <2> SUFFICES ASSUME NEW u \in Txs \ {t}, NEW id \in Ids, Inserting(u, id)
               PROVE  Inserting(u, id)'
    OBVIOUS
  <2>1. ~Exists(id)'
    BY <1>3 DEF Inserting, Exists
  <2>2. OpenFor(request[u].key)' = {}
    <3> SUFFICES ASSUME NEW i \in Ids, IsOpen(i)', rows'[i].key = request[u].key
                 PROVE  FALSE
      BY <1>1 DEF OpenFor
    <3>1. CASE IsOpen(i) /\ rows'[i].key = rows[i].key
      BY <3>1 DEF Inserting, OpenFor
    <3>2. CASE Inserting(t, i) /\ rows'[i].key = request[t].key
      BY <3>2 DEF StoreInv, OneInsert
    <3> QED
      BY <3>1, <3>2, OpenAfterCommit
  <2> QED
    BY <1>1, <2>1, <2>2 DEF Inserting
<1>7. \A i : ~Inserting(t, i)'
  BY <1>1 DEF Inserting
<1>8. Written'
  BY <1>1, <1>4, <1>6 DEF StoreInv, Written
<1>9. OneInsert'
  BY <1>1, <1>5, <1>7 DEF StoreInv, OneInsert
<1>10. OneOpen'
  <2> SUFFICES ASSUME NEW i \in Ids, NEW j \in Ids, IsOpen(i)', IsOpen(j)',
                      rows'[i].key = rows'[j].key
               PROVE  i = j
    BY DEF OneOpen
  <2>1. CASE IsOpen(i) /\ rows'[i].key = rows[i].key /\ IsOpen(j) /\ rows'[j].key = rows[j].key
    BY <2>1 DEF StoreInv, OneOpen
  <2>2. CASE Inserting(t, i) /\ Inserting(t, j)
    BY <2>2 DEF Inserting
  <2>3. ASSUME NEW k \in Ids, NEW l \in Ids, Inserting(t, k), IsOpen(l),
               rows[l].key = request[t].key
        PROVE  FALSE
    BY <2>3 DEF Inserting, OpenFor
  <2> QED
    BY <2>1, <2>2, <2>3, OpenAfterCommit
<1>11. Disjoint'
  BY <1>1 DEF StoreInv, Disjoint
<1>12. Silent'
  BY <1>1 DEF StoreInv, Silent
<1>13. Begun'
  BY <1>1 DEF StoreInv, Begun
<1>14. Fresh'
  BY <1>1, <1>3 DEF StoreInv, Fresh
<1> QED
  BY <1>8, <1>9, <1>10, <1>11, <1>12, <1>13, <1>14 DEF Kept

------------------------------------------------------------------------------
\* The invariant.

LEMMA StoreInit == Init => StoreInv
<1> SUFFICES ASSUME Init
             PROVE  StoreInv
  OBVIOUS
<1>1. WellTyped
  BY StoreAssumption DEF Init, WellTyped, Steps, NoImage, IsRow
<1>2. Disjoint /\ Fresh /\ Begun /\ Silent /\ Written
  BY DEF Init, Disjoint, Fresh, Begun, Silent, Written
<1>3. OneInsert
  BY DEF Init, OneInsert, Inserting
<1>4. OneOpen
  BY DEF Init, OneOpen, IsOpen, Exists
<1> QED
  BY <1>1, <1>2, <1>3, <1>4 DEF StoreInv

LEMMA StoreStep == StoreInv /\ [Next]_vars => StoreInv'
<1> SUFFICES ASSUME StoreInv, [Next]_vars
             PROVE  StoreInv'
  OBVIOUS
<1> USE DEF StoreInv, Kept
<1>1. ASSUME NEW t \in Txs,
             Begin(t) \/ InsertConflicts(t) \/ Select(t) \/ \E id \in Ids : Skip(t, id)
      PROVE  StoreInv'
  BY <1>1, QuietType, QuietKeeps
<1>2. ASSUME NEW t \in Txs, NEW id \in Ids, InsertWins(t, id)
      PROVE  StoreInv'
  BY <1>2, InsertType, InsertKeeps
<1>3. ASSUME NEW t \in Txs, NEW id \in Ids, Lock(t, id)
      PROVE  StoreInv'
  BY <1>3, LockType, LockKeeps
<1>4. ASSUME NEW t \in Txs, Write(t)
      PROVE  StoreInv'
  BY <1>4, WriteType, WriteKeeps
<1>5. ASSUME NEW t \in Txs, Commit(t)
      PROVE  StoreInv'
  BY <1>5, CommitType, CommitKeeps
<1>6. ASSUME NEW t \in Txs, Raise(t) \/ Fail(t) \/ Victim(t)
      PROVE  StoreInv'
  <2>1. pc[t] \in Active /\ Rollback(t)
    BY <1>6 DEF Raise, Fail, Victim, Fetched, Active
  <2> QED
    BY <2>1, RollbackType, RollbackKeeps
<1>7. CASE UNCHANGED vars
  <2>1. WellTyped' /\ Disjoint' /\ Fresh' /\ Begun' /\ Silent'
    BY <1>7, ZenonT(30) DEF vars, WellTyped, Disjoint, Fresh, Begun, Silent
  <2>2. \A u \in Txs : /\ Updating(u)' <=> Updating(u)
                       /\ \A id : Inserting(u, id)' <=> Inserting(u, id)
    BY <1>7, Bystander DEF vars
  <2>3. Written' /\ OneInsert'
    BY <1>7, <2>2 DEF vars, Written, OneInsert
  <2>4. OneOpen'
    BY <1>7 DEF vars, OneOpen, IsOpen, Exists
  <2> QED
    BY <2>1, <2>3, <2>4
<1> QED
  BY <1>1, <1>2, <1>3, <1>4, <1>5, <1>6, <1>7 DEF Next, Proceed

LEMMA StoreInvariant == Spec => []StoreInv
BY StoreInit, StoreStep, PTL DEF Spec

------------------------------------------------------------------------------
\* What the locks are good for.

\* No lost update: SELECT .. FOR UPDATE and the INSERT leave every row to one
\* transaction, and what it has read stays the committed version until it
\* commits (incidents.py's load-lock-update transactions).
THEOREM NoLostUpdate == Spec => []LockedReadIsCurrent
<1>1. StoreInv => LockedReadIsCurrent
  BY DEF StoreInv, WellTyped, Disjoint, Fresh, LockedReadIsCurrent, LockedByOther
<1> QED
  BY <1>1, StoreInvariant, PTL

\* A sweep whose locked rows were overdue when it read them closes only rows that
\* are OPEN and overdue when it commits (expire_stale_incidents).
THEOREM SweepsAreCareful == Spec => SweepClosesOnlyStale
<1> DEFINE Careful ==
      \A t \in Txs :
        pc[t] = "commit" /\ pc'[t] = "done" /\ request[t].kind = "expire" =>
          \A id \in held[t] : IsOpen(id) /\ IsStale(rows[id], request[t].now)
<1>1. StoreInv => Careful
  <2> SUFFICES ASSUME StoreInv, NEW t \in Txs, pc[t] = "commit",
                      request[t].kind = "expire", NEW id \in held[t]
               PROVE  IsOpen(id) /\ IsStale(rows[id], request[t].now)
    OBVIOUS
  <2>1. Updating(t)
    BY DEF StoreInv, Written, Inserting
  <2>2. Matches(request[t], id, rows[id])
    BY <2>1 DEF Updating
  <2> QED
    BY <2>2 DEF Matches, IsOpen, Exists
<1>2. StoreInv /\ [Next]_vars => [Careful]_vars
  BY <1>1
<1>3. SweepClosesOnlyStale <=> [][Careful]_vars
  BY DEF SweepClosesOnlyStale
<1> QED
  BY <1>2, <1>3, StoreInvariant, PTL DEF Spec

------------------------------------------------------------------------------
\* The refinement.

\* A step that is not a commit leaves what other sessions see.
LEMMA OnlyCommitsShow ==
  ASSUME NEW t \in Txs,
         \/ Begin(t) \/ Fail(t) \/ InsertConflicts(t) \/ Select(t) \/ Write(t)
         \/ Raise(t) \/ Victim(t)
         \/ \E id \in Ids : InsertWins(t, id) \/ Lock(t, id) \/ Skip(t, id)
  PROVE  UNCHANGED Ledger!vars
BY DEF Begin, Fail, InsertConflicts, Select, Write, Raise, Victim, InsertWins, Lock, Skip,
       Rollback, Ledger!vars

\* The commit of an INSERT opens an incident in the ledger.
LEMMA CommitOpens ==
  ASSUME StoreInv, NEW t \in Txs, Commit(t), NEW id \in Ids, Inserting(t, id)
  PROVE  Ledger!OpenIncident(t, id, request[t].key, request[t].in)
<1> DEFINE r == request[t]
<1>1. /\ audit[t] = NoAudit /\ ~Exists(id) /\ OpenFor(r.key) = {}
  BY DEF Commit, StoreInv, Silent, Inserting
<1>2. rows' = [rows EXCEPT ![id] = NewIncident(r.key, r.in)]
  BY DEF Commit, StoreInv, WellTyped, Inserting
<1>3. audit' = [audit EXCEPT ![t] = Ledger!AuditRow({id}, TRUE, InsertIntent(r.in))]
  BY DEF Commit, Inserting
<1> QED
  BY <1>1, <1>2, <1>3, SameTable, SameWrites, SameDecisions DEF Ledger!OpenIncident

\* A commit that writes no audit row leaves the audit trail.
LEMMA NothingAudited ==
  ASSUME StoreInv, NEW t \in Txs, Commit(t), draft[t] = NoAudit
  PROVE  audit' = audit
<1>1. audit[t] = NoAudit /\ audit' = [audit EXCEPT ![t] = NoAudit]
  BY DEF Commit, StoreInv, Silent
<1> QED
  BY <1>1 DEF StoreInv, WellTyped

\* The commit of an UPDATE is the ledger's step of the request's kind on the
\* rows it has locked, or none if it has found no row.
LEMMA CommitUpdates ==
  ASSUME StoreInv, NEW t \in Txs, Commit(t), Updating(t)
  PROVE  [Ledger!Next]_Ledger!vars
<1> DEFINE r == request[t]
<1>1. /\ r \in AllRequests /\ held[t] \in SUBSET Ids
      /\ audit[t] = NoAudit /\ audit' = [audit EXCEPT ![t] = draft[t]]
      /\ DOMAIN rows = Ids
  BY DEF Commit, StoreInv, WellTyped, Silent
<1>2. rows' = [id \in Ids |-> IF id \in held[t] THEN Effect(r, rows[id]) ELSE rows[id]]
  BY <1>1 DEF Commit, Updating
<1>3. \A id \in held[t] : Exists(id) /\ Matches(r, id, rows[id])
  BY DEF Updating, Matches, Exists
<1>4. ASSUME r.kind = "problem"
      PROVE  Ledger!Next
  <2>1. PICK id \in Ids :
          /\ held[t] = {id}
          /\ draft[t] = Ledger!AuditRow({id}, IsCounted(rows[id], r.in),
                                              UpdateIntent(rows[id], r.in))
    BY <1>4 DEF Updating
  <2>2. IsOpen(id)
    BY <1>3, <1>4, <2>1 DEF Matches, IsOpen
  <2>3. rows' = [rows EXCEPT ![id] = ApplyProblem(rows[id], r.in)]
    BY <1>1, <1>2, <1>4, <2>1 DEF Effect
  <2>4. Ledger!MergeProblem(t, id, r.in)
    BY <1>1, <2>1, <2>2, <2>3, SameTable, SameWrites, SameDecisions
       DEF Ledger!MergeProblem, Ledger!IsOpen
  <2>5. r.in \in Inputs
    BY <1>1, <1>4, RequestKinds
  <2> QED
    BY <2>4, <2>5 DEF Ledger!Next
<1>5. ASSUME r.kind = "recovery"
      PROVE  Ledger!Next
  <2>1. \A id \in held[t] : IsOpen(id) /\ Affected(rows[id], r.object)
    BY <1>3, <1>5 DEF Matches, IsOpen
  <2>2. rows' = [id \in Ids |-> IF id \in held[t] THEN ApplyRecovery(rows[id], r.object)
                                                  ELSE rows[id]]
    BY <1>2, <1>5 DEF Effect
  <2>3. draft[t] = Ledger!AuditRow(held[t], FALSE, "no_dispatch")
    BY <1>5 DEF Updating
  <2>4. Ledger!Recover(t, r.object, held[t])
    BY <1>1, <2>1, <2>2, <2>3, SameTable, SameWrites, SameDecisions DEF Ledger!Recover
  <2>5. r.object \in Ledger!Objects
    BY <1>1, <1>5, RequestKinds DEF Ledger!Objects, Objects
  <2> QED
    BY <1>1, <2>4, <2>5 DEF Ledger!Next
<1>6. ASSUME r.kind \in {"close", "expire"}
      PROVE  Ledger!Next
  <2>1. \A id \in held[t] : IsOpen(id)
    BY <1>3, <1>6 DEF Matches, IsOpen
  <2>2. rows' = [id \in Ids |-> IF id \in held[t] THEN ApplyClose(rows[id]) ELSE rows[id]]
    BY <1>2, <1>6 DEF Effect
  <2>3. audit' = audit
    BY <1>6, NothingAudited DEF Updating
  <2>4. Ledger!Close(held[t])
    BY <2>1, <2>2, <2>3, SameTable, SameWrites DEF Ledger!Close
  <2> QED
    BY <1>1, <2>4 DEF Ledger!Next
<1>7. ASSUME r.kind \in {"ack", "delivery"}
      PROVE  [Ledger!Next]_Ledger!vars
  <2>1. audit' = audit
    BY <1>7, NothingAudited DEF Updating
  <2>2. \A id \in held[t] : id = r.id
    BY <1>3, <1>7 DEF Matches
  <2>3. CASE held[t] = {}
    <3>1. rows' = rows
      BY <2>3 DEF Commit, StoreInv, WellTyped
    <3> QED
      BY <2>1, <3>1 DEF Ledger!vars
  <2>4. CASE held[t] # {}
    <3>1. held[t] = {r.id} /\ r.id \in Ids
      BY <1>1, <2>2, <2>4
    <3>2. rows' = [rows EXCEPT ![r.id] = Effect(r, rows[r.id])]
      BY <1>1, <1>2, <3>1
    <3>3. CASE r.kind = "ack"
      <4>1. IsOpen(r.id)
        BY <1>3, <3>1, <3>3 DEF Matches, IsOpen
      <4>2. Ledger!Acknowledge(r.id)
        BY <2>1, <3>2, <3>3, <4>1, SameTable, SameWrites DEF Ledger!Acknowledge, Effect
      <4> QED
        BY <3>1, <4>2 DEF Ledger!Next
    <3>4. CASE r.kind = "delivery"
      <4>1. Ledger!RecordDelivery(r.id, r.plugin, r.result)
        BY <1>3, <2>1, <3>1, <3>2, <3>4, SameTable, SameWrites
           DEF Ledger!RecordDelivery, Effect
      <4>2. r.plugin \in Plugins /\ r.result \in Ledger!Results \ {"none"}
        BY <1>1, <3>4, RequestKinds DEF Ledger!Results, Results
      <4> QED
        BY <3>1, <4>1, <4>2 DEF Ledger!Next
    <3> QED
      BY <1>7, <3>3, <3>4
  <2> QED
    BY <2>3, <2>4
<1> QED
  BY <1>1, <1>4, <1>5, <1>6, <1>7, RequestKinds

\* Every step of the store is a step of the ledger or invisible.
LEMMA StepImplements == StoreInv /\ [Next]_vars => [Ledger!Next]_Ledger!vars
<1> SUFFICES ASSUME StoreInv, [Next]_vars
             PROVE  [Ledger!Next]_Ledger!vars
  OBVIOUS
<1>1. ASSUME NEW t \in Txs, Commit(t)
      PROVE  [Ledger!Next]_Ledger!vars
  <2>1. ASSUME NEW id \in Ids, Inserting(t, id)
        PROVE  Ledger!Next
    <3>1. request[t].key \in Keys /\ request[t].in \in Inputs
      BY <2>1, RequestKinds DEF StoreInv, WellTyped, Inserting
    <3>2. Ledger!OpenIncident(t, id, request[t].key, request[t].in)
      BY <1>1, <2>1, CommitOpens
    <3> QED
      BY <3>1, <3>2 DEF Ledger!Next
  <2>2. CASE Updating(t)
    BY <1>1, <2>2, CommitUpdates
  <2>3. Updating(t) \/ \E id \in Ids : Inserting(t, id)
    BY <1>1 DEF Commit, StoreInv, Written
  <2> QED
    BY <2>1, <2>2, <2>3
<1>2. CASE UNCHANGED vars
  BY <1>2 DEF vars, Ledger!vars
<1> QED
  BY <1>1, <1>2, OnlyCommitsShow DEF Next, Proceed

\* The transactions of app/persistence, with their conflicting inserts, lock
\* waits, skipped and re-checked rows, deadlock victims, failures and rollbacks,
\* implement the ledger: each commit is one of its steps, audit row included.
THEOREM StoreImplementsLedger == Spec => ImplementsLedger
<1>1. Init => Ledger!Init
  BY DEF Init, Ledger!Init
<1> QED
  BY <1>1, StepImplements, StoreInvariant, PTL DEF Spec, ImplementsLedger, Ledger!Spec

------------------------------------------------------------------------------
\* What the ledger promises holds of the store.

\* The ledger of the theorems of IncidentLedgerProofs.
Proved == INSTANCE IncidentLedgerProofs

\* The theorems are about the ledger the store implements: its operators, its steps ...
LEMMA ProvedCardinality ==
  ASSUME NEW S
  PROVE  Proved!Cardinality(S) = Ledger!Cardinality(S)
BY DEF Proved!Cardinality, Ledger!Cardinality

LEMMA ProvedWindow ==
  ASSUME NEW row, NEW in
  PROVE  /\ Proved!Retained(row, in) = Ledger!Retained(row, in)
         /\ Proved!IsReplay(row, in) = Ledger!IsReplay(row, in)
         /\ Proved!IsCounted(row, in) = Ledger!IsCounted(row, in)
         /\ Proved!WindowEnd(row, in) = Ledger!WindowEnd(row, in)
         /\ Proved!NextStamps(row, in) = Ledger!NextStamps(row, in)
         /\ Proved!WindowCrossed(row, in) = Ledger!WindowCrossed(row, in)
<1>1. Proved!WindowEnd(row, in) = Ledger!WindowEnd(row, in)
  BY DEF Proved!WindowEnd, Ledger!WindowEnd, Proved!Later, Ledger!Later
<1>2. \A ts : Proved!Inside(row, in, ts) = Ledger!Inside(row, in, ts)
  BY <1>1 DEF Proved!Inside, Ledger!Inside, Proved!WindowStart, Ledger!WindowStart
<1>3. Proved!Retained(row, in) = Ledger!Retained(row, in)
  BY <1>2 DEF Proved!Retained, Ledger!Retained
<1>4. Proved!IsReplay(row, in) = Ledger!IsReplay(row, in)
  BY <1>3 DEF Proved!IsReplay, Ledger!IsReplay
<1>5. Proved!IsCounted(row, in) = Ledger!IsCounted(row, in)
  BY <1>2, <1>4 DEF Proved!IsCounted, Ledger!IsCounted
<1>6. \A stamps, n : Proved!Newest(stamps, n) = Ledger!Newest(stamps, n)
  BY ProvedCardinality DEF Proved!Newest, Ledger!Newest, Proved!Newer, Ledger!Newer
<1>7. Proved!NextStamps(row, in) = Ledger!NextStamps(row, in)
  BY <1>3, <1>5, <1>6 DEF Proved!NextStamps, Ledger!NextStamps
<1>8. Proved!WindowCrossed(row, in) = Ledger!WindowCrossed(row, in)
  BY <1>7, ProvedCardinality DEF Proved!WindowCrossed, Ledger!WindowCrossed
<1> QED
  BY <1>1, <1>3, <1>4, <1>5, <1>7, <1>8

LEMMA ProvedWrites ==
  /\ \A key, in : Proved!NewIncident(key, in) = Ledger!NewIncident(key, in)
  /\ \A row, in : Proved!ApplyProblem(row, in) = Ledger!ApplyProblem(row, in)
  /\ \A row, object : Proved!ApplyRecovery(row, object) = Ledger!ApplyRecovery(row, object)
  /\ \A row : Proved!ApplyAck(row) = Ledger!ApplyAck(row)
  /\ \A row : Proved!ApplyClose(row) = Ledger!ApplyClose(row)
  /\ \A row, plugin, result :
       Proved!ApplyDelivery(row, plugin, result) = Ledger!ApplyDelivery(row, plugin, result)
<1>1. ASSUME NEW key, NEW in
      PROVE  Proved!NewIncident(key, in) = Ledger!NewIncident(key, in)
  BY DEF Proved!NewIncident, Ledger!NewIncident
<1>2. ASSUME NEW row, NEW in
      PROVE  Proved!ApplyProblem(row, in) = Ledger!ApplyProblem(row, in)
  <2>1. Proved!NextCount(row, in) = Ledger!NextCount(row, in)
    BY ProvedWindow DEF Proved!NextCount, Ledger!NextCount
  <2>2. Proved!Latched(row, in) = Ledger!Latched(row, in)
    BY ProvedWindow DEF Proved!Latched, Ledger!Latched
  <2>3. Proved!PreservedDeliveries(row) = Ledger!PreservedDeliveries(row)
    BY DEF Proved!PreservedDeliveries, Ledger!PreservedDeliveries
  <2> QED
    BY <2>1, <2>2, <2>3, ProvedWindow DEF Proved!ApplyProblem, Ledger!ApplyProblem
<1>3. ASSUME NEW row, NEW object
      PROVE  Proved!ApplyRecovery(row, object) = Ledger!ApplyRecovery(row, object)
  BY DEF Proved!ApplyRecovery, Ledger!ApplyRecovery, Proved!Recovers, Ledger!Recovers
<1>4. ASSUME NEW row
      PROVE  /\ Proved!ApplyAck(row) = Ledger!ApplyAck(row)
             /\ Proved!ApplyClose(row) = Ledger!ApplyClose(row)
  BY DEF Proved!ApplyAck, Ledger!ApplyAck, Proved!ApplyClose, Ledger!ApplyClose
<1>5. ASSUME NEW row, NEW plugin, NEW result
      PROVE  Proved!ApplyDelivery(row, plugin, result) = Ledger!ApplyDelivery(row, plugin, result)
  BY DEF Proved!ApplyDelivery, Ledger!ApplyDelivery
<1> QED
  BY <1>1, <1>2, <1>3, <1>4, <1>5

LEMMA ProvedDecisions ==
  /\ \A in : Proved!InsertIntent(in) = Ledger!InsertIntent(in)
  /\ \A row, in : Proved!UpdateIntent(row, in) = Ledger!UpdateIntent(row, in)
  /\ \A row, in : Proved!IsCounted(row, in) = Ledger!IsCounted(row, in)
  /\ \A row, object : Proved!Affected(row, object) = Ledger!Affected(row, object)
<1>1. ASSUME NEW row, NEW in
      PROVE  Proved!UpdateIntent(row, in) = Ledger!UpdateIntent(row, in)
  BY ProvedWindow DEF Proved!UpdateIntent, Ledger!UpdateIntent,
                    Proved!FirstTransition, Ledger!FirstTransition
<1>2. ASSUME NEW row, NEW object
      PROVE  Proved!Affected(row, object) = Ledger!Affected(row, object)
  BY DEF Proved!Affected, Ledger!Affected, Proved!Recovers, Ledger!Recovers
<1> QED
  BY <1>1, <1>2, ProvedWindow DEF Proved!InsertIntent, Ledger!InsertIntent

LEMMA ProvedTable ==
  /\ \A id : Proved!Exists(id) = Ledger!Exists(id)
  /\ \A id : Proved!IsOpen(id) = Ledger!IsOpen(id)
  /\ \A key : Proved!OpenFor(key) = Ledger!OpenFor(key)
<1>1. \A id : Proved!Exists(id) = Ledger!Exists(id)
  BY DEF Proved!Exists, Ledger!Exists
<1>2. \A id : Proved!IsOpen(id) = Ledger!IsOpen(id)
  BY <1>1 DEF Proved!IsOpen, Ledger!IsOpen
<1>3. \A key : Proved!OpenFor(key) = Ledger!OpenFor(key)
  BY <1>2 DEF Proved!OpenFor, Ledger!OpenFor
<1> QED
  BY <1>1, <1>2, <1>3

LEMMA ProvedActions ==
  ASSUME NEW t, NEW id, NEW key, NEW in, NEW object, NEW S, NEW plugin, NEW result
  PROVE  /\ Ledger!OpenIncident(t, id, key, in) <=> Proved!OpenIncident(t, id, key, in)
         /\ Ledger!MergeProblem(t, id, in) <=> Proved!MergeProblem(t, id, in)
         /\ Ledger!Recover(t, object, S) <=> Proved!Recover(t, object, S)
         /\ Ledger!Acknowledge(id) <=> Proved!Acknowledge(id)
         /\ Ledger!Close(S) <=> Proved!Close(S)
         /\ Ledger!RecordDelivery(id, plugin, result) <=> Proved!RecordDelivery(id, plugin, result)
<1>1. \A T, counted, intent :
        Proved!AuditRow(T, counted, intent) = Ledger!AuditRow(T, counted, intent)
  BY DEF Proved!AuditRow, Ledger!AuditRow
<1>2. Ledger!OpenIncident(t, id, key, in) <=> Proved!OpenIncident(t, id, key, in)
  BY <1>1, ProvedWrites, ProvedDecisions, ProvedTable
     DEF Ledger!OpenIncident, Proved!OpenIncident
<1>3. Ledger!MergeProblem(t, id, in) <=> Proved!MergeProblem(t, id, in)
  BY <1>1, ProvedWrites, ProvedDecisions, ProvedTable
     DEF Ledger!MergeProblem, Proved!MergeProblem
<1>4. Ledger!Recover(t, object, S) <=> Proved!Recover(t, object, S)
  BY <1>1, ProvedWrites, ProvedDecisions, ProvedTable DEF Ledger!Recover, Proved!Recover
<1>5. Ledger!Acknowledge(id) <=> Proved!Acknowledge(id)
  BY ProvedWrites, ProvedTable DEF Ledger!Acknowledge, Proved!Acknowledge
<1>6. Ledger!Close(S) <=> Proved!Close(S)
  BY ProvedWrites, ProvedTable DEF Ledger!Close, Proved!Close
<1>7. Ledger!RecordDelivery(id, plugin, result) <=> Proved!RecordDelivery(id, plugin, result)
  BY ProvedWrites, ProvedTable DEF Ledger!RecordDelivery, Proved!RecordDelivery
<1> QED
  BY <1>2, <1>3, <1>4, <1>5, <1>6, <1>7

\* ... and its behaviours.
LEMMA SameLedger == Ledger!Spec => Proved!Spec
<1>1. Ledger!Init => Proved!Init
  BY DEF Ledger!Init, Proved!Init
<1>2. Ledger!Objects = Proved!Objects /\ Ledger!Results = Proved!Results
  BY DEF Ledger!Objects, Proved!Objects, Ledger!Results, Proved!Results
<1>3. Ledger!Next => Proved!Next
  BY <1>2, ProvedActions, ZenonT(30) DEF Ledger!Next, Proved!Next
<1>4. [Ledger!Next]_Ledger!vars => [Proved!Next]_Proved!vars
  BY <1>3 DEF Ledger!vars, Proved!vars
<1> QED
  BY <1>1, <1>4, PTL DEF Ledger!Spec, Proved!Spec

\* The store's constants are as the ledger assumes.
LEMMA LedgerConstants ==
  /\ NoService \notin Services
  /\ Fingerprints \subseteq Nat
  /\ Times \subseteq Int
  /\ MaxWindowFingerprints \in Nat \ {0}
  /\ NoRow \notin Proved!Rows
  /\ Ids \subseteq Nat
  /\ Inputs \subseteq Proved!ProblemInputs
  /\ NoAudit \notin Proved!AuditRows
<1>1. Proved!Rows = Rows
  BY DEF Proved!Rows, Rows, Proved!Statuses, Statuses, Proved!Stamps, Stamps,
         Proved!Objects, Objects, Proved!Results, Results
<1>2. Proved!ProblemInputs = ProblemInputs
  BY DEF Proved!ProblemInputs, ProblemInputs, Proved!Objects, Objects
<1>3. Proved!AuditRows = Ledger!AuditRows
  BY DEF Proved!AuditRows, Ledger!AuditRows
<1> QED
  BY <1>1, <1>2, <1>3, AggregationAssumption, NoRowAssumption, StoreAssumption,
     NoAuditAssumption

\* Whatever the interleaving of the transactions, the waits, the deadlock victims
\* and the failures: the committed tables never show two OPEN incidents of one
\* (rule, group), an incident that planned two notifications, or an event_count
\* that is not the number of audit rows that counted for it.
THEOREM StoreTablesAgree ==
  Spec => [](Ledger!OneOpenPerKey /\ Ledger!PlannedOnce /\ Ledger!CountIsAudited)
<1>1. Proved!Spec => []Proved!OneOpenPerKey
  BY Proved!OneOpen, LedgerConstants
<1>2. Proved!Spec => []Proved!PlannedOnce
  BY Proved!PlannedAtMostOnce, LedgerConstants
<1>3. Proved!Spec => []Proved!CountIsAudited
  BY Proved!CountsAgree, LedgerConstants
<1>4. Proved!OneOpenPerKey => Ledger!OneOpenPerKey
  BY DEF Proved!OneOpenPerKey, Ledger!OneOpenPerKey, Proved!IsOpen, Ledger!IsOpen,
         Proved!Exists, Ledger!Exists
<1>5. Proved!PlannedOnce => Ledger!PlannedOnce
  BY DEF Proved!PlannedOnce, Ledger!PlannedOnce, Proved!PlannedBy, Ledger!PlannedBy,
         Proved!Exists, Ledger!Exists
<1>6. Proved!CountIsAudited => Ledger!CountIsAudited
  BY DEF Proved!CountIsAudited, Ledger!CountIsAudited, Proved!CountedBy, Ledger!CountedBy,
         Proved!Exists, Ledger!Exists, Proved!Cardinality, Ledger!Cardinality
<1> QED
  BY <1>1, <1>2, <1>3, <1>4, <1>5, <1>6, SameLedger, StoreImplementsLedger, PTL
     DEF ImplementsLedger

\* Likewise for what no commit of the store may do: change a RESOLVED or CLOSED
\* incident, erase a delivery result, or clear the marker or lower a count.
THEOREM StoreNeverTakesBack ==
  Spec => Ledger!TerminalIsFinal /\ Ledger!DeliveryIsKept /\ Ledger!MarkerIsLatched
<1>1. Proved!Spec => Proved!TerminalIsFinal
  BY Proved!TerminalStaysFinal, LedgerConstants
<1>2. Proved!Spec => Proved!DeliveryIsKept
  BY Proved!DeliveryStays, LedgerConstants
<1>3. Proved!Spec => Proved!MarkerIsLatched
  BY Proved!MarkerStaysLatched, LedgerConstants
<1>4. Proved!TerminalIsFinal => Ledger!TerminalIsFinal
  BY PTL DEF Proved!TerminalIsFinal, Ledger!TerminalIsFinal, Proved!vars, Ledger!vars,
         Proved!Exists, Ledger!Exists, Proved!IsOpen, Ledger!IsOpen,
         Proved!FinalState, Ledger!FinalState
<1>5. Proved!DeliveryIsKept => Ledger!DeliveryIsKept
  BY PTL DEF Proved!DeliveryIsKept, Ledger!DeliveryIsKept, Proved!vars, Ledger!vars,
         Proved!Exists, Ledger!Exists
<1>6. Proved!MarkerIsLatched => Ledger!MarkerIsLatched
  BY PTL DEF Proved!MarkerIsLatched, Ledger!MarkerIsLatched, Proved!vars, Ledger!vars,
         Proved!Exists, Ledger!Exists
<1> QED
  BY <1>1, <1>2, <1>3, <1>4, <1>5, <1>6, SameLedger, StoreImplementsLedger, PTL
     DEF ImplementsLedger

------------------------------------------------------------------------------
(* The decisions on one incident. *)

\* The incident and its history, under the theorems of WindowHistoryProofs.
Judged == INSTANCE WindowHistoryProofs WITH row <- rows[Watched]

\* The operators of those theorems are the ones the transactions apply.
LEMMA JudgedCardinality ==
  ASSUME NEW S
  PROVE  Judged!Cardinality(S) = Cardinality(S)
BY DEF Judged!Cardinality, Cardinality

LEMMA JudgedWindow ==
  ASSUME NEW row, NEW in
  PROVE  /\ Judged!Retained(row, in) = Retained(row, in)
         /\ Judged!IsReplay(row, in) = IsReplay(row, in)
         /\ Judged!IsCounted(row, in) = IsCounted(row, in)
         /\ Judged!WindowEnd(row, in) = WindowEnd(row, in)
         /\ Judged!NextStamps(row, in) = NextStamps(row, in)
         /\ Judged!WindowCrossed(row, in) = WindowCrossed(row, in)
<1>1. Judged!WindowEnd(row, in) = WindowEnd(row, in)
  BY DEF Judged!WindowEnd, WindowEnd, Judged!Later, Later
<1>2. \A ts : Judged!Inside(row, in, ts) = Inside(row, in, ts)
  BY <1>1 DEF Judged!Inside, Inside, Judged!WindowStart, WindowStart
<1>3. Judged!Retained(row, in) = Retained(row, in)
  BY <1>2 DEF Judged!Retained, Retained
<1>4. Judged!IsReplay(row, in) = IsReplay(row, in)
  BY <1>3 DEF Judged!IsReplay, IsReplay
<1>5. Judged!IsCounted(row, in) = IsCounted(row, in)
  BY <1>2, <1>4 DEF Judged!IsCounted, IsCounted
<1>6. \A stamps, n : Judged!Newest(stamps, n) = Newest(stamps, n)
  BY JudgedCardinality DEF Judged!Newest, Newest, Judged!Newer, Newer
<1>7. Judged!NextStamps(row, in) = NextStamps(row, in)
  BY <1>3, <1>5, <1>6 DEF Judged!NextStamps, NextStamps
<1>8. Judged!WindowCrossed(row, in) = WindowCrossed(row, in)
  BY <1>7, JudgedCardinality DEF Judged!WindowCrossed, WindowCrossed
<1> QED
  BY <1>1, <1>3, <1>4, <1>5, <1>7, <1>8

LEMMA JudgedWrites ==
  /\ \A key, in : Judged!NewIncident(key, in) = NewIncident(key, in)
  /\ \A row, in : Judged!ApplyProblem(row, in) = ApplyProblem(row, in)
  /\ \A row, object : Judged!ApplyRecovery(row, object) = ApplyRecovery(row, object)
  /\ \A row : Judged!ApplyAck(row) = ApplyAck(row)
  /\ \A row : Judged!ApplyClose(row) = ApplyClose(row)
  /\ \A row, plugin, result :
       Judged!ApplyDelivery(row, plugin, result) = ApplyDelivery(row, plugin, result)
<1>1. ASSUME NEW key, NEW in
      PROVE  Judged!NewIncident(key, in) = NewIncident(key, in)
  BY DEF Judged!NewIncident, NewIncident
<1>2. ASSUME NEW row, NEW in
      PROVE  Judged!ApplyProblem(row, in) = ApplyProblem(row, in)
  <2>1. Judged!NextCount(row, in) = NextCount(row, in)
    BY JudgedWindow DEF Judged!NextCount, NextCount
  <2>2. Judged!Latched(row, in) = Latched(row, in)
    BY JudgedWindow DEF Judged!Latched, Latched
  <2>3. Judged!PreservedDeliveries(row) = PreservedDeliveries(row)
    BY DEF Judged!PreservedDeliveries, PreservedDeliveries
  <2> QED
    BY <2>1, <2>2, <2>3, JudgedWindow DEF Judged!ApplyProblem, ApplyProblem
<1>3. ASSUME NEW row, NEW object
      PROVE  Judged!ApplyRecovery(row, object) = ApplyRecovery(row, object)
  BY DEF Judged!ApplyRecovery, ApplyRecovery, Judged!Recovers, Recovers
<1>4. ASSUME NEW row
      PROVE  /\ Judged!ApplyAck(row) = ApplyAck(row)
             /\ Judged!ApplyClose(row) = ApplyClose(row)
  BY DEF Judged!ApplyAck, ApplyAck, Judged!ApplyClose, ApplyClose
<1>5. ASSUME NEW row, NEW plugin, NEW result
      PROVE  Judged!ApplyDelivery(row, plugin, result) = ApplyDelivery(row, plugin, result)
  BY DEF Judged!ApplyDelivery, ApplyDelivery
<1> QED
  BY <1>1, <1>2, <1>3, <1>4, <1>5

LEMMA JudgedDecisions ==
  /\ \A in : Judged!InsertIntent(in) = InsertIntent(in)
  /\ \A row, in : Judged!UpdateIntent(row, in) = UpdateIntent(row, in)
  /\ \A row, in : Judged!IsCounted(row, in) = IsCounted(row, in)
  /\ \A row, object : Judged!Affected(row, object) = Affected(row, object)
<1>1. ASSUME NEW row, NEW in
      PROVE  Judged!UpdateIntent(row, in) = UpdateIntent(row, in)
  BY JudgedWindow DEF Judged!UpdateIntent, UpdateIntent,
                    Judged!FirstTransition, FirstTransition
<1>2. ASSUME NEW row, NEW object
      PROVE  Judged!Affected(row, object) = Affected(row, object)
  BY DEF Judged!Affected, Affected, Judged!Recovers, Recovers
<1> QED
  BY <1>1, <1>2, JudgedWindow DEF Judged!InsertIntent, InsertIntent

\* The store's constants are as those theorems assume.
LEMMA JudgedConstants ==
  /\ NoService \notin Services
  /\ Fingerprints \subseteq Nat
  /\ Times \subseteq Int
  /\ MaxWindowFingerprints \in Nat \ {0}
  /\ NoRow \notin Judged!Rows
  /\ Inputs \subseteq Judged!ProblemInputs
  /\ MaxDeliveries \in Nat \ {0}
<1>1. Judged!Rows = Rows
  BY DEF Judged!Rows, Rows, Judged!Statuses, Statuses, Judged!Stamps, Stamps,
         Judged!Objects, Objects, Judged!Results, Results
<1>2. Judged!ProblemInputs = ProblemInputs
  BY DEF Judged!ProblemInputs, ProblemInputs, Judged!Objects, Objects
<1> QED
  BY <1>1, <1>2, AggregationAssumption, NoRowAssumption, StoreAssumption, WatchAssumption

\* The commit of an INSERT is the event that opens the incident.
LEMMA OpeningFollows ==
  ASSUME StoreInv, NEW t \in Txs, CommitRecorded(t), NEW id \in Ids, Inserting(t, id)
  PROVE  Judged!Next
<1> DEFINE r == request[t]
<1>1. Commit(t) /\ Recorded(t) /\ id = Watched /\ r.kind = "problem"
  BY DEF CommitRecorded, Concerns, Inserting
<1>2. r.key \in Keys /\ r.in \in Inputs
  BY <1>1, RequestKinds DEF StoreInv, WellTyped
<1>3. rows[Watched] = NoRow
  BY <1>1 DEF Inserting, Exists
<1>4. rows'[Watched] = NewIncident(r.key, r.in)
  BY <1>1 DEF Commit, Inserting
<1>5. draft[t].counted = TRUE /\ draft[t].intent = InsertIntent(r.in)
  BY DEF Inserting, Ledger!AuditRow
<1>6. history' = Append(history, [in |-> r.in, counted |-> TRUE, intent |-> InsertIntent(r.in)])
  BY <1>1, <1>5 DEF Recorded
<1>7. Judged!Open(r.key, r.in)
  BY <1>3, <1>4, <1>6, JudgedWrites, JudgedDecisions DEF Judged!Open, Judged!Delivered
<1> QED
  BY <1>2, <1>7 DEF Judged!Next

\* What the commit of an UPDATE does to the incident.
LEMMA CommittedRow ==
  ASSUME StoreInv, NEW t \in Txs, Commit(t), Updating(t), Watched \in held[t]
  PROVE  /\ rows'[Watched] = Effect(request[t], rows[Watched])
         /\ Matches(request[t], Watched, rows[Watched]) /\ rows[Watched] # NoRow
         /\ request[t] \in AllRequests
BY WatchAssumption DEF Commit, Updating, Matches, StoreInv, WellTyped

\* The commit of an UPDATE for a problem is a delivery to the incident.
LEMMA MergingFollows ==
  ASSUME StoreInv, NEW t \in Txs, CommitRecorded(t), Updating(t)
  PROVE  Judged!Next
<1> DEFINE r == request[t]
           row == rows[Watched]
<1>1. Commit(t) /\ Recorded(t) /\ Watched \in held[t] /\ r.kind = "problem"
      /\ Len(history) < MaxDeliveries
  BY DEF CommitRecorded, Concerns
<1>2. /\ rows'[Watched] = Effect(r, row)
      /\ Matches(r, Watched, row) /\ row # NoRow /\ r \in AllRequests
  BY <1>1, CommittedRow
<1>3. r.in \in Inputs
  BY <1>1, <1>2, RequestKinds
<1>4. row.status = "OPEN"
  BY <1>1, <1>2 DEF Matches
<1>5. rows'[Watched] = ApplyProblem(row, r.in)
  BY <1>1, <1>2 DEF Effect
<1>6. draft[t].counted = IsCounted(row, r.in) /\ draft[t].intent = UpdateIntent(row, r.in)
  <2>1. PICK id \in Ids :
          /\ held[t] = {id}
          /\ draft[t] = Ledger!AuditRow({id}, IsCounted(rows[id], r.in),
                                              UpdateIntent(rows[id], r.in))
    BY <1>1 DEF Updating
  <2>2. id = Watched
    BY <1>1, <2>1
  <2> QED
    BY <2>1, <2>2 DEF Ledger!AuditRow
<1>7. history' = Append(history, [in |-> r.in, counted |-> IsCounted(row, r.in),
                                  intent |-> UpdateIntent(row, r.in)])
  BY <1>1, <1>6 DEF Recorded
<1>8. Judged!Merge(r.in)
  BY <1>1, <1>2, <1>4, <1>5, <1>7, JudgedWrites, JudgedDecisions
     DEF Judged!Merge, Judged!Delivered
<1> QED
  BY <1>3, <1>8 DEF Judged!Next

\* Any other commit recovers, acknowledges or ends the incident, records a
\* result, or leaves it alone.
LEMMA OthersFollow ==
  ASSUME StoreInv, NEW t \in Txs, Commit(t), ~Concerns(t), UNCHANGED history
  PROVE  [Judged!Next]_Judged!vars
<1> DEFINE r == request[t]
           row == rows[Watched]
<1>1. CASE Watched \notin held[t]
  <2>1. rows'[Watched] = row
    BY <1>1, WatchAssumption DEF Commit
  <2> QED
    BY <2>1 DEF Judged!vars
<1>2. CASE Watched \in held[t]
  <2>1. r.kind # "problem"
    BY <1>2 DEF Concerns, Commit
  <2>2. Updating(t)
    BY <2>1 DEF StoreInv, Written, Commit, Inserting
  <2>3. /\ rows'[Watched] = Effect(r, row)
        /\ Matches(r, Watched, row) /\ row # NoRow /\ r \in AllRequests
    BY <1>2, <2>2, CommittedRow
  <2>4. CASE r.kind = "recovery"
    <3>1. r.object \in Judged!Objects
      BY <2>3, <2>4, RequestKinds DEF Judged!Objects, Objects
    <3>2. Judged!Recover(r.object)
      BY <2>3, <2>4, JudgedWrites, JudgedDecisions DEF Judged!Recover, Matches, Effect
    <3> QED
      BY <3>1, <3>2 DEF Judged!Next
  <2>5. CASE r.kind = "ack"
    <3>1. Judged!Acknowledge
      BY <2>3, <2>5, JudgedWrites DEF Judged!Acknowledge, Matches, Effect
    <3> QED
      BY <3>1 DEF Judged!Next
  <2>6. CASE r.kind \in {"close", "expire"}
    <3>1. Judged!Close
      BY <2>3, <2>6, JudgedWrites DEF Judged!Close, Matches, Effect
    <3> QED
      BY <3>1 DEF Judged!Next
  <2>7. CASE r.kind = "delivery"
    <3>1. r.plugin \in Plugins /\ r.result \in Judged!Results \ {"none"}
      BY <2>3, <2>7, RequestKinds DEF Judged!Results, Results
    <3>2. Judged!RecordDelivery(r.plugin, r.result)
      BY <2>3, <2>7, JudgedWrites DEF Judged!RecordDelivery, Effect
    <3> QED
      BY <3>1, <3>2 DEF Judged!Next
  <2> QED
    BY <2>1, <2>3, <2>4, <2>5, <2>6, <2>7, RequestKinds
<1> QED
  BY <1>1, <1>2

\* Every step of the store is an event of the watched incident or leaves it alone.
LEMMA RecordedStep == StoreInv /\ [RecordedNext]_recorded => [Judged!Next]_Judged!vars
<1> SUFFICES ASSUME StoreInv, [RecordedNext]_recorded
             PROVE  [Judged!Next]_Judged!vars
  OBVIOUS
<1>1. ASSUME NEW t \in Txs, CommitRecorded(t)
      PROVE  Judged!Next
  <2>1. Updating(t) \/ \E id \in Ids : Inserting(t, id)
    BY <1>1 DEF CommitRecorded, Concerns, StoreInv, Written
  <2> QED
    BY <1>1, <2>1, OpeningFollows, MergingFollows
<1>2. ASSUME NEW t \in Txs, Elsewhere(t)
      PROVE  [Judged!Next]_Judged!vars
  <2>1. UNCHANGED history
    BY <1>2 DEF Elsewhere
  <2>2. CASE Commit(t)
    <3>1. pc'[t] = "done"
      BY <2>2 DEF Commit, StoreInv, WellTyped
    <3>2. ~Concerns(t)
      BY <1>2, <3>1 DEF Elsewhere
    <3> QED
      BY <2>1, <2>2, <3>2, OthersFollow
  <2>3. CASE ~Commit(t)
    <3>1. UNCHANGED Ledger!vars
      BY <1>2, <2>3, OnlyCommitsShow DEF Elsewhere, Proceed
    <3> QED
      BY <2>1, <3>1 DEF Ledger!vars, Judged!vars
  <2> QED
    BY <2>2, <2>3
<1>3. CASE UNCHANGED recorded
  BY <1>3 DEF recorded, vars, Judged!vars
<1> QED
  BY <1>1, <1>2, <1>3 DEF RecordedNext

\* The history only watches: what it records are behaviours of the store.
LEMMA HistoryOnlyWatches == RecordedSpec => Spec
<1>1. [RecordedNext]_recorded => [Next]_vars
  BY DEF RecordedNext, recorded, CommitRecorded, Elsewhere, Next, Proceed, vars
<1> QED
  BY <1>1, PTL DEF RecordedSpec, Spec

LEMMA IncidentIsJudged == RecordedSpec => Judged!Spec
<1>1. Init /\ history = <<>> => Judged!Init
  BY WatchAssumption DEF Init, Judged!Init
<1> QED
  BY <1>1, RecordedStep, HistoryOnlyWatches, StoreInvariant, PTL DEF RecordedSpec, Judged!Spec

\* The two instances read the history alike.
LEMMA JudgedAlike ==
  /\ \A S : Judged!Cardinality(S) = Window!Cardinality(S)
  /\ \A n : /\ Judged!Time(n) = Window!Time(n) /\ Judged!Fp(n) = Window!Fp(n)
            /\ Judged!Upto(n) = Window!Upto(n) /\ Judged!Front(n) = Window!Front(n)
            /\ Judged!Burst(n) = Window!Burst(n) /\ Judged!FreshBurst(n) = Window!FreshBurst(n)
  /\ Judged!OneWindow <=> Window!OneWindow
  /\ Judged!OneRule <=> Window!OneRule
<1>1. \A S : Judged!Cardinality(S) = Window!Cardinality(S)
  BY DEF Judged!Cardinality, Window!Cardinality
<1>2. \A n : Judged!Time(n) = Window!Time(n) /\ Judged!Fp(n) = Window!Fp(n)
             /\ Judged!Upto(n) = Window!Upto(n)
  BY DEF Judged!Time, Window!Time, Judged!Fp, Window!Fp, Judged!Upto, Window!Upto
<1>3. \A n : Judged!Front(n) = Window!Front(n)
  BY <1>2 DEF Judged!Front, Window!Front
<1>4. \A n : Judged!IsFirst(n) <=> Window!IsFirst(n)
  BY <1>2 DEF Judged!IsFirst, Window!IsFirst
<1>5. \A n : Judged!Burst(n) = Window!Burst(n)
  BY <1>2, <1>3 DEF Judged!Burst, Window!Burst
<1>6. \A n : Judged!FreshBurst(n) = Window!FreshBurst(n)
  BY <1>2, <1>3, <1>4 DEF Judged!FreshBurst, Window!FreshBurst
<1>7. Judged!OneWindow <=> Window!OneWindow
  BY DEF Judged!OneWindow, Window!OneWindow
<1>8. Judged!OneRule <=> Window!OneRule
  BY <1>7 DEF Judged!OneRule, Window!OneRule
<1> QED
  BY <1>1, <1>2, <1>3, <1>5, <1>6, <1>7, <1>8

\* For any transactions and any interleaving of their statements, with every wait,
\* deadlock victim, failure and rollback, and for any incident: its marker is set
\* only on a burst of the problems as they were committed, a burst sets it and plans
\* the notification, and no replay is counted inside its window.
THEOREM StoreDecidesRightly == RecordedSpec => []DecisionsAreRight
<1>1. Judged!Spec => []Judged!CrossingIsABurst
  BY Judged!NoFalseAlarm, JudgedConstants
<1>2. Judged!Spec => []Judged!BurstCrosses
  BY Judged!NoMissedAlarm, JudgedConstants
<1>3. Judged!Spec => []Judged!CountedOncePerWindow
  BY Judged!ReplaysDoNotCount, JudgedConstants
<1>4. Judged!CrossingIsABurst => Window!CrossingIsABurst
  BY JudgedAlike DEF Judged!CrossingIsABurst, Window!CrossingIsABurst
<1>5. Judged!BurstCrosses => Window!BurstCrosses
  BY JudgedAlike DEF Judged!BurstCrosses, Window!BurstCrosses
<1>6. Judged!CountedOncePerWindow => Window!CountedOncePerWindow
  BY JudgedAlike DEF Judged!CountedOncePerWindow, Window!CountedOncePerWindow
<1> QED
  BY <1>1, <1>2, <1>3, <1>4, <1>5, <1>6, IncidentIsJudged, PTL DEF DecisionsAreRight
==============================================================================
