------------------------- MODULE IncidentLedgerProofs -------------------------
(***************************************************************************)
(* Theorems about the incident ledger, for every set of keys, hosts,       *)
(* fingerprints, times, incidents and requests, and for histories of any   *)
(* length.  The lemmas of the first part are about the row operations of   *)
(* IncidentAggregation: what they return and which fields they leave.      *)
(***************************************************************************)
EXTENDS IncidentLedger, FiniteSetTheorems, TLAPS

------------------------------------------------------------------------------
\* The stamps map.

\* A function from fingerprints to times is a stamps map.
LEMMA StampsIntro ==
  ASSUME NEW S \in SUBSET Fingerprints, NEW f \in [S -> Times]
  PROVE  f \in Stamps
BY DEF Stamps

\* A stamps map is a function from fingerprints to times.
LEMMA StampsElim ==
  ASSUME NEW f \in Stamps
  PROVE  DOMAIN f \in SUBSET Fingerprints /\ f \in [DOMAIN f -> Times]
BY DEF Stamps

\* Cutting a stamps map back to its newest entries leaves a stamps map.
LEMMA NewestType ==
  ASSUME NEW stamps \in Stamps, NEW n
  PROVE  Newest(stamps, n) \in Stamps
<1> DEFINE S == {g \in DOMAIN stamps :
                   Cardinality({h \in DOMAIN stamps : Newer(stamps, h, g)}) < n}
<1>1. S \in SUBSET Fingerprints
  BY StampsElim
<1>2. [f \in S |-> stamps[f]] \in [S -> Times]
  BY StampsElim
<1>3. Newest(stamps, n) = [f \in S |-> stamps[f]]
  BY DEF Newest
<1> QED
  BY <1>1, <1>2, <1>3, StampsIntro

\* The next window of a row is a stamps map.
LEMMA NextStampsType ==
  ASSUME NEW row \in Rows, NEW in \in ProblemInputs
  PROVE  NextStamps(row, in) \in Stamps
<1> DEFINE kept   == Retained(row, in)
           domain == IF IsCounted(row, in) THEN kept \cup {in.fp} ELSE kept
           stamps == [f \in domain |-> IF f \in kept THEN row.stamps[f] ELSE in.time]
<1>1. row.stamps \in Stamps /\ in.fp \in Fingerprints /\ in.time \in Times
  BY DEF Rows, ProblemInputs
<1>2. kept \in SUBSET Fingerprints
  BY <1>1, StampsElim DEF Retained
<1>3. \A f \in kept : row.stamps[f] \in Times
  BY <1>1, StampsElim DEF Retained
<1>4. domain \in SUBSET Fingerprints
  BY <1>1, <1>2
<1>5. stamps \in [domain -> Times]
  BY <1>1, <1>3
<1>6. stamps \in Stamps
  BY <1>4, <1>5, StampsIntro
<1>7. NextStamps(row, in) = Newest(stamps, MaxWindowFingerprints)
  BY DEF NextStamps
<1> QED
  BY <1>6, <1>7, NewestType

------------------------------------------------------------------------------
\* The row operations return rows.

\* The newer of two times is one of them.
LEMMA LaterType ==
  ASSUME NEW a \in Times, NEW b \in Times
  PROVE  Later(a, b) \in Times /\ Later(a, b) >= a
BY AggregationAssumption DEF Later

\* The insert of a problem writes a row, OPEN and of the given key.
LEMMA NewIncidentType ==
  ASSUME NEW key \in Keys, NEW in \in ProblemInputs
  PROVE  /\ NewIncident(key, in) \in Rows
         /\ NewIncident(key, in).key = key
         /\ NewIncident(key, in).status = "OPEN"
         /\ NewIncident(key, in).crossed <=> 1 >= in.threshold
<1>1. /\ in.fp \in Fingerprints /\ in.time \in Times /\ in.object \in Objects
      /\ in.seconds \in Nat \ {0}
  BY DEF ProblemInputs
<1>2. [f \in {in.fp} |-> in.time] \in Stamps
  <2>1. {in.fp} \in SUBSET Fingerprints
    BY <1>1
  <2>2. [f \in {in.fp} |-> in.time] \in [{in.fp} -> Times]
    BY <1>1
  <2> QED
    BY <2>1, <2>2, StampsIntro
<1>3. [p \in Plugins |-> "none"] \in [Plugins -> Results]
  BY DEF Results
<1>4. (1 >= in.threshold) \in BOOLEAN
  OBVIOUS
<1>5. NewIncident(key, in) \in Rows
  BY <1>1, <1>2, <1>3, <1>4 DEF NewIncident, Rows, Statuses
<1>6. NewIncident(key, in).crossed = (1 >= in.threshold)
  BY DEF NewIncident
<1>7. NewIncident(key, in).key = key /\ NewIncident(key, in).status = "OPEN"
  BY DEF NewIncident
<1> QED
  BY <1>5, <1>6, <1>7

\* The update of a problem writes a row and keeps key, status and delivery
\* results; the marker is latched, the count and the last update do not fall.
LEMMA ApplyProblemType ==
  ASSUME NEW row \in Rows, NEW in \in ProblemInputs
  PROVE  /\ ApplyProblem(row, in) \in Rows
         /\ ApplyProblem(row, in).key = row.key
         /\ ApplyProblem(row, in).status = row.status
         /\ ApplyProblem(row, in).delivery = row.delivery
         /\ ApplyProblem(row, in).crossed <=> row.crossed \/ WindowCrossed(row, in)
         /\ ApplyProblem(row, in).event_count >= row.event_count
         /\ ApplyProblem(row, in).last_update >= row.last_update
<1>1. /\ in.time \in Times /\ in.object \in Objects /\ in.seconds \in Nat \ {0}
  BY DEF ProblemInputs
<1>2. NextStamps(row, in) \in Stamps
  BY NextStampsType
<1>3. /\ WindowEnd(row, in) \in Times
      /\ WindowEnd(row, in) >= row.last_update
  BY <1>1, LaterType DEF WindowEnd, Rows
<1>4. /\ NextCount(row, in) \in Nat
      /\ NextCount(row, in) >= row.event_count
  BY DEF NextCount, Rows
<1>5. Latched(row, in) \in BOOLEAN
  BY DEF Latched
<1>6. PreservedDeliveries(row) = row.delivery
  BY DEF PreservedDeliveries
<1> QED
  BY <1>1, <1>2, <1>3, <1>4, <1>5, <1>6 DEF ApplyProblem, Rows, Latched

\* A recovery writes a row: only membership and status change, and the status
\* stays or becomes RESOLVED.
LEMMA ApplyRecoveryType ==
  ASSUME NEW row \in Rows, NEW object
  PROVE  /\ ApplyRecovery(row, object) \in Rows
         /\ ApplyRecovery(row, object).key = row.key
         /\ ApplyRecovery(row, object).status \in {row.status, "RESOLVED"}
         /\ ApplyRecovery(row, object).delivery = row.delivery
         /\ ApplyRecovery(row, object).crossed = row.crossed
         /\ ApplyRecovery(row, object).event_count = row.event_count
         /\ ApplyRecovery(row, object).last_update = row.last_update
BY DEF ApplyRecovery, Rows, Statuses

\* An acknowledgement writes a row and leaves all but the acknowledgement.
LEMMA ApplyAckType ==
  ASSUME NEW row \in Rows
  PROVE  /\ ApplyAck(row) \in Rows
         /\ ApplyAck(row).key = row.key
         /\ ApplyAck(row).status = row.status
         /\ ApplyAck(row).delivery = row.delivery
         /\ ApplyAck(row).crossed = row.crossed
         /\ ApplyAck(row).event_count = row.event_count
         /\ ApplyAck(row).last_update = row.last_update
BY DEF ApplyAck, Rows

\* A close writes a CLOSED row and leaves all but the status.
LEMMA ApplyCloseType ==
  ASSUME NEW row \in Rows
  PROVE  /\ ApplyClose(row) \in Rows
         /\ ApplyClose(row).key = row.key
         /\ ApplyClose(row).status = "CLOSED"
         /\ ApplyClose(row).delivery = row.delivery
         /\ ApplyClose(row).crossed = row.crossed
         /\ ApplyClose(row).event_count = row.event_count
         /\ ApplyClose(row).last_update = row.last_update
BY DEF ApplyClose, Rows, Statuses

\* A delivery record writes a row and leaves all but the delivery results.
LEMMA ApplyDeliveryType ==
  ASSUME NEW row \in Rows, NEW plugin \in Plugins, NEW result \in Results
  PROVE  /\ ApplyDelivery(row, plugin, result) \in Rows
         /\ ApplyDelivery(row, plugin, result) =
              [row EXCEPT !.delivery = [row.delivery EXCEPT ![plugin] = result]]
BY DEF ApplyDelivery, Rows

------------------------------------------------------------------------------
\* Type correctness.

\* A row is not the absence of one, and the table holds one or the other.
LEMMA RowsExist ==
  ASSUME TypeOK, NEW id \in Ids
  PROVE  Exists(id) <=> rows[id] \in Rows
BY NoRowAssumption DEF TypeOK, Exists

\* An audit row is not the absence of one.
LEMMA AuditRowType ==
  ASSUME NEW S \in SUBSET Ids, NEW counted \in BOOLEAN,
         NEW intent \in {"dispatch_planned", "no_dispatch"}
  PROVE  /\ AuditRow(S, counted, intent) \in AuditRows
         /\ AuditRow(S, counted, intent) # NoAudit
BY NoAuditAssumption DEF AuditRow, AuditRows

\* The intents are the two the decision summary knows.
LEMMA IntentType ==
  ASSUME NEW row, NEW in
  PROVE  /\ InsertIntent(in) \in {"dispatch_planned", "no_dispatch"}
         /\ UpdateIntent(row, in) \in {"dispatch_planned", "no_dispatch"}
BY DEF InsertIntent, UpdateIntent

\* Every step of the ledger writes rows and audit rows.
LEMMA TypeStep == TypeOK /\ [Next]_vars => TypeOK'
<1> SUFFICES ASSUME TypeOK, [Next]_vars
             PROVE  TypeOK'
  OBVIOUS
<1>1. ASSUME NEW t \in Txs, NEW id \in Ids, NEW in \in Inputs, NEW key \in Keys,
             OpenIncident(t, id, key, in)
      PROVE  TypeOK'
  <2>1. in \in ProblemInputs
    BY LedgerAssumption
  <2>2. NewIncident(key, in) \in Rows
    BY <2>1, NewIncidentType
  <2>3. AuditRow({id}, TRUE, InsertIntent(in)) \in AuditRows
    BY AuditRowType, IntentType
  <2> QED
    BY <1>1, <2>2, <2>3 DEF OpenIncident, TypeOK
<1>2. ASSUME NEW t \in Txs, NEW id \in Ids, NEW in \in Inputs, MergeProblem(t, id, in)
      PROVE  TypeOK'
  <2>1. in \in ProblemInputs /\ rows[id] \in Rows
    BY <1>2, LedgerAssumption, RowsExist DEF MergeProblem, IsOpen
  <2>2. ApplyProblem(rows[id], in) \in Rows
    BY <2>1, ApplyProblemType
  <2>3. IsCounted(rows[id], in) \in BOOLEAN
    BY DEF IsCounted
  <2>4. AuditRow({id}, IsCounted(rows[id], in), UpdateIntent(rows[id], in)) \in AuditRows
    BY <2>3, AuditRowType, IntentType
  <2> QED
    BY <1>2, <2>2, <2>4 DEF MergeProblem, TypeOK
<1>3. ASSUME NEW t \in Txs, NEW object \in Objects, NEW S \in SUBSET Ids,
             Recover(t, object, S)
      PROVE  TypeOK'
  <2>1. \A id \in S : ApplyRecovery(rows[id], object) \in Rows
    BY <1>3, RowsExist, ApplyRecoveryType DEF Recover, IsOpen
  <2>2. AuditRow(S, FALSE, "no_dispatch") \in AuditRows
    BY AuditRowType
  <2> QED
    BY <1>3, <2>1, <2>2 DEF Recover, TypeOK
<1>4. ASSUME NEW id \in Ids, Acknowledge(id)
      PROVE  TypeOK'
  <2>1. ApplyAck(rows[id]) \in Rows
    BY <1>4, RowsExist, ApplyAckType DEF Acknowledge, IsOpen
  <2> QED
    BY <1>4, <2>1 DEF Acknowledge, TypeOK
<1>5. ASSUME NEW S \in SUBSET Ids, Close(S)
      PROVE  TypeOK'
  <2>1. \A id \in S : ApplyClose(rows[id]) \in Rows
    BY <1>5, RowsExist, ApplyCloseType DEF Close, IsOpen
  <2> QED
    BY <1>5, <2>1 DEF Close, TypeOK
<1>6. ASSUME NEW id \in Ids, NEW plugin \in Plugins, NEW result \in Results \ {"none"},
             RecordDelivery(id, plugin, result)
      PROVE  TypeOK'
  <2>1. ApplyDelivery(rows[id], plugin, result) \in Rows
    BY <1>6, RowsExist, ApplyDeliveryType DEF RecordDelivery
  <2> QED
    BY <1>6, <2>1 DEF RecordDelivery, TypeOK
<1>7. CASE UNCHANGED vars
  BY <1>7 DEF vars, TypeOK
<1> QED
  BY <1>1, <1>2, <1>3, <1>4, <1>5, <1>6, <1>7 DEF Next

\* The rows and the audit rows of every reachable ledger are well formed: each
\* write of app/persistence/incidents.py returns a row.
THEOREM TypeCorrect == Spec => []TypeOK
<1>1. Init => TypeOK
  BY DEF Init, TypeOK
<1> QED
  BY <1>1, TypeStep, PTL DEF Spec

------------------------------------------------------------------------------
\* How a row may evolve.

\* The row without its delivery results.
Final(row) == [row EXCEPT !.delivery = [p \in Plugins |-> "none"]]

\* What no write may undo.
Evolves(old, new) ==
  /\ new \in Rows
  /\ new.key = old.key
  /\ new.status = "OPEN" => old.status = "OPEN"
  /\ old.crossed => new.crossed
  /\ old.event_count <= new.event_count
  /\ old.last_update <= new.last_update
  /\ \A p \in Plugins : old.delivery[p] # "none" => new.delivery[p] # "none"
  /\ old.status # "OPEN" => Final(new) = Final(old)

\* The counters of a row are numbers.
LEMMA RowNumbers ==
  ASSUME NEW row \in Rows
  PROVE  row.event_count \in Int /\ row.last_update \in Int
<1>1. row.event_count \in Nat /\ row.last_update \in Times
  BY DEF Rows
<1>2. Times \subseteq Int
  BY AggregationAssumption
<1>3. row.event_count \in Int
  BY <1>1
<1>4. row.last_update \in Int
  BY <1>1, <1>2
<1> QED
  BY <1>3, <1>4

\* A row that is not written evolves.
LEMMA EvolvesUnchanged ==
  ASSUME NEW row \in Rows
  PROVE  Evolves(row, row)
BY RowNumbers DEF Evolves

\* So does an OPEN row under a problem, a recovery, an acknowledgement, a close.
LEMMA EvolvesOpen ==
  ASSUME NEW row \in Rows, row.status = "OPEN"
  PROVE  /\ \A in \in ProblemInputs : Evolves(row, ApplyProblem(row, in))
         /\ \A object : Evolves(row, ApplyRecovery(row, object))
         /\ Evolves(row, ApplyAck(row))
         /\ Evolves(row, ApplyClose(row))
<1>1. ASSUME NEW in \in ProblemInputs
      PROVE  Evolves(row, ApplyProblem(row, in))
  <2>1. ApplyProblem(row, in) \in Rows
    BY ApplyProblemType
  <2> QED
    BY <2>1, ApplyProblemType, RowNumbers DEF Evolves
<1>2. ASSUME NEW object
      PROVE  Evolves(row, ApplyRecovery(row, object))
  BY ApplyRecoveryType, RowNumbers DEF Evolves
<1>3. Evolves(row, ApplyAck(row))
  BY ApplyAckType, RowNumbers DEF Evolves
<1>4. Evolves(row, ApplyClose(row))
  BY ApplyCloseType, RowNumbers DEF Evolves
<1> QED
  BY <1>1, <1>2, <1>3, <1>4

\* And any row under a delivery record.
LEMMA EvolvesDelivery ==
  ASSUME NEW row \in Rows, NEW plugin \in Plugins, NEW result \in Results \ {"none"}
  PROVE  Evolves(row, ApplyDelivery(row, plugin, result))
<1> DEFINE new == ApplyDelivery(row, plugin, result)
<1>1. /\ new \in Rows
      /\ new = [row EXCEPT !.delivery = [row.delivery EXCEPT ![plugin] = result]]
  BY ApplyDeliveryType
<1>2. /\ new.key = row.key /\ new.status = row.status /\ new.crossed = row.crossed
      /\ new.event_count = row.event_count /\ new.last_update = row.last_update
  BY <1>1 DEF Rows
<1>3. \A p \in Plugins : row.delivery[p] # "none" => new.delivery[p] # "none"
  BY <1>1 DEF Rows
<1>4. Final(new) = Final(row)
  BY <1>1 DEF Final, Rows
<1> QED
  BY <1>1, <1>2, <1>3, <1>4, RowNumbers DEF Evolves

\* Every step lets every existing row evolve.
LEMMA RowStep ==
  ASSUME TypeOK, [Next]_vars, NEW id \in Ids, Exists(id)
  PROVE  Evolves(rows[id], rows'[id])
<1>1. rows[id] \in Rows
  BY RowsExist
<1>2. CASE rows'[id] = rows[id]
  BY <1>1, <1>2, EvolvesUnchanged
<1>3. ASSUME NEW t \in Txs, NEW i \in Ids, NEW in \in Inputs, NEW key \in Keys,
             OpenIncident(t, i, key, in)
      PROVE  Evolves(rows[id], rows'[id])
  <2>1. i # id
    BY <1>3 DEF OpenIncident
  <2> QED
    BY <1>2, <1>3, <2>1 DEF OpenIncident, TypeOK
<1>4. ASSUME NEW t \in Txs, NEW i \in Ids, NEW in \in Inputs, MergeProblem(t, i, in)
      PROVE  Evolves(rows[id], rows'[id])
  <2>1. CASE i = id
    <3>1. rows[id].status = "OPEN" /\ in \in ProblemInputs
      BY <1>4, <2>1, LedgerAssumption DEF MergeProblem, IsOpen
    <3>2. rows'[id] = ApplyProblem(rows[id], in)
      BY <1>4, <2>1 DEF MergeProblem, TypeOK
    <3> QED
      BY <1>1, <3>1, <3>2, EvolvesOpen
  <2>2. CASE i # id
    BY <1>2, <1>4, <2>2 DEF MergeProblem, TypeOK
  <2> QED
    BY <2>1, <2>2
<1>5. ASSUME NEW t \in Txs, NEW object \in Objects, NEW S \in SUBSET Ids,
             Recover(t, object, S)
      PROVE  Evolves(rows[id], rows'[id])
  <2>1. CASE id \in S
    <3>1. rows[id].status = "OPEN"
      BY <1>5, <2>1 DEF Recover, IsOpen
    <3>2. rows'[id] = ApplyRecovery(rows[id], object)
      BY <1>5, <2>1 DEF Recover
    <3> QED
      BY <1>1, <3>1, <3>2, EvolvesOpen
  <2>2. CASE id \notin S
    BY <1>2, <1>5, <2>2 DEF Recover
  <2> QED
    BY <2>1, <2>2
<1>6. ASSUME NEW i \in Ids, Acknowledge(i)
      PROVE  Evolves(rows[id], rows'[id])
  <2>1. CASE i = id
    <3>1. rows[id].status = "OPEN"
      BY <1>6, <2>1 DEF Acknowledge, IsOpen
    <3>2. rows'[id] = ApplyAck(rows[id])
      BY <1>6, <2>1 DEF Acknowledge, TypeOK
    <3> QED
      BY <1>1, <3>1, <3>2, EvolvesOpen
  <2>2. CASE i # id
    BY <1>2, <1>6, <2>2 DEF Acknowledge, TypeOK
  <2> QED
    BY <2>1, <2>2
<1>7. ASSUME NEW S \in SUBSET Ids, Close(S)
      PROVE  Evolves(rows[id], rows'[id])
  <2>1. CASE id \in S
    <3>1. rows[id].status = "OPEN"
      BY <1>7, <2>1 DEF Close, IsOpen
    <3>2. rows'[id] = ApplyClose(rows[id])
      BY <1>7, <2>1 DEF Close
    <3> QED
      BY <1>1, <3>1, <3>2, EvolvesOpen
  <2>2. CASE id \notin S
    BY <1>2, <1>7, <2>2 DEF Close
  <2> QED
    BY <2>1, <2>2
<1>8. ASSUME NEW i \in Ids, NEW plugin \in Plugins, NEW result \in Results \ {"none"},
             RecordDelivery(i, plugin, result)
      PROVE  Evolves(rows[id], rows'[id])
  <2>1. CASE i = id
    <3>1. rows'[id] = ApplyDelivery(rows[id], plugin, result)
      BY <1>8, <2>1 DEF RecordDelivery, TypeOK
    <3> QED
      BY <1>1, <3>1, EvolvesDelivery
  <2>2. CASE i # id
    BY <1>2, <1>8, <2>2 DEF RecordDelivery, TypeOK
  <2> QED
    BY <2>1, <2>2
<1>9. CASE UNCHANGED vars
  BY <1>2, <1>9 DEF vars
<1> QED
  BY <1>3, <1>4, <1>5, <1>6, <1>7, <1>8, <1>9 DEF Next

\* Only the first problem of a group brings a row into being.
LEMMA NewRowStep ==
  ASSUME TypeOK, [Next]_vars, NEW id \in Ids, ~Exists(id), Exists(id)'
  PROVE  \E t \in Txs, in \in Inputs, key \in Keys : OpenIncident(t, id, key, in)
<1>1. rows'[id] # rows[id]
  BY DEF Exists
<1>2. ASSUME NEW t \in Txs, NEW i \in Ids, NEW in \in Inputs, NEW key \in Keys,
             OpenIncident(t, i, key, in)
      PROVE  OpenIncident(t, id, key, in)
  <2>1. i = id
    BY <1>1, <1>2 DEF OpenIncident, TypeOK
  <2> QED
    BY <1>2, <2>1
<1>3. ASSUME NEW t \in Txs, NEW i \in Ids, NEW in \in Inputs, MergeProblem(t, i, in)
      PROVE  FALSE
  BY <1>1, <1>3 DEF MergeProblem, IsOpen, Exists, TypeOK
<1>4. ASSUME NEW t \in Txs, NEW object \in Objects, NEW S \in SUBSET Ids,
             Recover(t, object, S)
      PROVE  FALSE
  BY <1>1, <1>4 DEF Recover, IsOpen, Exists
<1>5. ASSUME NEW i \in Ids, Acknowledge(i)
      PROVE  FALSE
  BY <1>1, <1>5 DEF Acknowledge, IsOpen, Exists, TypeOK
<1>6. ASSUME NEW S \in SUBSET Ids, Close(S)
      PROVE  FALSE
  BY <1>1, <1>6 DEF Close, IsOpen, Exists
<1>7. ASSUME NEW i \in Ids, NEW plugin \in Plugins, NEW result \in Results \ {"none"},
             RecordDelivery(i, plugin, result)
      PROVE  FALSE
  BY <1>1, <1>7 DEF RecordDelivery, Exists, TypeOK
<1>8. CASE UNCHANGED vars
  BY <1>1, <1>8 DEF vars
<1> QED
  BY <1>2, <1>3, <1>4, <1>5, <1>6, <1>7, <1>8 DEF Next

------------------------------------------------------------------------------
\* At most one OPEN incident per (rule, group).

\* No step gives a (rule, group) a second OPEN incident.
LEMMA OneOpenStep == TypeOK /\ OneOpenPerKey /\ [Next]_vars => OneOpenPerKey'
<1> SUFFICES ASSUME TypeOK, OneOpenPerKey, [Next]_vars,
                    NEW i \in Ids, NEW j \in Ids,
                    IsOpen(i)', IsOpen(j)', rows'[i].key = rows'[j].key
             PROVE  i = j
  BY DEF OneOpenPerKey
\* An existing row that is OPEN after the step was OPEN before, with its key.
<1>1. ASSUME NEW id \in Ids, Exists(id), IsOpen(id)'
      PROVE  IsOpen(id) /\ rows[id].key = rows'[id].key
  BY <1>1, RowStep DEF Evolves, IsOpen
<1>2. CASE Exists(i) /\ Exists(j)
  BY <1>1, <1>2 DEF OneOpenPerKey
\* A row that comes into being finds no OPEN row of its key.
<1>3. ASSUME NEW new \in Ids, ~Exists(new), IsOpen(new)',
             NEW other \in Ids, IsOpen(other)', rows'[new].key = rows'[other].key
      PROVE  new = other
  <2>1. PICK t \in Txs, in \in Inputs, key \in Keys : OpenIncident(t, new, key, in)
    BY <1>3, NewRowStep DEF IsOpen
  <2>2. rows'[new].key = key
    BY <2>1, LedgerAssumption, NewIncidentType DEF OpenIncident, TypeOK
  <2>3. CASE Exists(other)
    <3>1. IsOpen(other) /\ rows[other].key = key
      BY <1>1, <1>3, <2>2, <2>3
    <3> QED
      BY <2>1, <3>1 DEF OpenIncident, OpenFor
  <2>4. CASE ~Exists(other)
    BY <1>3, <2>1, <2>4 DEF OpenIncident, IsOpen, Exists, TypeOK
  <2> QED
    BY <2>3, <2>4
<1> QED
  BY <1>2, <1>3

\* The partial unique index and the writes that respect it: no history of
\* problems, recoveries, commands, sweeps and delivery records leads to two
\* OPEN incidents of one (rule, group).
THEOREM OneOpen == Spec => []OneOpenPerKey
<1>1. Init => OneOpenPerKey
  BY DEF Init, OneOpenPerKey, IsOpen, Exists
<1> QED
  BY <1>1, TypeCorrect, OneOpenStep, PTL DEF Spec

------------------------------------------------------------------------------
\* What no step may do.

\* No write changes a RESOLVED or CLOSED incident, but for its delivery results.
THEOREM TerminalStaysFinal == Spec => TerminalIsFinal
<1>1. ASSUME TypeOK, [Next]_vars, NEW id \in Ids, Exists(id), ~IsOpen(id)
      PROVE  FinalState(id)' = FinalState(id)
  BY <1>1, RowStep DEF Evolves, Final, FinalState, IsOpen
<1>2. TypeOK /\ [Next]_vars =>
        [\A id \in Ids : Exists(id) /\ ~IsOpen(id) => FinalState(id)' = FinalState(id)]_vars
  BY <1>1
<1> QED
  BY <1>2, TypeCorrect, PTL DEF Spec, TerminalIsFinal

\* No write erases a delivery result.
THEOREM DeliveryStays == Spec => DeliveryIsKept
<1>1. ASSUME TypeOK, [Next]_vars, NEW id \in Ids, NEW p \in Plugins,
             Exists(id), rows[id].delivery[p] # "none"
      PROVE  rows'[id].delivery[p] # "none"
  BY <1>1, RowStep DEF Evolves
<1>2. TypeOK /\ [Next]_vars =>
        [\A id \in Ids, p \in Plugins :
           Exists(id) /\ rows[id].delivery[p] # "none"
             => rows'[id].delivery[p] # "none"]_vars
  BY <1>1
<1> QED
  BY <1>2, TypeCorrect, PTL DEF Spec, DeliveryIsKept

\* No write clears the crossing marker, lowers the count or moves the last
\* update back.
THEOREM MarkerStaysLatched == Spec => MarkerIsLatched
<1>1. ASSUME TypeOK, [Next]_vars, NEW id \in Ids, Exists(id)
      PROVE  /\ rows[id].crossed => rows'[id].crossed
             /\ rows[id].event_count <= rows'[id].event_count
             /\ rows[id].last_update <= rows'[id].last_update
  BY <1>1, RowStep DEF Evolves
<1>2. TypeOK /\ [Next]_vars =>
        [\A id \in Ids :
           Exists(id) =>
             /\ rows[id].crossed => rows'[id].crossed
             /\ rows[id].event_count <= rows'[id].event_count
             /\ rows[id].last_update <= rows'[id].last_update]_vars
  BY <1>1
<1> QED
  BY <1>2, TypeCorrect, PTL DEF Spec, MarkerIsLatched

------------------------------------------------------------------------------
\* The audit trail against the incidents.

\* Writing the audit row of request u changes no other request's.
LEMMA AuditWrite ==
  ASSUME audit \in [Txs -> AuditRows \cup {NoAudit}], NEW t \in Txs, NEW u \in Txs, NEW row,
         audit[u] = NoAudit, audit' = [audit EXCEPT ![u] = row], audit'[t] # audit[t]
  PROVE  u = t /\ audit[t] = NoAudit /\ \A v \in Txs \ {t} : audit'[v] = audit[v]
OBVIOUS

\* A step writes the audit row of at most one request, once: the first problem
\* of a group, a merged problem or a recovery writes it with the incidents.
LEMMA AuditStep ==
  ASSUME TypeOK, [Next]_vars, NEW t \in Txs, audit'[t] # audit[t]
  PROVE  /\ audit[t] = NoAudit
         /\ \A u \in Txs \ {t} : audit'[u] = audit[u]
         /\ \/ \E id \in Ids, in \in Inputs, key \in Keys : OpenIncident(t, id, key, in)
            \/ \E id \in Ids, in \in Inputs : MergeProblem(t, id, in)
            \/ \E object \in Objects, S \in SUBSET Ids : Recover(t, object, S)
<1>1. ASSUME NEW u \in Txs, NEW id \in Ids, NEW in \in Inputs, NEW key \in Keys,
             OpenIncident(u, id, key, in)
      PROVE  u = t /\ audit[t] = NoAudit /\ \A v \in Txs \ {t} : audit'[v] = audit[v]
  BY <1>1, AuditWrite DEF OpenIncident, TypeOK
<1>2. ASSUME NEW u \in Txs, NEW id \in Ids, NEW in \in Inputs, MergeProblem(u, id, in)
      PROVE  u = t /\ audit[t] = NoAudit /\ \A v \in Txs \ {t} : audit'[v] = audit[v]
  BY <1>2, AuditWrite DEF MergeProblem, TypeOK
<1>3. ASSUME NEW u \in Txs, NEW object \in Objects, NEW S \in SUBSET Ids,
             Recover(u, object, S)
      PROVE  u = t /\ audit[t] = NoAudit /\ \A v \in Txs \ {t} : audit'[v] = audit[v]
  BY <1>3, AuditWrite DEF Recover, TypeOK
<1>4. UNCHANGED audit => FALSE
  OBVIOUS
<1> QED
  BY <1>1, <1>2, <1>3, <1>4 DEF Next, Acknowledge, Close, RecordDelivery, vars

\* A request that comes to plan a notification for an incident finds it absent
\* or not crossed, leaves it crossed, and is the only one to write its row.
LEMMA PlanStep ==
  ASSUME TypeOK, [Next]_vars, NEW id \in Ids, NEW t \in Txs,
         t \in PlannedBy(id)', t \notin PlannedBy(id)
  PROVE  /\ ~(Exists(id) /\ rows[id].crossed)
         /\ Exists(id)' /\ rows'[id].crossed
         /\ \A u \in Txs \ {t} : audit'[u] = audit[u]
<1>1. /\ audit'[t] # audit[t]
      /\ id \in audit'[t].incidents
      /\ audit'[t].intent = "dispatch_planned"
  BY DEF PlannedBy
<1>2. ASSUME NEW i \in Ids, NEW in \in Inputs, NEW key \in Keys,
             OpenIncident(t, i, key, in)
      PROVE  /\ ~(Exists(id) /\ rows[id].crossed)
             /\ Exists(id)' /\ rows'[id].crossed
  <2>1. audit'[t] = AuditRow({i}, TRUE, InsertIntent(in))
    BY <1>2 DEF OpenIncident, TypeOK
  <2>2. i = id /\ 1 >= in.threshold
    BY <1>1, <2>1 DEF AuditRow, InsertIntent
  <2>3. rows'[id] = NewIncident(key, in) /\ ~Exists(id)
    BY <1>2, <2>2 DEF OpenIncident, TypeOK
  <2>4. NewIncident(key, in) \in Rows /\ NewIncident(key, in).crossed
    BY <2>2, LedgerAssumption, NewIncidentType
  <2> QED
    BY <2>3, <2>4, NoRowAssumption DEF Exists
<1>3. ASSUME NEW i \in Ids, NEW in \in Inputs, MergeProblem(t, i, in)
      PROVE  /\ ~(Exists(id) /\ rows[id].crossed)
             /\ Exists(id)' /\ rows'[id].crossed
  <2>1. audit'[t] = AuditRow({i}, IsCounted(rows[i], in), UpdateIntent(rows[i], in))
    BY <1>3 DEF MergeProblem, TypeOK
  <2>2. i = id /\ UpdateIntent(rows[id], in) = "dispatch_planned"
    BY <1>1, <2>1 DEF AuditRow
  <2>3. ~rows[id].crossed /\ WindowCrossed(rows[id], in)
    BY <2>2 DEF UpdateIntent, FirstTransition
  <2>4. rows[id] \in Rows /\ in \in ProblemInputs
    BY <1>3, <2>2, RowsExist, LedgerAssumption DEF MergeProblem, IsOpen
  <2>5. ApplyProblem(rows[id], in) \in Rows /\ ApplyProblem(rows[id], in).crossed
    BY <2>3, <2>4, ApplyProblemType
  <2>6. rows'[id] = ApplyProblem(rows[id], in)
    BY <1>3, <2>2 DEF MergeProblem, TypeOK
  <2> QED
    BY <2>3, <2>5, <2>6, NoRowAssumption DEF Exists
<1>4. ASSUME NEW object \in Objects, NEW S \in SUBSET Ids, Recover(t, object, S)
      PROVE  FALSE
  BY <1>1, <1>4 DEF Recover, AuditRow, TypeOK
<1> QED
  BY <1>1, <1>2, <1>3, <1>4, AuditStep

\* No step plans a second notification for an incident.
LEMMA PlannedStep == TypeOK /\ PlannedOnce /\ [Next]_vars => PlannedOnce'
<1> SUFFICES ASSUME TypeOK, PlannedOnce, [Next]_vars, NEW id \in Ids
             PROVE  /\ \A t, u \in PlannedBy(id)' : t = u
                    /\ PlannedBy(id)' # {} => Exists(id)' /\ rows'[id].crossed
  BY DEF PlannedOnce
<1>1. PlannedBy(id)' \subseteq Txs
  BY DEF PlannedBy
<1>2. CASE PlannedBy(id)' \subseteq PlannedBy(id)
  <2>1. ASSUME PlannedBy(id)' # {}
        PROVE  Exists(id)' /\ rows'[id].crossed
    <3>1. Exists(id) /\ rows[id].crossed
      BY <1>2, <2>1 DEF PlannedOnce
    <3>2. rows'[id] \in Rows /\ rows'[id].crossed
      BY <3>1, RowStep DEF Evolves
    <3> QED
      BY <3>2, NoRowAssumption DEF Exists
  <2> QED
    BY <1>2, <2>1 DEF PlannedOnce
<1>3. ASSUME NEW t \in PlannedBy(id)', t \notin PlannedBy(id)
      PROVE  /\ \A u \in PlannedBy(id)' : u = t
             /\ Exists(id)' /\ rows'[id].crossed
  <2>1. /\ ~(Exists(id) /\ rows[id].crossed)
        /\ Exists(id)' /\ rows'[id].crossed
        /\ \A u \in Txs \ {t} : audit'[u] = audit[u]
    BY <1>1, <1>3, PlanStep
  <2>2. PlannedBy(id) = {}
    BY <2>1 DEF PlannedOnce
  <2>3. \A u \in PlannedBy(id)' : u = t
    BY <1>1, <2>1, <2>2 DEF PlannedBy
  <2> QED
    BY <2>1, <2>3
<1> QED
  BY <1>2, <1>3

\* At most one committed request ever plans a notification for an incident:
\* the latch of threshold_crossed is written by the transaction that plans.
THEOREM PlannedAtMostOnce == Spec => []PlannedOnce
<1>1. Init => PlannedOnce
  BY DEF Init, PlannedOnce, PlannedBy
<1> QED
  BY <1>1, TypeCorrect, PlannedStep, PTL DEF Spec
\* What CountIsAudited needs to be inductive: finitely many audit rows count
\* for an incident, and none does before the incident exists.
CountInv ==
  \A id \in Ids :
    /\ IsFiniteSet(CountedBy(id))
    /\ Exists(id) => rows[id].event_count = Cardinality(CountedBy(id))
    /\ ~Exists(id) => CountedBy(id) = {}

\* What the audit row of a request adds to the rows that count for incident i.
LEMMA CountWrite ==
  ASSUME audit \in [Txs -> AuditRows \cup {NoAudit}], NEW t \in Txs,
         NEW S \in SUBSET Ids, NEW counted \in BOOLEAN,
         NEW intent \in {"dispatch_planned", "no_dispatch"},
         audit[t] = NoAudit, audit' = [audit EXCEPT ![t] = AuditRow(S, counted, intent)],
         NEW i \in Ids
  PROVE  /\ counted /\ i \in S => CountedBy(i)' = CountedBy(i) \cup {t} /\ t \notin CountedBy(i)
         /\ ~counted => CountedBy(i)' = CountedBy(i)
         /\ i \notin S => CountedBy(i)' = CountedBy(i)
<1>1. t \notin CountedBy(i)
  BY DEF CountedBy
<1>2. \A u \in Txs \ {t} : u \in CountedBy(i)' <=> u \in CountedBy(i)
  BY DEF CountedBy
<1>3. t \in CountedBy(i)' <=> counted /\ i \in S
  BY AuditRowType DEF CountedBy, AuditRow
<1>4. CountedBy(i) \subseteq Txs /\ CountedBy(i)' \subseteq Txs
  BY DEF CountedBy
<1> QED
  BY <1>1, <1>2, <1>3, <1>4

\* A row that keeps its count, under an audit trail that counts no more for it.
LEMMA CountKept ==
  ASSUME CountInv, NEW i \in Ids, CountedBy(i)' = CountedBy(i),
         Exists(i)' <=> Exists(i),
         Exists(i) => rows'[i].event_count = rows[i].event_count
  PROVE  /\ IsFiniteSet(CountedBy(i)')
         /\ Exists(i)' => rows'[i].event_count = Cardinality(CountedBy(i)')
         /\ ~Exists(i)' => CountedBy(i)' = {}
BY DEF CountInv

\* Every step keeps the counts and the audit trail together.
LEMMA CountStep == TypeOK /\ CountInv /\ [Next]_vars => CountInv'
<1> SUFFICES ASSUME TypeOK, CountInv, [Next]_vars, NEW i \in Ids
             PROVE  /\ IsFiniteSet(CountedBy(i)')
                    /\ Exists(i)' => rows'[i].event_count = Cardinality(CountedBy(i)')
                    /\ ~Exists(i)' => CountedBy(i)' = {}
  BY DEF CountInv
<1>1. ASSUME NEW t \in Txs, NEW id \in Ids, NEW in \in Inputs, NEW key \in Keys,
             OpenIncident(t, id, key, in)
      PROVE  /\ IsFiniteSet(CountedBy(i)')
             /\ Exists(i)' => rows'[i].event_count = Cardinality(CountedBy(i)')
             /\ ~Exists(i)' => CountedBy(i)' = {}
  <2>1. /\ audit[t] = NoAudit
        /\ audit' = [audit EXCEPT ![t] = AuditRow({id}, TRUE, InsertIntent(in))]
        /\ audit \in [Txs -> AuditRows \cup {NoAudit}]
        /\ {id} \in SUBSET Ids
    BY <1>1 DEF OpenIncident, TypeOK
  <2>2. InsertIntent(in) \in {"dispatch_planned", "no_dispatch"}
    BY IntentType
  <2>3. CASE i = id
    <3>1. CountedBy(i)' = CountedBy(i) \cup {t} /\ t \notin CountedBy(i)
      BY <2>1, <2>2, <2>3, CountWrite
    <3>2. CountedBy(i) = {}
      BY <1>1, <2>3 DEF CountInv, OpenIncident
    <3>3. IsFiniteSet({t}) /\ Cardinality({t}) = 1
      BY FS_Singleton
    <3>4. rows'[i] = NewIncident(key, in)
      BY <1>1, <2>3 DEF OpenIncident, TypeOK
    <3>5. rows'[i].event_count = 1 /\ Exists(i)'
      BY <3>4, LedgerAssumption, NewIncidentType, NoRowAssumption DEF Exists, NewIncident
    <3> QED
      BY <3>1, <3>2, <3>3, <3>5
  <2>4. CASE i # id
    <3>0. i \notin {id} /\ TRUE \in BOOLEAN
      BY <2>4
    <3>1. CountedBy(i)' = CountedBy(i)
      BY <2>1, <2>2, <3>0, CountWrite
    <3>2. rows'[i] = rows[i]
      BY <1>1, <2>4 DEF OpenIncident, TypeOK
    <3> QED
      BY <3>1, <3>2, CountKept DEF Exists
  <2> QED
    BY <2>3, <2>4
<1>2. ASSUME NEW t \in Txs, NEW id \in Ids, NEW in \in Inputs, MergeProblem(t, id, in)
      PROVE  /\ IsFiniteSet(CountedBy(i)')
             /\ Exists(i)' => rows'[i].event_count = Cardinality(CountedBy(i)')
             /\ ~Exists(i)' => CountedBy(i)' = {}
  <2> DEFINE counted == IsCounted(rows[id], in)
  <2>1. /\ audit[t] = NoAudit
        /\ audit' = [audit EXCEPT ![t] = AuditRow({id}, counted, UpdateIntent(rows[id], in))]
        /\ audit \in [Txs -> AuditRows \cup {NoAudit}]
        /\ {id} \in SUBSET Ids
    BY <1>2 DEF MergeProblem, TypeOK
  <2>2. UpdateIntent(rows[id], in) \in {"dispatch_planned", "no_dispatch"}
    BY IntentType
  <2>3. counted \in BOOLEAN
    BY DEF IsCounted
  <2> HIDE DEF counted
  <2>4. CASE i = id
    <3>1. rows[id] \in Rows /\ in \in ProblemInputs /\ Exists(i)
      BY <1>2, <2>4, LedgerAssumption, RowsExist DEF MergeProblem, IsOpen
    <3>2. rows'[i] = ApplyProblem(rows[id], in)
      BY <1>2, <2>4 DEF MergeProblem, TypeOK
    <3>3. Exists(i)'
      BY <3>1, <3>2, ApplyProblemType, NoRowAssumption DEF Exists
    <3>4. rows'[i].event_count = NextCount(rows[id], in)
      BY <3>1, <3>2 DEF ApplyProblem, Rows
    <3>5. CASE counted
      <4>1. CountedBy(i)' = CountedBy(i) \cup {t} /\ t \notin CountedBy(i)
        BY <2>1, <2>2, <2>3, <2>4, <3>5, CountWrite
      <4>2. IsFiniteSet(CountedBy(i)) /\ rows[i].event_count = Cardinality(CountedBy(i))
        BY <3>1 DEF CountInv
      <4>3. /\ IsFiniteSet(CountedBy(i)')
            /\ Cardinality(CountedBy(i)') = Cardinality(CountedBy(i)) + 1
        BY <4>1, <4>2, FS_AddElement
      <4>4. rows'[i].event_count = rows[i].event_count + 1
        BY <2>4, <3>4, <3>5 DEF NextCount, counted
      <4> QED
        BY <3>3, <4>2, <4>3, <4>4
    <3>6. CASE ~counted
      <4>1. CountedBy(i)' = CountedBy(i)
        BY <2>1, <2>2, <2>3, <2>4, <3>6, CountWrite
      <4>2. rows[id].event_count \in Nat
        BY <3>1 DEF Rows
      <4>3. NextCount(rows[id], in) = rows[id].event_count + 0
        BY <3>6 DEF NextCount, counted
      <4>4. rows'[i].event_count = rows[i].event_count
        BY <2>4, <3>4, <4>2, <4>3
      <4> QED
        BY <3>1, <3>3, <4>1, <4>4 DEF CountInv
    <3> QED
      BY <3>5, <3>6
  <2>5. CASE i # id
    <3>1. i \notin {id}
      BY <2>5
    <3>2. CountedBy(i)' = CountedBy(i)
      BY <2>1, <2>2, <2>3, <3>1, CountWrite, Zenon
    <3>3. rows'[i] = rows[i]
      BY <1>2, <2>5 DEF MergeProblem, TypeOK
    <3> QED
      BY <3>2, <3>3, CountKept DEF Exists
  <2> QED
    BY <2>4, <2>5
\* The other writes keep the row's count and count no event.
<1>3. ASSUME NEW t \in Txs, NEW object \in Objects, NEW S \in SUBSET Ids,
             Recover(t, object, S)
      PROVE  /\ CountedBy(i)' = CountedBy(i)
             /\ Exists(i)' <=> Exists(i)
             /\ Exists(i) => rows'[i].event_count = rows[i].event_count
  <2>1. /\ audit[t] = NoAudit
        /\ audit' = [audit EXCEPT ![t] = AuditRow(S, FALSE, "no_dispatch")]
        /\ audit \in [Txs -> AuditRows \cup {NoAudit}]
    BY <1>3 DEF Recover, TypeOK
  <2>2. CountedBy(i)' = CountedBy(i)
    BY <2>1, CountWrite
  <2>3. CASE i \in S
    <3>1. rows[i] \in Rows /\ Exists(i) /\ rows'[i] = ApplyRecovery(rows[i], object)
      BY <1>3, <2>3, RowsExist DEF Recover, IsOpen
    <3> QED
      BY <2>2, <3>1, ApplyRecoveryType, NoRowAssumption DEF Exists
  <2>4. CASE i \notin S
    BY <1>3, <2>2, <2>4 DEF Recover, Exists
  <2> QED
    BY <2>3, <2>4
<1>4. ASSUME NEW id \in Ids, Acknowledge(id)
      PROVE  /\ CountedBy(i)' = CountedBy(i)
             /\ Exists(i)' <=> Exists(i)
             /\ Exists(i) => rows'[i].event_count = rows[i].event_count
  <2>1. rows[id] \in Rows /\ Exists(id)
    BY <1>4, RowsExist DEF Acknowledge, IsOpen
  <2>2. CASE i = id
    <3>1. rows'[i] = ApplyAck(rows[i])
      BY <1>4, <2>2 DEF Acknowledge, TypeOK
    <3> QED
      BY <1>4, <2>1, <2>2, <3>1, ApplyAckType, NoRowAssumption
      DEF Acknowledge, Exists, CountedBy
  <2>3. CASE i # id
    BY <1>4, <2>3 DEF Acknowledge, TypeOK, Exists, CountedBy
  <2> QED
    BY <2>2, <2>3
<1>5. ASSUME NEW S \in SUBSET Ids, Close(S)
      PROVE  /\ CountedBy(i)' = CountedBy(i)
             /\ Exists(i)' <=> Exists(i)
             /\ Exists(i) => rows'[i].event_count = rows[i].event_count
  <2>1. CASE i \in S
    <3>1. rows[i] \in Rows /\ Exists(i) /\ rows'[i] = ApplyClose(rows[i])
      BY <1>5, <2>1, RowsExist DEF Close, IsOpen
    <3> QED
      BY <1>5, <3>1, ApplyCloseType, NoRowAssumption DEF Close, Exists, CountedBy
  <2>2. CASE i \notin S
    BY <1>5, <2>2 DEF Close, Exists, CountedBy
  <2> QED
    BY <2>1, <2>2
<1>6. ASSUME NEW id \in Ids, NEW plugin \in Plugins, NEW result \in Results \ {"none"},
             RecordDelivery(id, plugin, result)
      PROVE  /\ CountedBy(i)' = CountedBy(i)
             /\ Exists(i)' <=> Exists(i)
             /\ Exists(i) => rows'[i].event_count = rows[i].event_count
  <2>1. rows[id] \in Rows /\ Exists(id)
    BY <1>6, RowsExist DEF RecordDelivery
  <2>2. CASE i = id
    <3>1. rows'[i] = ApplyDelivery(rows[i], plugin, result)
      BY <1>6, <2>2 DEF RecordDelivery, TypeOK
    <3>2. rows'[i] \in Rows /\ rows'[i].event_count = rows[i].event_count
      BY <2>1, <2>2, <3>1, ApplyDeliveryType DEF Rows
    <3> QED
      BY <1>6, <2>1, <2>2, <3>2, NoRowAssumption DEF RecordDelivery, Exists, CountedBy
  <2>3. CASE i # id
    BY <1>6, <2>3 DEF RecordDelivery, TypeOK, Exists, CountedBy
  <2> QED
    BY <2>2, <2>3
<1>7. CASE UNCHANGED vars
  BY <1>7, CountKept DEF vars, Exists, CountedBy
<1> QED
  BY <1>1, <1>2, <1>3, <1>4, <1>5, <1>6, <1>7, CountKept DEF Next

\* event_count is the number of committed audit rows that counted an event for
\* the incident: the two tables, written in one transaction, never drift.
THEOREM CountsAgree == Spec => []CountIsAudited
<1>1. Init => CountInv
  BY FS_EmptySet DEF Init, CountInv, CountedBy, Exists
<1>2. CountInv => CountIsAudited
  BY DEF CountInv, CountIsAudited
<1> QED
  BY <1>1, <1>2, TypeCorrect, CountStep, PTL DEF Spec
==============================================================================
