---------------------------- MODULE IncidentLedger ----------------------------
(***************************************************************************)
(* The abstract specification of Correlia's incident table and audit       *)
(* trail: every accepted event, operator command, expiry sweep and         *)
(* delivery record takes effect in one step on the rows it touches,        *)
(* together with its audit row.  This is what the rest of the program may  *)
(* assume; IncidentStore shows that the concurrent READ COMMITTED          *)
(* transactions of app/persistence deliver it.                             *)
(*                                                                         *)
(* The promise is per incident.  A recovery or a sweep takes effect on     *)
(* SOME of the incidents it could apply to: one inserted while it runs may *)
(* be missed, and a sweep skips locked rows.                               *)
(***************************************************************************)
EXTENDS IncidentAggregation

CONSTANTS
  Ids,       \* incident ids; naturals, ordered as ORDER BY id orders them
  Txs,       \* accepted requests, one transaction each
  NoAudit,   \* the request has no audit row
  Inputs     \* the problem events that may arrive

ASSUME LedgerAssumption ==
  /\ Ids \subseteq Nat
  /\ Inputs \subseteq ProblemInputs

\* An incident_events row: the incidents it links, whether the event was
\* counted, and the notification intent recorded in the decision summary.
AuditRows ==
  [incidents : SUBSET Ids, counted : BOOLEAN,
   intent : {"dispatch_planned", "no_dispatch"}]

ASSUME NoAuditAssumption == NoAudit \notin AuditRows

VARIABLES
  rows,    \* the committed incidents table
  audit    \* the committed incident_events row of each request

vars == <<rows, audit>>

Exists(id)     == rows[id] # NoRow
IsOpen(id)     == Exists(id) /\ rows[id].status = "OPEN"
OpenFor(key)   == {id \in Ids : IsOpen(id) /\ rows[id].key = key}

AuditRow(S, counted, intent) ==
  [incidents |-> S, counted |-> counted, intent |-> intent]

Init ==
  /\ rows = [id \in Ids |-> NoRow]
  /\ audit = [t \in Txs |-> NoAudit]

\* MUTANT: there is no unique index on the OPEN incidents.
OpenAnother(t, id, key, in) ==
  /\ audit[t] = NoAudit
  /\ ~Exists(id)
  /\ rows' = [rows EXCEPT ![id] = NewIncident(key, in)]
  /\ audit' = [audit EXCEPT ![t] = AuditRow({id}, TRUE, InsertIntent(in))]

\* The first problem of a (rule, group) that has no OPEN incident.
OpenIncident(t, id, key, in) ==
  /\ audit[t] = NoAudit
  /\ ~Exists(id)
  /\ OpenFor(key) = {}
  /\ rows' = [rows EXCEPT ![id] = NewIncident(key, in)]
  /\ audit' = [audit EXCEPT ![t] = AuditRow({id}, TRUE, InsertIntent(in))]

\* MUTANT: the incident to merge into is not filtered by status.
MergeAny(t, id, in) ==
  /\ audit[t] = NoAudit
  /\ Exists(id)
  /\ rows' = [rows EXCEPT ![id] = ApplyProblem(@, in)]
  /\ audit' = [audit EXCEPT ![t] =
                 AuditRow({id}, IsCounted(rows[id], in), UpdateIntent(rows[id], in))]

\* A problem of a (rule, group) whose incident is OPEN.
MergeProblem(t, id, in) ==
  /\ audit[t] = NoAudit
  /\ IsOpen(id)
  /\ rows' = [rows EXCEPT ![id] = ApplyProblem(@, in)]
  /\ audit' = [audit EXCEPT ![t] =
                 AuditRow({id}, IsCounted(rows[id], in), UpdateIntent(rows[id], in))]

\* A recovery, which finds the OPEN incidents S that hold the object; S may be
\* empty (a no-op is audited too).
Recover(t, object, S) ==
  /\ audit[t] = NoAudit
  /\ \A id \in S : IsOpen(id) /\ Affected(rows[id], object)
  /\ rows' = [id \in Ids |-> IF id \in S THEN ApplyRecovery(rows[id], object)
                                         ELSE rows[id]]
  /\ audit' = [audit EXCEPT ![t] = AuditRow(S, FALSE, "no_dispatch")]

Acknowledge(id) ==
  /\ IsOpen(id)
  /\ rows' = [rows EXCEPT ![id] = ApplyAck(@)]
  /\ UNCHANGED audit

Close(S) ==
  /\ \A id \in S : IsOpen(id)
  /\ rows' = [id \in Ids |-> IF id \in S THEN ApplyClose(rows[id]) ELSE rows[id]]
  /\ UNCHANGED audit

\* The dispatcher records a terminal result, whatever the incident's status.
RecordDelivery(id, plugin, result) ==
  /\ Exists(id)
  /\ rows' = [rows EXCEPT ![id] = ApplyDelivery(@, plugin, result)]
  /\ UNCHANGED audit

Next ==
  \/ \E S \in SUBSET Ids : Close(S)
  \/ \E id \in Ids : Acknowledge(id)
  \/ \E t \in Txs, id \in Ids, in \in Inputs :
        \/ MergeProblem(t, id, in)
        \/ \E key \in Keys : OpenIncident(t, id, key, in)
  \/ \E t \in Txs, object \in Objects, S \in SUBSET Ids : Recover(t, object, S)
  \/ \E id \in Ids, plugin \in Plugins, result \in Results \ {"none"} :
        RecordDelivery(id, plugin, result)

Spec == Init /\ [][Next]_vars

------------------------------------------------------------------------------
TypeOK ==
  /\ rows \in [Ids -> Rows \cup {NoRow}]
  /\ audit \in [Txs -> AuditRows \cup {NoAudit}]

\* At most one OPEN incident per (rule, group): the partial unique index
\* incidents_one_open_per_rule_group and the transitions that respect it.
OneOpenPerKey ==
  \A i, j \in Ids : IsOpen(i) /\ IsOpen(j) /\ rows[i].key = rows[j].key => i = j

PlannedBy(id) ==
  {t \in Txs : /\ audit[t] # NoAudit
               /\ id \in audit[t].incidents
               /\ audit[t].intent = "dispatch_planned"}

\* Over its whole life an incident plans at most one notification, and only an
\* incident whose crossing marker is set has planned one.
PlannedOnce ==
  \A id \in Ids :
    /\ \A t, u \in PlannedBy(id) : t = u
    /\ PlannedBy(id) # {} => Exists(id) /\ rows[id].crossed

CountedBy(id) ==
  {t \in Txs : /\ audit[t] # NoAudit
               /\ audit[t].counted
               /\ id \in audit[t].incidents}

\* An incident's event_count is the number of audit rows that counted for it.
CountIsAudited ==
  \A id \in Ids : Exists(id) => rows[id].event_count = Cardinality(CountedBy(id))

\* RESOLVED and CLOSED are final: no later write reopens the incident or
\* changes its membership, count, window or crossing marker.  Only a delivery
\* record may still be written to it.
FinalState(id) ==
  [rows[id] EXCEPT !.delivery = [p \in Plugins |-> "none"]]

TerminalIsFinal ==
  [][\A id \in Ids : Exists(id) /\ ~IsOpen(id) => FinalState(id)' = FinalState(id)]_vars

\* A recorded delivery result is never erased by a later problem, recovery,
\* acknowledgement, close or expiry (_preserve_notification_delivery_results,
\* apply_problem's second UPDATE, _lifecycle_context).
DeliveryIsKept ==
  [][\A id \in Ids, p \in Plugins :
       Exists(id) /\ rows[id].delivery[p] # "none"
         => rows'[id].delivery[p] # "none"]_vars

\* The crossing marker is latched, and event_count and the last update never
\* move back.
MarkerIsLatched ==
  [][\A id \in Ids :
       Exists(id) =>
         /\ rows[id].crossed => rows'[id].crossed
         /\ rows[id].event_count <= rows'[id].event_count
         /\ rows[id].last_update <= rows'[id].last_update]_vars
==============================================================================
