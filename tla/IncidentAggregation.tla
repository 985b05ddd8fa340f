------------------------- MODULE IncidentAggregation -------------------------
(***************************************************************************)
(* The incident row and the pure part of every write to it: what           *)
(* app/persistence/incidents.py computes between the row it has locked and *)
(* the row it writes back.  Nothing here knows about transactions; the     *)
(* ledger applies these operators atomically and the store applies them to *)
(* the row a transaction has read.                                         *)
(*                                                                         *)
(* Severity, summary and the decision-context notes are carried by the     *)
(* same UPDATE statements and steer nothing, so the row leaves them out.   *)
(* affected_hosts and affected_services are projections of active_objects  *)
(* written in the same statement as active_objects itself.                 *)
(***************************************************************************)
EXTENDS Integers, FiniteSets

CONSTANTS
  Keys,                   \* (rule_name, group_key) pairs
  Hosts,                  \* event.host
  Services,               \* event.service, when the event names one
  NoService,              \* event.service = None
  Fingerprints,           \* naturals: their order is the order of the strings
  Times,                  \* event timestamps, in seconds
  Plugins,                \* output plugins a rule's actions name
  NoRow,                  \* no row under this id
  MaxWindowFingerprints   \* MAX_WINDOW_FINGERPRINTS

ASSUME AggregationAssumption ==
  /\ NoService \notin Services
  /\ Fingerprints \subseteq Nat
  /\ Times \subseteq Int
  /\ MaxWindowFingerprints \in Nat \ {0}

Objects  == [host : Hosts, service : Services \cup {NoService}]
Statuses == {"OPEN", "RESOLVED", "CLOSED"}
Results  == {"none", "delivered", "failed"}

\* One matched PROBLEM event: what IncidentManager.apply_problem hands to the
\* persistence layer.  The window comes from the rule that matched, so two
\* events of one incident may carry different windows (rules change on restart).
ProblemInputs ==
  [fp : Fingerprints, time : Times, object : Objects,
   threshold : 1..MaxWindowFingerprints, seconds : Nat \ {0}]

Stamps == UNION {[S -> Times] : S \in SUBSET Fingerprints}

Rows ==
  [key : Keys, status : Statuses, event_count : Nat, last_update : Times,
   crossed : BOOLEAN, stamps : Stamps, seconds : Nat \ {0},
   active : SUBSET Objects, acked : BOOLEAN, delivery : [Plugins -> Results]]

ASSUME NoRowAssumption == NoRow \notin Rows

------------------------------------------------------------------------------
\* The threshold window.

Later(a, b) == IF a >= b THEN a ELSE b

WindowEnd(row, in)   == Later(row.last_update, in.time)
WindowStart(row, in) == WindowEnd(row, in) - in.seconds

\* MUTANT: the lower bound of the window is exclusive.
InsideAfterStart(row, in, ts) == WindowStart(row, in) < ts /\ ts <= WindowEnd(row, in)

Inside(row, in, ts) == WindowStart(row, in) <= ts /\ ts <= WindowEnd(row, in)

\* MUTANT: stamps that have left the window are kept.
RetainedForever(row, in) == DOMAIN row.stamps

Retained(row, in)  == {f \in DOMAIN row.stamps : Inside(row, in, row.stamps[f])}
IsReplay(row, in)  == in.fp \in Retained(row, in)
IsCounted(row, in) == Inside(row, in, in.time) /\ ~IsReplay(row, in)

\* f sorts before g when the map is cut back to its newest entries.
Newer(stamps, f, g) ==
  stamps[f] > stamps[g] \/ (stamps[f] = stamps[g] /\ f > g)

Newest(stamps, n) ==
  [f \in {g \in DOMAIN stamps :
            Cardinality({h \in DOMAIN stamps : Newer(stamps, h, g)}) < n}
     |-> stamps[f]]

NextStamps(row, in) ==
  LET kept    == Retained(row, in)
      domain  == IF IsCounted(row, in) THEN kept \cup {in.fp} ELSE kept
      stamps  == [f \in domain |-> IF f \in kept THEN row.stamps[f] ELSE in.time]
  IN  Newest(stamps, MaxWindowFingerprints)

WindowCrossed(row, in)   == Cardinality(DOMAIN NextStamps(row, in)) >= in.threshold

\* MUTANT: a burst after the first one crosses again.
EveryTransition(row, in) == WindowCrossed(row, in)

FirstTransition(row, in) == ~row.crossed /\ WindowCrossed(row, in)

------------------------------------------------------------------------------
\* The writes.

NewIncident(key, in) ==
  [key         |-> key,
   status      |-> "OPEN",
   event_count |-> 1,
   last_update |-> in.time,
   crossed     |-> 1 >= in.threshold,
   stamps      |-> [f \in {in.fp} |-> in.time],
   seconds     |-> in.seconds,
   active      |-> {in.object},
   acked       |-> FALSE,
   delivery    |-> [p \in Plugins |-> "none"]]

\* MUTANT: a replay raises event_count.
CountDeliveries(row, in) == row.event_count + 1

NextCount(row, in) == row.event_count + (IF IsCounted(row, in) THEN 1 ELSE 0)

\* MUTANT: the marker follows the current window.
CrossedNow(row, in) == WindowCrossed(row, in)

Latched(row, in) == row.crossed \/ WindowCrossed(row, in)

\* MUTANT: the problem's fresh decision context replaces the whole column.
NoDeliveries(row) == [p \in Plugins |-> "none"]

\* A problem rewrites decision_context but carries the delivery results over.
PreservedDeliveries(row) == row.delivery

ApplyProblem(row, in) ==
  [row EXCEPT
     !.event_count = NextCount(row, in),
     !.last_update = WindowEnd(row, in),
     !.crossed     = Latched(row, in),
     !.stamps      = NextStamps(row, in),
     !.seconds     = in.seconds,
     !.active      = @ \cup {in.object},
     !.delivery    = PreservedDeliveries(row)]

\* A recovery without a service recovers the host and all its services.
Recovers(object, o) ==
  /\ o.host = object.host
  /\ object.service \in {NoService, o.service}

Affected(row, object) == \E o \in row.active : Recovers(object, o)

ApplyRecovery(row, object) ==
  LET left == {o \in row.active : ~Recovers(object, o)}
  IN  [row EXCEPT !.active = left,
                  !.status = IF left = {} THEN "RESOLVED" ELSE @]

ApplyAck(row)     == [row EXCEPT !.acked = TRUE]
ApplyClose(row)   == [row EXCEPT !.status = "CLOSED"]
IsStale(row, now) == now > row.last_update + row.seconds

ApplyDelivery(row, plugin, result) == [row EXCEPT !.delivery[plugin] = result]

------------------------------------------------------------------------------
\* Whether the committed write plans a notification: a replay never does, the
\* first crossing does, everything else has been notified or is below.

InsertIntent(in) == IF 1 >= in.threshold THEN "dispatch_planned" ELSE "no_dispatch"

UpdateIntent(row, in) ==
  IF ~IsReplay(row, in) /\ FirstTransition(row, in)
  THEN "dispatch_planned" ELSE "no_dispatch"
==============================================================================
