------------------------------ MODULE Listings ------------------------------
(***************************************************************************)
(* A client that walks GET /v1/incidents or GET /v1/incident-events page   *)
(* by page while requests keep writing to the table.                       *)
(*                                                                         *)
(* Both lists are ordered by a time and, within a time, by the id, both    *)
(* descending, and a cursor holds the time and id of the last item of a    *)
(* page.  The time of an audit row is now(), fixed when its transaction    *)
(* starts and visible when it commits; the time of an incident is its      *)
(* last_update_time, which starts at the time of any event and which later *)
(* events raise, while its status and severity move it in and out of what  *)
(* the filters select.  The total of a page, which a statement of its own  *)
(* computes, and the encoding of cursors are left out.                     *)
(***************************************************************************)
EXTENDS Integers, FiniteSets

CONSTANTS
  Ids,       \* naturals, in the order of the UUIDs: not the order of insertion
  Times,
  Absent,    \* no row, or no transaction writing one
  Limit,     \* limit of the request
  Tables     \* "incidents" and "incident_events", or one of them

ASSUME ListingsAssumption ==
  /\ Ids \subseteq Nat
  /\ Times \subseteq Nat
  /\ Limit \in Nat \ {0}
  /\ Tables \subseteq {"incidents", "incident_events"}

\* What the lists depend on: the sort time, and whether the filters select it.
Versions == [time : Times, selected : BOOLEAN]

ASSUME AbsentAssumption == Absent \notin Versions

VARIABLES
  table,      \* the table that is listed
  row,        \* its committed rows
  writing,    \* the version an open transaction will commit
  clock,      \* now()
  walk,       \* "idle", "walking" (there is a next_cursor) or "done"
  cursor,     \* time and id of the last item so far
  listed,     \* how often the client has got each row
  stable      \* rows selected when the walk began and not written since

vars == <<table, row, writing, clock, walk, cursor, listed, stable>>

TypeOK ==
  /\ table \in Tables
  /\ row \in [Ids -> Versions \cup {Absent}]
  /\ writing \in [Ids -> Versions \cup {Absent}]
  /\ clock \in Times
  /\ walk \in {"idle", "walking", "done"}
  /\ cursor \in [time : Nat, id : Nat]
  /\ listed \in [Ids -> Nat]
  /\ stable \subseteq Ids

Init ==
  /\ table \in Tables
  /\ row = [i \in Ids |-> Absent]
  /\ writing = [i \in Ids |-> Absent]
  /\ clock \in {t \in Times : \A u \in Times : t <= u}
  /\ walk = "idle"
  /\ cursor = [time |-> 0, id |-> 0]
  /\ listed = [i \in Ids |-> 0]
  /\ stable = {}

------------------------------------------------------------------------------
\* The requests that write.

\* An accepted event inserts an audit row, or the first of a group an incident.
Insert(i, v) ==
  /\ row[i] = Absent /\ writing[i] = Absent
  /\ table = "incident_events" => v.time = clock
  /\ writing' = [writing EXCEPT ![i] = v]
  /\ UNCHANGED <<table, row, clock, walk, cursor, listed, stable>>

\* MUTANT: the latest event decides, whatever its time.
UpdateToEvent(i, v) ==
  /\ table = "incidents"
  /\ row[i] # Absent /\ writing[i] = Absent
  /\ writing' = [writing EXCEPT ![i] = v]
  /\ UNCHANGED <<table, row, clock, walk, cursor, listed, stable>>

\* An incident changes: greatest(last_update_time, event_time), any status.
Update(i, v) ==
  /\ table = "incidents"
  /\ row[i] # Absent /\ writing[i] = Absent
  /\ v.time >= row[i].time
  /\ writing' = [writing EXCEPT ![i] = v]
  /\ UNCHANGED <<table, row, clock, walk, cursor, listed, stable>>

Commit(i) ==
  /\ writing[i] # Absent
  /\ row' = [row EXCEPT ![i] = writing[i]]
  /\ writing' = [writing EXCEPT ![i] = Absent]
  /\ stable' = stable \ {i}
  /\ UNCHANGED <<table, clock, walk, cursor, listed>>

Rollback(i) ==
  /\ writing[i] # Absent
  /\ writing' = [writing EXCEPT ![i] = Absent]
  /\ UNCHANGED <<table, row, clock, walk, cursor, listed, stable>>

Tick ==
  /\ clock + 1 \in Times
  /\ clock' = clock + 1
  /\ UNCHANGED <<table, row, writing, walk, cursor, listed, stable>>

------------------------------------------------------------------------------
\* The pages.

Selected == {i \in Ids : row[i] # Absent /\ row[i].selected}

\* (time, id) DESC.
Precedes(i, j) ==
  row[i].time > row[j].time \/ (row[i].time = row[j].time /\ i > j)

\* The keyset condition.
Below(i) ==
  row[i].time < cursor.time \/ (row[i].time = cursor.time /\ i < cursor.id)

\* ORDER BY .. LIMIT n.
Top(S, n) == {i \in S : Cardinality({j \in S : Precedes(j, i)}) < n}

\* MUTANT: the query does not look one row ahead.
HasMoreOfPage(S) == Cardinality(Top(S, Limit)) > Limit

\* LIMIT limit + 1: one row more than the page says that there is a next one.
HasMore(S) == Cardinality(Top(S, Limit + 1)) > Limit

\* encode_incident_cursor, encode_audit_cursor.
CursorOf(i) == [time |-> row[i].time, id |-> i]

\* One request: the first Limit rows of S, and a cursor if there are more.
Page(S) ==
  LET page == Top(S, Limit)
  IN  /\ listed' = [i \in Ids |-> IF i \in page THEN listed[i] + 1 ELSE listed[i]]
      /\ IF HasMore(S)
         THEN /\ walk' = "walking"
              /\ \E last \in page :
                   /\ \A i \in page : ~Precedes(last, i)
                   /\ cursor' = CursorOf(last)
         ELSE walk' = "done" /\ UNCHANGED cursor
      /\ UNCHANGED <<table, row, writing, clock>>

FirstPage ==
  /\ walk = "idle"
  /\ stable' = Selected
  /\ Page(Selected)

NextPage ==
  /\ walk = "walking"
  /\ Page({i \in Selected : Below(i)})
  /\ UNCHANGED stable

Next ==
  \/ \E i \in Ids, v \in Versions : Insert(i, v) \/ Update(i, v)
  \/ \E i \in Ids : Commit(i) \/ Rollback(i)
  \/ Tick \/ FirstPage \/ NextPage

Spec == Init /\ [][Next]_vars

------------------------------------------------------------------------------
\* No walk shows a row twice, not even an incident that is updated between two
\* pages: its time only grows, and so it moves out of what is still to come.
NothingTwice == \A i \in Ids : listed[i] <= 1

\* A finished walk has shown every row that was there when it began and that
\* nobody has written since: for audit rows, which are never written again,
\* every row of the baseline.
BaselineListed == walk = "done" => \A i \in stable : listed[i] = 1

==============================================================================
