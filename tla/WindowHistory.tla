---------------------------- MODULE WindowHistory ----------------------------
(***************************************************************************)
(* One incident, from the problem that opens it to its end and after, and  *)
(* the PROBLEM events its rule matched, in the order in which they were    *)
(* committed: deliveries may be late, repeated or stamped in the future.   *)
(* The history says what the threshold decision ought to have been; the    *)
(* row says what the code concluded.                                       *)
(***************************************************************************)
EXTENDS IncidentAggregation, Sequences

CONSTANTS
  Inputs,         \* the problem events that may be delivered
  MaxDeliveries   \* bound on the length of the history

ASSUME HistoryAssumption ==
  /\ Inputs \subseteq ProblemInputs
  /\ MaxDeliveries \in Nat \ {0}

VARIABLES
  row,       \* the incident, NoRow before the first event
  history    \* sequence of [in, counted, intent], one per committed event

vars == <<row, history>>

Init == row = NoRow /\ history = <<>>

Delivered(in, counted, intent) ==
  history' = Append(history, [in |-> in, counted |-> counted, intent |-> intent])

\* record_problem_incident when the INSERT wins.
Open(key, in) ==
  /\ row = NoRow
  /\ row' = NewIncident(key, in)
  /\ Delivered(in, TRUE, InsertIntent(in))

\* record_problem_incident when the incident is OPEN.
Merge(in) ==
  /\ row # NoRow /\ row.status = "OPEN"
  /\ Len(history) < MaxDeliveries
  /\ row' = ApplyProblem(row, in)
  /\ Delivered(in, IsCounted(row, in), UpdateIntent(row, in))

\* Between two problems: a recovery of an active object, an acknowledgement, a
\* manual close or an expiry, and the dispatcher's result, which is recorded in
\* any status.
Recover(object) ==
  /\ row # NoRow /\ row.status = "OPEN"
  /\ Affected(row, object)
  /\ row' = ApplyRecovery(row, object)
  /\ UNCHANGED history

Acknowledge ==
  /\ row # NoRow /\ row.status = "OPEN"
  /\ row' = ApplyAck(row)
  /\ UNCHANGED history

Close ==
  /\ row # NoRow /\ row.status = "OPEN"
  /\ row' = ApplyClose(row)
  /\ UNCHANGED history

RecordDelivery(plugin, result) ==
  /\ row # NoRow
  /\ row' = ApplyDelivery(row, plugin, result)
  /\ UNCHANGED history

Next ==
  \/ \E in \in Inputs : Merge(in) \/ \E key \in Keys : Open(key, in)
  \/ \E object \in Objects : Recover(object)
  \/ Acknowledge \/ Close
  \/ \E plugin \in Plugins, result \in Results \ {"none"} : RecordDelivery(plugin, result)

Spec == Init /\ [][Next]_vars

------------------------------------------------------------------------------
\* What the history says.

Time(i)  == history[i].in.time
Fp(i)    == history[i].in.fp
Upto(n)  == {i \in DOMAIN history : i <= n}

\* The newest event time among the first n deliveries.
Front(n) == CHOOSE t \in {Time(i) : i \in Upto(n)} : \A i \in Upto(n) : Time(i) <= t

\* Distinct fingerprints delivered, among the first n, within delivery n's
\* window: duration_seconds up to the newest event time, both bounds included.
Burst(n) ==
  {Fp(i) : i \in {j \in Upto(n) : /\ Front(n) - history[n].in.seconds <= Time(j)
                                  /\ Time(j) <= Front(n)}}

\* The first delivery of its fingerprint.
IsFirst(i) == \A j \in Upto(i - 1) : Fp(j) # Fp(i)

FreshBurst(n) ==
  {Fp(i) : i \in {j \in Upto(n) : /\ IsFirst(j)
                                  /\ Front(n) - history[n].in.seconds <= Time(j)}}

OneWindow == \A i, j \in DOMAIN history :
               history[i].in.seconds = history[j].in.seconds
OneRule   == /\ OneWindow
             /\ \A i, j \in DOMAIN history :
                  history[i].in.threshold = history[j].in.threshold

TypeOK ==
  /\ row \in Rows \cup {NoRow}
  /\ history \in Seq([in : Inputs, counted : BOOLEAN,
                      intent : {"dispatch_planned", "no_dispatch"}])
  /\ Len(history) <= MaxDeliveries

\* No false alarm: the crossing marker is set only if some delivery completed
\* a real burst, as many distinct fingerprints inside one window as the
\* threshold of that delivery's rule asks for, however late, repeated or
\* post-dated the deliveries were (record_problem_incident, _next_window_state).
CrossingIsABurst ==
  row # NoRow /\ row.crossed =>
    \E n \in DOMAIN history : Cardinality(Burst(n)) >= history[n].in.threshold

\* No missed alarm: under one rule, if enough fingerprints were first delivered
\* with times inside one window, the incident has crossed and one of the
\* deliveries planned the notification, in whatever order they arrived.  (The
\* map must have room for them.)
BurstCrosses ==
  (OneRule /\ Cardinality({Fp(i) : i \in DOMAIN history}) <= MaxWindowFingerprints) =>
    \A n \in DOMAIN history :
      Cardinality(FreshBurst(n)) >= history[n].in.threshold =>
        /\ row.crossed
        /\ \E i \in Upto(n) : history[i].intent = "dispatch_planned"

\* Replay protection: as long as the map has room for every fingerprint, no
\* fingerprint is counted a second time while its first count is still inside
\* the window of the second delivery, bounds included.
CountedOncePerWindow ==
  (OneWindow /\ Cardinality({Fp(i) : i \in DOMAIN history}) <= MaxWindowFingerprints) =>
    \A i, j \in DOMAIN history :
      (i < j /\ Fp(i) = Fp(j) /\ history[i].counted /\ history[j].counted)
        => Time(i) < Front(j) - history[j].in.seconds
==============================================================================
