----------------------------- MODULE StoreHistory -----------------------------
(***************************************************************************)
(* The store and the problems committed on one of its incidents, in the    *)
(* order of their COMMITs, with the decision each audit row records: the   *)
(* history by which the threshold decisions of concurrent requests are to  *)
(* be judged.                                                              *)
(***************************************************************************)
EXTENDS IncidentStore, Sequences

CONSTANTS
  Watched,        \* the incident
  MaxDeliveries   \* bound on the problems committed on it

ASSUME WatchAssumption == Watched \in Ids /\ MaxDeliveries \in Nat \ {0}

VARIABLE history   \* sequence of [in, counted, intent], as in WindowHistory

recorded == <<vars, history>>

\* The transaction has written a problem to the incident.
Concerns(t) == pc[t] = "commit" /\ request[t].kind = "problem" /\ Watched \in held[t]

Recorded(t) ==
  history' = Append(history, [in      |-> request[t].in,
                              counted |-> draft[t].counted,
                              intent  |-> draft[t].intent])

\* Its COMMIT, which makes the row and the audit row visible.
CommitRecorded(t) ==
  /\ Concerns(t)
  /\ Len(history) < MaxDeliveries
  /\ Commit(t)
  /\ Recorded(t)

\* Every other statement, and every other COMMIT.
Elsewhere(t) ==
  /\ Begin(t) \/ Proceed(t) \/ Fail(t)
  /\ Concerns(t) => pc'[t] # "done"
  /\ UNCHANGED history

RecordedNext == \E t \in Txs : CommitRecorded(t) \/ Elsewhere(t)

RecordedSpec == Init /\ history = <<>> /\ [][RecordedNext]_recorded

------------------------------------------------------------------------------
\* The incident and its history as WindowHistory sees them.
Window == INSTANCE WindowHistory WITH row <- rows[Watched]

\* The threshold decisions are right for the problems as they were committed,
\* however their transactions and those of recoveries, operators, sweeps and
\* delivery records interleave, fail or are rolled back: no false alarm, no
\* missed one, no fingerprint counted twice in a window
\* (record_problem_incident on the row it has read under its lock).
DecisionsAreRight ==
  Window!CrossingIsABurst /\ Window!BurstCrosses /\ Window!CountedOncePerWindow
==============================================================================
