---------------------- MODULE NotificationPipelineProofs ----------------------
(***************************************************************************)
(* For any requests, incidents, plugins, registries and bounds on crashes  *)
(* and shutdowns: each plugin is told at most once of an incident, its     *)
(* record is true and final, and a drained process has recorded them all.  *)
(***************************************************************************)
EXTENDS NotificationPipeline, TLAPS

------------------------------------------------------------------------------
(* Types *)

\* The part of TypeOK that the invariant rests on.
WellTyped ==
  /\ crossed \in [Incidents -> BOOLEAN]
  /\ record \in [Incidents -> [Plugins -> Results]]
  /\ sends \in [Incidents -> [Plugins -> Nat]]
  /\ handler \in [Requests -> HandlerPhases]
  /\ incident \in [Requests -> Incidents]
  /\ todo \in [Requests -> SUBSET Actions]
  /\ task \in [Requests -> [Plugins -> TaskPhases]]

LEMMA ActionsArePlugins == Actions \subseteq Plugins
  BY PipelineAssumption DEF PipelineAssumption

LEMMA TypedHandler ==
  ASSUME WellTyped, NEW r \in Requests, HandlerStep(r) \/ Arrive(r)
  PROVE  WellTyped'
<1> USE DEF WellTyped, database, process, HandlerPhases, Results, TaskPhases
<1>1. CASE Arrive(r)            BY <1>1 DEF Arrive
<1>2. CASE Commit(r)
  <2>1. CASE crossed[incident[r]]
    BY <1>2, <2>1 DEF Commit
  <2>2. CASE ~crossed[incident[r]]
    <3>1. /\ crossed' = [crossed EXCEPT ![incident[r]] = TRUE]
          /\ handler' = [handler EXCEPT ![r] = "submit"]
          /\ todo' = [todo EXCEPT ![r] = Actions]
          /\ UNCHANGED <<record, sends, incident, task>>
      BY <1>2, <2>2 DEF Commit
    <3>2. crossed' \in [Incidents -> BOOLEAN]
      BY <3>1
    <3>3. handler' \in [Requests -> HandlerPhases] /\ todo' \in [Requests -> SUBSET Actions]
      BY <3>1
    <3> QED
      BY <3>1, <3>2, <3>3
  <2> QED
    BY <2>1, <2>2
<1>3. CASE CommitFails(r)       BY <1>3 DEF CommitFails
<1>4. CASE CommitUnconfirmed(r) BY <1>4 DEF CommitUnconfirmed
<1>5. CASE Answer(r)            BY <1>5 DEF Answer
<1>6. ASSUME NEW p \in Plugins, Accept(r, p) PROVE WellTyped'
  BY <1>6 DEF Accept
<1>7. ASSUME NEW p \in Plugins, Refuse(r, p) PROVE WellTyped'
  BY <1>7 DEF Refuse
<1>8. ASSUME NEW p \in Plugins, RefuseFails(r, p) PROVE WellTyped'
  BY <1>8 DEF RefuseFails
<1> QED
  BY <1>1, <1>2, <1>3, <1>4, <1>5, <1>6, <1>7, <1>8 DEF HandlerStep

LEMMA TypedTask ==
  ASSUME WellTyped, NEW r \in Requests, NEW p \in Plugins, TaskStep(r, p)
  PROVE  WellTyped'
<1> USE DEF WellTyped, database, process, HandlerPhases, Results, TaskPhases
<1>1. CASE Load(r, p)      BY <1>1 DEF Load
<1>2. CASE Send(r, p)
  <2>1. PICK outcome \in {"ok", "raised"}, received \in {0, 1} :
          /\ task' = [task EXCEPT ![r][p] = outcome]
          /\ sends' = [sends EXCEPT ![incident[r]][p] = @ + received]
    BY <1>2 DEF Send
  <2>2. sends[incident[r]][p] + received \in Nat
    OBVIOUS
  <2>3. sends' \in [Incidents -> [Plugins -> Nat]]
    BY <2>1, <2>2
  <2>4. task' \in [Requests -> [Plugins -> TaskPhases]]
    BY <2>1
  <2> QED
    BY <1>2, <2>3, <2>4 DEF Send
<1>3. CASE Record(r, p)    BY <1>3 DEF Record
<1>4. CASE TaskFails(r, p) BY <1>4 DEF TaskFails
<1> QED
  BY <1>1, <1>2, <1>3, <1>4 DEF TaskStep

LEMMA DiscardTyped ==
  ASSUME WellTyped, Discard
  PROVE  task' \in [Requests -> [Plugins -> TaskPhases]]
  BY DEF WellTyped, Discard, TaskPhases

LEMMA WellTypedStep == WellTyped /\ [Next]_vars => WellTyped'
<1> SUFFICES ASSUME WellTyped, [Next]_vars
             PROVE  WellTyped'
  OBVIOUS
<1>1. CASE Shutdown
  BY <1>1 DEF Shutdown, WellTyped, database
<1>2. CASE Drained
  BY <1>2 DEF Drained, WellTyped, database
<1>3. CASE Crash
  <2>1. handler' \in [Requests -> HandlerPhases]
    BY <1>3 DEF Crash, WellTyped, HandlerPhases
  <2>2. todo' \in [Requests -> SUBSET Actions]
    BY <1>3 DEF Crash
  <2> QED
    BY <1>3, <2>1, <2>2, DiscardTyped DEF Crash, WellTyped, database
<1>4. CASE Start
  BY <1>4 DEF Start, WellTyped, database
<1>5. CASE UNCHANGED vars
  BY <1>5 DEF vars, WellTyped
<1> QED
  BY <1>1, <1>2, <1>3, <1>4, <1>5, TypedHandler, TypedTask DEF Next

LEMMA InitTyped == Init => WellTyped
  BY DEF Init, WellTyped, Results, HandlerPhases, TaskPhases

\* The rest of TypeOK.
ProcessTyped ==
  /\ server \in {"up", "draining", "down"}
  /\ registry \in Registries
  /\ crashes \in 0..MaxCrashes
  /\ stops \in 0..MaxStops
  /\ lost \subseteq Incidents

LEMMA ProcessTypedStep ==
  ASSUME TypeOK, [Next]_vars
  PROVE  TypeOK'
<1> USE DEF TypeOK, ProcessTyped, database, process
<1>1. WellTyped'
  BY WellTypedStep DEF WellTyped
<1>2. ProcessTyped'
  <2>1. ASSUME NEW r \in Requests, Arrive(r) \/ HandlerStep(r) PROVE ProcessTyped'
    BY <2>1 DEF Arrive, HandlerStep, Commit, CommitFails, CommitUnconfirmed, Answer,
                Accept, Refuse, RefuseFails
  <2>2. ASSUME NEW r \in Requests, NEW p \in Plugins, TaskStep(r, p) PROVE ProcessTyped'
    BY <2>2 DEF TaskStep, Load, Send, Record, TaskFails
  <2>3. CASE Shutdown
    <3>1. stops + 1 \in 0..MaxStops
      BY <2>3, PipelineAssumption DEF Shutdown, PipelineAssumption
    <3> QED
      BY <2>3, <3>1 DEF Shutdown
  <2>4. CASE Drained
    BY <2>4 DEF Drained
  <2>5. CASE Crash
    <3>1. crashes + 1 \in 0..MaxCrashes
      BY <2>5, PipelineAssumption DEF Crash, PipelineAssumption
    <3>2. lost' \subseteq Incidents
      BY <2>5 DEF Crash, Pending
    <3> QED
      BY <2>5, <3>1, <3>2 DEF Crash
  <2>6. CASE Start
    BY <2>6 DEF Start
  <2>7. CASE UNCHANGED vars
    BY <2>7 DEF vars
  <2> QED
    BY <2>1, <2>2, <2>3, <2>4, <2>5, <2>6, <2>7 DEF Next
<1> QED
  BY <1>1, <1>2 DEF WellTyped

\* Handlers, tasks, records and the process of every reachable state are well formed.
THEOREM PipelineTypeCorrect == Spec => []TypeOK
<1>1. Init => TypeOK
  BY PipelineAssumption
     DEF Init, TypeOK, PipelineAssumption, Results, HandlerPhases, TaskPhases
<1>2. TypeOK /\ [Next]_vars => TypeOK'
  BY ProcessTypedStep
<1> QED
  BY <1>1, <1>2, PTL DEF Spec

------------------------------------------------------------------------------
(* The invariant *)

\* Request r has plugin p to submit, or has submitted it.
Open(r, p) == p \in todo[r] \/ task[r][p] # "none"

Waits(r, p) == p \in todo[r] \/ task[r][p] \in {"queued", "loaded"}

\* Why a second notification cannot come about: only the request that found the
\* marker unset opens a plugin, and while it has not sent, nobody has.
OnceInv ==
  /\ \A r \in Requests, p \in Plugins :
       /\ Open(r, p) => /\ handler[r] \notin {"idle", "commit"}
                        /\ crossed[incident[r]]
       /\ p \in todo[r] => task[r][p] = "none"
       /\ Waits(r, p) => sends[incident[r]][p] = 0
       /\ p \in todo[r] \/ task[r][p] \in Running => record[incident[r]][p] = "none"
       /\ task[r][p] = "ok" => sends[incident[r]][p] = 1
  /\ \A r \in Requests, q \in Requests, p \in Plugins :
       Open(r, p) /\ Open(q, p) /\ incident[r] = incident[q] => r = q
  /\ \A i \in Incidents, p \in Plugins :
       ~crossed[i] => sends[i][p] = 0 /\ record[i][p] = "none"
  /\ SentAtMostOnce
  /\ DeliveredIsTrue

\* A step that only ends or advances what is open.
Retire ==
  /\ UNCHANGED <<record, sends, incident>>
  /\ \A i \in Incidents : crossed[i] => crossed'[i]
  /\ \A i \in Incidents : crossed'[i] \in BOOLEAN
  /\ \A r \in Requests :
       handler'[r] \in {"idle", "commit"} => handler[r] \in {"idle", "commit"}
  /\ \A r \in Requests, p \in Plugins :
       /\ p \in todo'[r] => p \in todo[r]
       /\ \/ task'[r][p] = task[r][p]
          \/ task[r][p] \in Running /\ task'[r][p] = "done"
          \/ task[r][p] = "queued" /\ task'[r][p] = "loaded"
          \/ p \in todo[r] /\ p \notin todo'[r] /\ task'[r][p] = "queued"

LEMMA RetireKeeps ==
  ASSUME WellTyped, OnceInv, Retire
  PROVE  OnceInv'
<1> USE DEF Open, Waits, Running
<1>1. ASSUME NEW r \in Requests, NEW p \in Plugins
      PROVE  /\ Open(r, p)' => Open(r, p)
             /\ Waits(r, p)' => Waits(r, p)
             /\ (p \in todo[r] \/ task[r][p] \in Running)'
                  => (p \in todo[r] \/ task[r][p] \in Running)
             /\ (task[r][p] = "ok")' => task[r][p] = "ok"
             /\ (p \in todo[r])' => (task[r][p] = "none")'
             /\ incident[r] \in Incidents
  BY DEF Retire, OnceInv, WellTyped
<1>2. ASSUME NEW r \in Requests, NEW p \in Plugins
      PROVE  /\ Open(r, p)' => /\ handler'[r] \notin {"idle", "commit"}
                               /\ crossed'[incident'[r]]
             /\ (p \in todo[r])' => (task[r][p] = "none")'
             /\ Waits(r, p)' => sends'[incident'[r]][p] = 0
             /\ (p \in todo[r] \/ task[r][p] \in Running)'
                  => record'[incident'[r]][p] = "none"
             /\ task'[r][p] = "ok" => sends'[incident'[r]][p] = 1
  <2>1. /\ Open(r, p) => /\ handler[r] \notin {"idle", "commit"}
                         /\ crossed[incident[r]]
        /\ Waits(r, p) => sends[incident[r]][p] = 0
        /\ p \in todo[r] \/ task[r][p] \in Running => record[incident[r]][p] = "none"
        /\ task[r][p] = "ok" => sends[incident[r]][p] = 1
    BY DEF OnceInv
  <2> HIDE DEF Open, Waits, Running
  <2> QED
    BY <1>1, <2>1 DEF Retire
<1>3. ASSUME NEW r \in Requests, NEW q \in Requests, NEW p \in Plugins,
             Open(r, p)', Open(q, p)', incident'[r] = incident'[q]
      PROVE  r = q
  <2> HIDE DEF Open
  <2> QED
    BY <1>1, <1>3 DEF Retire, OnceInv
<1>4. ASSUME NEW i \in Incidents, NEW p \in Plugins, ~crossed'[i]
      PROVE  sends'[i][p] = 0 /\ record'[i][p] = "none"
  BY <1>4 DEF Retire, OnceInv
<1>5. SentAtMostOnce' /\ DeliveredIsTrue'
  BY DEF Retire, OnceInv, SentAtMostOnce, DeliveredIsTrue
<1> QED
  BY <1>2, <1>3, <1>4, <1>5 DEF OnceInv

LEMMA Retiring ==
  ASSUME WellTyped, OnceInv, NEW r \in Requests,
         \/ Arrive(r) \/ CommitFails(r) \/ CommitUnconfirmed(r) \/ Answer(r)
         \/ \E p \in Plugins : \/ Accept(r, p) \/ RefuseFails(r, p)
                              \/ Load(r, p) \/ TaskFails(r, p)
  PROVE  Retire
<1> USE DEF WellTyped, Retire, database, process, Running, HandlerPhases
<1>1. CASE Arrive(r)            BY <1>1 DEF Arrive
<1>2. CASE CommitFails(r)       BY <1>2 DEF CommitFails
<1>3. CASE CommitUnconfirmed(r) BY <1>3 DEF CommitUnconfirmed
<1>4. CASE Answer(r)            BY <1>4 DEF Answer
<1>5. ASSUME NEW p \in Plugins, Accept(r, p) PROVE Retire
  BY <1>5 DEF Accept, Turn
<1>6. ASSUME NEW p \in Plugins, RefuseFails(r, p) PROVE Retire
  BY <1>6 DEF RefuseFails
<1>7. ASSUME NEW p \in Plugins, Load(r, p) PROVE Retire
  BY <1>7 DEF Load
<1>8. ASSUME NEW p \in Plugins, TaskFails(r, p) PROVE Retire
  BY <1>8 DEF TaskFails
<1> QED
  BY <1>1, <1>2, <1>3, <1>4, <1>5, <1>6, <1>7, <1>8

LEMMA RetiringProcess ==
  ASSUME WellTyped, Shutdown \/ Drained \/ Crash \/ Start \/ UNCHANGED vars
  PROVE  Retire
<1> USE DEF WellTyped, Retire, database
<1>1. CASE Shutdown BY <1>1 DEF Shutdown
<1>2. CASE Drained  BY <1>2 DEF Drained
<1>3. CASE Crash    BY <1>3 DEF Crash, Discard, InFlight, HandlerPhases
<1>4. CASE Start    BY <1>4 DEF Start
<1>5. CASE UNCHANGED vars BY <1>5 DEF vars
<1> QED
  BY <1>1, <1>2, <1>3, <1>4, <1>5

LEMMA CommitKeeps ==
  ASSUME WellTyped, OnceInv, NEW r \in Requests, Commit(r), ~crossed[incident[r]]
  PROVE  OnceInv'
<1> USE DEF Open, Waits, Running
<1>1. /\ handler' = [handler EXCEPT ![r] = "submit"]
      /\ todo' = [todo EXCEPT ![r] = Actions]
      /\ crossed' = [crossed EXCEPT ![incident[r]] = TRUE]
      /\ UNCHANGED <<record, sends, incident, task>>
      /\ incident \in [Requests -> Incidents]
      /\ handler[r] = "commit"
  BY DEF Commit, WellTyped
<1>2. ASSUME NEW p \in Plugins
      PROVE  /\ task[r][p] = "none"
             /\ sends[incident[r]][p] = 0
             /\ record[incident[r]][p] = "none"
  BY <1>1 DEF OnceInv
<1>3. ASSUME NEW q \in Requests, NEW p \in Plugins, q # r
      PROVE  /\ Open(q, p)' = Open(q, p)
             /\ Waits(q, p)' = Waits(q, p)
             /\ todo'[q] = todo[q]
             /\ handler'[q] = handler[q]
             /\ crossed[incident[q]] => crossed'[incident[q]]
  BY <1>1, <1>3 DEF WellTyped
<1>4. crossed'[incident[r]] /\ handler'[r] = "submit"
  BY <1>1 DEF WellTyped
<1>5. ASSUME NEW q \in Requests, NEW p \in Plugins
      PROVE  /\ Open(q, p)' => /\ handler'[q] \notin {"idle", "commit"}
                               /\ crossed'[incident'[q]]
             /\ (p \in todo[q])' => (task[q][p] = "none")'
             /\ Waits(q, p)' => sends'[incident'[q]][p] = 0
             /\ (p \in todo[q] \/ task[q][p] \in Running)'
                  => record'[incident'[q]][p] = "none"
             /\ task'[q][p] = "ok" => sends'[incident'[q]][p] = 1
  <2>1. CASE q = r
    BY <1>1, <1>2, <1>4, <2>1
  <2>2. CASE q # r
    BY <1>1, <1>3, <2>2 DEF OnceInv
  <2> QED
    BY <2>1, <2>2
<1>6. ASSUME NEW q \in Requests, NEW p \in Plugins, q # r, Open(q, p)'
      PROVE  incident'[q] # incident'[r]
  BY <1>1, <1>3, <1>6 DEF OnceInv
<1>7. ASSUME NEW q \in Requests, NEW o \in Requests, NEW p \in Plugins,
             Open(q, p)', Open(o, p)', incident'[q] = incident'[o]
      PROVE  q = o
  <2>1. CASE q # r /\ o # r
    BY <1>1, <1>3, <1>7, <2>1 DEF OnceInv
  <2> HIDE DEF Open
  <2> QED
    BY <1>6, <1>7, <2>1
<1>8. ASSUME NEW i \in Incidents, NEW p \in Plugins, ~crossed'[i]
      PROVE  sends'[i][p] = 0 /\ record'[i][p] = "none"
  BY <1>1, <1>8 DEF OnceInv, WellTyped
<1>9. SentAtMostOnce' /\ DeliveredIsTrue'
  BY <1>1 DEF OnceInv, SentAtMostOnce, DeliveredIsTrue
<1> QED
  BY <1>5, <1>7, <1>8, <1>9 DEF OnceInv

\* A step of the request r that closes or records plugin p, and touches the
\* results of its own incident only.
LEMMA OwnCell ==
  ASSUME WellTyped, OnceInv, NEW r \in Requests, NEW p \in Plugins, Open(r, p),
         UNCHANGED <<crossed, handler, incident>>,
         \A q \in Requests, o \in Plugins :
           <<q, o>> # <<r, p>> =>
             task'[q][o] = task[q][o] /\ (o \in todo'[q] <=> o \in todo[q]),
         \A i \in Incidents, o \in Plugins :
           <<i, o>> # <<incident[r], p>> =>
             sends'[i][o] = sends[i][o] /\ record'[i][o] = record[i][o],
         p \notin todo'[r],
         task'[r][p] \in {"none", "ok", "raised", "done"},
         task'[r][p] = "ok" => sends'[incident[r]][p] = 1,
         task'[r][p] \in Running => record'[incident[r]][p] = "none",
         sends'[incident[r]][p] \in {0, 1},
         record'[incident[r]][p] = "delivered" => sends'[incident[r]][p] = 1
  PROVE  OnceInv'
<1> USE DEF Open, Waits
<1>1. ASSUME NEW q \in Requests, NEW o \in Plugins
      PROVE  /\ Open(q, o)' => Open(q, o)
             /\ incident[q] \in Incidents
             /\ <<q, o>> # <<r, p>> /\ Open(q, o) => <<incident[q], o>> # <<incident[r], p>>
  BY DEF OnceInv, WellTyped
<1>2. ASSUME NEW q \in Requests, NEW o \in Plugins
      PROVE  /\ Open(q, o)' => /\ handler'[q] \notin {"idle", "commit"}
                               /\ crossed'[incident'[q]]
             /\ (o \in todo[q])' => (task[q][o] = "none")'
             /\ Waits(q, o)' => sends'[incident'[q]][o] = 0
             /\ (o \in todo[q] \/ task[q][o] \in Running)'
                  => record'[incident'[q]][o] = "none"
             /\ task'[q][o] = "ok" => sends'[incident'[q]][o] = 1
  <2>1. CASE <<q, o>> = <<r, p>>
    BY <1>1, <2>1 DEF OnceInv, Running
  <2>2. CASE <<q, o>> # <<r, p>>
    <3>1. ~Open(q, o) => ~Open(q, o)' /\ ~Waits(q, o)' /\ task'[q][o] = "none"
      BY <2>2
    <3>2. CASE Open(q, o)
      <4>1. /\ sends'[incident[q]][o] = sends[incident[q]][o]
            /\ record'[incident[q]][o] = record[incident[q]][o]
        BY <1>1, <2>2, <3>2
      <4>2. task'[q][o] = task[q][o] /\ (o \in todo'[q] <=> o \in todo[q])
        BY <2>2
      <4> QED
        BY <3>2, <4>1, <4>2 DEF OnceInv
    <3> QED
      BY <3>1, <3>2 DEF Running
  <2> QED
    BY <2>1, <2>2
<1>3. ASSUME NEW q \in Requests, NEW s \in Requests, NEW o \in Plugins,
             Open(q, o)', Open(s, o)', incident'[q] = incident'[s]
      PROVE  q = s
  <2> HIDE DEF Open
  <2> QED
    BY <1>1, <1>3 DEF OnceInv
<1>4. crossed[incident[r]]
  BY DEF OnceInv
<1>5. ASSUME NEW i \in Incidents, NEW o \in Plugins, ~crossed'[i]
      PROVE  sends'[i][o] = 0 /\ record'[i][o] = "none"
  BY <1>4, <1>5 DEF OnceInv
<1>6. ASSUME NEW i \in Incidents, NEW o \in Plugins
      PROVE  /\ sends'[i][o] <= 1
             /\ record'[i][o] = "delivered" => sends'[i][o] = 1
  <2>1. CASE <<i, o>> = <<incident[r], p>>
    BY <2>1
  <2>2. CASE <<i, o>> # <<incident[r], p>>
    BY <2>2 DEF OnceInv, SentAtMostOnce, DeliveredIsTrue
  <2> QED
    BY <2>1, <2>2
<1> QED
  BY <1>2, <1>3, <1>5, <1>6 DEF OnceInv, SentAtMostOnce, DeliveredIsTrue

LEMMA RefuseKeeps ==
  ASSUME WellTyped, OnceInv, NEW r \in Requests, NEW p \in Plugins, Refuse(r, p)
  PROVE  /\ OnceInv'
         /\ record[incident[r]][p] = "none"
         /\ record' = [record EXCEPT ![incident[r]][p] = "failed"]
<1>1. /\ p \in todo[r]
      /\ record' = [record EXCEPT ![incident[r]][p] = "failed"]
      /\ todo' = [todo EXCEPT ![r] = @ \ {p}]
      /\ UNCHANGED <<crossed, sends, handler, incident, task>>
  BY DEF Refuse, Turn
<1>2. /\ task[r][p] = "none"
      /\ sends[incident[r]][p] = 0
      /\ record[incident[r]][p] = "none"
  BY <1>1 DEF OnceInv, Waits
<1>3. incident[r] \in Incidents /\ record'[incident[r]][p] = "failed"
  BY <1>1 DEF WellTyped
<1>4. ASSUME NEW i \in Incidents, NEW o \in Plugins, <<i, o>> # <<incident[r], p>>
      PROVE  sends'[i][o] = sends[i][o] /\ record'[i][o] = record[i][o]
  BY <1>1, <1>3, <1>4 DEF WellTyped
<1>5. ASSUME NEW q \in Requests, NEW o \in Plugins, <<q, o>> # <<r, p>>
      PROVE  task'[q][o] = task[q][o] /\ (o \in todo'[q] <=> o \in todo[q])
  BY <1>1, <1>5 DEF WellTyped
<1>6. p \notin todo'[r]
  BY <1>1 DEF WellTyped
<1>7. Open(r, p)
  BY <1>1 DEF Open
<1>8. OnceInv'
  BY <1>1, <1>2, <1>3, <1>4, <1>5, <1>6, <1>7, OwnCell DEF Running
<1> QED
  BY <1>1, <1>2, <1>8

LEMMA SendKeeps ==
  ASSUME WellTyped, OnceInv, NEW r \in Requests, NEW p \in Plugins, Send(r, p)
  PROVE  OnceInv' /\ record' = record
<1>1. PICK outcome \in {"ok", "raised"}, received \in {0, 1} :
        /\ outcome = "ok" => received = 1
        /\ task' = [task EXCEPT ![r][p] = outcome]
        /\ sends' = [sends EXCEPT ![incident[r]][p] = @ + received]
  BY DEF Send
<1>2. /\ task[r][p] = "loaded"
      /\ UNCHANGED <<crossed, record, handler, incident, todo>>
  BY DEF Send, database
<1>3. /\ p \notin todo[r]
      /\ sends[incident[r]][p] = 0
      /\ record[incident[r]][p] = "none"
  BY <1>2 DEF OnceInv, Waits, Running
<1>4. incident[r] \in Incidents /\ task'[r][p] = outcome
  BY <1>1 DEF WellTyped
<1>5. sends'[incident[r]][p] = received
  <2>1. sends'[incident[r]][p] = sends[incident[r]][p] + received
    BY <1>1, <1>4 DEF WellTyped
  <2> QED
    BY <1>3, <2>1
<1>6. ASSUME NEW i \in Incidents, NEW o \in Plugins, <<i, o>> # <<incident[r], p>>
      PROVE  sends'[i][o] = sends[i][o] /\ record'[i][o] = record[i][o]
  BY <1>1, <1>2, <1>4, <1>6 DEF WellTyped
<1>7. ASSUME NEW q \in Requests, NEW o \in Plugins, <<q, o>> # <<r, p>>
      PROVE  task'[q][o] = task[q][o] /\ (o \in todo'[q] <=> o \in todo[q])
  BY <1>1, <1>2, <1>7 DEF WellTyped
<1>8. Open(r, p)
  BY <1>2 DEF Open
<1>9. OnceInv'
  BY <1>1, <1>2, <1>3, <1>4, <1>5, <1>6, <1>7, <1>8, OwnCell
<1> QED
  BY <1>2, <1>9

LEMMA RecordKeeps ==
  ASSUME WellTyped, OnceInv, NEW r \in Requests, NEW p \in Plugins, Record(r, p)
  PROVE  /\ OnceInv'
         /\ record[incident[r]][p] = "none"
         /\ \E result \in Results : record' = [record EXCEPT ![incident[r]][p] = result]
<1> DEFINE result == IF task[r][p] = "ok" THEN "delivered" ELSE "failed"
<1>1. /\ task[r][p] \in {"ok", "raised"}
      /\ record' = [record EXCEPT ![incident[r]][p] = result]
      /\ task' = [task EXCEPT ![r][p] = "done"]
      /\ UNCHANGED <<crossed, sends, handler, incident, todo>>
  BY DEF Record
<1>2. /\ p \notin todo[r]
      /\ record[incident[r]][p] = "none"
      /\ task[r][p] = "ok" => sends[incident[r]][p] = 1
  BY <1>1 DEF OnceInv, Running
<1>3. /\ incident[r] \in Incidents
      /\ record'[incident[r]][p] = result
      /\ task'[r][p] = "done"
  BY <1>1 DEF WellTyped
<1>4. sends[incident[r]][p] \in {0, 1}
  <2>1. sends[incident[r]][p] \in Nat /\ sends[incident[r]][p] <= 1
    BY <1>3 DEF WellTyped, OnceInv, SentAtMostOnce
  <2> QED
    BY <2>1
<1>5. ASSUME NEW i \in Incidents, NEW o \in Plugins, <<i, o>> # <<incident[r], p>>
      PROVE  sends'[i][o] = sends[i][o] /\ record'[i][o] = record[i][o]
  BY <1>1, <1>3, <1>5 DEF WellTyped
<1>6. ASSUME NEW q \in Requests, NEW o \in Plugins, <<q, o>> # <<r, p>>
      PROVE  task'[q][o] = task[q][o] /\ (o \in todo'[q] <=> o \in todo[q])
  BY <1>1, <1>6 DEF WellTyped
<1>7. Open(r, p)
  BY <1>1 DEF Open
<1>8. OnceInv'
  BY <1>1, <1>2, <1>3, <1>4, <1>5, <1>6, <1>7, OwnCell DEF Running
<1>9. result \in Results
  BY DEF Results
<1> QED
  BY <1>1, <1>2, <1>8, <1>9

------------------------------------------------------------------------------
(* Steps and theorems *)

FinalStep ==
  \A i \in Incidents, p \in Plugins :
    record[i][p] # "none" => record'[i][p] = record[i][p]

LEMMA FinalCell ==
  ASSUME WellTyped, NEW r \in Requests, NEW p \in Plugins, NEW result \in Results,
         record[incident[r]][p] = "none",
         record' = [record EXCEPT ![incident[r]][p] = result]
  PROVE  FinalStep
<1> SUFFICES ASSUME NEW j \in Incidents, NEW o \in Plugins, record[j][o] # "none"
             PROVE  record'[j][o] = record[j][o]
  BY DEF FinalStep
<1>1. <<j, o>> # <<incident[r], p>>
  OBVIOUS
<1> QED
  BY <1>1 DEF WellTyped

LEMMA RetireFinal == Retire => FinalStep
  BY DEF Retire, FinalStep

LEMMA OnceStep ==
  ASSUME WellTyped, OnceInv, [Next]_vars
  PROVE  OnceInv' /\ FinalStep
<1>1. ASSUME NEW r \in Requests, Arrive(r) \/ HandlerStep(r)
      PROVE  OnceInv' /\ FinalStep
  <2>1. CASE Commit(r)
    <3>1. CASE crossed[incident[r]]
      <4>1. Retire
        BY <2>1, <3>1 DEF Commit, Retire, WellTyped
      <4> QED
        BY <4>1, RetireKeeps, RetireFinal
    <3>2. CASE ~crossed[incident[r]]
      <4>1. OnceInv'
        BY <2>1, <3>2, CommitKeeps
      <4>2. FinalStep
        BY <2>1 DEF Commit, FinalStep
      <4> QED
        BY <4>1, <4>2
    <3> QED
      BY <3>1, <3>2
  <2>2. ASSUME NEW p \in Plugins, Refuse(r, p)
        PROVE  OnceInv' /\ FinalStep
    <3>1. "failed" \in Results
      BY DEF Results
    <3>2. /\ OnceInv'
          /\ record[incident[r]][p] = "none"
          /\ record' = [record EXCEPT ![incident[r]][p] = "failed"]
      BY <2>2, RefuseKeeps
    <3>3. FinalStep
      BY <3>1, <3>2, FinalCell
    <3> QED
      BY <3>2, <3>3
  <2>3. CASE Retire
    BY <2>3, RetireKeeps, RetireFinal
  <2> QED
    BY <1>1, <2>1, <2>2, <2>3, Retiring DEF HandlerStep
<1>2. ASSUME NEW r \in Requests, NEW p \in Plugins, TaskStep(r, p)
      PROVE  OnceInv' /\ FinalStep
  <2>1. CASE Send(r, p)
    BY <2>1, SendKeeps DEF FinalStep
  <2>2. CASE Record(r, p)
    <3>1. /\ OnceInv'
          /\ record[incident[r]][p] = "none"
          /\ \E result \in Results : record' = [record EXCEPT ![incident[r]][p] = result]
      BY <2>2, RecordKeeps
    <3>2. PICK result \in Results : record' = [record EXCEPT ![incident[r]][p] = result]
      BY <3>1
    <3>3. FinalStep
      BY <3>1, <3>2, FinalCell
    <3> QED
      BY <3>1, <3>3
  <2>3. CASE Load(r, p) \/ TaskFails(r, p)
    BY <2>3, Retiring, RetireKeeps, RetireFinal
  <2> QED
    BY <1>2, <2>1, <2>2, <2>3 DEF TaskStep
<1>3. CASE Shutdown \/ Drained \/ Crash \/ Start \/ UNCHANGED vars
  BY <1>3, RetiringProcess, RetireKeeps, RetireFinal
<1> QED
  BY <1>1, <1>2, <1>3 DEF Next

LEMMA InitOnce == Init => OnceInv
  BY DEF Init, OnceInv, Open, Waits, Running, SentAtMostOnce, DeliveredIsTrue

LEMMA OnceInvariant == Spec => [](WellTyped /\ OnceInv)
<1>1. Init => WellTyped /\ OnceInv
  BY InitTyped, InitOnce
<1>2. (WellTyped /\ OnceInv) /\ [Next]_vars => (WellTyped /\ OnceInv)'
  BY WellTypedStep, OnceStep
<1> QED
  BY <1>1, <1>2, PTL DEF Spec

\* A plugin's receiver gets an incident's notification at most once: the request
\* whose commit latches the marker is the only one that ever submits
\* (process_payload and _submit_notifications), whatever fails or restarts.
THEOREM AtMostOnce == Spec => []SentAtMostOnce
  BY OnceInvariant, PTL DEF OnceInv

\* A recorded success is a delivery (NotificationDispatcher.process).
THEOREM SuccessIsTrue == Spec => []DeliveredIsTrue
  BY OnceInvariant, PTL DEF OnceInv

\* Neither the submission loop nor the dispatcher overwrites a terminal record.
THEOREM RecordsAreFinal == Spec => RecordIsFinal
<1>1. (WellTyped /\ OnceInv) /\ [Next]_vars => [FinalStep]_vars
  BY OnceStep
<1>2. [][FinalStep]_vars <=> RecordIsFinal
  BY PTL DEF FinalStep, RecordIsFinal
<1> QED
  BY <1>1, <1>2, OnceInvariant, PTL DEF Spec

------------------------------------------------------------------------------
(* The drain *)

\* Request r is still on its way to a record of plugin p.
Pursues(r, p) == p \in todo[r] \/ task[r][p] \in Running

\* Every action of a crossed incident that no failure has hit is recorded or
\* has somebody who will.
Followed ==
  \A i \in Incidents \ lost, p \in Actions :
    crossed[i] /\ record[i][p] = "none" =>
      \E r \in Requests : incident[r] = i /\ Pursues(r, p)

\* Why nobody will any more when the process is down: the shutdown begins when
\* no handler is left that could submit a task, and ends when no task is.
DrainInv ==
  /\ Followed
  /\ \A r \in Requests : todo[r] # {} => handler[r] = "submit"
  /\ server # "up" => InFlight = {}
  /\ server = "down" => Pending = {}

\* A step that crosses no incident and gives up a pursuit only with a record or
\* a failure.
LEMMA FollowedKept ==
  ASSUME Followed, UNCHANGED incident, lost \subseteq lost',
         \A i \in Incidents : crossed'[i] => crossed[i] \/ i \in lost',
         \A i \in Incidents, p \in Actions : record'[i][p] = "none" => record[i][p] = "none",
         \A r \in Requests, p \in Actions :
           Pursues(r, p) => \/ Pursues(r, p)'
                            \/ incident[r] \in lost'
                            \/ record'[incident[r]][p] # "none"
  PROVE  Followed'
<1> SUFFICES ASSUME NEW i \in Incidents \ lost', NEW p \in Actions,
                    crossed'[i], record'[i][p] = "none"
             PROVE  \E r \in Requests : incident'[r] = i /\ Pursues(r, p)'
  BY DEF Followed
<1>1. PICK r \in Requests : incident[r] = i /\ Pursues(r, p)
  BY DEF Followed
<1> QED
  BY <1>1

\* A plugin leaves the loop with a task, a record or a failure, and the loop
\* ends when none is left.
LEMMA DrainHandler ==
  ASSUME WellTyped, DrainInv, NEW r \in Requests, HandlerStep(r) \/ Arrive(r)
  PROVE  DrainInv'
<1> USE ActionsArePlugins DEF WellTyped, DrainInv, InFlight, Pending, database, process
<1>1. CASE Arrive(r)
  <2>1. Followed'
    BY <1>1, FollowedKept DEF Arrive, Pursues
  <2> QED
    BY <1>1, <2>1 DEF Arrive
<1>2. CASE Commit(r) /\ crossed[incident[r]]
  <2>1. Followed'
    BY <1>2, FollowedKept DEF Commit, Pursues
  <2> QED
    BY <1>2, <2>1 DEF Commit
<1>3. CASE Commit(r) /\ ~crossed[incident[r]]
  <2>1. /\ crossed' = [crossed EXCEPT ![incident[r]] = TRUE]
        /\ todo' = [todo EXCEPT ![r] = Actions]
        /\ handler' = [handler EXCEPT ![r] = "submit"]
        /\ handler[r] = "commit"
        /\ UNCHANGED <<record, incident, task, lost, server>>
    BY <1>3 DEF Commit
  <2>2. Followed'
    <3> SUFFICES ASSUME NEW i \in Incidents \ lost, NEW p \in Actions,
                        crossed'[i], record[i][p] = "none"
                 PROVE  \E q \in Requests : incident[q] = i /\ Pursues(q, p)'
      BY <2>1 DEF Followed
    <3>1. CASE i = incident[r]
      BY <2>1, <3>1 DEF Pursues
    <3>2. CASE i # incident[r]
      <4>1. PICK q \in Requests : incident[q] = i /\ Pursues(q, p)
        BY <2>1, <3>2 DEF Followed
      <4> QED
        BY <2>1, <3>2, <4>1 DEF Pursues
    <3> QED
      BY <3>1, <3>2
  <2> QED
    BY <2>1, <2>2
<1>4. CASE CommitFails(r)
  <2>1. Followed'
    BY <1>4, FollowedKept DEF CommitFails, Pursues
  <2> QED
    BY <1>4, <2>1 DEF CommitFails
<1>5. CASE CommitUnconfirmed(r)
  <2>1. /\ lost \subseteq lost'
        /\ \A i \in Incidents : crossed'[i] => crossed[i] \/ i \in lost'
    BY <1>5 DEF CommitUnconfirmed
  <2>2. Followed'
    BY <1>5, <2>1, FollowedKept DEF CommitUnconfirmed, Pursues
  <2> QED
    BY <1>5, <2>2 DEF CommitUnconfirmed
<1>6. CASE Answer(r)
  <2>1. Followed'
    BY <1>6, FollowedKept DEF Answer, Pursues
  <2> QED
    BY <1>6, <2>1 DEF Answer
<1>7. ASSUME NEW p \in Plugins, Accept(r, p)
      PROVE  DrainInv'
  <2>1. \A q \in Requests, o \in Actions : Pursues(q, o) => Pursues(q, o)'
    BY <1>7 DEF Accept, Turn, Pursues, Running
  <2>2. Followed'
    BY <1>7, <2>1, FollowedKept DEF Accept
  <2>3. server = "up"
    BY <1>7 DEF Accept, Turn
  <2> QED
    BY <1>7, <2>2, <2>3 DEF Accept, Turn
<1>8. ASSUME NEW p \in Plugins, Refuse(r, p)
      PROVE  DrainInv'
  <2>1. /\ record' = [record EXCEPT ![incident[r]][p] = "failed"]
        /\ todo' = [todo EXCEPT ![r] = @ \ {p}]
        /\ UNCHANGED <<crossed, handler, incident, task, lost, server>>
        /\ handler[r] = "submit"
    BY <1>8 DEF Refuse, Turn
  <2>2. \A i \in Incidents, o \in Actions : record'[i][o] = "none" => record[i][o] = "none"
    BY <2>1
  <2>3. \A q \in Requests, o \in Actions :
          Pursues(q, o) => Pursues(q, o)' \/ record'[incident[q]][o] # "none"
    BY <2>1 DEF Pursues
  <2>4. Followed'
    BY <2>1, <2>2, <2>3, FollowedKept
  <2> QED
    BY <2>1, <2>4
<1>9. ASSUME NEW p \in Plugins, RefuseFails(r, p)
      PROVE  DrainInv'
  <2>1. \A q \in Requests, o \in Actions :
          Pursues(q, o) => Pursues(q, o)' \/ incident[q] \in lost'
    BY <1>9 DEF RefuseFails, Pursues
  <2>2. Followed'
    BY <1>9, <2>1, FollowedKept DEF RefuseFails
  <2> QED
    BY <1>9, <2>2 DEF RefuseFails, Turn
<1> QED
  BY <1>1, <1>2, <1>3, <1>4, <1>5, <1>6, <1>7, <1>8, <1>9 DEF HandlerStep

\* A task ends with a record or a failure, and none begins.
LEMMA DrainTask ==
  ASSUME WellTyped, DrainInv, NEW r \in Requests, NEW p \in Plugins, TaskStep(r, p)
  PROVE  DrainInv'
<1> USE ActionsArePlugins DEF WellTyped, DrainInv, InFlight, database, process
<1>1. /\ UNCHANGED <<crossed, handler, incident, todo, server>>
      /\ lost \subseteq lost'
      /\ task[r][p] \in Running
      /\ \A q \in Requests, o \in Plugins :
           <<q, o>> # <<r, p>> => task'[q][o] = task[q][o]
  BY DEF TaskStep, Load, Send, Record, TaskFails, Running
<1>2. \/ task'[r][p] \in Running
      \/ incident[r] \in lost'
      \/ record'[incident[r]][p] # "none"
  BY DEF TaskStep, Load, Send, Record, TaskFails, Running
<1>3. \A i \in Incidents, o \in Actions : record'[i][o] = "none" => record[i][o] = "none"
  <2>1. CASE Record(r, p)
    <3>1. PICK result \in {"delivered", "failed"} :
            record' = [record EXCEPT ![incident[r]][p] = result]
      BY <2>1 DEF Record
    <3> QED
      BY <3>1
  <2>2. CASE ~Record(r, p)
    BY <2>2 DEF TaskStep, Load, Send, TaskFails
  <2> QED
    BY <2>1, <2>2
<1>4. \A q \in Requests, o \in Actions :
        Pursues(q, o) => \/ Pursues(q, o)'
                         \/ incident[q] \in lost'
                         \/ record'[incident[q]][o] # "none"
  <2> SUFFICES ASSUME NEW q \in Requests, NEW o \in Actions, Pursues(q, o)
               PROVE  \/ Pursues(q, o)'
                      \/ incident[q] \in lost'
                      \/ record'[incident[q]][o] # "none"
    OBVIOUS
  <2>1. CASE <<q, o>> = <<r, p>>
    BY <2>1, <1>2 DEF Pursues
  <2>2. CASE <<q, o>> # <<r, p>>
    BY <2>2, <1>1 DEF Pursues
  <2> QED
    BY <2>1, <2>2
<1>5. Followed'
  BY <1>1, <1>3, <1>4, FollowedKept
<1>6. server # "down"
  BY <1>1 DEF Pending
<1> QED
  BY <1>1, <1>5, <1>6

\* The shutdown waits first for the handlers and then for the tasks; a crash
\* marks what it cuts off.
LEMMA DrainProcess ==
  ASSUME WellTyped, DrainInv, Shutdown \/ Drained \/ Crash \/ Start \/ UNCHANGED vars
  PROVE  DrainInv'
<1> USE DEF DrainInv, InFlight, Pending, database
<1>1. CASE Shutdown
  <2>1. Followed'
    BY <1>1, FollowedKept DEF Shutdown, Pursues
  <2> QED
    BY <1>1, <2>1 DEF Shutdown
<1>2. CASE Drained
  <2>1. Followed'
    BY <1>2, FollowedKept DEF Drained, Pursues
  <2> QED
    BY <1>2, <2>1 DEF Drained
<1>3. CASE Crash
  <2>1. \A r \in Requests, p \in Actions : Pursues(r, p) => incident[r] \in lost'
    BY <1>3, ActionsArePlugins DEF Crash, Pursues
  <2>2. Followed'
    BY <1>3, <2>1, FollowedKept DEF Crash
  <2>3. InFlight' = {}
    BY <1>3 DEF Crash, WellTyped, HandlerPhases
  <2>4. Pending' = {}
    BY <1>3 DEF Crash, Discard, Running
  <2> QED
    BY <1>3, <2>2, <2>3, <2>4 DEF Crash
<1>4. CASE Start
  <2>1. Followed'
    BY <1>4, FollowedKept DEF Start, Pursues
  <2> QED
    BY <1>4, <2>1 DEF Start
<1>5. CASE UNCHANGED vars
  <2>1. Followed'
    BY <1>5, FollowedKept DEF vars, Pursues
  <2> QED
    BY <1>5, <2>1 DEF vars
<1> QED
  BY <1>1, <1>2, <1>3, <1>4, <1>5

\* When the process is down after a shutdown or a crash, every action of a
\* crossed incident that no failure has hit is recorded (the order of lifespan's
\* shutdown, and drain waiting for every task).
THEOREM DrainLosesNothing == Spec => []DrainedIsRecorded
<1>1. Init => DrainInv
  BY DEF Init, DrainInv, Followed, InFlight
<1>2. WellTyped /\ DrainInv /\ [Next]_vars => DrainInv'
  BY DrainHandler, DrainTask, DrainProcess DEF Next
<1>3. WellTyped /\ DrainInv => DrainedIsRecorded
  <2> SUFFICES ASSUME WellTyped, DrainInv, server = "down",
                      NEW i \in Incidents \ lost, NEW p \in Actions, crossed[i],
                      record[i][p] = "none"
               PROVE  FALSE
    BY DEF DrainedIsRecorded
  <2>1. PICK r \in Requests : Pursues(r, p)
    BY DEF DrainInv, Followed
  <2>2. todo[r] = {}
    BY DEF DrainInv, InFlight
  <2>3. task[r][p] \notin Running
    BY ActionsArePlugins DEF DrainInv, Pending
  <2> QED
    BY <2>1, <2>2, <2>3 DEF Pursues
<1> QED
  BY <1>1, <1>2, <1>3, OnceInvariant, PTL DEF Spec
==============================================================================
