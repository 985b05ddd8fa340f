------------------------- MODULE NotificationPipeline -------------------------
(***************************************************************************)
(* From the commit that crosses a threshold to the delivery record: the    *)
(* webhook handlers of app/processing/ingress.py submit one in-memory task *)
(* per output plugin after their transaction has committed, the tasks of   *)
(* AsyncIOTaskRunner run the NotificationDispatcher, and a shutdown drains *)
(* them.  Nothing of this is durable but the incident row: a crash drops   *)
(* handlers and tasks, and a retried webhook finds the marker latched.     *)
(*                                                                         *)
(* The incident row is reduced to the marker and the delivery results;     *)
(* IncidentStore shows that writing either is atomic.  The rule's other    *)
(* events, which plan nothing, are left out.  The dispatcher's registry is *)
(* the processor's, as lifespan wires them, so a task's config hash and    *)
(* plugin name, checked at submission, are still right when it runs.       *)
(***************************************************************************)
EXTENDS Integers, FiniteSets

CONSTANTS
  Requests,     \* webhook deliveries, retries included
  Incidents,
  Plugins,      \* naturals: their order is the order of the plugin names
  Actions,      \* the actions of the rule
  Registries,   \* the plugin sets a process may be started with
  MaxCrashes,   \* bound on the crashes
  MaxStops,     \* bound on the graceful shutdowns
  Faults        \* whether a commit, a load, a submission or a record may fail

\* load_rules_config refuses an action whose plugin is not in the registry,
\* unless the registry is empty.
Startable == {S \in SUBSET Plugins : S = {} \/ Actions \subseteq S}

ASSUME PipelineAssumption ==
  /\ Plugins \subseteq Nat
  /\ Actions \subseteq Plugins
  /\ Registries \subseteq Startable
  /\ MaxCrashes \in Nat
  /\ MaxStops \in Nat
  /\ Faults \in BOOLEAN

VARIABLES
  crossed,    \* threshold_crossed of each incident, committed
  record,     \* notification_delivery_results of each incident, committed
  sends,      \* how often the plugin's receiver got the notification
  handler,    \* phase of each webhook handler
  incident,   \* the incident its event belongs to
  todo,       \* plugins _submit_notifications has still to go through
  task,       \* phase of the task a handler submitted for a plugin
  server,     \* "up", "draining" or "down"
  registry,   \* plugin registry of the running process
  crashes, stops,
  lost        \* incidents whose planned notifications met a failure

vars == <<crossed, record, sends, handler, incident, todo, task,
          server, registry, crashes, stops, lost>>
database == <<crossed, record>>
process  == <<server, registry, crashes, stops>>

Results       == {"none", "delivered", "failed"}
HandlerPhases == {"idle", "commit", "submit", "answered", "failed"}
TaskPhases    == {"none", "queued", "loaded", "ok", "raised", "done"}
Running       == {"queued", "loaded", "ok", "raised"}

TypeOK ==
  /\ crossed \in [Incidents -> BOOLEAN]
  /\ record \in [Incidents -> [Plugins -> Results]]
  /\ sends \in [Incidents -> [Plugins -> Nat]]
  /\ handler \in [Requests -> HandlerPhases]
  /\ incident \in [Requests -> Incidents]
  /\ todo \in [Requests -> SUBSET Actions]
  /\ task \in [Requests -> [Plugins -> TaskPhases]]
  /\ server \in {"up", "draining", "down"}
  /\ registry \in Registries
  /\ crashes \in 0..MaxCrashes
  /\ stops \in 0..MaxStops
  /\ lost \subseteq Incidents

Init ==
  /\ crossed = [i \in Incidents |-> FALSE]
  /\ record = [i \in Incidents |-> [p \in Plugins |-> "none"]]
  /\ sends = [i \in Incidents |-> [p \in Plugins |-> 0]]
  /\ handler = [r \in Requests |-> "idle"]
  /\ incident \in [Requests -> Incidents]
  /\ todo = [r \in Requests |-> {}]
  /\ task = [r \in Requests |-> [p \in Plugins |-> "none"]]
  /\ server = "up"
  /\ registry \in Registries
  /\ crashes = 0
  /\ stops = 0
  /\ lost = {}

------------------------------------------------------------------------------
\* The webhook handler, process_payload.

Arrive(r) ==
  /\ server = "up"
  /\ handler[r] = "idle"
  /\ handler' = [handler EXCEPT ![r] = "commit"]
  /\ UNCHANGED <<database, sends, incident, todo, task, process, lost>>

\* MUTANT: every matching event plans its notification.
CommitUnlatched(r) ==
  /\ handler[r] = "commit"
  /\ crossed' = [crossed EXCEPT ![incident[r]] = TRUE]
  /\ handler' = [handler EXCEPT ![r] = "submit"]
  /\ todo' = [todo EXCEPT ![r] = Actions]
  /\ UNCHANGED <<record, sends, incident, task, process, lost>>

\* The transaction commits; only the first crossing plans a notification.
Commit(r) ==
  /\ handler[r] = "commit"
  /\ crossed' = [crossed EXCEPT ![incident[r]] = TRUE]
  /\ IF crossed[incident[r]]
     THEN handler' = [handler EXCEPT ![r] = "answered"] /\ UNCHANGED todo
     ELSE /\ handler' = [handler EXCEPT ![r] = "submit"]
          /\ todo' = [todo EXCEPT ![r] = Actions]
  /\ UNCHANGED <<record, sends, incident, task, process, lost>>

\* The commit raises, and nothing was committed.
CommitFails(r) ==
  /\ Faults
  /\ handler[r] = "commit"
  /\ handler' = [handler EXCEPT ![r] = "failed"]
  /\ UNCHANGED <<database, sends, incident, todo, task, process, lost>>

\* The commit raises after the server has applied it.
CommitUnconfirmed(r) ==
  /\ Faults
  /\ handler[r] = "commit"
  /\ crossed' = [crossed EXCEPT ![incident[r]] = TRUE]
  /\ handler' = [handler EXCEPT ![r] = "failed"]
  /\ lost' = IF crossed[incident[r]] THEN lost ELSE lost \cup {incident[r]}
  /\ UNCHANGED <<record, sends, incident, todo, task, process>>

\* sorted(set(decision.actions)): the next plugin of the loop.
Turn(r, p) == handler[r] = "submit" /\ p \in todo[r] /\ \A q \in todo[r] : p <= q

\* MUTANT: the acceptance of the task is recorded as its delivery.
AcceptAndRecord(r, p) ==
  /\ Turn(r, p)
  /\ p \in registry
  /\ task' = [task EXCEPT ![r][p] = "queued"]
  /\ record' = [record EXCEPT ![incident[r]][p] = "delivered"]
  /\ todo' = [todo EXCEPT ![r] = @ \ {p}]
  /\ UNCHANGED <<crossed, sends, handler, incident, process, lost>>

Accept(r, p) ==
  /\ Turn(r, p)
  /\ p \in registry
  /\ task' = [task EXCEPT ![r][p] = "queued"]
  /\ todo' = [todo EXCEPT ![r] = @ \ {p}]
  /\ UNCHANGED <<database, sends, handler, incident, process, lost>>

\* MUTANT: the loop ends at the first plugin that cannot be submitted.
RefuseAndReturn(r, p) ==
  /\ Turn(r, p)
  /\ p \notin registry \/ Faults
  /\ record' = [record EXCEPT ![incident[r]][p] = "failed"]
  /\ todo' = [todo EXCEPT ![r] = {}]
  /\ UNCHANGED <<crossed, sends, handler, incident, task, process, lost>>

\* Unknown plugin, or submit raises: a terminal record, then the next plugin.
Refuse(r, p) ==
  /\ Turn(r, p)
  /\ p \notin registry \/ Faults
  /\ record' = [record EXCEPT ![incident[r]][p] = "failed"]
  /\ todo' = [todo EXCEPT ![r] = @ \ {p}]
  /\ UNCHANGED <<crossed, sends, handler, incident, task, process, lost>>

\* _persist_terminal_notification_result raises: the loop and the request end.
RefuseFails(r, p) ==
  /\ Faults
  /\ Turn(r, p)
  /\ handler' = [handler EXCEPT ![r] = "failed"]
  /\ todo' = [todo EXCEPT ![r] = {}]
  /\ lost' = lost \cup {incident[r]}
  /\ UNCHANGED <<database, sends, incident, task, process>>

Answer(r) ==
  /\ handler[r] = "submit"
  /\ todo[r] = {}
  /\ handler' = [handler EXCEPT ![r] = "answered"]
  /\ UNCHANGED <<database, sends, incident, todo, task, process, lost>>

------------------------------------------------------------------------------
\* The task, NotificationDispatcher.process.

Load(r, p) ==
  /\ task[r][p] = "queued"
  /\ task' = [task EXCEPT ![r][p] = "loaded"]
  /\ UNCHANGED <<database, sends, handler, incident, todo, process, lost>>

\* send_notification returns, raises, or raises although the receiver has it.
Send(r, p) ==
  /\ task[r][p] = "loaded"
  /\ \E outcome \in {"ok", "raised"}, received \in {0, 1} :
       /\ outcome = "ok" => received = 1
       /\ task' = [task EXCEPT ![r][p] = outcome]
       /\ sends' = [sends EXCEPT ![incident[r]][p] = @ + received]
  /\ UNCHANGED <<database, handler, incident, todo, process, lost>>

\* MUTANT: the result does not depend on what the plugin did.
RecordSuccess(r, p) ==
  /\ task[r][p] \in {"ok", "raised"}
  /\ record' = [record EXCEPT ![incident[r]][p] = "delivered"]
  /\ task' = [task EXCEPT ![r][p] = "done"]
  /\ UNCHANGED <<crossed, sends, handler, incident, todo, process, lost>>

\* _record_if_incident_exists, in a transaction of its own.
Record(r, p) ==
  /\ task[r][p] \in {"ok", "raised"}
  /\ record' = [record EXCEPT ![incident[r]][p] =
                  IF task[r][p] = "ok" THEN "delivered" ELSE "failed"]
  /\ task' = [task EXCEPT ![r][p] = "done"]
  /\ UNCHANGED <<crossed, sends, handler, incident, todo, process, lost>>

\* The load or the record raises: the task runner logs the exception.
TaskFails(r, p) ==
  /\ Faults
  /\ task[r][p] \in {"queued", "ok", "raised"}
  /\ task' = [task EXCEPT ![r][p] = "done"]
  /\ lost' = lost \cup {incident[r]}
  /\ UNCHANGED <<database, sends, handler, incident, todo, process>>

------------------------------------------------------------------------------
\* The process.

InFlight == {r \in Requests : handler[r] \in {"commit", "submit"}}
Pending  == {r \in Requests : \E p \in Plugins : task[r][p] \in Running}

\* The HTTP server has let its requests finish; lifespan stops its workers.
Shutdown ==
  /\ server = "up"
  /\ InFlight = {}
  /\ stops < MaxStops
  /\ server' = "draining"
  /\ stops' = stops + 1
  /\ UNCHANGED <<database, sends, handler, incident, todo, task, registry, crashes, lost>>

\* The event loop ends and takes the tasks with it.
Discard ==
  task' = [r \in Requests |->
             [p \in Plugins |-> IF task[r][p] \in Running THEN "done" ELSE task[r][p]]]

\* MUTANT: the engine is disposed without waiting for the tasks.
ExitAtOnce ==
  /\ server = "draining"
  /\ server' = "down"
  /\ Discard
  /\ UNCHANGED <<database, sends, handler, incident, todo, registry, crashes, stops, lost>>

\* AsyncIOTaskRunner.drain returns.
Drained ==
  /\ server = "draining"
  /\ Pending = {}
  /\ server' = "down"
  /\ UNCHANGED <<database, sends, handler, incident, todo, task, registry, crashes,
                 stops, lost>>

Crash ==
  /\ server # "down"
  /\ crashes < MaxCrashes
  /\ server' = "down"
  /\ crashes' = crashes + 1
  /\ handler' = [r \in Requests |-> IF r \in InFlight THEN "failed" ELSE handler[r]]
  /\ todo' = [r \in Requests |-> {}]
  /\ Discard
  /\ lost' = lost \cup {incident[r] : r \in {q \in Requests : handler[q] = "submit"}
                                            \cup Pending}
  /\ UNCHANGED <<database, sends, incident, registry, stops>>

Start ==
  /\ server = "down"
  /\ server' = "up"
  /\ registry' \in Registries
  /\ UNCHANGED <<database, sends, handler, incident, todo, task, crashes, stops, lost>>

------------------------------------------------------------------------------
HandlerStep(r) ==
  \/ Commit(r) \/ CommitFails(r) \/ CommitUnconfirmed(r) \/ Answer(r)
  \/ \E p \in Plugins : Accept(r, p) \/ Refuse(r, p) \/ RefuseFails(r, p)

TaskStep(r, p) == Load(r, p) \/ Send(r, p) \/ Record(r, p) \/ TaskFails(r, p)

Next ==
  \/ \E r \in Requests :
       Arrive(r) \/ HandlerStep(r) \/ \E p \in Plugins : TaskStep(r, p)
  \/ Shutdown \/ Drained \/ Crash \/ Start

\* The event loop runs what is ready and plugins return; nobody has to send a
\* webhook, to stop the server or to start it again.
Fairness ==
  \A r \in Requests :
    WF_vars(HandlerStep(r)) /\ \A p \in Plugins : WF_vars(TaskStep(r, p))

Spec     == Init /\ [][Next]_vars
FairSpec == Spec /\ Fairness

------------------------------------------------------------------------------
\* At most once: no sequence of retried webhooks, failed commits, crashes and
\* restarts makes a plugin's receiver get an incident's notification twice.
SentAtMostOnce == \A i \in Incidents, p \in Plugins : sends[i][p] <= 1

\* A record of success is true: the receiver has got the notification.  (A record
\* of failure may be wrong, when a plugin raises after it has delivered.)
DeliveredIsTrue ==
  \A i \in Incidents, p \in Plugins : record[i][p] = "delivered" => sends[i][p] = 1

\* A terminal record is terminal: the submission path and the dispatcher never
\* both write one, nor does a retry or a restart overwrite it.
RecordIsFinal ==
  [][\A i \in Incidents, p \in Plugins :
       record[i][p] # "none" => record'[i][p] = record[i][p]]_vars

\* A graceful shutdown loses nothing: when the process has drained, each action
\* of a crossed incident is recorded, unless a failure had hit that incident.
DrainedIsRecorded ==
  server = "down" =>
    \A i \in Incidents \ lost, p \in Actions : crossed[i] => record[i][p] # "none"

\* A committed crossing leads to a terminal record for each action, unless a
\* crash or a failing database hit its handler or one of its tasks.
CrossingIsRecorded ==
  \A i \in Incidents, p \in Actions :
    crossed[i] ~> (record[i][p] # "none" \/ i \in lost)
==============================================================================
