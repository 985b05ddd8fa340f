------------------------------- MODULE Lifespan -------------------------------
(***************************************************************************)
(* The process around the expiry worker: lifespan of app/main.py, which    *)
(* loads the configuration, starts the workers, and on its way down stops  *)
(* them, drains the notification tasks and disposes of the engine; and the *)
(* readiness probe of app/api/routers/health.py, which awaits the database *)
(* and then reads the flags the others have set.                           *)
(***************************************************************************)
EXTENDS LifecycleWorker, Sequences

CONSTANTS
  Probes,      \* clients of /v1/readyz, one request each at a time
  Outputs,     \* configured output plugins; {} without a plugins file
  MaxTasks     \* bound on the notification tasks of the process

ASSUME LifespanAssumption == MaxTasks \in Nat

\* What startup puts into app.state, in this order.  Each of the files may be
\* refused; the processor reads rules and topology once more.
Steps == <<"plugins", "engine", "rules", "topology", "runner", "processor">>
Fallible == {"plugins", "engine", "rules", "topology", "processor"}

VARIABLES
  stage,       \* where lifespan is
  loaded,      \* how many of Steps are done
  engine,      \* "none", "open", "disposed"
  ailing,      \* outputs whose plugin_status raises or is not ready
  tasks,       \* notification tasks the runner holds
  submitted,   \* how many it has got so far
  probe,       \* "idle", "asked", or what the database has answered
  answer,      \* the last answer to each client
  outcome      \* history: how the worker's last sweep has ended

own == <<stage, loaded, engine, ailing, tasks, submitted, probe, answer, outcome>>
allVars == <<vars, own>>

Stages == {"starting", "worker", "limiter", "serving", "stopping", "stopping limiter",
           "draining", "disposing", "down", "refused"}

LifespanTypeOK ==
  /\ TypeOK
  /\ stage \in Stages /\ loaded \in 0..Len(Steps) /\ engine \in {"none", "open", "disposed"}
  /\ ailing \subseteq Outputs /\ submitted \in 0..MaxTasks /\ tasks \in 0..submitted
  /\ probe \in [Probes -> {"idle", "asked", "ready", "not_ready"}]
  /\ answer \in [Probes -> {"none", "ready", "not_ready"}]
  /\ outcome \in {"none", "committed", "raised"}

LifespanInit ==
  /\ Init
  /\ stage = "starting" /\ loaded = 0 /\ engine = "none"
  /\ ailing = {} /\ tasks = 0 /\ submitted = 0
  /\ probe = [p \in Probes |-> "idle"] /\ answer = [p \in Probes |-> "none"]
  /\ outcome = "none"

------------------------------------------------------------------------------
\* Startup.

Load ==
  /\ stage = "starting"
  /\ loaded' = loaded + 1
  /\ stage' = IF loaded' = Len(Steps) THEN "worker" ELSE stage
  /\ engine' = IF Steps[loaded'] = "engine" THEN "open" ELSE engine
  /\ UNCHANGED <<vars, ailing, tasks, submitted, probe, answer, outcome>>

\* A file that is refused, or a plugin that raises or reports no status: the
\* exception leaves lifespan before its try, and the server exits.
LoadRaises ==
  /\ stage = "starting"
  /\ Steps[loaded + 1] \in Fallible
  /\ stage' = "refused"
  /\ UNCHANGED <<vars, loaded, engine, ailing, tasks, submitted, probe, answer, outcome>>

StartWorker ==
  /\ stage = "worker"
  /\ Start
  /\ stage' = "limiter"
  /\ UNCHANGED <<loaded, engine, ailing, tasks, submitted, probe, answer, outcome>>

StartLimiterSweep ==
  /\ stage = "limiter"
  /\ stage' = "serving"
  /\ UNCHANGED <<vars, loaded, engine, ailing, tasks, submitted, probe, answer, outcome>>

------------------------------------------------------------------------------
\* While it serves.

Submit ==
  /\ stage = "serving"
  /\ submitted < MaxTasks
  /\ submitted' = submitted + 1 /\ tasks' = tasks + 1
  /\ UNCHANGED <<vars, stage, loaded, engine, ailing, probe, answer, outcome>>

TaskEnds ==
  /\ tasks > 0
  /\ tasks' = tasks - 1
  /\ UNCHANGED <<vars, stage, loaded, engine, ailing, submitted, probe, answer, outcome>>

Ails(o) ==
  /\ stage = "serving"
  /\ ailing' \in {ailing \cup {o}, ailing \ {o}}
  /\ UNCHANGED <<vars, stage, loaded, engine, tasks, submitted, probe, answer, outcome>>

Ask(p) ==
  /\ stage = "serving"
  /\ probe[p] = "idle"
  /\ probe' = [probe EXCEPT ![p] = "asked"]
  /\ UNCHANGED <<vars, stage, loaded, engine, ailing, tasks, submitted, answer, outcome>>

\* check_database_ready returns or raises.
DatabaseCheck(p) ==
  /\ probe[p] = "asked"
  /\ \E state \in {"ready", "not_ready"} : probe' = [probe EXCEPT ![p] = state]
  /\ UNCHANGED <<vars, stage, loaded, engine, ailing, tasks, submitted, answer, outcome>>

\* No plugin of the category, one that is not ready, or all of them ready.
CategoryState ==
  CASE Outputs = {}                  -> "not_configured"
    [] Outputs # {} /\ ailing # {}   -> "not_ready"
    [] Outputs # {} /\ ailing = {}   -> "ready"

\* The checks after the await.  Rules, topology, settings and registry are loaded
\* or the server would not serve.
Checks(p) ==
  [database |-> probe[p],
   lifecycle_worker |-> IF healthy THEN "ready" ELSE "not_ready",
   email |-> CategoryState]

Respond(p) ==
  /\ probe[p] \in {"ready", "not_ready"}
  /\ probe' = [probe EXCEPT ![p] = "idle"]
  /\ answer' = [answer EXCEPT ![p] =
                  IF \E c \in DOMAIN Checks(p) : Checks(p)[c] = "not_ready" THEN "not_ready" ELSE "ready"]
  /\ UNCHANGED <<vars, stage, loaded, engine, ailing, tasks, submitted, outcome>>

------------------------------------------------------------------------------
\* Shutdown, after the HTTP server has ended its requests.

BeginShutdown ==
  /\ stage = "serving"
  /\ \A p \in Probes : probe[p] = "idle"
  /\ Stop
  /\ stage' = "stopping"
  /\ UNCHANGED <<loaded, engine, ailing, tasks, submitted, probe, answer, outcome>>

WorkerStopped ==
  /\ stage = "stopping"
  /\ StopReturns
  /\ stage' = "stopping limiter"
  /\ UNCHANGED <<loaded, engine, ailing, tasks, submitted, probe, answer, outcome>>

\* The limiter's sweep awaits nothing but a lock that is never held for long.
LimiterSweepStopped ==
  /\ stage = "stopping limiter"
  /\ stage' = "draining"
  /\ UNCHANGED <<vars, loaded, engine, ailing, tasks, submitted, probe, answer, outcome>>

\* MUTANT: the tasks are not waited for.
DrainReturnsAtOnce ==
  /\ stage = "draining"
  /\ stage' = "disposing"
  /\ UNCHANGED <<vars, loaded, engine, ailing, tasks, submitted, probe, answer, outcome>>

\* drain has no timeout.
DrainReturns ==
  /\ stage = "draining"
  /\ tasks = 0
  /\ stage' = "disposing"
  /\ UNCHANGED <<vars, loaded, engine, ailing, tasks, submitted, probe, answer, outcome>>

Dispose ==
  /\ stage = "disposing"
  /\ engine' = "disposed" /\ stage' = "down"
  /\ UNCHANGED <<vars, loaded, ailing, tasks, submitted, probe, answer, outcome>>

------------------------------------------------------------------------------
\* The worker's task and the other transactions go on beside all this.

SweepEnds ==
  /\ \/ SweepCommits /\ outcome' = "committed"
     \/ SweepRaises /\ outcome' = "raised"
  /\ UNCHANGED <<stage, loaded, engine, ailing, tasks, submitted, probe, answer>>

WorkerRuns == (SweepBegins \/ Wakes \/ Leaves \/ StopTimesOut) /\ UNCHANGED own

TableStep(i) == (Age(i) \/ LockRow(i) \/ Release(i)) /\ UNCHANGED own

Going ==
  Load \/ StartWorker \/ StartLimiterSweep \/ WorkerStopped \/ LimiterSweepStopped
    \/ DrainReturns \/ Dispose

LifespanNext ==
  \/ Going \/ LoadRaises \/ BeginShutdown
  \/ Submit \/ TaskEnds
  \/ \E o \in Outputs : Ails(o)
  \/ \E p \in Probes : Ask(p) \/ DatabaseCheck(p) \/ Respond(p)
  \/ SweepEnds \/ WorkerRuns
  \/ \E i \in Ids : TableStep(i)

\* The event loop runs what is ready and timers fire.  A sweep or a task may hang
\* on the database for ever, and nobody has to ask or to shut down.
LifespanSpec ==
  /\ LifespanInit /\ [][LifespanNext]_allVars
  /\ WF_allVars(Going) /\ WF_allVars(WorkerRuns)

\* The database answers sweeps, and the transactions that hold rows end.
SweepsReturn ==
  WF_allVars(SweepEnds) /\ \A i \in Ids : WF_allVars(Release(i) /\ UNCHANGED own)

\* Somebody keeps asking, and each probe is answered.
Monitored ==
  \A p \in Probes :
    WF_allVars(Ask(p)) /\ WF_allVars(DatabaseCheck(p)) /\ WF_allVars(Respond(p))

------------------------------------------------------------------------------
\* Nothing that uses the engine outlives it: when lifespan disposes of it, no sweep,
\* no notification task and no probe is under way (main.py, the finally of lifespan).
DisposedIsIdle ==
  engine = "disposed" =>
    worker # "sweeping" /\ tasks = 0 /\ \A p \in Probes : probe[p] = "idle"

\* A probe that answers ready answers at a moment when the worker's last sweep has
\* committed and every output is ready, however long it has waited for the
\* database (_dependency_checks reads the flags after the await).
ReadyIsEarned ==
  [][\A p \in Probes :
       probe[p] \in {"ready", "not_ready"} /\ probe'[p] = "idle" /\ answer'[p] = "ready"
         => outcome = "committed" /\ ailing = {}]_allVars

\* While sweeps return, an incident that stays overdue, because its own rule name or
\* that of another one in the batch cannot be noted, keeps readiness red; with
\* harmless names no incident stays overdue, however many there are and whatever
\* rows are locked (expire_stale_incidents, _run_sweep, readyz).
OverdueIsExpiredOrShown ==
  SweepsReturn /\ Monitored =>
    \A i \in Ids, p \in Probes :
      <>[](incident[i] = "stale" /\ stage = "serving") => <>[](answer[p] = "not_ready")

\* A shutdown ends even if a sweep never returns, provided the tasks end: stop()
\* cancels the sweep, drain waits without a timeout (LifecycleWorker.stop, drain).
ShutdownEnds == WF_allVars(TaskEnds) => (stopping ~> stage = "down")
==============================================================================
