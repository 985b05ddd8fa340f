---------------------------- MODULE LifespanProofs ----------------------------
(***************************************************************************)
(* For any incidents, plugins, probes and bounds: the state is well        *)
(* formed, nothing outlives the engine, and a ready answer is earned.      *)
(***************************************************************************)
EXTENDS Lifespan, FiniteSetTheorems, TLAPS

------------------------------------------------------------------------------
(* Types *)

LEMMA CardinalityOfRows == \A S \in SUBSET Ids : Cardinality(S) \in Nat
  BY WorkerAssumption, FS_Subset, FS_CardinalityType DEF WorkerAssumption

\* The actions of the worker and of the table keep their part of the state in type.
LEMMA WorkerTyped ==
  ASSUME TypeOK,
         \/ Start \/ Stop \/ StopReturns \/ SweepCommits \/ SweepRaises
         \/ SweepBegins \/ Wakes \/ Leaves \/ StopTimesOut
  PROVE  TypeOK'
<1> USE WorkerAssumption DEF WorkerAssumption, TypeOK, table
<1>1. CASE Start        BY <1>1 DEF Start
<1>2. CASE Stop         BY <1>2 DEF Stop
<1>3. CASE StopReturns  BY <1>3 DEF StopReturns
<1>4. CASE SweepCommits
  BY <1>4, CardinalityOfRows DEF SweepCommits, Closed
<1>5. CASE SweepRaises
  <2>1. failures' \in 0..MaxFailures
    <3>1. CASE UNCHANGED failures
      BY <3>1
    <3>2. CASE failures < MaxFailures /\ failures' = failures + 1
      BY <3>2
    <3> QED
      BY <1>5, <3>1, <3>2 DEF SweepRaises
  <2> QED
    BY <1>5, <2>1 DEF SweepRaises
<1>6. CASE SweepBegins  BY <1>6 DEF SweepBegins, Batch, Overdue
<1>7. CASE Wakes        BY <1>7 DEF Wakes
<1>8. CASE Leaves       BY <1>8 DEF Leaves
<1>9. CASE StopTimesOut BY <1>9 DEF StopTimesOut, Closed
<1> QED
  BY <1>1, <1>2, <1>3, <1>4, <1>5, <1>6, <1>7, <1>8, <1>9

LEMMA TableTyped ==
  ASSUME TypeOK, NEW i \in Ids, Age(i) \/ LockRow(i) \/ Release(i)
  PROVE  TypeOK'
<1> USE WorkerAssumption DEF WorkerAssumption, TypeOK
<1>1. CASE Age(i)     BY <1>1 DEF Age
<1>2. CASE LockRow(i) BY <1>2 DEF LockRow
<1>3. CASE Release(i) BY <1>3 DEF Release
<1> QED
  BY <1>1, <1>2, <1>3

LEMMA TypeKept == TypeOK /\ UNCHANGED vars => TypeOK'
  BY DEF TypeOK, vars

\* The part of the state that lifespan itself adds.
OwnTyped ==
  /\ stage \in Stages /\ loaded \in 0..Len(Steps) /\ engine \in {"none", "open", "disposed"}
  /\ ailing \subseteq Outputs /\ submitted \in 0..MaxTasks /\ tasks \in 0..submitted
  /\ probe \in [Probes -> {"idle", "asked", "ready", "not_ready"}]
  /\ answer \in [Probes -> {"none", "ready", "not_ready"}]
  /\ outcome \in {"none", "committed", "raised"}
  /\ stage = "starting" => loaded < Len(Steps)

LEMMA OneTaskLess ==
  ASSUME NEW most \in Nat, NEW ever \in 0..most, NEW now \in 0..ever, now > 0
  PROVE  now # 0 /\ now - 1 \in 0..ever
  OBVIOUS

LEMMA OwnStep == LifespanAssumption /\ OwnTyped /\ [LifespanNext]_allVars => OwnTyped'
<1> SUFFICES ASSUME LifespanAssumption, OwnTyped, [LifespanNext]_allVars
             PROVE  OwnTyped'
  OBVIOUS
<1> USE LifespanAssumption DEF OwnTyped, Stages, LifespanAssumption
<1>1. Len(Steps) = 6
  BY DEF Steps
<1>2. CASE Load                BY <1>1, <1>2 DEF Load
<1>3. CASE LoadRaises          BY <1>3 DEF LoadRaises
<1>4. CASE StartWorker         BY <1>4 DEF StartWorker
<1>5. CASE StartLimiterSweep   BY <1>5 DEF StartLimiterSweep
<1>6. CASE WorkerStopped       BY <1>6 DEF WorkerStopped
<1>7. CASE LimiterSweepStopped BY <1>7 DEF LimiterSweepStopped
<1>8. CASE DrainReturns        BY <1>8 DEF DrainReturns
<1>9. CASE Dispose             BY <1>9 DEF Dispose
<1>10. CASE BeginShutdown      BY <1>10 DEF BeginShutdown
<1>11. CASE Submit             BY <1>11 DEF Submit
<1>12. CASE TaskEnds
  <2>1. tasks > 0
    BY <1>12 DEF TaskEnds
  <2>2. tasks - 1 \in 0..submitted
    BY <2>1, OneTaskLess
  <2> QED
    BY <1>12, <2>2 DEF TaskEnds
<1>13. ASSUME NEW o \in Outputs, Ails(o) PROVE OwnTyped'
  BY <1>13 DEF Ails
<1>14. ASSUME NEW p \in Probes, Ask(p) \/ DatabaseCheck(p) \/ Respond(p) PROVE OwnTyped'
  BY <1>14, ZenonT(30) DEF Ask, DatabaseCheck, Respond
<1>15. CASE SweepEnds          BY <1>15 DEF SweepEnds
<1>16. CASE UNCHANGED own      BY <1>16 DEF own
<1> QED
  BY <1>2, <1>3, <1>4, <1>5, <1>6, <1>7, <1>8, <1>9, <1>10, <1>11, <1>12, <1>13, <1>14, <1>15, <1>16
  DEF LifespanNext, Going, WorkerRuns, TableStep, allVars

LEMMA WorkerStep == TypeOK /\ [LifespanNext]_allVars => TypeOK'
<1> SUFFICES ASSUME TypeOK, [LifespanNext]_allVars
             PROVE  TypeOK'
  OBVIOUS
<1>1. CASE StartWorker \/ BeginShutdown \/ WorkerStopped \/ SweepEnds \/ WorkerRuns
  BY <1>1, WorkerTyped DEF StartWorker, BeginShutdown, WorkerStopped, SweepEnds, WorkerRuns
<1>2. ASSUME NEW i \in Ids, TableStep(i) PROVE TypeOK'
  BY <1>2, TableTyped DEF TableStep
<1>3. CASE \/ Load \/ LoadRaises \/ StartLimiterSweep \/ LimiterSweepStopped \/ DrainReturns \/ Dispose
           \/ Submit \/ TaskEnds
  BY <1>3, TypeKept DEF Load, LoadRaises, StartLimiterSweep, LimiterSweepStopped, DrainReturns, Dispose, Submit, TaskEnds
<1>4. ASSUME NEW o \in Outputs, Ails(o) PROVE TypeOK'
  BY <1>4, TypeKept DEF Ails
<1>5. ASSUME NEW p \in Probes, Ask(p) \/ DatabaseCheck(p) \/ Respond(p) PROVE TypeOK'
  BY <1>5, TypeKept DEF Ask, DatabaseCheck, Respond
<1>6. CASE UNCHANGED allVars
  BY <1>6, TypeKept DEF allVars
<1> QED
  BY <1>1, <1>2, <1>3, <1>4, <1>5, <1>6 DEF LifespanNext, Going

\* Every reachable state of the process is well formed.
THEOREM LifespanTypeCorrect == LifespanSpec => []LifespanTypeOK
<1>1. LifespanInit => TypeOK
  <2> SUFFICES ASSUME Init
               PROVE  TypeOK
    BY DEF LifespanInit
  <2>1. incident \in [Ids -> {"fresh", "stale", "closed"}]
    BY DEF Init
  <2>2. 0 \in 0..MaxRefreshes /\ 0 \in 0..MaxLocks /\ 0 \in 0..MaxFailures
    BY WorkerAssumption DEF WorkerAssumption
  <2> QED
    BY <2>1, <2>2 DEF Init, TypeOK
<1>2. LifespanInit => OwnTyped
  BY LifespanAssumption DEF LifespanInit, OwnTyped, Stages, Steps, LifespanAssumption
<1>3. TypeOK /\ OwnTyped /\ [LifespanNext]_allVars => TypeOK' /\ OwnTyped'
  BY OwnStep, WorkerStep, LifespanAssumption
<1>4. TypeOK /\ OwnTyped => LifespanTypeOK
  BY DEF OwnTyped, LifespanTypeOK
<1> QED
  BY <1>1, <1>2, <1>3, <1>4, PTL DEF LifespanSpec

------------------------------------------------------------------------------
(* Shutdown *)

Ending == {"stopping limiter", "draining", "disposing", "down"}

\* Why nothing outlives the engine: each stage of the shutdown is entered only when what
\* it has waited for is over, and nothing can begin again afterwards.
IdleInv ==
  /\ engine = "disposed" => stage = "down"
  /\ stage \in Ending => worker = "off"
  /\ stage \in {"disposing", "down"} => tasks = 0
  /\ stage \in Ending \cup {"stopping"} => \A p \in Probes : probe[p] = "idle"

LEMMA IdleStep == LifespanTypeOK /\ IdleInv /\ [LifespanNext]_allVars => IdleInv'
<1> SUFFICES ASSUME LifespanTypeOK, IdleInv, [LifespanNext]_allVars
             PROVE  IdleInv'
  OBVIOUS
<1> USE DEF IdleInv, Ending
\* Before the server goes down: no stage of the shutdown is reached but its first.
<1>1. CASE Load
  <2>1. stage' \in {"worker", "starting"} /\ engine' # "disposed"
    BY <1>1 DEF Load, LifespanTypeOK, Steps
  <2> QED
    BY <2>1
<1>2. CASE LoadRaises \/ StartWorker \/ StartLimiterSweep
  BY <1>2 DEF LoadRaises, StartWorker, StartLimiterSweep
<1>3. CASE BeginShutdown
  BY <1>3 DEF BeginShutdown
\* The stages of the shutdown.
<1>4. CASE WorkerStopped
  BY <1>4 DEF WorkerStopped, StopReturns
<1>5. CASE LimiterSweepStopped \/ DrainReturns \/ Dispose
  BY <1>5 DEF LimiterSweepStopped, DrainReturns, Dispose, vars
\* What may go on beside them.
<1>6. CASE Submit
  BY <1>6 DEF Submit, vars
<1>7. CASE TaskEnds
  <2>1. tasks # 0
    BY <1>7, OneTaskLess, LifespanAssumption DEF TaskEnds, LifespanTypeOK, LifespanAssumption
  <2> QED
    BY <1>7, <2>1 DEF TaskEnds, vars
<1>8. ASSUME NEW o \in Outputs, Ails(o) PROVE IdleInv'
  BY <1>8 DEF Ails, vars
<1>9. ASSUME NEW p \in Probes, Ask(p) \/ DatabaseCheck(p) \/ Respond(p) PROVE IdleInv'
  BY <1>9 DEF Ask, DatabaseCheck, Respond, vars
<1>10. CASE SweepEnds
  BY <1>10 DEF SweepEnds, SweepCommits, SweepRaises
<1>11. CASE WorkerRuns
  BY <1>11 DEF WorkerRuns, SweepBegins, Wakes, Leaves, StopTimesOut, own
<1>12. ASSUME NEW i \in Ids, TableStep(i) PROVE IdleInv'
  BY <1>12 DEF TableStep, Age, LockRow, Release, own
<1>13. CASE UNCHANGED allVars
  BY <1>13 DEF allVars, vars, own
<1> QED
  BY <1>1, <1>2, <1>3, <1>4, <1>5, <1>6, <1>7, <1>8, <1>9, <1>10, <1>11, <1>12, <1>13
  DEF LifespanNext, Going

\* When lifespan disposes of the engine, no sweep, no notification task and no probe is
\* under way, whenever the shutdown began and whatever hung.
THEOREM NothingOutlivesEngine == LifespanSpec => []DisposedIsIdle
<1>1. LifespanInit => IdleInv
  BY DEF LifespanInit, IdleInv, Ending
<1>2. IdleInv => DisposedIsIdle
  BY DEF IdleInv, Ending, DisposedIsIdle
<1> QED
  BY <1>1, <1>2, IdleStep, LifespanTypeCorrect, PTL DEF LifespanSpec

------------------------------------------------------------------------------
(* Readiness *)

\* Why the flag can be believed after any wait: only a sweep that commits raises it,
\* and only a sweep that raises takes it, and the outcome, back.
FlagIsOutcome == healthy => outcome = "committed"

LEMMA FlagStep == FlagIsOutcome /\ [LifespanNext]_allVars => FlagIsOutcome'
<1> SUFFICES ASSUME FlagIsOutcome, [LifespanNext]_allVars
             PROVE  FlagIsOutcome'
  OBVIOUS
<1> USE DEF FlagIsOutcome
<1>1. CASE SweepEnds
  BY <1>1 DEF SweepEnds, SweepCommits, SweepRaises
<1>2. CASE Going
  BY <1>2 DEF Going, Load, StartWorker, Start, StartLimiterSweep, WorkerStopped, StopReturns,
              LimiterSweepStopped, DrainReturns, Dispose, vars
<1>3. CASE LoadRaises \/ BeginShutdown \/ Submit \/ TaskEnds
  BY <1>3 DEF LoadRaises, BeginShutdown, Stop, Submit, TaskEnds, vars
<1>4. ASSUME NEW o \in Outputs, Ails(o) PROVE FlagIsOutcome'
  BY <1>4 DEF Ails, vars
<1>5. ASSUME NEW p \in Probes, Ask(p) \/ DatabaseCheck(p) \/ Respond(p) PROVE FlagIsOutcome'
  BY <1>5 DEF Ask, DatabaseCheck, Respond, vars
<1>6. CASE WorkerRuns
  BY <1>6 DEF WorkerRuns, SweepBegins, Wakes, Leaves, StopTimesOut, own
<1>7. ASSUME NEW i \in Ids, TableStep(i) PROVE FlagIsOutcome'
  BY <1>7 DEF TableStep, Age, LockRow, Release, own
<1>8. CASE UNCHANGED allVars
  BY <1>8 DEF allVars, vars, own
<1> QED
  BY <1>1, <1>2, <1>3, <1>4, <1>5, <1>6, <1>7, <1>8 DEF LifespanNext

\* What an answer of ready has seen.
LEMMA ReadyChecks ==
  ASSUME LifespanTypeOK, FlagIsOutcome, NEW p \in Probes, Respond(p), answer'[p] = "ready"
  PROVE  outcome = "committed" /\ ailing = {}
<1>1. \A c \in DOMAIN Checks(p) : Checks(p)[c] # "not_ready"
  BY DEF Respond, LifespanTypeOK
<1>2. healthy
  <2>1. Checks(p).lifecycle_worker # "not_ready"
    BY <1>1 DEF Checks
  <2> QED
    BY <2>1 DEF Checks
<1>3. ailing = {}
  <2>1. CategoryState # "not_ready"
    <3>1. Checks(p).email # "not_ready"
      BY <1>1 DEF Checks
    <3> QED
      BY <3>1 DEF Checks
  <2>2. CASE Outputs = {}
    BY <2>2 DEF LifespanTypeOK
  <2>3. CASE Outputs # {}
    BY <2>1, <2>3 DEF CategoryState
  <2> QED
    BY <2>2, <2>3
<1> QED
  BY <1>2, <1>3 DEF FlagIsOutcome

\* The step ReadyIsEarned speaks of.
Earned ==
  \A p \in Probes :
    probe[p] \in {"ready", "not_ready"} /\ probe'[p] = "idle" /\ answer'[p] = "ready"
      => outcome = "committed" /\ ailing = {}

LEMMA EarnedStep ==
  LifespanTypeOK /\ FlagIsOutcome /\ [LifespanNext]_allVars => [Earned]_allVars
<1> SUFFICES ASSUME LifespanTypeOK, FlagIsOutcome, LifespanNext, NEW p \in Probes,
                    probe[p] \in {"ready", "not_ready"}, probe'[p] = "idle",
                    answer'[p] = "ready"
             PROVE  outcome = "committed" /\ ailing = {}
  BY DEF Earned
<1>1. CASE \E q \in Probes : Ask(q) \/ DatabaseCheck(q)
  BY <1>1 DEF Ask, DatabaseCheck, LifespanTypeOK
<1>2. ASSUME NEW q \in Probes, Respond(q) PROVE q = p
  BY <1>2 DEF Respond, LifespanTypeOK
<1>3. CASE Respond(p)
  BY <1>3, ReadyChecks
\* Every other step leaves the probes alone.
<1>4. CASE UNCHANGED probe
  BY <1>4
<1>5. Going \/ LoadRaises \/ BeginShutdown \/ Submit \/ TaskEnds => UNCHANGED probe
  BY DEF Going, Load, StartWorker, StartLimiterSweep, WorkerStopped, LimiterSweepStopped,
         DrainReturns, Dispose, LoadRaises, BeginShutdown, Submit, TaskEnds
<1>6. SweepEnds \/ WorkerRuns \/ (\E i \in Ids : TableStep(i)) => UNCHANGED probe
  BY DEF SweepEnds, WorkerRuns, TableStep, own
<1>7. \A o \in Outputs : Ails(o) => UNCHANGED probe
  BY DEF Ails
<1> QED
  BY <1>1, <1>2, <1>3, <1>4, <1>5, <1>6, <1>7 DEF LifespanNext

\* A probe that answers ready answers when the worker's last sweep has committed and
\* every output is ready, however long it has awaited the database.
THEOREM ReadyAnswersAreEarned == LifespanSpec => ReadyIsEarned
<1>1. LifespanInit => FlagIsOutcome
  BY DEF LifespanInit, Init, FlagIsOutcome
<1>2. ReadyIsEarned <=> [][Earned]_allVars
  BY DEF ReadyIsEarned, Earned
<1> QED
  BY <1>1, <1>2, FlagStep, EarnedStep, LifespanTypeCorrect, PTL DEF LifespanSpec
==============================================================================
