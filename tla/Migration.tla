----------------------------- MODULE Migration -----------------------------
(* Runs of scripts/migrate_vigilo_config.py, one after another, over the     *)
(* output directory and the report file, while the server reads the report   *)
(* for its metrics.  A file holds the number of the run that wrote it.       *)
EXTENDS VigiloTranslation, FiniteSetsExt

CONSTANTS Documents,    \* what each run may be given: run |-> set of documents
          MaxRuns,
          Order,        \* rules.yaml, topology.yaml, plugins.yaml
          NoFile, Torn,
          NoReport,
          MaxIssues,    \* _MIGRATION_SUMMARY_MAX_ISSUES = MIGRATION_REPORT_MAX_ISSUE_COUNT
          MaxFit,       \* issues that fit into MIGRATION_REPORT_MAX_BYTES
          ReportCodes,  \* MIGRATION_REPORT_ISSUE_CODES
          Events

Names == ToSet(Order)
NoFiles == [n \in Names |-> NoFile]

FailureCodes ==  \* MigrationFailureCode, but for "none"
  {"argument", "input_validation", "source_validation", "cataloged_incompatibility",
   "staged_validation", "promotion_failure"}
Reports ==
  [run : 0..MaxRuns, ok : BOOLEAN, outcome : {"success", "failure"},
   code : FailureCodes \cup {"none"}, generated : BOOLEAN, emitted : 0..MaxFit,
   codes : SUBSET ReportCodes, count : 0..MaxIssues, truncated : BOOLEAN]

ASSUME BoundsAssumption ==
  /\ MaxRuns \in Nat /\ MaxIssues \in Nat /\ MaxFit \in Nat /\ MaxFit < MaxIssues
  /\ Order \in Seq(Names) /\ Order # <<>> /\ IsInjective(Order)
  /\ NoReport \notin Reports
  /\ {NoFile, Torn} \cap Nat = {} /\ NoFile # Torn

\* What YAML gives for a priority, a list of rules or of tags, if it is not Wrong.
ASSUME DocumentsAssumption ==
  \A n \in 1..MaxRuns : \A d \in Documents[n] : RulesOf(d) # Wrong =>
    /\ RulesOf(d) \in Seq(ToSet(RulesOf(d)))
    /\ \A r \in ToSet(RulesOf(d)) \ {Wrong} :
         /\ r.priority \in Int \cup {Absent, Wrong}
         /\ r.match # Wrong /\ Given(r.match.tags) => r.match.tags \in Seq(ToSet(r.match.tags))

\* What the script may report is what the server's projection accepts.
ASSUME CodesAssumption ==
  CatalogCodes \cup {"duplicate_flag", "validation_failure", "promotion_failure"} \subseteq ReportCodes

VARIABLES run, docs, pc, exit,
          files, dir,        \* the output directory
          backup, at, moved, \* _promote: the copies, the loop's index, the files replaced
          draft, report,     \* the report being emitted and the published one
          status,            \* what the server's projection says of the report
          before,            \* the output directory when the run began
          faulted, spoiled   \* this run met a failure; a promotion was cut off

fs == <<files, dir, backup, at, moved>>
history == <<before, spoiled>>
vars == <<run, docs, pc, exit, fs, draft, report, status, history, faulted>>

Promoting == {"mkdir", "backup", "replace", "restore", "unlink"}
Whole(v) == \A n \in Names : files[n] = v

TypeOK ==
  /\ run \in 0..MaxRuns /\ exit \in 0..2
  /\ pc \in Promoting \cup {"idle", "arguments", "inputs", "documents", "staging", "validating",
                            "reporting", "renaming"}
  /\ files \in [Names -> {NoFile, Torn} \cup 0..MaxRuns] /\ backup \in [Names -> {NoFile, Torn} \cup 0..MaxRuns]
  /\ dir \in BOOLEAN /\ (~dir => files = NoFiles)
  /\ at \in 1..(Len(Order) + 1) /\ moved \in 0..Len(Order)
  /\ draft \in Reports \cup {NoReport} /\ report \in Reports \cup {NoReport}
  /\ status \in {"absent", "valid", "malformed", "invalid_summary"}

Init ==
  /\ run = 0 /\ docs = Absent /\ pc = "idle" /\ exit = 0
  /\ dir \in BOOLEAN
  /\ files \in IF dir THEN [Names -> {NoFile, 0}] ELSE {NoFiles}
  /\ backup = NoFiles /\ at = 1 /\ moved = 0
  /\ draft = NoReport /\ report = NoReport /\ status = "absent"
  /\ before = <<files, dir>> /\ faulted = FALSE /\ spoiled = FALSE

----------------------------------------------------------------------------
(* The report *)

ReportUncut(ok, code, codes, issues, fit) ==  \* mutant of Report: truncated by the count alone
  LET emitted == Min({issues, fit})
  IN [run |-> run, ok |-> ok, outcome |-> IF ok THEN "success" ELSE "failure", code |-> code,
      generated |-> ok, emitted |-> emitted, codes |-> IF emitted = 0 THEN {} ELSE codes,
      count |-> Min({issues, MaxIssues}), truncated |-> issues > MaxIssues]

\* The errors listed are a prefix that fits the file, however long each is.
Report(ok, code, codes, issues, fit) ==
  LET emitted == Min({issues, fit})
  IN [run |-> run, ok |-> ok, outcome |-> IF ok THEN "success" ELSE "failure", code |-> code,
      generated |-> ok, emitted |-> emitted, codes |-> IF emitted = 0 THEN {} ELSE codes,
      count |-> Min({issues, MaxIssues}), truncated |-> emitted < issues]

Finish(ok, code, codes, issues, exitCode) ==
  /\ \E fit \in 0..MaxFit : draft' = Report(ok, code, codes, issues, fit)
  /\ exit' = exitCode
  /\ pc' = "reporting"

Summary(r) ==  \* the status _validate_migration_report gives a document
  IF (r.ok /\ (~r.generated \/ r.emitted > 0)) \/ (~r.ok /\ r.generated) THEN "malformed"
  ELSE IF \/ ~(r.codes \subseteq ReportCodes) \/ r.code \notin FailureCodes \cup {"none"}
          \/ (r.outcome = "success") # r.ok
          \/ (r.outcome = "success") # (r.code = "none")
          \/ r.count > MaxIssues \/ r.emitted > r.count
          \/ r.truncated /\ r.count < MaxIssues /\ r.emitted = r.count
          \/ ~r.truncated /\ r.count # r.emitted
       THEN "invalid_summary"
       ELSE "valid"

WriteReport ==
  /\ pc = "reporting"
  /\ pc' = IF docs.reportPath THEN "renaming" ELSE "idle"
  /\ UNCHANGED <<run, docs, exit, fs, draft, report, status, history, faulted>>

EmitReport ==
  /\ pc = "renaming"
  /\ report' = draft /\ pc' = "idle"
  /\ UNCHANGED <<run, docs, exit, fs, draft, status, history, faulted>>

ReportFails ==
  /\ pc \in {"reporting", "renaming"} /\ docs.reportPath
  /\ exit' = 1 /\ pc' = "idle" /\ faulted' = TRUE
  /\ UNCHANGED <<run, docs, fs, draft, report, status, history>>

Refresh ==
  /\ status' = IF report = NoReport THEN "absent" ELSE Summary(report)
  /\ UNCHANGED <<run, docs, pc, exit, fs, draft, report, history, faulted>>

----------------------------------------------------------------------------
(* Up to the staging directory *)

Begin(d) ==
  /\ pc = "idle" /\ run < MaxRuns
  /\ run' = run + 1 /\ docs' = d /\ pc' = "arguments" /\ exit' = 0
  /\ before' = <<files, dir>> /\ faulted' = FALSE
  /\ backup' = NoFiles /\ at' = 1 /\ moved' = 0 /\ draft' = NoReport
  /\ UNCHANGED <<files, dir, report, status, spoiled>>

Quiet == UNCHANGED <<run, docs, fs, report, status, history, faulted>>

RefuseArguments ==
  /\ pc = "arguments"
  /\ \/ docs.args = "invalid" /\ Finish(FALSE, "argument", {}, 0, 2)
     \/ docs.args = "duplicate" /\ Finish(FALSE, "argument", {"duplicate_flag"}, 1, 1)
  /\ Quiet

RefuseInputs ==
  /\ pc = "arguments" /\ docs.args = "ok"
  /\ \E n \in 1..3 :
       \/ docs.inputs = "bad path" /\ Finish(FALSE, "input_validation", {"invalid_input_path"}, n, 1)
       \/ docs.inputs = "bad yaml" /\ Finish(FALSE, "source_validation", {"invalid_yaml"}, n, 1)
  /\ Quiet

RefuseDocuments ==
  /\ pc = "arguments" /\ docs.args = "ok" /\ docs.inputs = "ok"
  /\ Preflight(docs) # {}
  /\ \E n \in 1..(MaxIssues + 1) :
       Finish(FALSE, "cataloged_incompatibility", Preflight(docs), n, 1)
  /\ Quiet

\* An exception of the transforms is caught by nobody.
Transform ==
  /\ pc = "arguments" /\ docs.args = "ok" /\ docs.inputs = "ok"
  /\ Preflight(docs) = {}
  /\ pc' = IF TransformRaises(docs) THEN "idle" ELSE "staging"
  /\ exit' = IF TransformRaises(docs) THEN 1 ELSE 0
  /\ UNCHANGED draft /\ Quiet

Stage ==
  /\ pc = "staging" /\ pc' = "validating"
  /\ UNCHANGED <<exit, draft>> /\ Quiet

StagingFails ==
  /\ pc = "staging"
  /\ pc' = "idle" /\ exit' = 1 /\ faulted' = TRUE
  /\ UNCHANGED <<run, docs, fs, draft, report, status, history>>

RefuseStaged ==
  /\ pc = "validating" /\ ~StagedLoads(docs)
  /\ \E n \in 1..2 : Finish(FALSE, "staged_validation", {"validation_failure"}, n, 1)
  /\ Quiet

Accept ==
  /\ pc = "validating" /\ StagedLoads(docs)
  /\ pc' = "mkdir"
  /\ UNCHANGED <<exit, draft>> /\ Quiet

----------------------------------------------------------------------------
(* _promote *)

Promotion == UNCHANGED <<run, docs, report, status, before>>

MakeDirectories ==
  /\ pc = "mkdir"
  /\ dir' = TRUE /\ pc' = "backup"
  /\ UNCHANGED <<exit, files, backup, at, moved, draft, spoiled, faulted>> /\ Promotion

BackUp ==
  /\ pc = "backup"
  /\ backup' = [backup EXCEPT ![Order[at]] = files[Order[at]]]
  /\ IF at = Len(Order) THEN pc' = "replace" /\ at' = 1 ELSE pc' = pc /\ at' = at + 1
  /\ UNCHANGED <<exit, files, dir, moved, draft, spoiled, faulted>> /\ Promotion

\* The last replacement ends the promotion; its directory is whole, whatever was there.
Replace ==
  /\ pc = "replace"
  /\ files' = [files EXCEPT ![Order[moved + 1]] = run]
  /\ moved' = moved + 1
  /\ IF moved' = Len(Order)
     THEN Finish(TRUE, "none", {}, 0, 0) /\ backup' = NoFiles /\ spoiled' = FALSE
     ELSE UNCHANGED <<pc, exit, draft, backup, spoiled>>
  /\ UNCHANGED <<dir, at, faulted>> /\ Promotion

\* mkdir, mkdtemp, a copy or a replacement raises.
PromotionFails ==
  /\ pc \in {"mkdir", "backup", "replace"}
  /\ pc' = "restore" /\ at' = 1 /\ faulted' = TRUE
  /\ dir' \in {dir, TRUE}
  /\ UNCHANGED <<exit, files, backup, moved, draft, spoiled>> /\ Promotion

Restore ==
  /\ pc = "restore"
  /\ files' = IF backup[Order[at]] = NoFile THEN files
              ELSE [files EXCEPT ![Order[at]] = backup[Order[at]]]
  /\ IF at = Len(Order) THEN pc' = "unlink" /\ at' = 1 ELSE pc' = pc /\ at' = at + 1
  /\ UNCHANGED <<exit, dir, backup, moved, draft, spoiled, faulted>> /\ Promotion

RemoveNew(n) == backup[n] = NoFile /\ n \in {Order[i] : i \in 1..moved}

GiveUpSilently == backup' = NoFiles /\ Finish(TRUE, "none", {}, 0, 0)  \* mutant of GiveUp
GiveUp ==
  /\ backup' = NoFiles
  /\ Finish(FALSE, "promotion_failure", {"promotion_failure"}, 1, 1)

UnlinkNothing ==  \* mutant of Unlink
  /\ pc = "unlink" /\ UNCHANGED files
  /\ dir' = (before[2] \/ (dir /\ files' # NoFiles))
  /\ GiveUp
  /\ UNCHANGED <<at, moved, spoiled, faulted>> /\ Promotion

\* Unlink what had no backup, and remove a directory _promote itself created.
Unlink ==
  /\ pc = "unlink"
  /\ files' = [n \in Names |-> IF RemoveNew(n) THEN NoFile ELSE files[n]]
  /\ dir' = (before[2] \/ (dir /\ files' # NoFiles))
  /\ GiveUp
  /\ UNCHANGED <<at, moved, spoiled, faulted>> /\ Promotion

\* The restoring copy raises too: the rest is not restored, and the backups are deleted.
RestoreFails ==
  /\ pc \in {"restore", "unlink"}
  /\ \/ UNCHANGED files
     \/ /\ pc = "restore" /\ backup[Order[at]] # NoFile
        /\ files' = [files EXCEPT ![Order[at]] = Torn]
  /\ GiveUp
  /\ faulted' = TRUE /\ spoiled' = TRUE
  /\ UNCHANGED <<dir, at, moved>> /\ Promotion

\* Ctrl-C or a kill: "except Exception" does not see it, so nothing is restored or reported.
Interrupt ==
  /\ pc # "idle"
  /\ pc' = "idle" /\ exit' = 1 /\ faulted' = TRUE
  /\ spoiled' = (spoiled \/ pc \in Promoting)
  /\ backup' = NoFiles
  /\ UNCHANGED <<files, dir, at, moved, draft>> /\ Promotion

Next ==
  \/ run < MaxRuns /\ \E d \in Documents[run + 1] : Begin(d)
  \/ RefuseArguments \/ RefuseInputs \/ RefuseDocuments \/ Transform
  \/ Stage \/ StagingFails \/ RefuseStaged \/ Accept
  \/ MakeDirectories \/ BackUp \/ Replace \/ PromotionFails
  \/ Restore \/ Unlink \/ RestoreFails \/ Interrupt
  \/ WriteReport \/ EmitReport \/ ReportFails \/ Refresh

Spec == Init /\ [][Next]_vars

----------------------------------------------------------------------------
(* Properties *)

\* Unless a promotion was cut off or its restoring failed, the output directory is, outside
\* _promote, exactly what the run found or wholly the run's own (main, _promote).
OutputIsWhole == ~spoiled /\ pc \notin Promoting => <<files, dir>> = before \/ Whole(run)

\* A published success is in force: the directory is wholly of that run or of a later one;
\* none of the files is of a run whose report says it failed (_finish after _promote).
ReportIsTrue ==
  report # NoReport /\ ~spoiled =>
    /\ report.ok /\ pc \notin Promoting => \E v \in report.run..run : Whole(v)
    /\ ~report.ok => \A n \in Names : files[n] # report.run

\* A run no failure and no signal hit ends with its own report published, and its exit code
\* says the same: no document that preflight lets pass makes a transform raise (main).
EndsReported ==
  pc = "idle" /\ run > 0 /\ ~faulted /\ docs.reportPath =>
    /\ report # NoReport /\ report.run = run
    /\ (exit = 0) = report.ok

\* The server never finds a report it cannot read: what _build_report caps, counts and
\* truncates is what _validate_migration_report accepts.
PublishedIsReadable == status \in {"absent", "valid"}

\* The generated rules pick, for every event, the rule the Vigilo priorities picked, as long
\* as no rule names one tag both with and without the prefix (_transform_rules, RuleEngine).
RulesDecideAlike ==
  pc = "mkdir" /\ Comparable(docs.rules) =>
    \A e \in Events : TargetDecides(TransformedRules(docs.rules), e) = SourceDecides(docs.rules, e)

============================================================================
