\* Two groups, so that a recovery locks two rows, or three problems of one and a sweep;
\* failures, deadlocks, a host no note may name; every request ends.
CONSTANTS
  Keys = {k1, k2}
  MCFirst = k1
  Hosts = {"h1", "h2"}
  Services = {}
  NoService = NoService
  NoRow = NoRow
  NoAudit = NoAudit
  Plugins = {p1}
  Fingerprints = {1, 2}
  Times = {0}
  MaxWindowFingerprints = 2
  Ids = {1, 2, 3}
  Txs = {1, 2, 3, 4}
  MCFamilies <- MCFailing
  Inputs <- MCInputs
  Workloads <- MCWorkloads
  SweepLimit = 1
  MaxClock = 2
  PoisonedNames = {"h2"}
  PoisonedKeys = {}
  Faults = TRUE
SPECIFICATION FairSpec
CHECK_DEADLOCK FALSE
PROPERTIES
  ImplementsLedger
  RequestsEnd
