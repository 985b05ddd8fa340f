\* Problems, recoveries, closes, acknowledgements and delivery records of one (rule, group);
\* sweeps of one incident at a time against problems that refresh them.
CONSTANTS
  Keys = {k1, k2}
  MCFirst = k1
  Hosts = {"h1", "h2"}
  Services = {}
  NoService = NoService
  NoRow = NoRow
  NoAudit = NoAudit
  Plugins = {p1}
  Fingerprints = {1, 2}
  Times = {0, 2}
  MaxWindowFingerprints = 2
  Ids = {1, 2, 3}
  Txs = {1, 2, 3, 4}
  MCFamilies <- MCConcurrent
  Inputs <- MCInputs
  Workloads <- MCWorkloads
  SweepLimit = 1
  MaxClock = 2
  PoisonedNames = {}
  PoisonedKeys = {k2}
  Faults = FALSE
  Watched = 1
  MaxDeliveries = 4
SPECIFICATION RecordedSpec
CHECK_DEADLOCK FALSE
INVARIANTS
  LockedReadIsCurrent
  DecisionsAreRight
PROPERTY SweepClosesOnlyStale
