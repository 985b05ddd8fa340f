\* The conflicting incident is closed between the insert and the locking select.
CONSTANTS
  Keys = {k1}
  MCFirst = k1
  Hosts = {"h1", "h2"}
  Services = {}
  NoService = NoService
  NoRow = NoRow
  NoAudit = NoAudit
  Plugins = {p1}
  Fingerprints = {1, 2}
  Times = {0}
  MaxWindowFingerprints = 2
  Ids = {1, 2}
  Txs = {1, 2, 3, 4}
  MCFamilies <- MCVanishing
  Inputs <- MCInputs
  Workloads <- MCWorkloads
  SweepLimit = 1
  MaxClock = 0
  PoisonedNames = {}
  PoisonedKeys = {}
  Faults = FALSE
SPECIFICATION Spec
CHECK_DEADLOCK FALSE
INVARIANT AcceptedEventAudited
