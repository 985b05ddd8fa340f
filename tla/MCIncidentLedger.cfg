\* Two incidents of one (rule, group), events that recur, arrive late or leave the window.
CONSTANTS
  Keys = {k1}
  Hosts = {"h1", "h2"}
  Services = {}
  NoService = NoService
  NoRow = NoRow
  NoAudit = NoAudit
  Plugins = {p1}
  Fingerprints = {1, 2}
  Times = {0, 2}
  MCThresholds = {1, 2}
  MCSeconds = {1}
  MaxWindowFingerprints = 2
  Ids = {1, 2}
  Txs = {t1, t2, t3, t4}
  Inputs <- MCInputs
SPECIFICATION Spec
SYMMETRY MCSymmetry
CHECK_DEADLOCK FALSE
INVARIANTS
  OneOpenPerKey
  PlannedOnce
  
PROPERTIES
  TerminalIsFinal
  DeliveryIsKept
  MarkerIsLatched
