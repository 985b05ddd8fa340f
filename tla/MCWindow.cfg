\* Four deliveries in any order among two rules, one fingerprint more than the map
\* holds, and the recoveries, acknowledgements, closures and results between them.
CONSTANTS
  Keys = {k1}
  Hosts = {h1}
  Services = {}
  NoService = NoService
  NoRow = NoRow
  Plugins = {p1}
  Fingerprints = {1, 2, 3, 4}
  MaxWindowFingerprints = 3
  Times = {0, 1, 3}
  Inputs <- MCInputs
  MaxDeliveries = 4
SPECIFICATION Spec
CHECK_DEADLOCK FALSE
INVARIANTS
  CrossingIsABurst
  BurstCrosses
  CountedOncePerWindow
