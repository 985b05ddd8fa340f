\* An event and two retries, failing commits and records, crashes, shutdowns; plugin 2 is no action of the rule.
CONSTANTS
  Requests = {r1, r2, r3}
  Incidents = {i1}
  Plugins = {1, 2, 3}
  Actions = {1, 3}
  Registries <- MCRegistries
  MaxCrashes = 2
  MaxStops = 2
  Faults = TRUE
SPECIFICATION FairSpec
CHECK_DEADLOCK FALSE
INVARIANTS
  SentAtMostOnce
  DeliveredIsTrue
  DrainedIsRecorded
PROPERTIES
  RecordIsFinal
  CrossingIsRecorded
