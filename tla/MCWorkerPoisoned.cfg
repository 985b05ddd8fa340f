\* One incident that cannot be expired holds up the others.
CONSTANTS
  Ids = {1, 2, 3}
  Poisonings <- MCPoisoned
  BatchSize = 1
  MaxRefreshes = 1
  MaxLocks = 2
  MaxFailures = 1
SPECIFICATION FairSpec
CHECK_DEADLOCK FALSE
PROPERTY HarmlessIsExpired
