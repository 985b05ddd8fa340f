\* More overdue incidents than a batch, a locked row, a failing or hanging sweep, a refused rule
\* name, a probe that waits for the database, an ailing plugin, a task at shutdown.
CONSTANTS
  Ids = {1, 2, 3}
  Poisonings <- MCPoisonings
  BatchSize = 1
  MaxRefreshes = 1
  MaxLocks = 1
  MaxFailures = 1
  Probes = {p1}
  Outputs = {mail}
  MaxTasks = 1
SPECIFICATION LifespanSpec
CHECK_DEADLOCK FALSE
INVARIANTS
  DisposedIsIdle
PROPERTIES
  ReadyIsEarned
  
  ShutdownEnds
