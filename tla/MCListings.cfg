\* Pages of one row over up to three rows at three times.
CONSTANTS
  Ids = {1, 2, 3}
  Times = {0, 1, 2}
  Absent = Absent
  Limit = 1
  Tables <- MCTables
SPECIFICATION Spec
CHECK_DEADLOCK FALSE
INVARIANTS
  NothingTwice
  BaselineListed
