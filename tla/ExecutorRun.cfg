SPECIFICATION FairSpec
CONSTANTS
  Runs = {"r1", "r2"}
  Terminals = {"report"}
  Window = 2
  Repos = {"a", "b"}
  Tasks <- MCTasks
  Conflicts <- MCConflicts
  KeepFailed = FALSE
  MaxAttempts = 2
  MaxTries <- MCTries
  Abortable = {"r1"}
  MaxFaults = 1
  Losable <- MCLosable
INVARIANTS
  FreshTrees
  StartPoints
  ExitClean
PROPERTIES
  RunReturns
\* Every run may have returned for good.
CHECK_DEADLOCK FALSE
