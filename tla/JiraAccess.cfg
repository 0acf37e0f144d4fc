SPECIFICATION Spec
CONSTANTS
  Calls = {1, 2, 3}
  Issues = {1, 2, 3}
  Foreign = {3}
  Statuses = {"todo", "doing", "done"}
  Workflows <- TwoWorkflows
  Concurrency = 1
  MaxRps = 1
  MaxRetries = 1
  PageSize = 2
  Pools <- CallPools
INVARIANTS
  InFlightBounded
  WritesSound
  AnswersHonest
PROPERTIES
  CallsReturn
CHECK_DEADLOCK FALSE
