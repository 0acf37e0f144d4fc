SPECIFICATION FairSpec
CONSTANTS
  f1 = f1
  f2 = f2
  Finishers = {f1, f2}
  ReworkMax = 1
  WorkerOutcomes = {"success"}
  OrchestratorOutcomes = {"routed"}
  MaxRuns = 4
  MaxWork = 1
  MaxFaults = 1
INVARIANTS
  DecidedOnce
  ReworkCapped
  JiraBeforeEnqueue
  HonestMarker
PROPERTIES
  ReplayNotRejudged
  CompletionWritten
\* The ticket rests once every run is finished, written and answered.
CHECK_DEADLOCK FALSE
