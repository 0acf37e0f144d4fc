SPECIFICATION FairSpec
CONSTANTS
  Tickets = {1, 2}
  Links <- MCLinks
  SprintOf <- MCSprintOf
  Priority <- MCPriority
  ReleaseStatus = "review"
  Overlap = 0
  InitialBoards <- MCInitialBoards
  InitialSprints = {"S2"}
  SprintSets <- MCSprintSets
  MoveTo = {"ready"}
  MaxClock = 3
  MaxSprints = 1
  MaxFaults = 1
INVARIANTS
  NotMissed
  StartedClear
PROPERTIES
  SettledNotRerun
  EventuallyRuns
CHECK_DEADLOCK FALSE
