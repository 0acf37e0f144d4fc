SPECIFICATION Spec
CONSTANTS
  HourLen = 2
  DayLen = 4
  Window <- Windows
  Workspaces = {"w1", "w2"}
  Agents = {"a1", "a2"}
  AgentRole <- Roles
  TopLimit = 1
  RunIds = {1, 2, 3}
  TaskIds = {1, 2, 3}
  Tickets = {1, 2, 3}
  Profile <- Profiles
  Ends <- SomeEnds
  Instants = {2, 3, 7, 12}
  Priority <- Prio
  TicketWs <- InWs
  TaskWs <- OfTask
  PageSize = 1
  Limit = 1
  Scenes <- SomeScenes
  Streams <- SomeStreams
  HistoryRuns <- SomeRuns
  MaxLines = 4
  MaxOthers = 2
  MaxProgress = 1
  MaxPending = 1
  Scripts <- SomeScripts
  FileCap = 2
  Threshold = 2
  HealthWindow = 1
  Stories <- SomeStories
  Workers = {"dev"}
  MaxGates = 1
  Shows <- SomeShows
  Models = {"none", "opus", "haiku"}
INVARIANTS
  DashboardHonest
  ListsComplete
  TimelineFaithful
  ChannelHonest
  PromptFaithful
  MockRunsKept
CHECK_DEADLOCK FALSE
