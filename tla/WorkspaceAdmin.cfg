SPECIFICATION Spec
CONSTANTS
  Slots = {s1, s2}
  s1 = s1
  s2 = s2
  Keys = {"j", "k"}
  Repos = {"a", "b"}
  Statuses = {"todo", "review", "gone"}
  Board = {"todo", "review"}
  Bases = {"dev", "qa", "brigadir"}
  Scenarios <- MCScenarios
  MaxRequests = 3
  MaxAgents = 8
  MaxResends = 1
  MaxCrashes = 1
SYMMETRY Sym
INVARIANTS
  RosterSound
  SettingsSound
\* Every request may have been served.
CHECK_DEADLOCK FALSE
