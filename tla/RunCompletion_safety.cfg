SPECIFICATION Spec
CONSTANTS
  Outcomes = {"failure", "needs_human", "malformed"}
  Handoffs = {"named"}
  MaxAttempts = 2
INVARIANTS
  SlotExclusive
  StatusMatchesOutcome
PROPERTIES
  ExitKeepsPark
  ReportKeptUntilRecorded
  ImplementsContract
\* A run that has ended, with nobody left to act on it, stops.
CHECK_DEADLOCK FALSE
