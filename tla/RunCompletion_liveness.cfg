SPECIFICATION FairSpec
CONSTANTS
  Outcomes = {"team"}
  Handoffs = {"named"}
  MaxAttempts = 1
PROPERTIES
  RunsEnd
  StrandedReportRescued
\* A run that has ended, with nobody left to act on it, stops.
CHECK_DEADLOCK FALSE
