SPECIFICATION Spec
CONSTANTS
  Outcomes = {"success"}
  Handoffs = {"named", "unnamed"}
  MaxAttempts = 1
INVARIANT GateNotBypassed
\* A run that has ended, with nobody left to act on it, stops.
CHECK_DEADLOCK FALSE
