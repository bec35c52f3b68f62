SPECIFICATION Spec
CONSTANTS
  Assignments = {a1}
  MaxAttempts = 2
  RetryLimit = 2
  Copies = {c1}
  Announced = {"ACCEPTED", "SUCCEEDED"}
  RetryCap = 2
  MaxIncidents = 0
CHECK_DEADLOCK FALSE
INVARIANTS TypeOK BookedMeansDisbursed UntriedIsHeld
PROPERTIES SettledStaysWhenQuiet PaysOnce
