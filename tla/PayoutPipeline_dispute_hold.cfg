SPECIFICATION Spec
CONSTANTS
  Assignments = {a1}
  MaxAttempts = 1
  RetryLimit = 1
  Copies = {c1}
  Announced = {}
  RetryCap = 1
  MaxIncidents = 0
CHECK_DEADLOCK FALSE
INVARIANT DisputeHoldsPayout
