SPECIFICATION Spec
CONSTANTS
  Assignments = {a1}
  MaxAttempts = 1
  RetryLimit = 1
  Copies = {c1, c2}
  Announced = {"SUCCEEDED", "FAILED", "REVERSED"}
  RetryCap = 1
  MaxIncidents = 0
CHECK_DEADLOCK FALSE
INVARIANTS LedgerRecordsEachSuccessOnce MatchedIsExact
SYMMETRY Symmetry
