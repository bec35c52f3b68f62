SPECIFICATION Spec
CONSTANTS
  Requests = {r1, r2}
  MaxCodes = 2
  MaxAttempts = 2
  HourLimit = 2
  MaxCount = 3
CHECK_DEADLOCK FALSE
INVARIANTS TypeOK AttemptsAreBounded GrantsAreConcurrent CountersEnd
SYMMETRY Symmetry
