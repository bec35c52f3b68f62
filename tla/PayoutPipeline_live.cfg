SPECIFICATION FairSpec
CONSTANTS
  Assignments = {a1}
  MaxAttempts = 2
  RetryLimit = 1
  Copies = {c1}
  Announced = {"SUCCEEDED"}
  RetryCap = 1
  MaxIncidents = 1
CHECK_DEADLOCK FALSE
INVARIANT PaidIsBooked
PROPERTIES QueuedWebhookIsProcessed ScheduledIsAttempted
