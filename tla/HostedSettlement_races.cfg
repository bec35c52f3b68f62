SPECIFICATION Spec
CONSTANTS
  Requests = {r1, r2}
  Disputes = {d1, d2}
  Pay = 2
  MaxVersion = 7
CHECK_DEADLOCK FALSE
INVARIANTS TypeOK SubmittedIsComplete
PROPERTIES PaidOnce HeldUntilDecided ApprovesWhatItRead SettlesOnce
SYMMETRY Symmetry
