SPECIFICATION Spec
CONSTANTS
  Requests = {r1, r2}
  Slots = {p1, p2}
  Evidence = {e1, e2}
  MaxAttempts = 2
  MaxVersion = 4
CHECK_DEADLOCK FALSE
INVARIANTS TypeOK SubmittedHasEvidence
PROPERTY PublishedEditsAreAhead
SYMMETRY Symmetry
