SPECIFICATION Spec
CONSTANTS
  Requests = {r1, r2}
  Keys = {k1, k2}
  Workers = {w1, w2}
  MaxVersion = 10
CHECK_DEADLOCK FALSE
INVARIANTS TypeOK PaidIsCredited AppliedJobIsPaid AcceptedIsAssignedOnce
PROPERTY FollowsTransitions
SYMMETRY Symmetry
