SPECIFICATION Spec
CONSTANTS
  Requests = {r1, r2}
  Members = {m1}
  Keys = {k1, k2, k3}
  Cases = {c1}
  PollLimit = 1
  MaxTime = 2
CHECK_DEADLOCK FALSE
INVARIANTS TypeOK PassedAreLateOrTied
SYMMETRY Symmetry
