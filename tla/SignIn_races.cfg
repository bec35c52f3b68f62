SPECIFICATION Spec
CONSTANTS
  Requests = {r1, r2}
  Sessions = {s1, s2}
  Tokens = {t1, t2}
  MaxFailures = 5
  MaxCount = 6
CHECK_DEADLOCK FALSE
INVARIANTS TypeOK GuessesAreBounded OldSessionsAreLate TokenResetsOnce
SYMMETRY Symmetry
