SPECIFICATION Spec
CONSTANTS
  Requests = {r1, r2}
  Sessions = {s1}
  LoginLimit = 2
  RegisterLimit = 1
  MaxFailures = 2
  MaxCount = 4
CHECK_DEADLOCK FALSE
INVARIANTS TypeOK AdmissionsAreBounded
SYMMETRY Symmetry
