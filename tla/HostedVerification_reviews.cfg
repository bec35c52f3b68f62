SPECIFICATION Spec
CONSTANTS
  Requests = {r1, r2}
  Submissions = {s1, s2, s3}
CHECK_DEADLOCK FALSE
INVARIANTS TypeOK DocumentsAreStored VerifiedOnDocuments ActiveAreConcurrent
SYMMETRY Symmetry
