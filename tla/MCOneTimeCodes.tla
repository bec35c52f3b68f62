--------------------------- MODULE MCOneTimeCodes ---------------------------
(***************************************************************************)
(* Instances of OneTimeCodes for TLC: two requests for a code read twice, or *)
(* one's undo beside another's consume; two codes for a newest one.         *)
(***************************************************************************)
EXTENDS OneTimeCodes, TLC

\* Requests are interchangeable; codes are ordered.
Symmetry == Permutations(Requests)
=============================================================================
