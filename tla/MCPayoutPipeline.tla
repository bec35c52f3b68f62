-------------------------- MODULE MCPayoutPipeline --------------------------
(***************************************************************************)
(* Instances of PayoutPipeline for TLC.  One assignment is enough for most   *)
(* runs: rows, jobs, events and ledger references of different assignments   *)
(* are disjoint.  The runs differ in what they leave room for: provider      *)
(* calls, incidents, announcements.                                          *)
(***************************************************************************)
EXTENDS PayoutPipeline, TLC

\* Assignments and event copies are interchangeable in safety runs.
Symmetry == Permutations(Assignments) \cup Permutations(Copies)
=============================================================================
