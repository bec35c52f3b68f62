---------------------------- MODULE MCMarketplace ----------------------------
(***************************************************************************)
(* Instances of Marketplace for TLC: two requests for an edit beside a      *)
(* publication, two slots and two attempts for a job that runs twice.       *)
(***************************************************************************)
EXTENDS Marketplace, TLC

\* Requests, slots and evidence are interchangeable.
Symmetry == Permutations(Requests) \cup Permutations(Slots) \cup Permutations(Evidence)
=============================================================================
