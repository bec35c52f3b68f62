------------------------- MODULE MCHostedSettlement -------------------------
(***************************************************************************)
(* Instances of HostedSettlement for TLC: two requests in flight are what a  *)
(* stale read needs, two disputes what a second one after a decision needs. *)
(***************************************************************************)
EXTENDS HostedSettlement, TLC

\* Requests and dispute ids are interchangeable.
Symmetry == Permutations(Requests) \cup Permutations(Disputes)
=============================================================================
