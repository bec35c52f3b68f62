-------------------------- MODULE MCHostedAccounts --------------------------
(***************************************************************************)
(* Instances of HostedAccounts for TLC: two requests for a count read twice,*)
(* one session, limits below the code's so that blocks come early.          *)
(***************************************************************************)
EXTENDS HostedAccounts, TLC

\* Requests and sessions are interchangeable.
Symmetry == Permutations(Requests) \cup Permutations(Sessions)
=============================================================================
