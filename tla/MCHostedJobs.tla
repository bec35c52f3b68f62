---------------------------- MODULE MCHostedJobs ----------------------------
(***************************************************************************)
(* Instances of HostedJobs for TLC: two requests for a stale read, two       *)
(* invoices and two workers for what must happen once to each.              *)
(***************************************************************************)
EXTENDS HostedJobs, TLC

\* Requests, keys and workers are interchangeable.
Symmetry == Permutations(Requests) \cup Permutations(Keys) \cup Permutations(Workers)
=============================================================================
