------------------------ MODULE MCHostedVerification ------------------------
(***************************************************************************)
(* Instances of HostedVerification for TLC: two requests for two submits or  *)
(* two reviews at once, three submissions for one more than requests.       *)
(***************************************************************************)
EXTENDS HostedVerification, TLC

\* Requests and submissions are interchangeable.
Symmetry == Permutations(Requests) \cup Permutations(Submissions)
=============================================================================
