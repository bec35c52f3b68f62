-------------------------- MODULE MCHostedMessages --------------------------
(***************************************************************************)
(* Instances of HostedMessages for TLC: two requests for a slow insert, three*)
(* messages and a limit of one for a poll that cuts equals.                 *)
(***************************************************************************)
EXTENDS HostedMessages, TLC

\* Requests, members, keys and cases are interchangeable.
Symmetry ==
  Permutations(Requests) \cup Permutations(Members) \cup Permutations(Keys) \cup Permutations(Cases)
=============================================================================
