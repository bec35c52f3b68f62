------------------------------ MODULE MCSignIn ------------------------------
(***************************************************************************)
(* Instances of SignIn for TLC: two requests for a stale count or a login   *)
(* across a reset, and the five failures of the code.                       *)
(***************************************************************************)
EXTENDS SignIn, TLC

\* Requests, sessions and tokens are interchangeable.
Symmetry == Permutations(Requests) \cup Permutations(Sessions) \cup Permutations(Tokens)
=============================================================================
