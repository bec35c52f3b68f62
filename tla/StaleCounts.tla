----------------------------- MODULE StaleCounts -----------------------------
(***************************************************************************)
(* Actors that read a count and later write back one more than they read    *)
(* lose each other's increments.  How often they can count before the limit *)
(* holds all the same is measured here, for SignIn and HostedAccounts.      *)
(*                                                                          *)
(* left[r] says how often actor r could still count if it went on alone,    *)
(* from the count it holds or may read.  To count, r gives up left[r] = k,  *)
(* and whatever the write lets others read leaves them less than k: the     *)
(* number with at least k sinks, and of those above k none rises.  So every *)
(* count passes a tally that cannot come back.                              *)
(***************************************************************************)
EXTENDS Integers, FiniteSets

\* For each k, how many actors have at least k left.
Tally(left, limit) ==
  [k \in 1..limit |-> Cardinality({r \in DOMAIN left : left[r] >= k})]

Tallies(limit, actors) ==
  {t \in [1..limit -> 0..actors] : \A i, j \in 1..limit : i <= j => t[j] <= t[i]}

\* Compared from the most that can be left downwards.
Above(t, u) ==
  \E k \in DOMAIN u : t[k] > u[k] /\ \A j \in DOMAIN u : j > k => t[j] >= u[j]

\* The tallies that actors with this much left have behind them.
Passed(left, limit) ==
  {t \in Tallies(limit, Cardinality(DOMAIN left)) : Above(t, Tally(left, limit))}
=============================================================================
