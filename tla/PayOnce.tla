------------------------------- MODULE PayOnce -------------------------------
(***************************************************************************)
(* What paying for finished work promises, whatever carries it out: money   *)
(* for an assignment is scheduled, requested from the provider and          *)
(* disbursed at most once, in this order, and the ledger is debited at most *)
(* once and only for money that was disbursed.                              *)
(***************************************************************************)
EXTENDS Integers

CONSTANT Assignments

VARIABLES phase,  \* how far the money for an assignment has come
          booked  \* ledger debits for it

Phases == {"open", "scheduled", "requested", "disbursed"}

PayOnceTypeOK ==
  /\ phase \in [Assignments -> Phases]
  /\ booked \in [Assignments -> 0..1]

Init ==
  /\ phase = [a \in Assignments |-> "open"]
  /\ booked = [a \in Assignments |-> 0]

Advance(a, from, to) ==
  /\ phase[a] = from
  /\ phase' = [phase EXCEPT ![a] = to]
  /\ UNCHANGED booked

Schedule(a) == Advance(a, "open", "scheduled")
Request(a) == Advance(a, "scheduled", "requested")
Disburse(a) == Advance(a, "requested", "disbursed")

Book(a) ==
  /\ phase[a] = "disbursed"
  /\ booked[a] = 0
  /\ booked' = [booked EXCEPT ![a] = 1]
  /\ UNCHANGED phase

Next == \E a \in Assignments : Schedule(a) \/ Request(a) \/ Disburse(a) \/ Book(a)

Spec == Init /\ [][Next]_<<phase, booked>>
=============================================================================
