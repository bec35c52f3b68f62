----------------------------- MODULE SettleOnce -----------------------------
(***************************************************************************)
(* What settling an assignment promises, whatever its requests read and     *)
(* when they write: a payout is due, on hold, paid or void; a dispute holds *)
(* all that are due, only a decision lets them go, all in the same way; and *)
(* a payout that is in the ledger is never paid again.                      *)
(***************************************************************************)
CONSTANT Payouts

VARIABLES state,  \* what has become of each payout
          booked  \* the payouts in the ledger

States == {"none", "due", "held", "paid", "void"}

Init ==
  /\ state = [p \in Payouts |-> "none"]
  /\ booked = {}

Insert(p) ==
  /\ state[p] = "none"
  /\ state' = [state EXCEPT ![p] = "due"]
  /\ UNCHANGED booked

Hold ==
  /\ state' = [p \in Payouts |-> IF state[p] = "due" THEN "held" ELSE state[p]]
  /\ UNCHANGED booked

\* Payouts that are there become due or void together.
Decide(outcome) ==
  /\ state' = [p \in Payouts |-> IF state[p] = "none" THEN "none" ELSE outcome]
  /\ UNCHANGED booked

PayOut(p) ==
  /\ state[p] = "due"
  /\ p \notin booked
  /\ state' = [state EXCEPT ![p] = "paid"]
  /\ booked' = booked \cup {p}

\* A completion that comes too late for its payout still enters the ledger.
BookLate(p) ==
  /\ state[p] # "none"
  /\ p \notin booked
  /\ booked' = booked \cup {p}
  /\ UNCHANGED state

Next ==
  \/ Hold
  \/ \E outcome \in {"due", "void"} : Decide(outcome)
  \/ \E p \in Payouts : Insert(p) \/ PayOut(p) \/ BookLate(p)

Spec == Init /\ [][Next]_<<state, booked>>
=============================================================================
