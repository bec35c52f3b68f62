-------------------------- MODULE HostedSettlement --------------------------
(***************************************************************************)
(* Settlement of one assignment in the hosted stack (app/api/v1 over D1):   *)
(* check-in to approval, disputes and their decisions, and the payout with  *)
(* its ledger entries.                                                      *)
(*                                                                          *)
(* A handler reads the row it is about with one query, decides, and writes   *)
(* with one batch, which D1 runs as a transaction.  So every handler is two *)
(* steps: a Read step keeps what the query returned in request[r], and a    *)
(* later step runs the batch on whatever the rows have become.  A statement *)
(* of the batch whose WHERE matches nothing changes nothing and lets the    *)
(* others run; one that breaks a unique index rolls all of them back.       *)
(*                                                                          *)
(* Ownership is fixed by the rows and audit and attendance rows are read by  *)
(* no handler: they are left out.                                           *)
(***************************************************************************)
EXTENDS Integers

CONSTANTS Requests,   \* requests in flight at a time
          Disputes,   \* ids of the disputes opened on the assignment
          Pay,        \* jobs.pay_amount
          MaxVersion  \* bound: job_assignments.version up to which handlers are explored

ASSUME SettlementAssumption == Pay \in Nat \ {0} /\ MaxVersion \in Nat

VARIABLES
  status,       \* job_assignments.status
  version,      \* job_assignments.version
  checkedOut,   \* whether checked_out_at is set
  evidence,     \* whether assignment_evidence has a row
  submissions,  \* how often submitted_at has been set
  dispute,      \* disputes.status by id, "NONE" while there is no row
  payout,       \* the payouts rows, by what inserted them
  payable,      \* whether ledger_entries holds worker-payable:<assignment>
  booked,       \* amount of ledger entry payout:<payout> and of its reconciliation
  adjusted,     \* amount of ledger entry dispute-resolution:<dispute>, 0 if none
  request       \* what a request in flight has read

workVars == <<status, version, checkedOut, evidence, submissions>>
moneyVars == <<payout, payable, booked, adjusted>>
rows == <<workVars, dispute, moneyVars>>
vars == <<rows, request>>

AssignmentStatus ==
  {"CONFIRMED", "IN_PROGRESS", "SUBMITTED", "APPROVED", "DISPUTED", "CANCELLED"}
Decisions == {"WORKER", "BUSINESS", "PARTIAL"}
Resolved == [WORKER |-> "RESOLVED_WORKER", BUSINESS |-> "RESOLVED_BUSINESS",
             PARTIAL |-> "PARTIAL_RESOLUTION"]
DisputeStatus == {"NONE", "OPEN"} \cup {Resolved[d] : d \in Decisions}

\* A payout is inserted by an approval or by the decision of a dispute.
Origins == {"approval", "decision"}
PayoutStatus == {"NONE", "SCHEDULED", "PROCESSING", "ON_HOLD", "PAID", "REVERSED"}
PayoutRow == [status : PayoutStatus, amount : 0..Pay]
Unbooked == -1
Booking == -1..Pay

Idle == [op |-> "none"]
WorkOps == {"checkIn", "checkOut", "evidence", "submit", "revise", "approve"}
RequestState ==
  {Idle}
  \cup [op : WorkOps, version : Nat, seen : Nat]
  \cup [op : {"dispute"}, version : Nat, from : AssignmentStatus]
  \cup [op : {"resolve"}, dispute : Disputes, decision : Decisions, amount : 0..Pay]
  \cup [op : {"complete"}, payout : Origins, amount : 0..Pay]

TypeOK ==
  /\ status \in AssignmentStatus
  /\ version \in Nat
  /\ checkedOut \in BOOLEAN
  /\ evidence \in BOOLEAN
  /\ submissions \in Nat
  /\ dispute \in [Disputes -> DisputeStatus]
  /\ payout \in [Origins -> PayoutRow]
  /\ payable \in BOOLEAN
  /\ booked \in [Origins -> Booking]
  /\ adjusted \in [Disputes -> 0..Pay]
  /\ request \in [Requests -> RequestState]

\* As applications/[id]/accept inserts the assignment.
Init ==
  /\ status = "CONFIRMED"
  /\ version = 1
  /\ checkedOut = FALSE
  /\ evidence = FALSE
  /\ submissions = 0
  /\ dispute = [d \in Disputes |-> "NONE"]
  /\ payout = [o \in Origins |-> [status |-> "NONE", amount |-> 0]]
  /\ payable = FALSE
  /\ booked = [o \in Origins |-> Unbooked]
  /\ adjusted = [d \in Disputes |-> 0]
  /\ request = [r \in Requests |-> Idle]

-----------------------------------------------------------------------------
(***************************************************************************)
(* Reads.                                                                   *)
(***************************************************************************)
Read(r, snapshot) ==
  /\ request[r] = Idle
  /\ request' = [request EXCEPT ![r] = snapshot]
  /\ UNCHANGED rows

ReadWork(r, op) ==
  /\ version < MaxVersion
  /\ Read(r, [op |-> op, version |-> version, seen |-> submissions])

\* The transition table, not the update, decides which statuses get this far.
ReadCheckIn(r) ==
  /\ status \in {"CONFIRMED", "SUBMITTED", "DISPUTED"}
  /\ ReadWork(r, "checkIn")

ReadCheckOut(r) ==
  /\ status = "IN_PROGRESS"
  /\ ~checkedOut
  /\ ReadWork(r, "checkOut")

ReadEvidence(r) == status = "IN_PROGRESS" /\ ReadWork(r, "evidence")

\* Defect for the checks: no check-out asked for.
ReadSubmitAnyTime(r) ==
  /\ status = "IN_PROGRESS"
  /\ evidence
  /\ ReadWork(r, "submit")

ReadSubmit(r) ==
  /\ status = "IN_PROGRESS"
  /\ checkedOut
  /\ evidence
  /\ ReadWork(r, "submit")

ReadRevise(r) == status = "SUBMITTED" /\ ReadWork(r, "revise")

ReadApprove(r) == status = "SUBMITTED" /\ ReadWork(r, "approve")

ReadDispute(r) ==
  /\ version < MaxVersion
  /\ status \in {"IN_PROGRESS", "SUBMITTED", "APPROVED"}
  /\ Read(r, [op |-> "dispute", version |-> version, from |-> status])

\* The worker's share under a decision.
Share(decision, partial) ==
  [WORKER |-> Pay, BUSINESS |-> 0, PARTIAL |-> partial][decision]

\* Defect for the checks: a partial share not compared with the pay.
ReadResolveAnyShare(r, d) ==
  /\ dispute[d] = "OPEN"
  /\ \E decision \in Decisions, partial \in 0..Pay + 1 :
       Read(r, [op |-> "resolve", dispute |-> d, decision |-> decision,
                amount |-> Share(decision, partial)])

ReadResolve(r, d) ==
  /\ dispute[d] = "OPEN"
  /\ \E decision \in Decisions, partial \in 0..Pay :
       Read(r, [op |-> "resolve", dispute |-> d, decision |-> decision,
                amount |-> Share(decision, partial)])

ReadComplete(r, o) ==
  /\ payout[o].status = "PROCESSING"
  /\ Read(r, [op |-> "complete", payout |-> o, amount |-> payout[o].amount])

-----------------------------------------------------------------------------
(***************************************************************************)
(* Batches.                                                                 *)
(***************************************************************************)

\* Request r, for op, is answered.
Answer(r, op) ==
  /\ request[r].op = op
  /\ request' = [request EXCEPT ![r] = Idle]

\* UPDATE job_assignments ... WHERE version = ? AND status = ?
MatchesAnyVersion(r, from) == status = from  \* defect for the checks
Matches(r, from) == status = from /\ version = request[r].version

Move(r, from, to) ==
  IF Matches(r, from)
  THEN status' = to /\ version' = version + 1
  ELSE UNCHANGED <<status, version>>

CheckIn(r) ==
  /\ Answer(r, "checkIn")
  /\ Move(r, "CONFIRMED", "IN_PROGRESS")
  /\ UNCHANGED <<checkedOut, evidence, submissions, dispute, moneyVars>>

CheckOut(r) ==
  /\ Answer(r, "checkOut")
  /\ IF Matches(r, "IN_PROGRESS") /\ ~checkedOut
     THEN checkedOut' = TRUE /\ version' = version + 1
     ELSE UNCHANGED <<checkedOut, version>>
  /\ UNCHANGED <<status, evidence, submissions, dispute, moneyVars>>

\* One insert, whatever has become of the assignment.
AddEvidence(r) ==
  /\ Answer(r, "evidence")
  /\ evidence' = TRUE
  /\ UNCHANGED <<status, version, checkedOut, submissions, dispute, moneyVars>>

Submit(r) ==
  /\ Answer(r, "submit")
  /\ Move(r, "IN_PROGRESS", "SUBMITTED")
  /\ submissions' = IF Matches(r, "IN_PROGRESS") THEN submissions + 1 ELSE submissions
  /\ UNCHANGED <<checkedOut, evidence, dispute, moneyVars>>

RequestRevision(r) ==
  /\ Answer(r, "revise")
  /\ Move(r, "SUBMITTED", "IN_PROGRESS")
  /\ UNCHANGED <<checkedOut, evidence, submissions, dispute, moneyVars>>

\* The inserts ask only for an APPROVED assignment; what keeps a second approval
\* from them is the unique reference of the payable.
Approve(r) ==
  /\ Answer(r, "approve")
  /\ LET approved == status = "APPROVED" \/ Matches(r, "SUBMITTED")
     IN \/ /\ approved
           /\ ~payable
           /\ Move(r, "SUBMITTED", "APPROVED")
           /\ payout' = [payout EXCEPT !["approval"] =
                           [status |-> "SCHEDULED", amount |-> Pay]]
           /\ payable' = TRUE
        \/ /\ approved => payable
           /\ UNCHANGED <<status, version, payout, payable>>
  /\ UNCHANGED <<checkedOut, evidence, submissions, dispute, booked, adjusted>>

Holdable == {"SCHEDULED", "PROCESSING"}
Hold(p) == IF p.status \in Holdable THEN [p EXCEPT !.status = "ON_HOLD"] ELSE p

\* The unique index on (assignment, status) admits one OPEN dispute.
OpenDispute(r, d) ==
  /\ Answer(r, "dispute")
  /\ dispute[d] = "NONE"
  /\ IF \E other \in Disputes : dispute[other] = "OPEN"
     THEN UNCHANGED <<status, version, dispute, payout>>
     ELSE /\ dispute' = [dispute EXCEPT ![d] = "OPEN"]
          /\ Move(r, request[r].from, "DISPUTED")
          /\ payout' = [o \in Origins |-> Hold(payout[o])]
  /\ UNCHANGED <<checkedOut, evidence, submissions, payable, booked, adjusted>>

\* Only the dispute's own update looks at what was read.
Resolve(r) ==
  LET d == request[r].dispute
      decision == request[r].decision
      amount == request[r].amount
      next == IF decision = "BUSINESS" THEN "REVERSED" ELSE "SCHEDULED"
      wins == dispute[d] = "OPEN"
      absent == \A o \in Origins : payout[o].status = "NONE"
      \* Another dispute of the assignment ended the same way, or this one is adjusted.
      rollsBack == \/ wins /\ \E e \in Disputes : dispute[e] = Resolved[decision]
                   \/ amount < Pay /\ adjusted[d] > 0
      Inserted(o) == payout[o].status # "NONE" \/ (absent /\ amount > 0 /\ o = "decision")
  IN /\ Answer(r, "resolve")
     /\ IF rollsBack
        THEN UNCHANGED <<status, version, dispute, payout, adjusted>>
        ELSE /\ dispute' = [dispute EXCEPT ![d] = IF wins THEN Resolved[decision] ELSE @]
             /\ IF status = "DISPUTED"
                THEN /\ status' = IF decision = "BUSINESS" THEN "CANCELLED" ELSE "APPROVED"
                     /\ version' = version + 1
                ELSE UNCHANGED <<status, version>>
             /\ payout' = [o \in Origins |-> IF Inserted(o)
                                             THEN [status |-> next, amount |-> amount]
                                             ELSE payout[o]]
             /\ adjusted' = [adjusted EXCEPT ![d] = IF amount < Pay THEN Pay - amount ELSE @]
     /\ UNCHANGED <<checkedOut, evidence, submissions, payable, booked>>

\* mock-process: one guarded update.
Process(o) ==
  /\ payout[o].status = "SCHEDULED"
  /\ payout' = [payout EXCEPT ![o].status = "PROCESSING"]
  /\ UNCHANGED <<workVars, dispute, payable, booked, adjusted, request>>

\* Defects for the checks: an update by id alone; a ledger insert that gives way to
\* the entry it finds; no ledger insert.
CompleteAnyStatus(r) ==
  LET o == request[r].payout
  IN /\ Answer(r, "complete")
     /\ IF booked[o] # Unbooked
        THEN UNCHANGED <<payout, booked>>
        ELSE /\ payout' = [payout EXCEPT ![o].status = "PAID"]
             /\ booked' = [booked EXCEPT ![o] = request[r].amount]
     /\ UNCHANGED <<workVars, dispute, payable, adjusted>>

CompleteOrIgnore(r) ==
  LET o == request[r].payout
  IN /\ Answer(r, "complete")
     /\ payout' = [payout EXCEPT ![o].status = IF @ = "PROCESSING" THEN "PAID" ELSE @]
     /\ booked' = [booked EXCEPT ![o] = IF @ = Unbooked THEN request[r].amount ELSE @]
     /\ UNCHANGED <<workVars, dispute, payable, adjusted>>

CompleteUnbooked(r) ==
  LET o == request[r].payout
  IN /\ Answer(r, "complete")
     /\ payout' = [payout EXCEPT ![o].status = IF @ = "PROCESSING" THEN "PAID" ELSE @]
     /\ UNCHANGED <<workVars, dispute, payable, booked, adjusted>>

\* mock-complete: the ledger and reconciliation inserts are unconditional, and
\* their unique references roll a second completion back.
Complete(r) ==
  LET o == request[r].payout
  IN /\ Answer(r, "complete")
     /\ IF booked[o] # Unbooked
        THEN UNCHANGED <<payout, booked>>
        ELSE /\ payout' = [payout EXCEPT ![o].status = IF @ = "PROCESSING" THEN "PAID" ELSE @]
             /\ booked' = [booked EXCEPT ![o] = request[r].amount]
     /\ UNCHANGED <<workVars, dispute, payable, adjusted>>

-----------------------------------------------------------------------------
ReadStep(r) ==
  \/ ReadCheckIn(r) \/ ReadCheckOut(r) \/ ReadEvidence(r) \/ ReadSubmit(r)
  \/ ReadRevise(r) \/ ReadApprove(r) \/ ReadDispute(r)
  \/ \E d \in Disputes : ReadResolve(r, d)
  \/ \E o \in Origins : ReadComplete(r, o)

BatchStep(r) ==
  \/ CheckIn(r) \/ CheckOut(r) \/ AddEvidence(r) \/ Submit(r)
  \/ RequestRevision(r) \/ Approve(r) \/ Resolve(r) \/ Complete(r)
  \/ \E d \in Disputes : OpenDispute(r, d)

Next ==
  \/ \E r \in Requests : ReadStep(r) \/ BatchStep(r)
  \/ \E o \in Origins : Process(o)

Spec == Init /\ [][Next]_vars

-----------------------------------------------------------------------------
(***************************************************************************)
(* Properties.                                                              *)
(***************************************************************************)

\* A payout marked PAID is in the ledger and reconciled, although decisions reset
\* payouts that were paid before and completions run on stale reads.
PaidIsBooked == \A o \in Origins : payout[o].status = "PAID" => booked[o] # Unbooked

\* No payout is paid twice: a decision may reschedule a PAID payout, but its second
\* completion is rolled back by the ledger's unique reference.
PaidOnce ==
  [][\A o \in Origins :
       payout[o].status # "PAID" /\ payout'[o].status = "PAID" => booked[o] = Unbooked]_vars

\* A held payout is released only by a decision: no request that was under way when
\* the dispute was opened, nor a provider call after it, moves it.
HeldUntilDecided ==
  [][\A o \in Origins :
       payout[o].status = "ON_HOLD" /\ payout'[o].status # "ON_HOLD" =>
         \E r \in Requests : /\ request[r].op = "resolve"
                             /\ request'[r] = Idle
                             /\ payout'[o].amount = request[r].amount]_vars

\* What the business approves is the submission it read, not one made after a
\* revision it asked for in another request (version in the WHERE of approve).
ApprovesWhatItRead ==
  [][status = "SUBMITTED" /\ status' = "APPROVED" =>
       \E r \in Requests : /\ request[r].op = "approve"
                           /\ request'[r] = Idle
                           /\ request[r].seen = submissions]_vars

\* Submitted work is checked out and has evidence, through any revisions.
SubmittedIsComplete == status = "SUBMITTED" => checkedOut /\ evidence

\* What settling comes to: SettleOnce, read off the payouts and the ledger.
Settled(p) ==
  CASE p.status = "NONE" -> "none"
    [] p.status \in {"SCHEDULED", "PROCESSING"} -> "due"
    [] p.status = "ON_HOLD" -> "held"
    [] p.status = "PAID" -> "paid"
    [] p.status = "REVERSED" -> "void"
SettledPayouts == [o \in Origins |-> Settled(payout[o])]
InLedger == {o \in Origins : booked[o] # Unbooked}

Abstract == INSTANCE SettleOnce WITH
  Payouts <- Origins, state <- SettledPayouts, booked <- InLedger

\* Every batch, on whatever its request had read, is one step of SettleOnce or leaves
\* its state alone: an approval inserts a payout over none that is there, a decision
\* moves all of them or inserts one, and a payout is paid only as it is booked.
SettlesOnce == Abstract!Spec

(***************************************************************************)
(* The inductive invariant behind them.                                     *)
(***************************************************************************)

\* A request holds no version the assignment has not had, and as long as the
\* version is the one it holds, the submission is the one it read.
ReadsAreSnapshots ==
  \A r \in Requests :
    /\ request[r].op \in WorkOps \cup {"dispute"} => request[r].version <= version
    /\ request[r].op \in WorkOps /\ request[r].version = version =>
         request[r].seen = submissions

\* What a submission was let through for is never taken back.
SubmitReadsAreComplete ==
  \A r \in Requests : request[r].op = "submit" => checkedOut /\ evidence

\* The payout an approval inserts comes with its payable.
PayoutHasPayable == payout["approval"].status # "NONE" => payable

\* A completion is of a payout that is there, and so is what is in the ledger.
CompletesAreOfRows ==
  /\ \A r \in Requests :
       request[r].op = "complete" => payout[request[r].payout].status # "NONE"
  /\ \A o \in Origins : booked[o] # Unbooked => payout[o].status # "NONE"

\* A decision for the business leaves the worker nothing.
BusinessPaysNothing ==
  \A r \in Requests :
    request[r].op = "resolve" /\ request[r].decision = "BUSINESS" => request[r].amount = 0

IInv ==
  /\ TypeOK
  /\ PayoutHasPayable
  /\ CompletesAreOfRows
  /\ BusinessPaysNothing
  /\ ReadsAreSnapshots
  /\ SubmitReadsAreComplete
  /\ SubmittedIsComplete
  /\ PaidIsBooked

\* docs/api.md: a decision for the business reverses the payout.
DecisionStands ==
  \A d \in Disputes : dispute[d] = "RESOLVED_BUSINESS" =>
    \A o \in Origins : payout[o].status \in {"NONE", "REVERSED"}

\* docs/database.md: workflow entities carry a version for optimistic locking, so an
\* approval that lost its assignment to a dispute does not add a payout to the
\* decision's.
OnePayoutPerAssignment == \E o \in Origins : payout[o].status = "NONE"

(***************************************************************************)
(* Where requests do not overlap, what the one in flight has read still     *)
(* holds when its batch runs.  Then these two are kept, and more is so.      *)
(***************************************************************************)
OneAtATime == \A r, q \in Requests : r = q

ReadsStand ==
  \A r \in Requests :
    /\ request[r].op = "approve" => status = "SUBMITTED" /\ request[r].version = version
    /\ request[r].op = "dispute" =>
         /\ status = request[r].from /\ request[r].version = version
         /\ request[r].from \in {"IN_PROGRESS", "SUBMITTED", "APPROVED"}
    /\ request[r].op = "resolve" => dispute[request[r].dispute] = "OPEN"
    /\ request[r].op = "complete" =>
         /\ payout[request[r].payout].status = "PROCESSING"
         /\ payout[request[r].payout].amount = request[r].amount

\* The ledger has what the payout says, of a payout that is PAID.
PaidAsBooked ==
  \A o \in Origins : payout[o].status = "PAID" => booked[o] = payout[o].amount

\* The ledger has no more for the worker than the job pays.
InLedgerFor(o) == IF booked[o] = Unbooked THEN 0 ELSE booked[o]
NotOverpaid == InLedgerFor("approval") + InLedgerFor("decision") <= Pay

OpenDisputeStopsWork ==
  \A d \in Disputes : dispute[d] = "OPEN" =>
    /\ status = "DISPUTED"
    /\ \A e \in Disputes : dispute[e] = "OPEN" => e = d

\* No approval comes after the decision that paid.
DecisionPaysAlone ==
  payout["decision"].status # "NONE" =>
    /\ payout["approval"].status = "NONE"
    /\ status \in {"APPROVED", "DISPUTED", "CANCELLED"}

\* The only dispute's decision for the business ends the assignment.
OneDispute == \A d, e \in Disputes : d = e
ReversalEnds ==
  OneDispute => \A d \in Disputes : dispute[d] = "RESOLVED_BUSINESS" =>
    /\ status = "CANCELLED"
    /\ \A o \in Origins : payout[o].status \in {"NONE", "REVERSED"}

AloneInv ==
  /\ TypeOK
  /\ ReadsStand
  /\ OpenDisputeStopsWork
  /\ DecisionPaysAlone
  /\ ReversalEnds
  /\ PaidAsBooked
=============================================================================
