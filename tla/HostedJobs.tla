----------------------------- MODULE HostedJobs -----------------------------
(***************************************************************************)
(* A job of the hosted stack (app/api/v1 over D1) from draft to accepted    *)
(* workers: status transitions, invoices and their confirmation,            *)
(* applications and acceptance.                                             *)
(*                                                                          *)
(* As in HostedSettlement a handler is a Read step, which keeps in           *)
(* request[r] what its queries returned, and a batch, which D1 runs as one  *)
(* transaction.  fund, and the application handler, make two queries; what   *)
(* the first one finds is checked again by a unique index or never changes, *)
(* so the step stands where the second one does.                            *)
(*                                                                          *)
(* A payment is known by its idempotency key, which is unique, and an        *)
(* application by its worker, which is unique for the job.                  *)
(***************************************************************************)
EXTENDS Integers

CONSTANTS Requests,   \* requests in flight at a time
          Keys,       \* idempotency keys of the invoices asked for
          Workers,    \* workers with a verified identity
          MaxVersion  \* bound: jobs.version up to which handlers are explored

ASSUME JobsAssumption == MaxVersion \in Nat

VARIABLES
  status,       \* jobs.status
  funding,      \* jobs.funding_status
  version,      \* jobs.version
  payment,      \* payment_transactions.status by key, "NONE" while there is no row
  credited,     \* number of ledger entries job-funding:<payment> (each with its platform-fee)
  application,  \* job_applications.status by worker, "NONE" while there is no row
  assignments,  \* number of job_assignments of an application
  request       \* what a request in flight has read

jobVars == <<status, funding, version>>
paymentVars == <<payment, credited>>
workerVars == <<application, assignments>>
rows == <<jobVars, paymentVars, workerVars>>
vars == <<rows, request>>

\* lib/domain/job-state-machine.ts
Transitions == [
  DRAFT |-> {"PENDING_VERIFICATION", "CANCELLED"},
  PENDING_VERIFICATION |-> {"PENDING_FUNDING", "DRAFT", "SUSPENDED"},
  PENDING_FUNDING |-> {"PUBLISHED", "CANCELLED", "SUSPENDED"},
  PUBLISHED |-> {"APPLICATION_CLOSED", "CANCELLED", "SUSPENDED", "EXPIRED"},
  APPLICATION_CLOSED |-> {"IN_PROGRESS", "CANCELLED", "SUSPENDED"},
  IN_PROGRESS |-> {"AWAITING_APPROVAL", "DISPUTED", "SUSPENDED"},
  AWAITING_APPROVAL |-> {"COMPLETED", "DISPUTED"},
  DISPUTED |-> {"AWAITING_APPROVAL", "COMPLETED", "CANCELLED"},
  SUSPENDED |-> {"DRAFT", "PUBLISHED", "CANCELLED"},
  COMPLETED |-> {}, CANCELLED |-> {}, EXPIRED |-> {}]
JobStatus == DOMAIN Transitions

PaymentStatus == {"NONE", "PENDING", "PAID"}
ApplicationStatus == {"NONE", "SUBMITTED", "ACCEPTED"}

Idle == [op |-> "none"]
RequestState ==
  {Idle}
  \cup [op : {"transition"}, from : JobStatus, to : JobStatus, version : Nat]
  \cup [op : {"fund", "confirm"}, key : Keys]
  \cup [op : {"apply", "accept"}, worker : Workers]

TypeOK ==
  /\ status \in JobStatus
  /\ funding \in {"UNFUNDED", "FUNDED"}
  /\ version \in Nat
  /\ payment \in [Keys -> PaymentStatus]
  /\ credited \in [Keys -> Nat]
  /\ application \in [Workers -> ApplicationStatus]
  /\ assignments \in [Workers -> Nat]
  /\ request \in [Requests -> RequestState]

\* As POST /jobs inserts it, for a business that is verified.
Init ==
  /\ status = "DRAFT"
  /\ funding = "UNFUNDED"
  /\ version = 1
  /\ payment = [k \in Keys |-> "NONE"]
  /\ credited = [k \in Keys |-> 0]
  /\ application = [w \in Workers |-> "NONE"]
  /\ assignments = [w \in Workers |-> 0]
  /\ request = [r \in Requests |-> Idle]

-----------------------------------------------------------------------------
(***************************************************************************)
(* Reads.                                                                   *)
(***************************************************************************)
Read(r, snapshot) ==
  /\ request[r] = Idle
  /\ request' = [request EXCEPT ![r] = snapshot]
  /\ UNCHANGED rows

ReadTransitionAnyName(r) ==  \* defect for the checks: the target is not looked up
  /\ version < MaxVersion
  /\ \E to \in Transitions[status] \cup {"FILLED"} :
       Read(r, [op |-> "transition", from |-> status, to |-> to, version |-> version])

\* A request whose expectedVersion is not the one of the row goes no further.
ReadTransition(r) ==
  /\ version < MaxVersion
  /\ \E to \in Transitions[status] :
       Read(r, [op |-> "transition", from |-> status, to |-> to, version |-> version])

\* A known key is answered with the payment it has.
ReadFund(r, k) ==
  /\ payment[k] = "NONE"
  /\ status = "PENDING_FUNDING"
  /\ Read(r, [op |-> "fund", key |-> k])

ReadConfirm(r, k) ==
  /\ payment[k] = "PENDING"
  /\ status = "PENDING_FUNDING"
  /\ Read(r, [op |-> "confirm", key |-> k])

ReadApplyUnfunded(r, w) ==  \* defect for the checks: only the status is asked for
  /\ status = "PUBLISHED"
  /\ Read(r, [op |-> "apply", worker |-> w])

\* What GET /jobs shows, and what may be applied for.
Listed == status = "PUBLISHED" /\ funding = "FUNDED"

ReadApply(r, w) ==
  /\ Listed
  /\ Read(r, [op |-> "apply", worker |-> w])

ReadAccept(r, w) ==
  /\ application[w] = "SUBMITTED"
  /\ Read(r, [op |-> "accept", worker |-> w])

-----------------------------------------------------------------------------
(***************************************************************************)
(* Batches.                                                                 *)
(***************************************************************************)
Answer(r, op) ==
  /\ request[r].op = op
  /\ request' = [request EXCEPT ![r] = Idle]

\* Defect for the checks: an update by id alone.
TransitionAnyStatus(r) ==
  /\ Answer(r, "transition")
  /\ status' = request[r].to
  /\ version' = request[r].version + 1
  /\ UNCHANGED <<funding, paymentVars, workerVars>>

\* UPDATE jobs ... WHERE status = ? AND version = ?
Transition(r) ==
  /\ Answer(r, "transition")
  /\ IF status = request[r].from /\ version = request[r].version
     THEN status' = request[r].to /\ version' = version + 1
     ELSE UNCHANGED <<status, version>>
  /\ UNCHANGED <<funding, paymentVars, workerVars>>

FundAgain(r) ==  \* defect for the checks: the row of the key is replaced
  /\ Answer(r, "fund")
  /\ payment' = [payment EXCEPT ![request[r].key] = "PENDING"]
  /\ UNCHANGED <<jobVars, credited, workerVars>>

\* The unique key rolls a second insert back.
Fund(r) ==
  /\ Answer(r, "fund")
  /\ payment' = [payment EXCEPT ![request[r].key] = IF @ = "NONE" THEN "PENDING" ELSE @]
  /\ UNCHANGED <<jobVars, credited, workerVars>>

\* mock-confirm: the payment's update and the job's update each look at their
\* own row; the ledger inserts are unconditional, and their unique references
\* roll a second confirmation back.
Confirm(r) ==
  LET k == request[r].key
  IN /\ Answer(r, "confirm")
     /\ IF credited[k] > 0
        THEN UNCHANGED <<status, funding, version, paymentVars>>
        ELSE /\ credited' = [credited EXCEPT ![k] = 1]
             /\ payment' = [payment EXCEPT ![k] = IF @ = "PENDING" THEN "PAID" ELSE @]
             /\ IF status = "PENDING_FUNDING"
                THEN status' = "PUBLISHED" /\ funding' = "FUNDED" /\ version' = version + 1
                ELSE UNCHANGED jobVars
     /\ UNCHANGED workerVars

\* An insert, which the unique index refuses a worker who has applied.  The job
\* may have been cancelled since it was read.
Apply(r) ==
  LET w == request[r].worker
  IN /\ Answer(r, "apply")
     /\ application' = [application EXCEPT ![w] = IF @ = "NONE" THEN "SUBMITTED" ELSE @]
     /\ UNCHANGED <<jobVars, paymentVars, assignments>>

AcceptTwice(r) ==  \* defect for the checks: assignments without a unique application
  LET w == request[r].worker
  IN /\ Answer(r, "accept")
     /\ application' = [application EXCEPT ![w] = "ACCEPTED"]
     /\ assignments' = [assignments EXCEPT ![w] = @ + 1]
     /\ UNCHANGED <<jobVars, paymentVars>>

\* The insert asks for an ACCEPTED application, whoever accepted it; the unique
\* application of an assignment rolls the second one back.
Accept(r) ==
  LET w == request[r].worker
  IN /\ Answer(r, "accept")
     /\ IF assignments[w] > 0
        THEN UNCHANGED workerVars
        ELSE /\ application' = [application EXCEPT ![w] = "ACCEPTED"]
             /\ assignments' = [assignments EXCEPT ![w] = 1]
     /\ UNCHANGED <<jobVars, paymentVars>>

-----------------------------------------------------------------------------
Next ==
  \E r \in Requests :
    \/ ReadTransition(r) \/ Transition(r)
    \/ Fund(r) \/ Confirm(r) \/ Apply(r) \/ Accept(r)
    \/ \E k \in Keys : ReadFund(r, k) \/ ReadConfirm(r, k)
    \/ \E w \in Workers : ReadApply(r, w) \/ ReadAccept(r, w)

Spec == Init /\ [][Next]_vars

-----------------------------------------------------------------------------
(***************************************************************************)
(* Properties.                                                              *)
(***************************************************************************)

\* The status moves along the table only, though every request decides on a row
\* it read before and confirmations move the job too (transition, mock-confirm).
FollowsTransitions == [][status' # status => status' \in Transitions[status]]_vars

\* A payment is PAID exactly if the ledger has its funding entry, once, whatever
\* is confirmed twice, asked for again or cancelled meanwhile (fund, mock-confirm).
PaidIsCredited ==
  \A k \in Keys : credited[k] = IF payment[k] = "PAID" THEN 1 ELSE 0

\* Nobody is shown, or applies for, a job no money has come in for, although jobs
\* are published without payment (transition) and published again after a
\* suspension (GET /jobs, applications).
AppliedJobIsPaid ==
  Listed \/ (\E w \in Workers : application[w] # "NONE")
    => \E k \in Keys : payment[k] = "PAID"

\* An accepted application has exactly one assignment, and no other has any,
\* whoever else accepts it at the same time (accept).
AcceptedIsAssignedOnce ==
  \A w \in Workers : assignments[w] = IF application[w] = "ACCEPTED" THEN 1 ELSE 0

(***************************************************************************)
(* The inductive invariant behind them.                                     *)
(***************************************************************************)

\* A move a transition was let through for is in the table, from wherever the
\* job is by then.
MovesAreLegal ==
  \A r \in Requests :
    request[r].op = "transition" => request[r].to \in Transitions[request[r].from]

\* What an invoice or an application was read as stays so: an invoice that was
\* there is there, an application that was there is there, money came in.
ReadsStand ==
  \A r \in Requests :
    /\ request[r].op = "confirm" => payment[request[r].key] # "NONE"
    /\ request[r].op = "apply" => \E k \in Keys : payment[k] = "PAID"
    /\ request[r].op = "accept" => application[request[r].worker] # "NONE"

FundedIsPaid == funding = "FUNDED" => \E k \in Keys : payment[k] = "PAID"

IInv ==
  /\ TypeOK
  /\ MovesAreLegal
  /\ ReadsStand
  /\ FundedIsPaid
  /\ PaidIsCredited
  /\ AppliedJobIsPaid
  /\ AcceptedIsAssignedOnce

-----------------------------------------------------------------------------
\* docs/product-decisions.md: a job is published only with a PAID invoice.
PublishedIsPaid == status = "PUBLISHED" => \E k \in Keys : payment[k] = "PAID"

(***************************************************************************)
(* Where requests do not overlap, the job is still PENDING_FUNDING when a   *)
(* payment that was read so is confirmed.                                   *)
(***************************************************************************)
OneAtATime == \A r, q \in Requests : r = q

\* Money that came in funds the job.
PaidFunds == (\E k \in Keys : payment[k] = "PAID") => funding = "FUNDED"

AloneInv ==
  /\ \A r \in Requests : request[r].op = "confirm" => status = "PENDING_FUNDING"
  /\ PaidFunds
=============================================================================
