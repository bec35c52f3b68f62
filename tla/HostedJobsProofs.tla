-------------------------- MODULE HostedJobsProofs --------------------------
(***************************************************************************)
(* Proofs about HostedJobs for every number of requests, invoices, workers   *)
(* and versions.                                                             *)
(***************************************************************************)
EXTENDS HostedJobs, TLAPS

USE DEF PaymentStatus, ApplicationStatus, Listed

-----------------------------------------------------------------------------
(***************************************************************************)
(* Type correctness.                                                        *)
(***************************************************************************)

\* The table leads from statuses to statuses.
LEMMA TableTypes ==
  /\ JobStatus = {"DRAFT", "PENDING_VERIFICATION", "PENDING_FUNDING", "PUBLISHED",
                  "APPLICATION_CLOSED", "IN_PROGRESS", "AWAITING_APPROVAL", "COMPLETED",
                  "CANCELLED", "DISPUTED", "SUSPENDED", "EXPIRED"}
  /\ \A s \in JobStatus : Transitions[s] \subseteq JobStatus
  /\ "PUBLISHED" \in Transitions["PENDING_FUNDING"]
BY DEF JobStatus, Transitions

\* What a request holds tells from its operation.
LEMMA RequestFields ==
  ASSUME NEW q \in RequestState
  PROVE  /\ q.op = "transition" => /\ q.from \in JobStatus /\ q.to \in JobStatus
                                   /\ q.version \in Nat
         /\ q.op \in {"fund", "confirm"} => q.key \in Keys
         /\ q.op \in {"apply", "accept"} => q.worker \in Workers
<1>1. CASE q = Idle
  BY <1>1 DEF Idle
<1>2. CASE q \in [op : {"transition"}, from : JobStatus, to : JobStatus, version : Nat]
  BY <1>2
<1>3. CASE q \in [op : {"fund", "confirm"}, key : Keys]
  BY <1>3
<1>4. CASE q \in [op : {"apply", "accept"}, worker : Workers]
  BY <1>4
<1>5. QED
  BY <1>1, <1>2, <1>3, <1>4 DEF RequestState

\* A query keeps the types if what it keeps is a request's.
LEMMA ReadType ==
  ASSUME TypeOK, NEW r \in Requests, NEW q \in RequestState, Read(r, q)
  PROVE  TypeOK'
BY DEF TypeOK, Read, rows, jobVars, paymentVars, workerVars

\* The initial state is well typed.
LEMMA InitTypeOK == Init => TypeOK
BY TableTypes DEF Init, TypeOK, RequestState

\* Every step keeps the types.
LEMMA NextTypeOK == TypeOK /\ [Next]_vars => TypeOK'
<1> SUFFICES ASSUME TypeOK, [Next]_vars PROVE TypeOK'
  OBVIOUS
<1> USE DEF jobVars, paymentVars, workerVars
<1>1. ASSUME NEW r \in Requests, ReadTransition(r) PROVE TypeOK'
  <2>1. PICK to \in Transitions[status] :
          Read(r, [op |-> "transition", from |-> status, to |-> to, version |-> version])
    BY <1>1 DEF ReadTransition
  <2>2. [op |-> "transition", from |-> status, to |-> to, version |-> version] \in RequestState
    BY TableTypes DEF TypeOK, RequestState
  <2>3. QED
    BY <2>1, <2>2, ReadType
<1>2. ASSUME NEW r \in Requests, NEW k \in Keys, ReadFund(r, k) \/ ReadConfirm(r, k)
      PROVE  TypeOK'
  <2>1. [op |-> "fund", key |-> k] \in RequestState /\ [op |-> "confirm", key |-> k] \in RequestState
    BY DEF RequestState
  <2>2. QED
    BY <1>2, <2>1, ReadType DEF ReadFund, ReadConfirm
<1>3. ASSUME NEW r \in Requests, NEW w \in Workers, ReadApply(r, w) \/ ReadAccept(r, w)
      PROVE  TypeOK'
  <2>1. /\ [op |-> "apply", worker |-> w] \in RequestState
        /\ [op |-> "accept", worker |-> w] \in RequestState
    BY DEF RequestState
  <2>2. QED
    BY <1>3, <2>1, ReadType DEF ReadApply, ReadAccept
<1>4. ASSUME NEW r \in Requests, NEW op, Answer(r, op)
      PROVE  request' \in [Requests -> RequestState]
  BY <1>4 DEF TypeOK, Answer, RequestState
<1>5. ASSUME NEW r \in Requests, Transition(r) PROVE TypeOK'
  <2>1. request[r].to \in JobStatus
    BY <1>5, RequestFields DEF TypeOK, Transition, Answer
  <2>2. QED
    BY <1>4, <1>5, <2>1 DEF TypeOK, Transition
<1>6. ASSUME NEW r \in Requests, Fund(r) PROVE TypeOK'
  BY <1>4, <1>6 DEF TypeOK, Fund
<1>7. ASSUME NEW r \in Requests, Confirm(r) PROVE TypeOK'
  BY <1>4, <1>7, TableTypes DEF TypeOK, Confirm
<1>8. ASSUME NEW r \in Requests, Apply(r) PROVE TypeOK'
  BY <1>4, <1>8 DEF TypeOK, Apply
<1>9. ASSUME NEW r \in Requests, Accept(r) PROVE TypeOK'
  BY <1>4, <1>9 DEF TypeOK, Accept
<1>10. CASE UNCHANGED vars
  BY <1>10 DEF TypeOK, vars, rows
<1>11. QED
  BY <1>1, <1>2, <1>3, <1>5, <1>6, <1>7, <1>8, <1>9, <1>10 DEF Next

\* The rows and the requests in flight keep their types.
THEOREM TypeCorrect == Spec => []TypeOK
BY InitTypeOK, NextTypeOK, PTL DEF Spec

-----------------------------------------------------------------------------
(***************************************************************************)
(* The inductive invariant.                                                 *)
(***************************************************************************)

\* Rows of payments and applications are not deleted, and PAID is kept.
LEMMA RowsStay ==
  ASSUME TypeOK, [Next]_vars
  PROVE  /\ \A k \in Keys : payment[k] # "NONE" => payment'[k] # "NONE"
         /\ \A k \in Keys : payment[k] = "PAID" => payment'[k] = "PAID"
         /\ \A w \in Workers : application[w] # "NONE" => application'[w] # "NONE"
<1> USE DEF TypeOK, jobVars, paymentVars, workerVars
<1>1. ASSUME UNCHANGED rows
      PROVE  UNCHANGED <<payment, application>>
  BY <1>1 DEF rows
<1>2. ASSUME NEW r \in Requests, Fund(r)
      PROVE  UNCHANGED application /\ \A k \in Keys :
               payment'[k] = payment[k] \/ payment[k] = "NONE"
  BY <1>2 DEF Fund
<1>3. ASSUME NEW r \in Requests, Confirm(r)
      PROVE  UNCHANGED application /\ \A k \in Keys :
               payment'[k] = payment[k] \/ (payment[k] = "PENDING" /\ payment'[k] = "PAID")
  BY <1>3 DEF Confirm
<1>4. ASSUME NEW r \in Requests, Transition(r) \/ Apply(r) \/ Accept(r)
      PROVE  UNCHANGED payment /\ \A w \in Workers :
               application[w] # "NONE" => application'[w] # "NONE"
  BY <1>4 DEF Transition, Apply, Accept
<1>5. QED
  BY <1>1, <1>2, <1>3, <1>4
     DEF Next, vars, Read, ReadTransition, ReadFund, ReadConfirm, ReadApply, ReadAccept

\* The invariant holds at the start.
LEMMA InitIInv == Init => IInv
<1> SUFFICES ASSUME Init PROVE IInv
  OBVIOUS
<1>1. \A r \in Requests : request[r].op = "none"
  BY DEF Init, Idle
<1>2. QED
  BY <1>1, InitTypeOK
     DEF Init, IInv, MovesAreLegal, ReadsStand, FundedIsPaid, PaidIsCredited,
         AppliedJobIsPaid, AcceptedIsAssignedOnce

\* A query keeps the invariant.
LEMMA ReadKeepsIInv ==
  ASSUME IInv, TypeOK', NEW r \in Requests, NEW q, Read(r, q),
         q.op = "transition" => q.to \in Transitions[q.from],
         q.op = "confirm" => payment[q.key] # "NONE",
         q.op = "apply" => \E k \in Keys : payment[k] = "PAID",
         q.op = "accept" => application[q.worker] # "NONE"
  PROVE  IInv'
<1>1. UNCHANGED rows /\ request' = [request EXCEPT ![r] = q]
  BY DEF Read
<1>2. \A s \in Requests : request'[s] = IF s = r THEN q ELSE request[s]
  BY <1>1 DEF IInv, TypeOK
<1>3. MovesAreLegal' /\ ReadsStand'
  BY <1>1, <1>2 DEF IInv, MovesAreLegal, ReadsStand, rows, paymentVars, workerVars
<1>4. QED
  BY <1>1, <1>3 DEF IInv, FundedIsPaid, PaidIsCredited, AppliedJobIsPaid,
                    AcceptedIsAssignedOnce, rows, jobVars, paymentVars, workerVars

\* What requests hold still stands after any batch.
LEMMA ReadsKept ==
  ASSUME IInv, [Next]_vars,
         \A s \in Requests : request'[s] = request[s] \/ request'[s] = Idle
  PROVE  MovesAreLegal' /\ ReadsStand'
<1>1. TypeOK /\ MovesAreLegal /\ ReadsStand
  BY DEF IInv
<1>2. Idle.op \notin {"transition", "confirm", "apply", "accept"}
  BY DEF Idle
<1>3. MovesAreLegal'
  BY <1>1, <1>2 DEF MovesAreLegal
<1>4. \A s \in Requests :
        /\ request[s].op = "confirm" => request[s].key \in Keys
        /\ request[s].op = "accept" => request[s].worker \in Workers
  BY <1>1, RequestFields DEF TypeOK
<1>5. ReadsStand'
  BY <1>1, <1>2, <1>4, RowsStay DEF ReadsStand
<1>6. QED
  BY <1>3, <1>5

\* Every step keeps the invariant.
LEMMA NextIInv == IInv /\ [Next]_vars => IInv'
<1> SUFFICES ASSUME IInv, [Next]_vars PROVE IInv'
  OBVIOUS
<1>0. TypeOK /\ TypeOK'
  BY NextTypeOK DEF IInv
<1> USE DEF jobVars, paymentVars, workerVars
<1>1. ASSUME NEW r \in Requests, ReadTransition(r) PROVE IInv'
  BY <1>0, <1>1, ReadKeepsIInv DEF ReadTransition
<1>2. ASSUME NEW r \in Requests, NEW k \in Keys, ReadFund(r, k) \/ ReadConfirm(r, k)
      PROVE  IInv'
  BY <1>0, <1>2, ReadKeepsIInv DEF ReadFund, ReadConfirm
<1>3. ASSUME NEW r \in Requests, NEW w \in Workers, ReadApply(r, w) \/ ReadAccept(r, w)
      PROVE  IInv'
  BY <1>0, <1>3, ReadKeepsIInv DEF ReadApply, ReadAccept, IInv, FundedIsPaid
<1>4. ASSUME NEW r \in Requests, NEW op, Answer(r, op)
      PROVE  MovesAreLegal' /\ ReadsStand'
  <2>1. \A s \in Requests : request'[s] = request[s] \/ request'[s] = Idle
    BY <1>0, <1>4 DEF Answer, TypeOK
  <2>2. QED
    BY <2>1, ReadsKept
<1>5. ASSUME NEW r \in Requests, Transition(r) PROVE IInv'
  BY <1>0, <1>4, <1>5 DEF Transition, IInv, FundedIsPaid, PaidIsCredited,
                          AppliedJobIsPaid, AcceptedIsAssignedOnce
<1>6. ASSUME NEW r \in Requests, Fund(r) PROVE IInv'
  <2>1. \A k \in Keys : payment'[k] = "PAID" <=> payment[k] = "PAID"
    BY <1>0, <1>6 DEF Fund, TypeOK
  <2>2. QED
    BY <1>0, <1>4, <1>6, <2>1 DEF Fund, IInv, FundedIsPaid, PaidIsCredited,
                                  AppliedJobIsPaid, AcceptedIsAssignedOnce
<1>7. ASSUME NEW r \in Requests, Confirm(r) PROVE IInv'
  <2> DEFINE k == request[r].key
  <2>1. k \in Keys /\ payment[k] # "NONE"
    BY <1>0, <1>7, RequestFields DEF TypeOK, Confirm, Answer, IInv, ReadsStand
  <2>2. CASE credited[k] > 0
    BY <1>0, <1>4, <1>7, <2>2 DEF Confirm, IInv, FundedIsPaid, PaidIsCredited,
                                  AppliedJobIsPaid, AcceptedIsAssignedOnce
  <2>3. CASE ~(credited[k] > 0)
    <3>1. payment[k] = "PENDING"
      BY <1>0, <2>1, <2>3 DEF IInv, PaidIsCredited, TypeOK
    <3>2. payment' = [payment EXCEPT ![k] = "PAID"] /\ credited' = [credited EXCEPT ![k] = 1]
      BY <1>7, <2>3, <3>1 DEF Confirm
    <3>3. PaidIsCredited' /\ \E key \in Keys : payment'[key] = "PAID"
      BY <1>0, <2>1, <3>2 DEF IInv, PaidIsCredited, TypeOK
    <3>4. QED
      BY <1>0, <1>4, <1>7, <3>3 DEF Confirm, IInv, FundedIsPaid, AppliedJobIsPaid,
                                    AcceptedIsAssignedOnce
  <2>4. QED
    BY <2>2, <2>3
<1>8. ASSUME NEW r \in Requests, Apply(r) PROVE IInv'
  <2>1. \E k \in Keys : payment[k] = "PAID"
    BY <1>8 DEF Apply, Answer, IInv, ReadsStand
  <2>2. \A w \in Workers : application'[w] = "ACCEPTED" <=> application[w] = "ACCEPTED"
    BY <1>0, <1>8 DEF Apply, TypeOK
  <2>3. QED
    BY <1>0, <1>4, <1>8, <2>1, <2>2 DEF Apply, IInv, FundedIsPaid, PaidIsCredited,
                                        AppliedJobIsPaid, AcceptedIsAssignedOnce
<1>9. ASSUME NEW r \in Requests, Accept(r) PROVE IInv'
  <2> DEFINE w == request[r].worker
  <2>1. w \in Workers /\ application[w] # "NONE"
    BY <1>0, <1>9, RequestFields DEF TypeOK, Accept, Answer, IInv, ReadsStand
  <2>2. AppliedJobIsPaid'
    BY <1>9, <2>1 DEF Accept, IInv, AppliedJobIsPaid
  <2>3. AcceptedIsAssignedOnce'
    BY <1>0, <1>9, <2>1 DEF Accept, IInv, AcceptedIsAssignedOnce, TypeOK
  <2>4. QED
    BY <1>0, <1>4, <1>9, <2>2, <2>3 DEF Accept, IInv, FundedIsPaid, PaidIsCredited
<1>10. CASE UNCHANGED vars
  BY <1>0, <1>10 DEF vars, rows, IInv, MovesAreLegal, ReadsStand, FundedIsPaid,
                     PaidIsCredited, AppliedJobIsPaid, AcceptedIsAssignedOnce
<1>11. QED
  BY <1>1, <1>2, <1>3, <1>5, <1>6, <1>7, <1>8, <1>9, <1>10 DEF Next

\* The inductive invariant: what a request was let through for stands until its
\* batch runs, money is credited as it is paid, acceptance assigns once.
THEOREM JobsInvariant == Spec => []IInv
BY InitIInv, NextIInv, PTL DEF Spec

-----------------------------------------------------------------------------
(***************************************************************************)
(* Properties.                                                              *)
(***************************************************************************)

\* PAID payments and funding entries of the ledger match one to one (mock-confirm).
THEOREM PaymentsCredited == Spec => []PaidIsCredited
<1>1. IInv => PaidIsCredited
  BY DEF IInv
<1>2. QED
  BY <1>1, JobsInvariant, PTL

\* Applications are only made for jobs money has come in for (applications).
THEOREM AppliedPaid == Spec => []AppliedJobIsPaid
<1>1. IInv => AppliedJobIsPaid
  BY DEF IInv
<1>2. QED
  BY <1>1, JobsInvariant, PTL

\* Acceptance and assignment go together, once (accept).
THEOREM AcceptedAssigned == Spec => []AcceptedIsAssignedOnce
<1>1. IInv => AcceptedIsAssignedOnce
  BY DEF IInv
<1>2. QED
  BY <1>1, JobsInvariant, PTL

\* The job moves along the table only, whatever races (transition, mock-confirm).
THEOREM TableFollowed == Spec => FollowsTransitions
<1>1. IInv /\ [Next]_vars => [status' # status => status' \in Transitions[status]]_vars
  <2> SUFFICES ASSUME IInv, Next, status' # status PROVE status' \in Transitions[status]
    OBVIOUS
  <2>1. PICK r \in Requests : Transition(r) \/ Confirm(r)
    BY DEF Next, Read, ReadTransition, ReadFund, ReadConfirm, ReadApply, ReadAccept,
           Fund, Apply, Accept, rows, jobVars
  <2>2. CASE Transition(r)
    BY <2>2 DEF Transition, Answer, IInv, MovesAreLegal
  <2>3. CASE Confirm(r)
    BY <2>3, TableTypes DEF Confirm, jobVars
  <2>4. QED
    BY <2>1, <2>2, <2>3
<1>2. QED
  BY <1>1, JobsInvariant, PTL DEF Spec, FollowsTransitions

-----------------------------------------------------------------------------
(***************************************************************************)
(* Requests that do not overlap.                                            *)
(***************************************************************************)

\* Every step of requests that do not overlap keeps a confirmation and its job in step.
LEMMA NextAlone ==
  ASSUME OneAtATime, TypeOK, AloneInv, [Next]_vars
  PROVE  AloneInv'
<1> USE DEF rows, jobVars, paymentVars, workerVars, Read, Answer
<1>0. /\ request \in [Requests -> RequestState] /\ payment \in [Keys -> PaymentStatus]
      /\ PaidFunds
      /\ \A r \in Requests : request[r].op = "confirm" => status = "PENDING_FUNDING"
  BY DEF TypeOK, AloneInv
<1>1. ASSUME NEW r \in Requests, NEW snapshot, Read(r, snapshot),
             snapshot.op = "confirm" => status = "PENDING_FUNDING"
      PROVE  AloneInv'
  BY <1>0, <1>1 DEF AloneInv, PaidFunds
<1>2. ASSUME NEW r \in Requests,
             ReadTransition(r) \/ (\E k \in Keys : ReadFund(r, k))
             \/ (\E w \in Workers : ReadApply(r, w) \/ ReadAccept(r, w))
      PROVE  AloneInv'
  BY <1>1, <1>2 DEF ReadTransition, ReadFund, ReadApply, ReadAccept
<1>3. ASSUME NEW r \in Requests, NEW k \in Keys, ReadConfirm(r, k) PROVE AloneInv'
  BY <1>1, <1>3 DEF ReadConfirm
<1>4. ASSUME NEW r \in Requests, request' = [request EXCEPT ![r] = Idle]
      PROVE  \A q \in Requests : request'[q].op # "confirm"
  BY <1>0, <1>4 DEF OneAtATime, Idle
<1>5. ASSUME NEW r \in Requests, Transition(r) \/ Apply(r) \/ Accept(r) PROVE AloneInv'
  BY <1>0, <1>4, <1>5 DEF Transition, Apply, Accept, AloneInv, PaidFunds
<1>6. ASSUME NEW r \in Requests, Fund(r) PROVE AloneInv'
  <2>1. \A k \in Keys : payment'[k] = "PAID" => payment[k] = "PAID"
    BY <1>0, <1>6 DEF Fund
  <2>2. QED
    BY <1>0, <1>4, <1>6, <2>1 DEF Fund, AloneInv, PaidFunds
<1>7. ASSUME NEW r \in Requests, Confirm(r) PROVE AloneInv'
  <2>1. status = "PENDING_FUNDING"
    BY <1>0, <1>7 DEF Confirm
  <2>2. funding' = "FUNDED" \/ UNCHANGED <<funding, payment>>
    BY <1>7, <2>1 DEF Confirm
  <2>3. QED
    BY <1>0, <1>4, <1>7, <2>2 DEF Confirm, AloneInv, PaidFunds
<1>8. CASE UNCHANGED vars
  BY <1>0, <1>8 DEF vars, AloneInv, PaidFunds
<1>9. QED
  BY <1>2, <1>3, <1>5, <1>6, <1>7, <1>8 DEF Next

\* Money that came in without funding the job is a race: where requests do not
\* overlap, a confirmation finds the job as it read it and funds it with the payment
\* (mock-confirm, transition).
THEOREM PaidFundsAlone == ASSUME OneAtATime PROVE Spec => []PaidFunds
<1>1. Init => AloneInv
  BY DEF Init, AloneInv, PaidFunds, Idle
<1>2. TypeOK /\ AloneInv /\ [Next]_vars => AloneInv'
  BY NextAlone
<1>3. AloneInv => PaidFunds
  BY DEF AloneInv
<1>4. QED
  BY <1>1, <1>2, <1>3, TypeCorrect, PTL DEF Spec
=============================================================================
