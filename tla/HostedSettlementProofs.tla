----------------------- MODULE HostedSettlementProofs -----------------------
(***************************************************************************)
(* Proofs about HostedSettlement for every number of requests in flight,     *)
(* every set of disputes, every amount and every bound on versions.          *)
(***************************************************************************)
EXTENDS HostedSettlement, TLAPS

USE DEF PayoutRow, Booking

-----------------------------------------------------------------------------
(***************************************************************************)
(* Type correctness.                                                        *)
(***************************************************************************)

\* What a request holds tells from its operation.
LEMMA RequestFields ==
  ASSUME NEW q \in RequestState
  PROVE  /\ q.op \in WorkOps => q.version \in Nat /\ q.seen \in Nat
         /\ q.op = "dispute" => q.version \in Nat /\ q.from \in AssignmentStatus
         /\ q.op = "resolve" => /\ q.dispute \in Disputes
                                /\ q.decision \in Decisions
                                /\ q.amount \in 0..Pay
         /\ q.op = "complete" => q.payout \in Origins /\ q.amount \in 0..Pay
<1>1. CASE q = Idle
  BY <1>1 DEF Idle, WorkOps
<1>2. CASE q \in [op : WorkOps, version : Nat, seen : Nat]
  BY <1>2 DEF WorkOps
<1>3. CASE q \in [op : {"dispute"}, version : Nat, from : AssignmentStatus]
  BY <1>3 DEF WorkOps
<1>4. CASE q \in [op : {"resolve"}, dispute : Disputes, decision : Decisions, amount : 0..Pay]
  BY <1>4 DEF WorkOps
<1>5. CASE q \in [op : {"complete"}, payout : Origins, amount : 0..Pay]
  BY <1>5 DEF WorkOps
<1>6. QED
  BY <1>1, <1>2, <1>3, <1>4, <1>5 DEF RequestState

\* The share a decision gives the worker is between nothing and the pay.
LEMMA ShareRange ==
  ASSUME NEW decision \in Decisions, NEW partial \in 0..Pay
  PROVE  Share(decision, partial) \in 0..Pay
BY SettlementAssumption DEF Share, Decisions

\* What a work handler keeps of its query.
LEMMA ReadWorkType ==
  ASSUME TypeOK, NEW r \in Requests, NEW op \in WorkOps, ReadWork(r, op)
  PROVE  TypeOK'
<1>1. [op |-> op, version |-> version, seen |-> submissions] \in RequestState
  BY DEF TypeOK, RequestState
<1>2. QED
  BY <1>1 DEF TypeOK, ReadWork, Read, rows, workVars, moneyVars

\* The initial state is well typed.
LEMMA InitTypeOK == Init => TypeOK
<1> SUFFICES ASSUME Init PROVE TypeOK
  OBVIOUS
<1>1. 0 \in 0..Pay /\ Unbooked \in -1..Pay
  BY SettlementAssumption DEF Unbooked
<1>2. [status |-> "NONE", amount |-> 0] \in [status : PayoutStatus, amount : 0..Pay]
  BY <1>1 DEF PayoutStatus
<1>3. QED
  BY <1>1, <1>2 DEF Init, TypeOK, AssignmentStatus, DisputeStatus, RequestState

\* Queries keep the types.
LEMMA ReadTypeOK ==
  ASSUME TypeOK, NEW r \in Requests, ReadStep(r)
  PROVE  TypeOK'
<1>1. {"checkIn", "checkOut", "evidence", "submit", "revise", "approve"} \subseteq WorkOps
  BY DEF WorkOps
<1>2. CASE ReadDispute(r)
  <2>1. [op |-> "dispute", version |-> version, from |-> status] \in RequestState
    BY DEF TypeOK, RequestState
  <2>2. QED
    BY <1>2, <2>1 DEF TypeOK, ReadDispute, Read, rows, workVars, moneyVars
<1>3. ASSUME NEW d \in Disputes, ReadResolve(r, d) PROVE TypeOK'
  <2>1. PICK decision \in Decisions, partial \in 0..Pay :
          Read(r, [op |-> "resolve", dispute |-> d, decision |-> decision,
                   amount |-> Share(decision, partial)])
    BY <1>3 DEF ReadResolve
  <2>2. [op |-> "resolve", dispute |-> d, decision |-> decision,
         amount |-> Share(decision, partial)] \in RequestState
    BY ShareRange DEF RequestState
  <2>3. QED
    BY <2>1, <2>2 DEF TypeOK, Read, rows, workVars, moneyVars
<1>4. ASSUME NEW o \in Origins, ReadComplete(r, o) PROVE TypeOK'
  <2>1. [op |-> "complete", payout |-> o, amount |-> payout[o].amount] \in RequestState
    BY DEF TypeOK, RequestState
  <2>2. QED
    BY <1>4, <2>1 DEF TypeOK, ReadComplete, Read, rows, workVars, moneyVars
<1>5. QED
  BY <1>1, <1>2, <1>3, <1>4, ReadWorkType
     DEF ReadStep, ReadCheckIn, ReadCheckOut, ReadEvidence, ReadSubmit, ReadRevise,
         ReadApprove

\* The update of the assignment by a batch keeps its types.
LEMMA MoveType ==
  ASSUME TypeOK, NEW r \in Requests, NEW from, NEW to \in AssignmentStatus,
         Move(r, from, to)
  PROVE  status' \in AssignmentStatus /\ version' \in Nat
BY DEF TypeOK, Move

\* A request that is answered is idle.
LEMMA AnswerType ==
  ASSUME TypeOK, NEW r \in Requests, NEW op, Answer(r, op)
  PROVE  request' \in [Requests -> RequestState]
BY DEF TypeOK, Answer, RequestState

\* Batches keep the types.
LEMMA BatchTypeOK ==
  ASSUME TypeOK, NEW r \in Requests, BatchStep(r)
  PROVE  TypeOK'
<1> USE DEF workVars, moneyVars
<1>0. {"IN_PROGRESS", "SUBMITTED", "APPROVED", "DISPUTED", "CANCELLED"} \subseteq AssignmentStatus
  BY DEF AssignmentStatus
<1>1. CASE CheckIn(r)
  BY <1>0, <1>1, MoveType, AnswerType DEF TypeOK, CheckIn
<1>2. CASE CheckOut(r)
  <2>1. checkedOut' \in BOOLEAN
    BY <1>2, Zenon DEF TypeOK, CheckOut
  <2>2. version' \in Nat
    BY <1>2 DEF TypeOK, CheckOut
  <2>3. QED
    BY <1>2, <2>1, <2>2, AnswerType DEF TypeOK, CheckOut
<1>3. CASE AddEvidence(r)
  BY <1>3, AnswerType DEF TypeOK, AddEvidence
<1>4. CASE Submit(r)
  BY <1>0, <1>4, MoveType, AnswerType DEF TypeOK, Submit
<1>5. CASE RequestRevision(r)
  BY <1>0, <1>5, MoveType, AnswerType DEF TypeOK, RequestRevision
<1>6. CASE Approve(r)
  <2>1. [status |-> "SCHEDULED", amount |-> Pay] \in [status : PayoutStatus, amount : 0..Pay]
    BY SettlementAssumption DEF PayoutStatus
  <2>2. status' \in AssignmentStatus /\ version' \in Nat
    BY <1>0, <1>6, MoveType DEF TypeOK, Approve
  <2>3. payout' \in [Origins -> [status : PayoutStatus, amount : 0..Pay]]
    BY <1>6, <2>1 DEF TypeOK, Approve
  <2>4. payable' \in BOOLEAN
    BY <1>6 DEF TypeOK, Approve
  <2>5. QED
    BY <1>6, <2>2, <2>3, <2>4, AnswerType DEF TypeOK, Approve
<1>7. CASE Resolve(r)
  <2> DEFINE d == request[r].dispute
             decision == request[r].decision
             amount == request[r].amount
  <2>1. d \in Disputes /\ decision \in Decisions /\ amount \in 0..Pay
    BY <1>7, RequestFields DEF TypeOK, Resolve, Answer
  <2>2. Resolved[decision] \in DisputeStatus
    BY <2>1 DEF DisputeStatus
  <2>3. dispute' \in [Disputes -> DisputeStatus]
    BY <1>7, <2>1, <2>2 DEF TypeOK, Resolve
  <2>4. status' \in AssignmentStatus /\ version' \in Nat
    BY <1>0, <1>7 DEF TypeOK, Resolve
  <2>5. \A s \in {"REVERSED", "SCHEDULED"} :
          [status |-> s, amount |-> amount] \in [status : PayoutStatus, amount : 0..Pay]
    BY <2>1 DEF PayoutStatus
  <2>6. payout' \in [Origins -> [status : PayoutStatus, amount : 0..Pay]]
    BY <1>7, <2>5 DEF TypeOK, Resolve
  <2>7. Pay - amount \in 0..Pay
    BY <2>1, SettlementAssumption
  <2>8. adjusted' \in [Disputes -> 0..Pay]
    BY <1>7, <2>7 DEF TypeOK, Resolve
  <2>9. QED
    BY <1>7, <2>3, <2>4, <2>6, <2>8, AnswerType DEF TypeOK, Resolve
<1>8. CASE Complete(r)
  <2>1. request[r].payout \in Origins /\ request[r].amount \in 0..Pay
    BY <1>8, RequestFields DEF TypeOK, Complete, Answer
  <2>2. booked' \in [Origins -> -1..Pay]
    BY <1>8, <2>1 DEF TypeOK, Complete
  <2>3. payout' \in [Origins -> [status : PayoutStatus, amount : 0..Pay]]
    BY <1>8, <2>1 DEF TypeOK, Complete, PayoutStatus
  <2>4. QED
    BY <1>8, <2>2, <2>3, AnswerType DEF TypeOK, Complete
<1>9. ASSUME NEW d \in Disputes, OpenDispute(r, d) PROVE TypeOK'
  <2>1. dispute' \in [Disputes -> DisputeStatus]
    BY <1>9 DEF TypeOK, OpenDispute, DisputeStatus
  <2>2. status' \in AssignmentStatus /\ version' \in Nat
    BY <1>0, <1>9, MoveType DEF TypeOK, OpenDispute
  <2>3. payout' \in [Origins -> [status : PayoutStatus, amount : 0..Pay]]
    BY <1>9 DEF TypeOK, OpenDispute, Hold, PayoutStatus
  <2>4. QED
    BY <1>9, <2>1, <2>2, <2>3, AnswerType DEF TypeOK, OpenDispute
<1>10. QED
  BY <1>1, <1>2, <1>3, <1>4, <1>5, <1>6, <1>7, <1>8, <1>9 DEF BatchStep

\* Every step keeps the types.
LEMMA NextTypeOK == TypeOK /\ [Next]_vars => TypeOK'
<1> SUFFICES ASSUME TypeOK, [Next]_vars PROVE TypeOK'
  OBVIOUS
<1>1. ASSUME NEW o \in Origins, Process(o) PROVE TypeOK'
  BY <1>1 DEF TypeOK, Process, PayoutStatus, workVars
<1>2. CASE UNCHANGED vars
  BY <1>2 DEF TypeOK, vars, rows, workVars, moneyVars
<1>3. QED
  BY <1>1, <1>2, ReadTypeOK, BatchTypeOK DEF Next

\* The rows and the requests in flight keep their types.
THEOREM TypeCorrect == Spec => []TypeOK
BY InitTypeOK, NextTypeOK, PTL DEF Spec

-----------------------------------------------------------------------------
(***************************************************************************)
(* The inductive invariant.                                                 *)
(***************************************************************************)

\* A query changes one request, and keeps in it what the rows hold.
LEMMA ReadEffect ==
  ASSUME NEW r \in Requests, ReadStep(r), TypeOK
  PROVE  /\ UNCHANGED rows
         /\ \A s \in Requests \ {r} : request'[s] = request[s]
         /\ request'[r].op \in WorkOps => /\ request'[r].version = version
                                         /\ request'[r].seen = submissions
         /\ request'[r].op = "dispute" => request'[r].version = version
         /\ request'[r].op = "submit" => checkedOut /\ evidence
<1> USE DEF TypeOK
<1>1. ASSUME NEW op, ReadWork(r, op), op = "submit" => checkedOut /\ evidence,
             op # "dispute"
      PROVE  /\ UNCHANGED rows
             /\ \A s \in Requests \ {r} : request'[s] = request[s]
             /\ request'[r].version = version
             /\ request'[r].seen = submissions
             /\ request'[r].op # "dispute"
             /\ request'[r].op = "submit" => checkedOut /\ evidence
  BY <1>1 DEF ReadWork, Read
<1>2. CASE ReadSubmit(r)
  BY <1>1, <1>2 DEF ReadSubmit
<1>3. CASE ReadCheckIn(r) \/ ReadCheckOut(r) \/ ReadEvidence(r) \/ ReadRevise(r) \/ ReadApprove(r)
  BY <1>1, <1>3 DEF ReadCheckIn, ReadCheckOut, ReadEvidence, ReadRevise, ReadApprove
<1>4. CASE ReadDispute(r)
  BY <1>4 DEF ReadDispute, Read, WorkOps
<1>5. CASE \E d \in Disputes : ReadResolve(r, d)
  BY <1>5 DEF ReadResolve, Read, WorkOps
<1>6. CASE \E o \in Origins : ReadComplete(r, o)
  BY <1>6 DEF ReadComplete, Read, WorkOps
<1>7. QED
  BY <1>2, <1>3, <1>4, <1>5, <1>6 DEF ReadStep

\* What every batch has in common: it answers its request, never lowers the
\* version, raises it with every submission, and takes nothing back.
LEMMA BatchEffect ==
  ASSUME TypeOK, NEW r \in Requests, BatchStep(r)
  PROVE  /\ request' = [request EXCEPT ![r] = Idle]
         /\ version' \in Nat /\ version' >= version
         /\ submissions' # submissions => version' > version
         /\ checkedOut => checkedOut'
         /\ evidence => evidence'
         /\ status' = "SUBMITTED" => status = "SUBMITTED" \/ request[r].op = "submit"
<1> USE DEF workVars, Answer, Move, TypeOK
<1>1. CASE CheckIn(r)
  BY <1>1 DEF CheckIn
<1>2. CASE CheckOut(r)
  <2>1. request' = [request EXCEPT ![r] = Idle] /\ UNCHANGED <<status, evidence, submissions>>
    BY <1>2 DEF CheckOut
  <2>2. version' = version + 1 \/ version' = version
    BY <1>2 DEF CheckOut
  <2>3. checkedOut => checkedOut'
    BY <1>2, Zenon DEF CheckOut
  <2>4. QED
    BY <2>1, <2>2, <2>3
<1>3. CASE AddEvidence(r)
  BY <1>3 DEF AddEvidence
<1>4. CASE Submit(r)
  BY <1>4 DEF Submit
<1>5. CASE RequestRevision(r)
  BY <1>5 DEF RequestRevision
<1>6. CASE Approve(r)
  BY <1>6 DEF Approve
<1>7. CASE Resolve(r)
  BY <1>7 DEF Resolve
<1>8. CASE Complete(r)
  BY <1>8 DEF Complete
<1>9. CASE \E d \in Disputes : OpenDispute(r, d)
  BY <1>9 DEF OpenDispute
<1>10. QED
  BY <1>1, <1>2, <1>3, <1>4, <1>5, <1>6, <1>7, <1>8, <1>9 DEF BatchStep

\* A batch books, and marks a payout PAID, in one only of its cases.
LEMMA BatchBooks ==
  ASSUME TypeOK, PayoutHasPayable, NEW r \in Requests, BatchStep(r), NEW o \in Origins
  PROVE  /\ PayoutHasPayable'
         /\ booked[o] # Unbooked => booked'[o] # Unbooked
         /\ payout'[o].status = "PAID" /\ payout[o].status # "PAID" =>
              booked[o] = Unbooked /\ booked'[o] # Unbooked
         /\ payout[o].status = "ON_HOLD" /\ payout'[o].status # "ON_HOLD" =>
              request[r].op = "resolve" /\ payout'[o].amount = request[r].amount
<1> USE DEF moneyVars, TypeOK, PayoutHasPayable
<1>0. "approval" \in Origins
  BY DEF Origins
<1>1. CASE CheckIn(r) \/ CheckOut(r) \/ AddEvidence(r) \/ Submit(r) \/ RequestRevision(r)
  BY <1>1 DEF CheckIn, CheckOut, AddEvidence, Submit, RequestRevision
<1>2. CASE Approve(r)
  BY <1>0, <1>2 DEF Approve
<1>3. CASE Resolve(r)
  BY <1>0, <1>3 DEF Resolve, Answer
<1>4. CASE Complete(r)
  <2>1. request[r].amount # Unbooked /\ request[r].payout \in Origins
    BY <1>4, RequestFields, SettlementAssumption DEF Complete, Answer, Unbooked
  <2>2. QED
    BY <1>0, <1>4, <2>1 DEF Complete
<1>5. CASE \E d \in Disputes : OpenDispute(r, d)
  BY <1>0, <1>5 DEF OpenDispute, Hold, Holdable
<1>6. QED
  BY <1>1, <1>2, <1>3, <1>4, <1>5 DEF BatchStep

\* What a query for a completion or a decision keeps is what the payout and the
\* decision say.
LEMMA ReadMoney ==
  ASSUME TypeOK, NEW r \in Requests, ReadStep(r)
  PROVE  /\ request'[r].op = "complete" =>
              /\ request'[r].payout \in Origins
              /\ payout[request'[r].payout].status = "PROCESSING"
              /\ payout[request'[r].payout].amount = request'[r].amount
         /\ request'[r].op = "resolve" /\ request'[r].decision = "BUSINESS" =>
              request'[r].amount = 0
<1> USE DEF TypeOK
<1>1. ASSUME NEW op, ReadWork(r, op), op \notin {"complete", "resolve"}
      PROVE  request'[r].op \notin {"complete", "resolve"}
  BY <1>1 DEF ReadWork, Read
<1>2. CASE \/ ReadCheckIn(r) \/ ReadCheckOut(r) \/ ReadEvidence(r) \/ ReadSubmit(r)
           \/ ReadRevise(r) \/ ReadApprove(r)
  BY <1>1, <1>2
  DEF ReadCheckIn, ReadCheckOut, ReadEvidence, ReadSubmit, ReadRevise, ReadApprove
<1>3. CASE ReadDispute(r)
  BY <1>3 DEF ReadDispute, Read
<1>4. CASE \E d \in Disputes : ReadResolve(r, d)
  BY <1>4 DEF ReadResolve, Read, Share
<1>5. ASSUME NEW o \in Origins, ReadComplete(r, o)
      PROVE  /\ request'[r].op = "complete" /\ request'[r].payout = o
             /\ payout[o].status = "PROCESSING" /\ payout[o].amount = request'[r].amount
  BY <1>5 DEF ReadComplete, Read
<1>6. QED
  BY <1>2, <1>3, <1>4, <1>5 DEF ReadStep

\* No batch deletes a payout, and only a completion books one: its own.
LEMMA BatchKeepsRows ==
  ASSUME TypeOK, NEW r \in Requests, BatchStep(r), NEW o \in Origins
  PROVE  /\ payout[o].status # "NONE" => payout'[o].status # "NONE"
         /\ booked'[o] # booked[o] => request[r].op = "complete" /\ request[r].payout = o
<1> USE DEF moneyVars, TypeOK
<1>1. CASE CheckIn(r) \/ CheckOut(r) \/ AddEvidence(r) \/ Submit(r) \/ RequestRevision(r)
  BY <1>1 DEF CheckIn, CheckOut, AddEvidence, Submit, RequestRevision
<1>2. CASE Approve(r)
  BY <1>2 DEF Approve
<1>3. CASE Resolve(r)
  BY <1>3 DEF Resolve
<1>4. CASE Complete(r)
  BY <1>4 DEF Complete, Answer
<1>5. CASE \E d \in Disputes : OpenDispute(r, d)
  BY <1>5 DEF OpenDispute, Hold
<1>6. QED
  BY <1>1, <1>2, <1>3, <1>4, <1>5 DEF BatchStep

\* The invariant holds at the start.
LEMMA InitIInv == Init => IInv
<1> SUFFICES ASSUME Init PROVE IInv
  OBVIOUS
<1>1. \A r \in Requests : request[r].op = "none"
  BY DEF Init, Idle
<1>2. ReadsAreSnapshots /\ SubmitReadsAreComplete
  BY <1>1 DEF ReadsAreSnapshots, SubmitReadsAreComplete, WorkOps
<1>3. CompletesAreOfRows /\ BusinessPaysNothing
  BY <1>1 DEF Init, CompletesAreOfRows, BusinessPaysNothing
<1>4. QED
  BY <1>2, <1>3, InitTypeOK
     DEF Init, IInv, PayoutHasPayable, SubmittedIsComplete, PaidIsBooked, Origins

\* Every step keeps the invariant.
LEMMA NextIInv == IInv /\ [Next]_vars => IInv'
<1> SUFFICES ASSUME IInv, [Next]_vars PROVE IInv'
  OBVIOUS
<1>0. TypeOK' /\ TypeOK
  BY NextTypeOK DEF IInv
<1>1. ASSUME NEW r \in Requests, ReadStep(r) PROVE IInv'
  <2>1. UNCHANGED rows
    BY <1>0, <1>1, ReadEffect
  <2> /\ ReadsAreSnapshots /\ SubmitReadsAreComplete
      /\ CompletesAreOfRows /\ BusinessPaysNothing
    BY DEF IInv
  <2>2. ReadsAreSnapshots'
    <3>1. version \in Nat
      BY <1>0 DEF TypeOK
    <3>2. QED
      BY <1>0, <1>1, <2>1, <3>1, ReadEffect DEF ReadsAreSnapshots, rows, workVars
  <2>3. SubmitReadsAreComplete'
    BY <1>0, <1>1, <2>1, ReadEffect DEF SubmitReadsAreComplete, rows, workVars
  <2>4. CompletesAreOfRows' /\ BusinessPaysNothing'
    <3>1. \A s \in Requests \ {r} : request'[s] = request[s]
      BY <1>0, <1>1, ReadEffect
    <3>2. UNCHANGED <<payout, booked>>
      BY <2>1 DEF rows, moneyVars
    <3>3. CompletesAreOfRows'
      <4>1. request'[r].op = "complete" => payout[request'[r].payout].status = "PROCESSING"
        BY <1>0, <1>1, ReadMoney
      <4>2. \A s \in Requests : request'[s].op = "complete" =>
              payout[request'[s].payout].status # "NONE"
        BY <3>1, <4>1 DEF CompletesAreOfRows
      <4>3. QED
        BY <3>2, <4>2 DEF CompletesAreOfRows
    <3>4. BusinessPaysNothing'
      BY <1>0, <1>1, <3>1, ReadMoney DEF BusinessPaysNothing
    <3>5. QED
      BY <3>3, <3>4
  <2>5. QED
    BY <1>0, <2>1, <2>2, <2>3, <2>4
       DEF IInv, PayoutHasPayable, SubmittedIsComplete, PaidIsBooked, rows, workVars, moneyVars
<1>2. ASSUME NEW r \in Requests, BatchStep(r) PROVE IInv'
  <2>1. \A s \in Requests : request'[s] = request[s] \/ request'[s] = Idle
    BY <1>0, <1>2, BatchEffect DEF TypeOK
  <2>2. Idle.op \notin WorkOps \cup {"dispute", "submit"}
    BY DEF Idle, WorkOps
  <2>3. ReadsAreSnapshots'
    <3>1. \A s \in Requests : request[s].op \in WorkOps \cup {"dispute"} =>
                              request[s].version \in Nat
      BY <1>0, RequestFields DEF TypeOK
    <3>2. SUFFICES ASSUME NEW s \in Requests, request'[s].op \in WorkOps \cup {"dispute"}
                   PROVE  /\ request'[s].version <= version'
                          /\ request'[s].op \in WorkOps /\ request'[s].version = version' =>
                               request'[s].seen = submissions'
      BY DEF ReadsAreSnapshots
    <3>3. request'[s] = request[s]
      BY <2>1, <2>2, <3>2
    <3>4. /\ request[s].version \in Nat /\ request[s].version <= version
          /\ request[s].op \in WorkOps /\ request[s].version = version =>
               request[s].seen = submissions
      BY <3>1, <3>2, <3>3 DEF IInv, ReadsAreSnapshots
    <3>5. /\ version \in Nat /\ version' \in Nat /\ version' >= version
          /\ submissions' # submissions => version' > version
      BY <1>0, <1>2, BatchEffect DEF TypeOK
    <3>6. QED
      BY <3>3, <3>4, <3>5
  <2>4. SubmitReadsAreComplete'
    BY <1>0, <1>2, <2>1, <2>2, BatchEffect DEF IInv, SubmitReadsAreComplete
  <2>5. SubmittedIsComplete'
    BY <1>0, <1>2, BatchEffect DEF IInv, SubmittedIsComplete, SubmitReadsAreComplete
  <2>6. PaidIsBooked' /\ PayoutHasPayable'
    BY <1>0, <1>2, BatchBooks DEF IInv, PaidIsBooked, Origins
  <2>7. CompletesAreOfRows'
    <3>1. \A s \in Requests : request[s].op = "complete" => request[s].payout \in Origins
      BY <1>0, RequestFields DEF TypeOK
    <3>2. \A s \in Requests : request'[s].op = "complete" =>
            /\ request[s].op = "complete"
            /\ request'[s].payout = request[s].payout
      BY <2>1 DEF Idle
    <3>3. QED
      BY <1>0, <1>2, <3>1, <3>2, BatchKeepsRows DEF IInv, CompletesAreOfRows
  <2>8. BusinessPaysNothing'
    BY <2>1 DEF IInv, BusinessPaysNothing, Idle
  <2>9. QED
    BY <1>0, <2>3, <2>4, <2>5, <2>6, <2>7, <2>8 DEF IInv
<1>3. ASSUME NEW o \in Origins, Process(o) PROVE IInv'
  <2>1. PaidIsBooked' /\ PayoutHasPayable'
    BY <1>0, <1>3 DEF IInv, PaidIsBooked, PayoutHasPayable, TypeOK, Process, Origins
  <2>2. ReadsAreSnapshots' /\ SubmitReadsAreComplete' /\ SubmittedIsComplete'
    BY <1>3 DEF IInv, ReadsAreSnapshots, SubmitReadsAreComplete, SubmittedIsComplete,
                Process, workVars
  <2>3. CompletesAreOfRows' /\ BusinessPaysNothing'
    BY <1>0, <1>3 DEF IInv, CompletesAreOfRows, BusinessPaysNothing, TypeOK, Process
  <2>4. QED
    BY <1>0, <2>1, <2>2, <2>3 DEF IInv
<1>4. CASE UNCHANGED vars
  BY <1>0, <1>4 DEF IInv, PayoutHasPayable, ReadsAreSnapshots, SubmitReadsAreComplete,
                    CompletesAreOfRows, BusinessPaysNothing, SubmittedIsComplete,
                    PaidIsBooked, vars, rows, workVars, moneyVars
<1>5. QED
  BY <1>1, <1>2, <1>3, <1>4 DEF Next

\* The inductive invariant: requests hold snapshots of rows that only move
\* forward, and what a submission was let through for stands.
THEOREM SettlementInvariant == Spec => []IInv
BY InitIInv, NextIInv, PTL DEF Spec

-----------------------------------------------------------------------------
(***************************************************************************)
(* Properties.                                                              *)
(***************************************************************************)

\* A payout marked PAID is in the ledger, whatever decisions and stale
\* completions ran before (mock-complete, resolve).
THEOREM PaidBooked == Spec => []PaidIsBooked
<1>1. IInv => PaidIsBooked
  BY DEF IInv
<1>2. QED
  BY <1>1, SettlementInvariant, PTL

\* Work waiting for approval is checked out and has evidence (submit).
THEOREM SubmittedComplete == Spec => []SubmittedIsComplete
<1>1. IInv => SubmittedIsComplete
  BY DEF IInv
<1>2. QED
  BY <1>1, SettlementInvariant, PTL

\* No payout becomes PAID when it is already booked (mock-complete's unique
\* references), however often decisions reschedule it.
THEOREM PaidOnlyOnce == Spec => PaidOnce
<1>1. IInv /\ [Next]_vars =>
        [\A o \in Origins :
           payout[o].status # "PAID" /\ payout'[o].status = "PAID" => booked[o] = Unbooked]_vars
  <2> SUFFICES ASSUME IInv, Next, NEW o \in Origins,
                      payout[o].status # "PAID", payout'[o].status = "PAID"
               PROVE  booked[o] = Unbooked
    OBVIOUS
  <2>1. ASSUME NEW r \in Requests, ReadStep(r) PROVE FALSE
    BY <2>1, ReadEffect DEF IInv, rows, moneyVars
  <2>2. ASSUME NEW r \in Requests, BatchStep(r) PROVE booked[o] = Unbooked
    BY <2>2, BatchBooks DEF IInv
  <2>3. ASSUME NEW p \in Origins, Process(p) PROVE FALSE
    BY <2>3 DEF IInv, TypeOK, Process
  <2>4. QED
    BY <2>1, <2>2, <2>3 DEF Next
<1>2. QED
  BY <1>1, SettlementInvariant, PTL DEF Spec, PaidOnce

\* A payout on hold stays there until a decision of a dispute releases it
\* (disputes, resolve, mock-process, mock-complete).
THEOREM HoldsUntilDecision == Spec => HeldUntilDecided
<1>1. IInv /\ [Next]_vars =>
        [\A o \in Origins :
           payout[o].status = "ON_HOLD" /\ payout'[o].status # "ON_HOLD" =>
             \E r \in Requests : /\ request[r].op = "resolve"
                                 /\ request'[r] = Idle
                                 /\ payout'[o].amount = request[r].amount]_vars
  <2> SUFFICES ASSUME IInv, Next, NEW o \in Origins,
                      payout[o].status = "ON_HOLD", payout'[o].status # "ON_HOLD"
               PROVE  \E r \in Requests : /\ request[r].op = "resolve"
                                          /\ request'[r] = Idle
                                          /\ payout'[o].amount = request[r].amount
    OBVIOUS
  <2>1. ASSUME NEW r \in Requests, ReadStep(r) PROVE FALSE
    BY <2>1, ReadEffect DEF IInv, rows, moneyVars
  <2>2. ASSUME NEW r \in Requests, BatchStep(r)
        PROVE  /\ request[r].op = "resolve"
               /\ request'[r] = Idle
               /\ payout'[o].amount = request[r].amount
    BY <2>2, BatchBooks, BatchEffect DEF IInv, TypeOK
  <2>3. ASSUME NEW p \in Origins, Process(p) PROVE FALSE
    BY <2>3 DEF IInv, TypeOK, Process
  <2>4. QED
    BY <2>1, <2>2, <2>3 DEF Next
<1>2. QED
  BY <1>1, SettlementInvariant, PTL DEF Spec, HeldUntilDecided

\* An approval is of the submission it read: with ReadsAreSnapshots, the version
\* in the WHERE of approve says as much.
THEOREM ApprovesSubmissionRead == Spec => ApprovesWhatItRead
<1>1. IInv /\ [Next]_vars =>
        [status = "SUBMITTED" /\ status' = "APPROVED" =>
           \E r \in Requests : /\ request[r].op = "approve"
                               /\ request'[r] = Idle
                               /\ request[r].seen = submissions]_vars
  <2> SUFFICES ASSUME IInv, Next, status = "SUBMITTED", status' = "APPROVED"
               PROVE  \E r \in Requests : /\ request[r].op = "approve"
                                          /\ request'[r] = Idle
                                          /\ request[r].seen = submissions
    OBVIOUS
  <2>1. ASSUME NEW r \in Requests, ReadStep(r) PROVE FALSE
    BY <2>1, ReadEffect DEF IInv, rows, workVars
  <2>2. ASSUME NEW r \in Requests, BatchStep(r)
        PROVE  /\ request[r].op = "approve"
               /\ request'[r] = Idle
               /\ request[r].seen = submissions
    <3>1. Approve(r)
      BY <2>2 DEF BatchStep, CheckIn, CheckOut, AddEvidence, Submit, RequestRevision,
                  Resolve, Complete, OpenDispute, Move, workVars
    <3>2. request[r].op = "approve" /\ request[r].version = version
      BY <3>1 DEF Approve, Answer, Move, Matches
    <3>3. request'[r] = Idle
      BY <2>2, BatchEffect DEF IInv, TypeOK
    <3>4. QED
      BY <3>2, <3>3 DEF IInv, ReadsAreSnapshots, WorkOps
  <2>3. ASSUME NEW o \in Origins, Process(o) PROVE FALSE
    BY <2>3 DEF Process, workVars
  <2>4. QED
    BY <2>1, <2>2, <2>3 DEF Next
<1>2. QED
  BY <1>1, SettlementInvariant, PTL DEF Spec, ApprovesWhatItRead

-----------------------------------------------------------------------------
(***************************************************************************)
(* Requests that do not overlap.                                            *)
(***************************************************************************)

\* What a query for an approval, a dispute or a decision keeps is so.
LEMMA ReadStands ==
  ASSUME OneAtATime, TypeOK, NEW r \in Requests, ReadStep(r)
  PROVE  UNCHANGED rows /\ ReadsStand'
<1> USE DEF TypeOK
<1>1. UNCHANGED rows
  BY ReadEffect
<1>2. ASSUME NEW op, ReadWork(r, op), op = "approve" => status = "SUBMITTED",
             op \notin {"dispute", "resolve"}
      PROVE  /\ request'[r].op = "approve" => /\ status = "SUBMITTED"
                                              /\ request'[r].version = version
             /\ request'[r].op \notin {"dispute", "resolve"}
  BY <1>2 DEF ReadWork, Read
<1>0. request'[r].op = "complete" =>
        /\ payout[request'[r].payout].status = "PROCESSING"
        /\ payout[request'[r].payout].amount = request'[r].amount
  BY ReadMoney
<1>3. CASE ReadApprove(r)
  BY <1>0, <1>1, <1>2, <1>3
  DEF ReadApprove, OneAtATime, ReadsStand, rows, workVars, moneyVars
<1>4. CASE ReadCheckIn(r) \/ ReadCheckOut(r) \/ ReadEvidence(r) \/ ReadSubmit(r) \/ ReadRevise(r)
  BY <1>0, <1>1, <1>2, <1>4
  DEF ReadCheckIn, ReadCheckOut, ReadEvidence, ReadSubmit, ReadRevise, OneAtATime,
      ReadsStand, rows, workVars, moneyVars
<1>5. CASE ReadDispute(r)
  BY <1>0, <1>1, <1>5
  DEF ReadDispute, Read, OneAtATime, ReadsStand, rows, workVars, moneyVars
<1>6. CASE \E d \in Disputes : ReadResolve(r, d)
  BY <1>0, <1>1, <1>6 DEF ReadResolve, Read, OneAtATime, ReadsStand, rows, moneyVars
<1>7. CASE \E o \in Origins : ReadComplete(r, o)
  BY <1>0, <1>1, <1>7 DEF ReadComplete, Read, OneAtATime, ReadsStand, rows, moneyVars
<1>8. QED
  BY <1>1, <1>3, <1>4, <1>5, <1>6, <1>7 DEF ReadStep

\* A batch leaves no request with anything read.
LEMMA BatchStands ==
  ASSUME OneAtATime, TypeOK, NEW r \in Requests, BatchStep(r)
  PROVE  ReadsStand'
<1>1. \A q \in Requests : request'[q].op = "none"
  BY BatchEffect DEF TypeOK, OneAtATime, Idle
<1>2. QED
  BY <1>1 DEF ReadsStand

\* What a batch completes is what its request read, so that is what is booked.
LEMMA BatchBooksAlone ==
  ASSUME AloneInv, NEW r \in Requests, BatchStep(r)
  PROVE  PaidAsBooked'
<1> USE DEF moneyVars
<1>0. TypeOK /\ PaidAsBooked /\ ReadsStand
  BY DEF AloneInv
<1> SUFFICES ASSUME NEW o \in Origins, payout'[o].status = "PAID"
             PROVE  booked'[o] = payout'[o].amount
  BY DEF PaidAsBooked
<1>1. CASE CheckIn(r) \/ CheckOut(r) \/ AddEvidence(r) \/ Submit(r) \/ RequestRevision(r)
  BY <1>0, <1>1
  DEF CheckIn, CheckOut, AddEvidence, Submit, RequestRevision, PaidAsBooked
<1>2. CASE Approve(r)
  BY <1>0, <1>2 DEF Approve, PaidAsBooked, TypeOK
<1>3. CASE Resolve(r)
  BY <1>0, <1>3 DEF Resolve, PaidAsBooked
<1>4. CASE Complete(r)
  <2>1. payout[request[r].payout].amount = request[r].amount
    BY <1>0, <1>4 DEF Complete, Answer, ReadsStand
  <2>2. CASE o = request[r].payout
    <3>1. payout'[o].amount = payout[o].amount
      BY <1>0, <1>4 DEF Complete, TypeOK
    <3>2. CASE booked[o] # Unbooked
      BY <1>0, <1>4, <2>2, <3>2 DEF Complete, PaidAsBooked
    <3>3. CASE booked[o] = Unbooked
      BY <1>0, <1>4, <2>1, <2>2, <3>1, <3>3 DEF Complete, TypeOK
    <3>4. QED
      BY <3>2, <3>3
  <2>3. CASE o # request[r].payout
    BY <1>0, <1>4, <2>3 DEF Complete, PaidAsBooked, TypeOK
  <2>4. QED
    BY <2>2, <2>3
<1>5. CASE \E d \in Disputes : OpenDispute(r, d)
  BY <1>0, <1>5 DEF OpenDispute, Hold, PaidAsBooked, TypeOK
<1>6. QED
  BY <1>1, <1>2, <1>3, <1>4, <1>5 DEF BatchStep

\* Batches keep disputes, decisions and payouts in step.
LEMMA BatchAlone ==
  ASSUME OneAtATime, AloneInv, NEW r \in Requests, BatchStep(r)
  PROVE  OpenDisputeStopsWork' /\ DecisionPaysAlone' /\ ReversalEnds'
<1> USE DEF workVars, moneyVars
<1>0. TypeOK /\ "approval" \in Origins /\ "decision" \in Origins
  BY DEF AloneInv, Origins
<1> DEFINE Goal == OpenDisputeStopsWork' /\ DecisionPaysAlone' /\ ReversalEnds'
<1>1. CASE CheckIn(r) \/ Submit(r) \/ RequestRevision(r) \/ CheckOut(r) \/ AddEvidence(r)
  <2>1. /\ UNCHANGED <<dispute, payout>>
        /\ status' = status \/ status \in {"CONFIRMED", "IN_PROGRESS", "SUBMITTED"}
    BY <1>1 DEF CheckIn, Submit, RequestRevision, CheckOut, AddEvidence, Move, Matches
  <2>2. QED
    BY <2>1 DEF AloneInv, OpenDisputeStopsWork, DecisionPaysAlone, ReversalEnds
<1>2. CASE Approve(r)
  <2>1. status = "SUBMITTED" /\ UNCHANGED dispute
    BY <1>2 DEF Approve, Answer, AloneInv, ReadsStand
  <2>2. /\ payout["decision"].status = "NONE"
        /\ \A d \in Disputes : dispute[d] # "OPEN"
        /\ OneDispute => \A d \in Disputes : dispute[d] # "RESOLVED_BUSINESS"
    BY <2>1 DEF AloneInv, OpenDisputeStopsWork, DecisionPaysAlone, ReversalEnds
  <2>3. payout'["decision"] = payout["decision"]
    BY <1>0, <1>2 DEF Approve, TypeOK
  <2>4. QED
    BY <2>1, <2>2, <2>3 DEF OpenDisputeStopsWork, DecisionPaysAlone, ReversalEnds
<1>3. CASE Complete(r)
  <2>1. UNCHANGED <<status, dispute>>
    BY <1>3 DEF Complete
  <2>2. \A o \in Origins : payout'[o].status = payout[o].status
                             \/ (payout[o].status = "PROCESSING" /\ payout'[o].status = "PAID")
    BY <1>3 DEF Complete, TypeOK, AloneInv
  <2>3. QED
    BY <1>0, <2>1, <2>2 DEF AloneInv, OpenDisputeStopsWork, DecisionPaysAlone, ReversalEnds
<1>4. ASSUME NEW d \in Disputes, OpenDispute(r, d) PROVE Goal
  <2>1. CASE \E other \in Disputes : dispute[other] = "OPEN"
    BY <1>4, <2>1 DEF OpenDispute, AloneInv, OpenDisputeStopsWork, DecisionPaysAlone,
                      ReversalEnds
  <2>2. CASE ~ \E other \in Disputes : dispute[other] = "OPEN"
    <3>1. /\ dispute[d] = "NONE"
          /\ dispute' = [dispute EXCEPT ![d] = "OPEN"]
          /\ payout' = [o \in Origins |-> Hold(payout[o])]
      BY <1>4, <2>2 DEF OpenDispute
    <3>2. /\ request[r].op = "dispute" /\ Move(r, request[r].from, "DISPUTED")
          /\ status = request[r].from /\ version = request[r].version
      BY <1>4, <2>2 DEF OpenDispute, Answer, AloneInv, ReadsStand
    <3>3. status' = "DISPUTED"
      BY <3>2 DEF Move, Matches
    <3>4. \A o \in Origins : payout'[o].status = "NONE" <=> payout[o].status = "NONE"
      BY <1>0, <3>1 DEF Hold, Holdable, TypeOK
    <3>5. OpenDisputeStopsWork'
      BY <2>2, <3>1, <3>3 DEF OpenDisputeStopsWork, TypeOK, AloneInv
    <3>6. DecisionPaysAlone'
      BY <1>0, <3>3, <3>4 DEF DecisionPaysAlone, AloneInv
    <3>7. ReversalEnds'
      BY <1>0, <3>1 DEF ReversalEnds, OneDispute, TypeOK
    <3>8. QED
      BY <3>5, <3>6, <3>7
  <2>3. QED
    BY <2>1, <2>2
<1>5. CASE Resolve(r)
  <2> DEFINE d == request[r].dispute
             decision == request[r].decision
             amount == request[r].amount
             next == IF decision = "BUSINESS" THEN "REVERSED" ELSE "SCHEDULED"
             absent == \A o \in Origins : payout[o].status = "NONE"
             Inserted(o) == payout[o].status # "NONE" \/ (absent /\ amount > 0 /\ o = "decision")
  <2>1. d \in Disputes /\ decision \in Decisions /\ dispute[d] = "OPEN"
    BY <1>0, <1>5, RequestFields DEF Resolve, Answer, TypeOK, AloneInv, ReadsStand
  <2>2. status = "DISPUTED" /\ \A e \in Disputes : dispute[e] = "OPEN" => e = d
    BY <2>1 DEF AloneInv, OpenDisputeStopsWork
  <2>3. CASE UNCHANGED <<status, dispute, payout>>
    BY <2>3 DEF AloneInv, OpenDisputeStopsWork, DecisionPaysAlone, ReversalEnds
  <2>4. CASE ~ UNCHANGED <<status, dispute, payout>>
    <3>1. /\ dispute' = [dispute EXCEPT ![d] = Resolved[decision]]
          /\ status' = IF decision = "BUSINESS" THEN "CANCELLED" ELSE "APPROVED"
          /\ payout' = [o \in Origins |-> IF Inserted(o)
                                          THEN [status |-> next, amount |-> amount]
                                          ELSE payout[o]]
      BY <1>5, <2>1, <2>2, <2>4 DEF Resolve, TypeOK
    <3>2. Resolved[decision] # "OPEN" /\ (Resolved[decision] = "RESOLVED_BUSINESS" <=>
                                            decision = "BUSINESS")
      BY <2>1 DEF Resolved, Decisions
    <3>3. /\ \A e \in Disputes : dispute'[e] = IF e = d THEN Resolved[decision] ELSE dispute[e]
      BY <1>0, <3>1 DEF TypeOK
    <3>4. \A e \in Disputes : dispute'[e] # "OPEN"
      BY <2>2, <3>2, <3>3
    <3>5. OpenDisputeStopsWork'
      BY <3>4 DEF OpenDisputeStopsWork
    <3>6. DecisionPaysAlone'
      BY <1>0, <3>1 DEF DecisionPaysAlone, AloneInv
    <3>7. ReversalEnds'
      BY <1>0, <2>1, <3>1, <3>2, <3>3 DEF ReversalEnds, OneDispute
    <3>8. QED
      BY <3>5, <3>6, <3>7
  <2>5. QED
    BY <2>3, <2>4
<1>6. QED
  BY <1>1, <1>2, <1>3, <1>4, <1>5 DEF BatchStep

\* Every step of requests that do not overlap keeps the strengthening.
LEMMA NextAlone == OneAtATime /\ AloneInv /\ [Next]_vars => AloneInv'
<1> SUFFICES ASSUME OneAtATime, AloneInv, [Next]_vars PROVE AloneInv'
  OBVIOUS
<1>0. TypeOK /\ TypeOK'
  BY NextTypeOK DEF AloneInv
<1>1. ASSUME NEW r \in Requests, ReadStep(r) PROVE AloneInv'
  <2>1. UNCHANGED rows /\ ReadsStand'
    BY <1>0, <1>1, ReadStands
  <2>2. QED
    BY <1>0, <2>1 DEF AloneInv, OpenDisputeStopsWork, DecisionPaysAlone, ReversalEnds,
                      PaidAsBooked, rows, workVars, moneyVars
<1>2. ASSUME NEW r \in Requests, BatchStep(r) PROVE AloneInv'
  BY <1>0, <1>2, BatchStands, BatchAlone, BatchBooksAlone DEF AloneInv
<1>3. ASSUME NEW o \in Origins, Process(o) PROVE AloneInv'
  <2>1. /\ UNCHANGED <<status, version, dispute, request>>
        /\ \A p \in Origins : payout'[p].status = payout[p].status
             \/ (payout[p].status = "SCHEDULED" /\ payout'[p].status = "PROCESSING")
    BY <1>0, <1>3 DEF Process, workVars, TypeOK
  <2>2. ReadsStand' /\ OpenDisputeStopsWork'
    <3>1. \A r \in Requests :
            request[r].op = "complete" => payout'[request[r].payout] = payout[request[r].payout]
      BY <1>0, <1>3 DEF AloneInv, ReadsStand, Process, TypeOK
    <3>2. ReadsStand /\ UNCHANGED <<status, version, dispute, request>>
      BY <2>1 DEF AloneInv
    <3>3. ASSUME NEW r \in Requests, request[r].op = "complete"
          PROVE  /\ payout'[request[r].payout].status = "PROCESSING"
                 /\ payout'[request[r].payout].amount = request[r].amount
      BY <3>1, <3>2, <3>3 DEF ReadsStand
    <3>4. ReadsStand'
      BY <3>2, <3>3 DEF ReadsStand
    <3>5. QED
      BY <2>1, <3>4 DEF AloneInv, OpenDisputeStopsWork
  <2>3. DecisionPaysAlone' /\ ReversalEnds'
    BY <2>1 DEF AloneInv, DecisionPaysAlone, ReversalEnds, Origins
  <2>4. PaidAsBooked'
    BY <1>0, <1>3 DEF AloneInv, PaidAsBooked, Process, TypeOK
  <2>5. QED
    BY <1>0, <2>2, <2>3, <2>4 DEF AloneInv
<1>4. CASE UNCHANGED vars
  BY <1>0, <1>4 DEF AloneInv, ReadsStand, OpenDisputeStopsWork, DecisionPaysAlone,
                    ReversalEnds, PaidAsBooked, vars, rows, workVars, moneyVars
<1>5. QED
  BY <1>1, <1>2, <1>3, <1>4 DEF Next

LEMMA InitAlone == Init => AloneInv
<1> SUFFICES ASSUME Init PROVE AloneInv
  OBVIOUS
<1>1. TypeOK /\ \A r \in Requests : request[r].op = "none"
  BY InitTypeOK DEF Init, Idle
<1>2. QED
  BY <1>1 DEF Init, AloneInv, ReadsStand, OpenDisputeStopsWork, DecisionPaysAlone,
              ReversalEnds, PaidAsBooked, Origins

\* The second payout of an assignment is a race: where requests do not overlap, an
\* approval and a decision never both insert one (approve, resolve).
THEOREM OnePayoutAlone == ASSUME OneAtATime PROVE Spec => []OnePayoutPerAssignment
<1>1. AloneInv /\ [Next]_vars => AloneInv'
  BY NextAlone
<1>2. AloneInv => OnePayoutPerAssignment
  BY DEF AloneInv, DecisionPaysAlone, OnePayoutPerAssignment, Origins
<1>3. QED
  BY <1>1, <1>2, InitAlone, PTL DEF Spec

\* So is the loss of a decision for the business, as long as the assignment is
\* disputed once: its payouts stay reversed (resolve).
THEOREM DecisionStandsAlone ==
  ASSUME OneAtATime, OneDispute PROVE Spec => []DecisionStands
<1>1. AloneInv /\ [Next]_vars => AloneInv'
  BY NextAlone
<1>2. AloneInv => DecisionStands
  BY DEF AloneInv, ReversalEnds, DecisionStands
<1>3. QED
  BY <1>1, <1>2, InitAlone, PTL DEF Spec

\* What the ledger has for a PAID payout is what the payout says: only a completion
\* on a stale read books the amount from before a decision (mock-complete, resolve).
THEOREM BookedAsPaidAlone == ASSUME OneAtATime PROVE Spec => []PaidAsBooked
<1>1. AloneInv /\ [Next]_vars => AloneInv'
  BY NextAlone
<1>2. AloneInv => PaidAsBooked
  BY DEF AloneInv
<1>3. QED
  BY <1>1, <1>2, InitAlone, PTL DEF Spec

\* The ledger has no more for a worker than the job pays, through any number of
\* disputes, decisions and completions one after the other.
THEOREM NotOverpaidAlone == ASSUME OneAtATime PROVE Spec => []NotOverpaid
<1>1. AloneInv /\ [Next]_vars => AloneInv'
  BY NextAlone
<1>2. AloneInv /\ IInv => NotOverpaid
  <2> SUFFICES ASSUME AloneInv, IInv PROVE NotOverpaid
    OBVIOUS
  <2>1. "approval" \in Origins /\ "decision" \in Origins
    BY DEF Origins
  <2>2. booked["approval"] = Unbooked \/ booked["decision"] = Unbooked
    BY <2>1 DEF IInv, CompletesAreOfRows, AloneInv, DecisionPaysAlone
  <2>3. \A o \in Origins : InLedgerFor(o) \in 0..Pay
    BY SettlementAssumption DEF IInv, TypeOK, InLedgerFor, Unbooked
  <2>4. InLedgerFor("approval") = 0 \/ InLedgerFor("decision") = 0
    BY <2>2 DEF InLedgerFor
  <2>5. QED
    BY <2>1, <2>3, <2>4, SettlementAssumption DEF NotOverpaid
<1>3. QED
  BY <1>1, <1>2, InitAlone, SettlementInvariant, PTL DEF Spec

-----------------------------------------------------------------------------
(***************************************************************************)
(* Settlement implements SettleOnce.                                        *)
(***************************************************************************)

\* A step that moves no payout's state and books nothing is invisible.
LEMMA SameSettled ==
  ASSUME \A o \in Origins : Settled(payout'[o]) = Settled(payout[o])
  PROVE  SettledPayouts' = SettledPayouts
BY DEF SettledPayouts

\* How one payout changes and no other.
LEMMA OneSettled ==
  ASSUME NEW p \in Origins, NEW to, Settled(payout'[p]) = to,
         \A o \in Origins : o # p => Settled(payout'[o]) = Settled(payout[o])
  PROVE  SettledPayouts' = [SettledPayouts EXCEPT ![p] = to]
BY DEF SettledPayouts

\* An approval inserts its payout over none.
LEMMA ApproveSettles ==
  ASSUME IInv, NEW r \in Requests, Approve(r)
  PROVE  Abstract!Next \/ UNCHANGED <<SettledPayouts, InLedger>>
<1>1. UNCHANGED InLedger /\ "approval" \in Origins
  BY DEF Approve, InLedger, Origins
<1>2. CASE UNCHANGED payout
  BY <1>1, <1>2 DEF SettledPayouts
<1>3. CASE ~ UNCHANGED payout
  <2>1. /\ ~payable
        /\ payout' = [payout EXCEPT !["approval"] = [status |-> "SCHEDULED", amount |-> Pay]]
    BY <1>3 DEF Approve
  <2>2. Settled(payout["approval"]) = "none"
    BY <2>1 DEF IInv, PayoutHasPayable, Settled
  <2>3. Settled(payout'["approval"]) = "due"
    BY <1>1, <2>1 DEF IInv, TypeOK, Settled
  <2>4. \A o \in Origins : o # "approval" => payout'[o] = payout[o]
    BY <2>1 DEF IInv, TypeOK
  <2>5. SettledPayouts' = [SettledPayouts EXCEPT !["approval"] = "due"]
    BY <1>1, <2>3, <2>4, OneSettled
  <2>6. Abstract!Insert("approval")
    BY <1>1, <2>2, <2>5 DEF Abstract!Insert, SettledPayouts
  <2>7. QED
    BY <1>1, <2>6 DEF Abstract!Next
<1>4. QED
  BY <1>2, <1>3

\* A dispute holds what is due.
LEMMA DisputeSettles ==
  ASSUME IInv, NEW r \in Requests, NEW d \in Disputes, OpenDispute(r, d)
  PROVE  Abstract!Next \/ UNCHANGED <<SettledPayouts, InLedger>>
<1>1. UNCHANGED InLedger
  BY DEF OpenDispute, InLedger
<1>2. CASE UNCHANGED payout
  BY <1>1, <1>2 DEF SettledPayouts
<1>3. CASE payout' = [o \in Origins |-> Hold(payout[o])]
  <2>1. \A o \in Origins :
          Settled(payout'[o]) = IF Settled(payout[o]) = "due" THEN "held" ELSE Settled(payout[o])
    BY <1>3 DEF Hold, Holdable, Settled, IInv, TypeOK, PayoutStatus
  <2>2. Abstract!Hold
    BY <1>1, <2>1 DEF Abstract!Hold, SettledPayouts
  <2>3. QED
    BY <2>2 DEF Abstract!Next
<1>4. QED
  BY <1>2, <1>3 DEF OpenDispute

\* A decision moves what is there, or inserts a payout where there is none.
LEMMA DecisionSettles ==
  ASSUME IInv, NEW r \in Requests, Resolve(r)
  PROVE  Abstract!Next \/ UNCHANGED <<SettledPayouts, InLedger>>
<1> DEFINE decision == request[r].decision
           amount == request[r].amount
           next == IF decision = "BUSINESS" THEN "REVERSED" ELSE "SCHEDULED"
           absent == \A o \in Origins : payout[o].status = "NONE"
           Inserted(o) == payout[o].status # "NONE" \/ (absent /\ amount > 0 /\ o = "decision")
           outcome == IF decision = "BUSINESS" THEN "void" ELSE "due"
<1>1. UNCHANGED InLedger /\ "decision" \in Origins
  BY DEF Resolve, InLedger, Origins
<1>2. CASE UNCHANGED payout
  BY <1>1, <1>2 DEF SettledPayouts
<1>3. CASE ~ UNCHANGED payout
  <2>1. payout' = [o \in Origins |-> IF Inserted(o) THEN [status |-> next, amount |-> amount]
                                     ELSE payout[o]]
    BY <1>3 DEF Resolve
  <2>2. \A o \in Origins :
          Settled(payout'[o]) = IF Inserted(o) THEN outcome ELSE Settled(payout[o])
    BY <2>1 DEF Settled
  <2>3. \A o \in Origins : payout[o].status # "NONE" <=> Settled(payout[o]) # "none"
    BY DEF Settled, IInv, TypeOK, PayoutStatus
  <2>4. CASE absent
    <3>1. amount > 0
      BY <1>3, <2>1, <2>4 DEF IInv, TypeOK
    <3>2. decision # "BUSINESS"
      BY <3>1 DEF IInv, BusinessPaysNothing, Resolve, Answer
    <3>3. Settled(payout'["decision"]) = "due"
      BY <1>1, <2>2, <2>4, <3>1, <3>2
    <3>4. \A o \in Origins : o # "decision" => Settled(payout'[o]) = Settled(payout[o])
      BY <2>2, <2>4
    <3>5. SettledPayouts' = [SettledPayouts EXCEPT !["decision"] = "due"]
      BY <1>1, <3>3, <3>4, OneSettled
    <3>6. Abstract!Insert("decision")
      BY <1>1, <2>3, <2>4, <3>5 DEF Abstract!Insert, SettledPayouts
    <3>7. QED
      BY <1>1, <3>6 DEF Abstract!Next
  <2>5. CASE ~ absent
    <3>1. \A o \in Origins : Settled(payout'[o]) =
            IF Settled(payout[o]) = "none" THEN "none" ELSE outcome
      BY <2>2, <2>3, <2>5
    <3>2. Abstract!Decide(outcome)
      BY <1>1, <3>1 DEF Abstract!Decide, SettledPayouts
    <3>3. QED
      BY <3>2 DEF Abstract!Next
  <2>6. QED
    BY <2>4, <2>5
<1>4. QED
  BY <1>2, <1>3

\* A completion pays and books, or only books.
LEMMA CompletionSettles ==
  ASSUME IInv, NEW r \in Requests, Complete(r)
  PROVE  Abstract!Next \/ UNCHANGED <<SettledPayouts, InLedger>>
<1> DEFINE p == request[r].payout
<1>1. p \in Origins /\ request[r].amount # Unbooked /\ payout[p].status # "NONE"
  BY RequestFields, SettlementAssumption
  DEF IInv, TypeOK, Complete, Answer, Unbooked, CompletesAreOfRows
<1>2. CASE UNCHANGED <<payout, booked>>
  BY <1>2 DEF SettledPayouts, InLedger
<1>3. CASE booked[p] = Unbooked
  <2>1. /\ payout' = [payout EXCEPT ![p].status = IF @ = "PROCESSING" THEN "PAID" ELSE @]
        /\ booked' = [booked EXCEPT ![p] = request[r].amount]
    BY <1>3 DEF Complete
  <2>2. p \notin InLedger /\ InLedger' = InLedger \cup {p}
    BY <1>1, <1>3, <2>1 DEF InLedger, IInv, TypeOK
  <2>3. \A o \in Origins : o # p => payout'[o] = payout[o]
    BY <2>1 DEF IInv, TypeOK
  <2>4. CASE payout[p].status = "PROCESSING"
    <3>1. Settled(payout[p]) = "due" /\ Settled(payout'[p]) = "paid"
      BY <1>1, <2>1, <2>4 DEF Settled, IInv, TypeOK
    <3>2. SettledPayouts' = [SettledPayouts EXCEPT ![p] = "paid"]
      BY <1>1, <2>3, <3>1, OneSettled
    <3>3. Abstract!PayOut(p)
      BY <1>1, <2>2, <3>1, <3>2 DEF Abstract!PayOut, SettledPayouts
    <3>4. QED
      BY <1>1, <3>3 DEF Abstract!Next
  <2>5. CASE payout[p].status # "PROCESSING"
    <3>1. payout'[p].status = payout[p].status
      BY <1>1, <2>1, <2>5 DEF IInv, TypeOK
    <3>2. SettledPayouts' = SettledPayouts
      BY <2>3, <3>1, SameSettled DEF Settled
    <3>3. Settled(payout[p]) # "none"
      BY <1>1 DEF Settled, IInv, TypeOK, PayoutStatus
    <3>4. Abstract!BookLate(p)
      BY <1>1, <2>2, <3>2, <3>3 DEF Abstract!BookLate, SettledPayouts
    <3>5. QED
      BY <1>1, <3>4 DEF Abstract!Next
  <2>6. QED
    BY <2>4, <2>5
<1>4. QED
  BY <1>2, <1>3 DEF Complete

\* Every step of the handlers is a step of SettleOnce or leaves its state alone.
LEMMA StepSettles == IInv /\ [Next]_vars => [Abstract!Next]_<<SettledPayouts, InLedger>>
<1> SUFFICES ASSUME IInv, [Next]_vars
             PROVE  Abstract!Next \/ UNCHANGED <<SettledPayouts, InLedger>>
  OBVIOUS
<1>1. CASE UNCHANGED <<payout, booked>>
  BY <1>1 DEF SettledPayouts, InLedger
<1>2. ASSUME NEW r \in Requests, ReadStep(r) PROVE UNCHANGED <<payout, booked>>
  BY <1>2, ReadEffect DEF IInv, rows, moneyVars
<1>3. ASSUME NEW r \in Requests, BatchStep(r)
      PROVE  Abstract!Next \/ UNCHANGED <<SettledPayouts, InLedger>>
  <2>1. CASE CheckIn(r) \/ CheckOut(r) \/ AddEvidence(r) \/ Submit(r) \/ RequestRevision(r)
    <3>1. UNCHANGED <<payout, booked>>
      BY <2>1 DEF CheckIn, CheckOut, AddEvidence, Submit, RequestRevision, moneyVars
    <3>2. QED
      BY <1>1, <3>1
  <2>2. QED
    BY <1>3, <2>1, ApproveSettles, DisputeSettles, DecisionSettles, CompletionSettles
    DEF BatchStep
<1>4. ASSUME NEW o \in Origins, Process(o) PROVE UNCHANGED <<SettledPayouts, InLedger>>
  <2>1. \A p \in Origins : Settled(payout'[p]) = Settled(payout[p])
    BY <1>4 DEF Process, Settled, IInv, TypeOK
  <2>2. QED
    BY <1>4, <2>1, SameSettled DEF Process, InLedger
<1>5. CASE UNCHANGED vars
  BY <1>1, <1>5 DEF vars, rows, moneyVars
<1>6. QED
  BY <1>1, <1>2, <1>3, <1>4, <1>5 DEF Next

\* Settlement implements SettleOnce: whatever requests overlap on whatever they had
\* read, payouts are held and decided on together, one that is there is never
\* overwritten by an approval, and none is paid once it is in the ledger.
THEOREM SettlementSettlesOnce == Spec => SettlesOnce
<1>1. Init => Abstract!Init
  BY DEF Init, Abstract!Init, SettledPayouts, Settled, InLedger
<1>2. QED
  BY <1>1, StepSettles, SettlementInvariant, PTL DEF Spec, SettlesOnce, Abstract!Spec
=============================================================================
