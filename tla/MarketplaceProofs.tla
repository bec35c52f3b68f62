-------------------------- MODULE MarketplaceProofs --------------------------
(***************************************************************************)
(* Proofs about Marketplace for every number of requests, slots, evidence   *)
(* rows, attempts and versions.                                              *)
(***************************************************************************)
EXTENDS Marketplace, TLAPS

-----------------------------------------------------------------------------
(***************************************************************************)
(* Type correctness.                                                        *)
(***************************************************************************)

\* What a request holds tells from its operation.
LEMMA RequestFields ==
  ASSUME NEW q \in RequestState
  PROVE  /\ q.op = "patch" => q.expected \in Nat /\ q.read \in Nat
         /\ q.op \in {"insert", "add"} => q.id \in Evidence
<1>1. CASE q = Idle
  BY <1>1 DEF Idle
<1>2. CASE q \in [op : {"patch"}, expected : Nat, read : Nat]
  BY <1>2
<1>3. CASE q \in [op : {"insert", "add"}, id : Evidence]
  BY <1>3
<1>4. CASE q \in [op : {"submit"}]
  BY <1>4
<1>5. QED
  BY <1>1, <1>2, <1>3, <1>4 DEF RequestState

\* So does what a slot is doing; a busy slot may turn to another part of the scan.
LEMMA RunFields ==
  ASSUME NEW u \in RunState, u # Idle
  PROVE  /\ u.id \in Evidence
         /\ u.op \in {"scan", "store", "delete", "fail"}
         /\ \A op \in {"scan", "store", "delete", "fail"} :
              /\ [u EXCEPT !.op = op] \in RunState
              /\ [u EXCEPT !.op = op].op = op
              /\ [u EXCEPT !.op = op].id = u.id
<1>1. u \in [op : {"scan", "store", "delete", "fail"}, id : Evidence]
  BY DEF RunState
<1>2. QED
  BY <1>1 DEF RunState

\* A request that goes on to a state of a request is well typed.
LEMMA BecomesType ==
  ASSUME TypeOK, NEW r \in Requests, NEW q \in RequestState, Becomes(r, q)
  PROVE  request' \in [Requests -> RequestState]
BY DEF TypeOK, Becomes

\* A slot that turns to a state of a slot is well typed.
LEMMA TurnsType ==
  ASSUME TypeOK, NEW p \in Slots, NEW u \in RunState, Turns(p, u)
  PROVE  run' \in [Slots -> RunState]
BY DEF TypeOK, Turns

\* Ending a job keeps the queue's types.
LEMMA EndJobType ==
  ASSUME TypeOK, NEW p \in Slots, NEW left, EndJob(p, left)
  PROVE  /\ scanJob' \in [Evidence -> {"none", "waiting", "over"} \cup Slots]
         /\ attempts' = attempts
         /\ run' \in [Slots -> RunState]
<1>1. run' \in [Slots -> RunState]
  BY TurnsType DEF EndJob, RunState
<1>2. QED
  BY <1>1 DEF EndJob, TypeOK

\* The initial state is well typed.
LEMMA InitTypeOK == Init => TypeOK
<1> SUFFICES ASSUME Init PROVE TypeOK
  OBVIOUS
<1>1. job \in JobRow
  BY DEF Init, JobRow
<1>2. attempts \in [Evidence -> 0 .. MaxAttempts]
  BY MarketplaceAssumption DEF Init
<1>3. QED
  BY <1>1, <1>2 DEF Init, TypeOK, RequestState, RunState

\* What the handlers make of a job is a job.
LEMMA JobSteps ==
  ASSUME NEW row \in JobRow
  PROVE  /\ [row EXCEPT !.edits = @ + 1, !.version = @ + 1] \in JobRow
         /\ [row EXCEPT !.status = "DRAFT", !.version = 1] \in JobRow
         /\ [row EXCEPT !.status = "PUBLISHED", !.version = @ + 1] \in JobRow
         /\ [row EXCEPT !.funding = "PENDING", !.version = @ + 1] \in JobRow
<1>1. \A n, m \in Nat : /\ [row EXCEPT !.edits = n, !.version = m] \in JobRow
                       /\ [row EXCEPT !.status = "DRAFT", !.version = m] \in JobRow
                       /\ [row EXCEPT !.status = "PUBLISHED", !.version = m] \in JobRow
                       /\ [row EXCEPT !.funding = "PENDING", !.version = m] \in JobRow
  BY DEF JobRow
<1>2. row.edits + 1 \in Nat /\ row.version + 1 \in Nat /\ 1 \in Nat
  BY DEF JobRow
<1>3. QED
  BY <1>1, <1>2

\* Steps on the job and the work keep the types.
LEMMA WorkTypeOK ==
  ASSUME TypeOK, CreateJob \/ Publish \/ Fund \/ Apply \/ CheckIn \/ CheckOut
                 \/ \E next \in {"ACCEPTED", "REJECTED"} : Decide(next)
  PROVE  TypeOK'
<1>1. CASE CreateJob \/ Publish \/ Fund
  <2>1. job' \in JobRow
    BY <1>1, JobSteps DEF TypeOK, CreateJob, Publish, Fund
  <2>2. QED
    BY <1>1, <2>1 DEF TypeOK, CreateJob, Publish, Fund, scans, queue
<1>2. CASE Apply \/ CheckIn \/ CheckOut
  BY <1>2 DEF TypeOK, Apply, CheckIn, CheckOut, Attend, scans, queue
<1>3. ASSUME NEW next \in {"ACCEPTED", "REJECTED"}, Decide(next) PROVE TypeOK'
  BY <1>3 DEF TypeOK, Decide, scans, queue
<1>4. QED
  BY <1>1, <1>2, <1>3

\* Steps of a request keep the types.
LEMMA RequestTypeOK ==
  ASSUME TypeOK, NEW r \in Requests
  PROVE  /\ PatchJob(r) => TypeOK'
         /\ FindClean(r) \/ Submit(r) \/ Crash(r) => TypeOK'
         /\ InsertEvidence(r) => TypeOK'
         /\ AddScan(r) => TypeOK'
         /\ \A expected \in 1 .. MaxVersion : ReadDraft(r, expected) => TypeOK'
         /\ \A e \in Evidence : VerifyObject(r, e) => TypeOK'
<1> USE DEF work, scans, queue
<1>0. Idle \in RequestState /\ [op |-> "submit"] \in RequestState
  BY DEF RequestState
<1>1. ASSUME PatchJob(r) PROVE TypeOK'
  <2>1. request' \in [Requests -> RequestState]
    BY <1>0, <1>1, BecomesType DEF PatchJob
  <2>2. job' \in JobRow
    BY <1>1, JobSteps DEF TypeOK, PatchJob, Edit
  <2>3. QED
    BY <1>1, <2>1, <2>2 DEF TypeOK, PatchJob
<1>2. ASSUME FindClean(r) \/ Submit(r) \/ Crash(r) PROVE TypeOK'
  <2>1. request' \in [Requests -> RequestState]
    BY <1>0, <1>2, BecomesType DEF FindClean, Submit, Crash
  <2>2. QED
    BY <1>2, <2>1 DEF TypeOK, FindClean, Submit, Crash
<1>3. ASSUME InsertEvidence(r) PROVE TypeOK'
  <2>1. request[r].id \in Evidence
    BY <1>3, RequestFields DEF TypeOK, InsertEvidence
  <2>2. [op |-> "add", id |-> request[r].id] \in RequestState
    BY <2>1 DEF RequestState
  <2>3. request' \in [Requests -> RequestState]
    BY <1>0, <1>3, <2>2, BecomesType DEF InsertEvidence
  <2>4. QED
    BY <1>3, <2>1, <2>3 DEF TypeOK, InsertEvidence
<1>4. ASSUME AddScan(r) PROVE TypeOK'
  <2>1. request' \in [Requests -> RequestState]
    BY <1>0, <1>4, BecomesType DEF AddScan
  <2>2. QED
    BY <1>4, <2>1 DEF TypeOK, AddScan
<1>5. ASSUME NEW expected \in 1 .. MaxVersion, ReadDraft(r, expected) PROVE TypeOK'
  <2>1. [op |-> "patch", expected |-> expected, read |-> job.version] \in RequestState
    BY MarketplaceAssumption DEF RequestState, TypeOK, JobRow
  <2>2. request' \in [Requests -> RequestState]
    BY <1>5, <2>1, BecomesType DEF ReadDraft
  <2>3. QED
    BY <1>5, <2>2 DEF TypeOK, ReadDraft
<1>6. ASSUME NEW e \in Evidence, VerifyObject(r, e) PROVE TypeOK'
  <2>1. [op |-> "insert", id |-> e] \in RequestState
    BY DEF RequestState
  <2>2. request' \in [Requests -> RequestState]
    BY <1>6, <2>1, BecomesType DEF VerifyObject
  <2>3. QED
    BY <1>6, <2>2 DEF TypeOK, VerifyObject
<1>7. QED
  BY <1>1, <1>2, <1>3, <1>4, <1>5, <1>6

\* Steps of a scan keep the types.
LEMMA ScanTypeOK ==
  ASSUME TypeOK, NEW p \in Slots
  PROVE  /\ \A e \in Evidence : StartScan(p, e) => TypeOK'
         /\ ClamScan(p) \/ ScanThrows(p) => TypeOK'
         /\ StoreVerdict(p) => TypeOK'
         /\ DeleteObject(p) \/ StoreError(p) \/ CrashRun(p) => TypeOK'
         /\ Stall(p) => TypeOK'
<1> USE DEF work, scans, queue
<1>0. run[p] \in RunState /\ (run[p].op # "none" => run[p] # Idle)
  BY DEF TypeOK, Idle
<1>1. ASSUME NEW e \in Evidence, StartScan(p, e) PROVE TypeOK'
  <2>1. [op |-> "scan", id |-> e] \in RunState
    BY DEF RunState
  <2>2. run' \in [Slots -> RunState]
    BY <1>1, <2>1, TurnsType DEF StartScan
  <2>3. attempts[e] + 1 \in 0 .. MaxAttempts
    BY <1>1, MarketplaceAssumption DEF TypeOK, StartScan
  <2>4. attempts' \in [Evidence -> 0 .. MaxAttempts]
    BY <1>1, <2>3 DEF TypeOK, StartScan
  <2>5. QED
    BY <1>1, <2>2, <2>4 DEF TypeOK, StartScan
<1>2. ASSUME ClamScan(p) \/ ScanThrows(p) PROVE TypeOK'
  <2>1. [run[p] EXCEPT !.op = "store"] \in RunState /\ [run[p] EXCEPT !.op = "fail"] \in RunState
    BY <1>0, <1>2, RunFields DEF ClamScan, ScanThrows
  <2>2. run' \in [Slots -> RunState]
    BY <1>2, <2>1, TurnsType DEF ClamScan, ScanThrows
  <2>3. QED
    BY <1>2, <2>2 DEF TypeOK, ClamScan, ScanThrows
<1>3. ASSUME StoreVerdict(p) PROVE TypeOK'
  <2>1. [run[p] EXCEPT !.op = "delete"] \in RunState
    BY <1>0, <1>3, RunFields DEF StoreVerdict
  <2>2. CASE run[p].id \in infected
    <3>1. run' \in [Slots -> RunState]
      BY <1>3, <2>1, <2>2, TurnsType DEF StoreVerdict
    <3>2. QED
      BY <1>3, <2>2, <3>1 DEF TypeOK, StoreVerdict
  <2>3. CASE run[p].id \notin infected
    <3>1. EndJob(p, FALSE)
      BY <1>3, <2>3 DEF StoreVerdict
    <3>2. QED
      BY <1>3, <2>3, <3>1, EndJobType DEF TypeOK, StoreVerdict
  <2>4. QED
    BY <2>2, <2>3
<1>4. ASSUME DeleteObject(p) \/ StoreError(p) \/ CrashRun(p) PROVE TypeOK'
  <2>1. PICK left : EndJob(p, left)
    BY <1>4 DEF DeleteObject, StoreError, CrashRun
  <2>2. /\ scanJob' \in [Evidence -> {"none", "waiting", "over"} \cup Slots]
        /\ attempts' = attempts
        /\ run' \in [Slots -> RunState]
    BY <2>1, EndJobType
  <2>3. QED
    BY <1>4, <2>2 DEF TypeOK, DeleteObject, StoreError, CrashRun
<1>5. ASSUME Stall(p) PROVE TypeOK'
  BY <1>5 DEF TypeOK, Stall
<1>6. QED
  BY <1>1, <1>2, <1>3, <1>4, <1>5

\* Every step keeps the types.
LEMMA NextTypeOK == TypeOK /\ [Next]_vars => TypeOK'
<1> SUFFICES ASSUME TypeOK, [Next]_vars PROVE TypeOK'
  OBVIOUS
<1>1. ASSUME NEW e \in Evidence, Upload(e) PROVE TypeOK'
  BY <1>1 DEF TypeOK, Upload, work, queue
<1>2. CASE UNCHANGED vars
  BY <1>2 DEF TypeOK, vars, work, scans, queue
<1>3. QED
  BY <1>1, <1>2, WorkTypeOK, RequestTypeOK, ScanTypeOK DEF Next

\* The rows, the queue, the slots and the requests in flight keep their types.
THEOREM TypeCorrect == Spec => []TypeOK
BY InitTypeOK, NextTypeOK, PTL DEF Spec

-----------------------------------------------------------------------------
(***************************************************************************)
(* The inductive invariant.                                                 *)
(***************************************************************************)

\* The invariant holds at the start.
LEMMA InitIInv == Init => IInv
<1> SUFFICES ASSUME Init PROVE IInv
  OBVIOUS
<1>1. /\ \A r \in Requests : request[r].op = "none"
      /\ \A p \in Slots : run[p].op = "none"
  BY DEF Init, Idle
<1>2. QED
  BY <1>1, InitTypeOK DEF Init, IInv, CleanIsSound, RunsAreRight, SubmitsAreSound,
                          EditsReadDrafts, SubmittedHasEvidence

\* The steps that write rows of evidence, objects or runs; what they do to a slot.
LEMMA ScanSteps ==
  ASSUME IInv, [Next]_vars
  PROVE  /\ infected' = infected
         /\ \A e \in Evidence :
              /\ scanStatus[e] # "NONE" => scanStatus'[e] # "NONE"
              /\ scanStatus'[e] = "CLEAN" =>
                   \/ scanStatus[e] = "CLEAN"
                   \/ e \in bucket /\ e \notin infected
              /\ e \in bucket /\ e \notin infected => e \in bucket'
         /\ \A p \in Slots :
              /\ run'[p].op = "delete" => run'[p].id \in infected
              /\ run'[p].op = "store" => run'[p].id \in bucket \cup infected
<1> USE DEF work, scans, queue
<1>0. /\ RunsAreRight
      /\ scanStatus \in [Evidence -> {"NONE", "PENDING", "SCANNING", "CLEAN", "INFECTED", "ERROR"}]
      /\ run \in [Slots -> RunState]
      /\ request \in [Requests -> RequestState]
  BY DEF IInv, TypeOK
<1>1. CASE UNCHANGED <<scans, run>>
  BY <1>0, <1>1 DEF RunsAreRight
<1>2. ASSUME NEW e \in Evidence, Upload(e)
      PROVE  UNCHANGED <<scanStatus, infected, run>> /\ bucket \subseteq bucket'
  BY <1>2 DEF Upload
<1>3. ASSUME NEW r \in Requests, InsertEvidence(r)
      PROVE  /\ UNCHANGED <<bucket, infected, run>>
             /\ \A e \in Evidence : scanStatus'[e] \in {scanStatus[e], "PENDING"}
  BY <1>0, <1>3 DEF InsertEvidence
<1>4. ASSUME NEW p \in Slots, NEW e \in Evidence, StartScan(p, e)
      PROVE  /\ UNCHANGED <<bucket, infected>>
             /\ \A d \in Evidence : scanStatus'[d] \in {scanStatus[d], "SCANNING"}
             /\ \A s \in Slots : run'[s] = run[s] \/ run'[s].op = "scan"
  BY <1>0, <1>4 DEF StartScan, Turns
<1>5. ASSUME NEW p \in Slots, ClamScan(p) \/ ScanThrows(p)
      PROVE  /\ UNCHANGED scans
             /\ \A s \in Slots :
                  \/ run'[s] = run[s]
                  \/ run'[s].op = "fail"
                  \/ run'[s].op = "store" /\ run'[s].id \in bucket
  <2>1. /\ [run[p] EXCEPT !.op = "store"].op = "store"
        /\ [run[p] EXCEPT !.op = "store"].id = run[p].id
        /\ [run[p] EXCEPT !.op = "fail"].op = "fail"
    BY <1>0, <1>5, RunFields DEF ClamScan, ScanThrows, Idle
  <2>2. QED
    BY <1>0, <1>5, <2>1 DEF ClamScan, ScanThrows, Turns
<1>6. ASSUME NEW p \in Slots, NEW left, EndJob(p, left)
      PROVE  \A s \in Slots : run'[s] = run[s] \/ run'[s].op = "none"
  BY <1>0, <1>6 DEF EndJob, Turns, Idle
<1>7. ASSUME NEW p \in Slots, StoreVerdict(p)
      PROVE  /\ UNCHANGED <<bucket, infected>>
             /\ \A d \in Evidence :
                  \/ scanStatus'[d] \in {scanStatus[d], "INFECTED"}
                  \/ scanStatus'[d] = "CLEAN" /\ d \in bucket /\ d \notin infected
             /\ \A s \in Slots :
                  \/ run'[s] = run[s]
                  \/ run'[s].op = "none"
                  \/ run'[s].op = "delete" /\ run'[s].id \in infected
  <2>1. run[p].id \in Evidence /\ run[p].id \in bucket \cup infected
    <3>1. run[p].op = "store" /\ run[p] \in RunState
      BY <1>0, <1>7 DEF StoreVerdict
    <3>2. run[p] # Idle
      BY <3>1 DEF Idle
    <3>3. run[p].id \in Evidence
      BY <3>1, <3>2, RunFields
    <3>4. QED
      BY <1>0, <3>1, <3>3 DEF RunsAreRight
  <2>2. /\ [run[p] EXCEPT !.op = "delete"].op = "delete"
        /\ [run[p] EXCEPT !.op = "delete"].id = run[p].id
    BY <1>0, <1>7, RunFields DEF StoreVerdict, Idle
  <2>3. CASE run[p].id \in infected
    BY <1>0, <1>7, <2>1, <2>2, <2>3 DEF StoreVerdict, Turns
  <2>4. CASE run[p].id \notin infected
    BY <1>0, <1>6, <1>7, <2>1, <2>4 DEF StoreVerdict
  <2>5. QED
    BY <2>3, <2>4
<1>8. ASSUME NEW p \in Slots, DeleteObject(p)
      PROVE  /\ UNCHANGED <<scanStatus, infected>>
             /\ bucket \ infected \subseteq bucket'
             /\ \A s \in Slots : run'[s] = run[s] \/ run'[s].op = "none"
  BY <1>0, <1>6, <1>8 DEF DeleteObject, RunsAreRight
<1>9. ASSUME NEW p \in Slots, StoreError(p)
      PROVE  /\ UNCHANGED <<bucket, infected>>
             /\ \A d \in Evidence : scanStatus'[d] \in {scanStatus[d], "ERROR"}
             /\ \A s \in Slots : run'[s] = run[s] \/ run'[s].op = "none"
  BY <1>0, <1>6, <1>9 DEF StoreError
<1>10. ASSUME NEW p \in Slots, CrashRun(p)
       PROVE  UNCHANGED scans /\ \A s \in Slots : run'[s] = run[s] \/ run'[s].op = "none"
  BY <1>6, <1>10 DEF CrashRun
<1>11. CASE \/ CreateJob \/ Publish \/ Fund \/ Apply \/ CheckIn \/ CheckOut
            \/ \E next \in {"ACCEPTED", "REJECTED"} : Decide(next)
            \/ \E p \in Slots : Stall(p)
            \/ UNCHANGED vars
  BY <1>1, <1>11 DEF CreateJob, Publish, Fund, Apply, CheckIn, CheckOut, Attend, Decide, Stall, vars
<1>12. ASSUME NEW r \in Requests,
              \/ PatchJob(r) \/ FindClean(r) \/ Submit(r) \/ AddScan(r) \/ Crash(r)
              \/ \E expected \in 1 .. MaxVersion : ReadDraft(r, expected)
              \/ \E e \in Evidence : VerifyObject(r, e)
       PROVE  UNCHANGED <<scans, run>>
  BY <1>12 DEF PatchJob, FindClean, Submit, AddScan, Crash, ReadDraft, VerifyObject
<1>13. CASE \E e \in Evidence : Upload(e)
  BY <1>0, <1>2, <1>13 DEF RunsAreRight
<1>14. CASE \E r \in Requests : InsertEvidence(r)
  BY <1>0, <1>3, <1>14 DEF RunsAreRight
<1>15. CASE \E p \in Slots, e \in Evidence : StartScan(p, e)
  BY <1>0, <1>4, <1>15 DEF RunsAreRight
<1>16. CASE \E p \in Slots : ClamScan(p) \/ ScanThrows(p)
  BY <1>0, <1>5, <1>16 DEF RunsAreRight
<1>17. CASE \E p \in Slots : StoreVerdict(p)
  BY <1>0, <1>7, <1>17 DEF RunsAreRight
<1>18. CASE \E p \in Slots : DeleteObject(p)
  BY <1>0, <1>8, <1>18 DEF RunsAreRight
<1>19. CASE \E p \in Slots : StoreError(p)
  BY <1>0, <1>9, <1>19 DEF RunsAreRight
<1>20. CASE \E p \in Slots : CrashRun(p)
  BY <1>0, <1>10, <1>20 DEF RunsAreRight
<1>21. QED
  BY <1>1, <1>11, <1>12, <1>13, <1>14, <1>15, <1>16, <1>17, <1>18, <1>19, <1>20 DEF Next

\* Evidence that is sound stays so.
LEMMA SoundStays ==
  ASSUME IInv, [Next]_vars, NEW e \in Evidence, Sound(e)
  PROVE  Sound(e)'
BY ScanSteps DEF Sound

\* What a step does to the requests that submit or edit, and to the work.
LEMMA RequestSteps ==
  ASSUME IInv, [Next]_vars
  PROVE  /\ \A r \in Requests :
              request'[r].op = "submit" =>
                request[r].op = "submit" \/ \E e \in Evidence : scanStatus[e] = "CLEAN"
         /\ assignment' = "SUBMITTED" =>
              assignment = "SUBMITTED" \/ \E r \in Requests : request[r].op = "submit"
<1> USE DEF work, scans, queue
<1>0. request \in [Requests -> RequestState]
  BY DEF IInv, TypeOK
<1>1. CASE UNCHANGED <<request, assignment>>
  BY <1>1
<1>2. ASSUME NEW r \in Requests, NEW q, Becomes(r, q), q.op # "submit"
      PROVE  \A s \in Requests : request'[s].op = "submit" => request[s].op = "submit"
  BY <1>0, <1>2 DEF Becomes
<1>3. ASSUME NEW r \in Requests, PatchJob(r) \/ InsertEvidence(r) \/ AddScan(r) \/ Crash(r)
      PROVE  /\ assignment' = assignment
             /\ \A s \in Requests : request'[s].op = "submit" => request[s].op = "submit"
  BY <1>2, <1>3 DEF PatchJob, InsertEvidence, AddScan, Crash, Idle
<1>4. ASSUME NEW r \in Requests,
             \/ \E expected \in 1 .. MaxVersion : ReadDraft(r, expected)
             \/ \E e \in Evidence : VerifyObject(r, e)
      PROVE  /\ assignment' = assignment
             /\ \A s \in Requests : request'[s].op = "submit" => request[s].op = "submit"
  BY <1>2, <1>4 DEF ReadDraft, VerifyObject
<1>5. ASSUME NEW r \in Requests, FindClean(r)
      PROVE  assignment' = assignment /\ \E e \in Evidence : scanStatus[e] = "CLEAN"
  BY <1>5 DEF FindClean
<1>6. ASSUME NEW r \in Requests, Submit(r)
      PROVE  /\ request[r].op = "submit"
             /\ \A s \in Requests : request'[s].op = "submit" => request[s].op = "submit"
  BY <1>2, <1>6 DEF Submit, Idle
<1>7. CASE \/ Apply \/ CheckIn \/ CheckOut
           \/ \E next \in {"ACCEPTED", "REJECTED"} : Decide(next)
  BY <1>7 DEF Apply, CheckIn, CheckOut, Attend, Decide
<1>8. CASE CreateJob \/ Publish \/ Fund \/ (\E e \in Evidence : Upload(e)) \/ UNCHANGED vars
  BY <1>1, <1>8 DEF CreateJob, Publish, Fund, Upload, vars
<1>9. ASSUME NEW p \in Slots,
             \/ ClamScan(p) \/ StoreVerdict(p) \/ DeleteObject(p) \/ ScanThrows(p) \/ StoreError(p)
             \/ CrashRun(p) \/ Stall(p) \/ \E e \in Evidence : StartScan(p, e)
      PROVE  UNCHANGED <<request, assignment>>
  BY <1>9 DEF ClamScan, StoreVerdict, DeleteObject, ScanThrows, StoreError, CrashRun, Stall, StartScan
<1>10. QED
  BY <1>1, <1>3, <1>4, <1>5, <1>6, <1>7, <1>8, <1>9 DEF Next

\* A published job is edited by a patch in flight alone, one that read the draft and
\* names the version that the job has.
LEMMA EditsKept ==
  ASSUME IInv, [Next]_vars
  PROVE  /\ EditsReadDrafts'
         /\ job.status = "PUBLISHED" /\ job'.edits # job.edits =>
              \E r \in Requests :
                /\ request[r].op = "patch" /\ request'[r] = Idle
                /\ request[r].expected = job.version
                /\ request[r].read < job.version
<1> USE DEF work, scans, queue
<1>0. /\ EditsReadDrafts
      /\ job \in JobRow
      /\ request \in [Requests -> RequestState]
      /\ \A r \in Requests : request[r].op = "patch" => request[r].read \in Nat
  BY RequestFields DEF IInv, TypeOK
<1>1. ASSUME UNCHANGED job,
             \A r \in Requests : request'[r] = request[r] \/ request'[r].op # "patch"
      PROVE  EditsReadDrafts' /\ job'.edits = job.edits
  BY <1>0, <1>1 DEF EditsReadDrafts
<1>2. ASSUME NEW r \in Requests, NEW q, Becomes(r, q), q.op # "patch"
      PROVE  \A s \in Requests : request'[s] = request[s] \/ request'[s].op # "patch"
  BY <1>0, <1>2 DEF Becomes
<1>3. ASSUME NEW r \in Requests, NEW expected \in 1 .. MaxVersion, ReadDraft(r, expected)
      PROVE  EditsReadDrafts' /\ job' = job
  BY <1>0, <1>3 DEF ReadDraft, Becomes, EditsReadDrafts, JobRow
<1>4. ASSUME NEW r \in Requests, PatchJob(r)
      PROVE  /\ EditsReadDrafts'
             /\ job.status = "PUBLISHED" /\ job'.edits # job.edits =>
                  /\ request[r].op = "patch" /\ request'[r] = Idle
                  /\ request[r].expected = job.version
                  /\ request[r].read < job.version
  <2>1. /\ \A s \in Requests : request'[s] = request[s] \/ request'[s].op # "patch"
        /\ request[r].op = "patch" /\ request'[r] = Idle
    BY <1>0, <1>2, <1>4 DEF PatchJob, Becomes, Idle
  <2>2. CASE UNCHANGED job
    BY <1>1, <2>1, <2>2
  <2>3. CASE job.version = request[r].expected /\ Edit
    <3>1. job'.status = job.status /\ job'.version = job.version + 1
      BY <1>0, <2>3 DEF Edit, JobRow
    <3>2. EditsReadDrafts'
      BY <1>0, <2>1, <3>1 DEF EditsReadDrafts, JobRow
    <3>3. QED
      BY <1>0, <2>1, <2>3, <3>2 DEF EditsReadDrafts
  <2>4. QED
    BY <1>4, <2>2, <2>3 DEF PatchJob
<1>5. CASE CreateJob
  <2>1. \A r \in Requests : request[r].op # "patch"
    BY <1>0, <1>5 DEF CreateJob, EditsReadDrafts
  <2>2. QED
    BY <1>5, <2>1 DEF CreateJob, EditsReadDrafts
<1>6. CASE Publish \/ Fund
  <2>1. /\ request' = request
        /\ job'.status \in {job.status, "PUBLISHED"}
        /\ job'.version = job.version + 1
        /\ job'.edits = job.edits
    BY <1>0, <1>6 DEF Publish, Fund, JobRow
  <2>2. QED
    BY <1>0, <2>1 DEF EditsReadDrafts, JobRow
<1>7. ASSUME NEW r \in Requests,
             \/ FindClean(r) \/ Submit(r) \/ InsertEvidence(r) \/ AddScan(r) \/ Crash(r)
             \/ \E e \in Evidence : VerifyObject(r, e)
      PROVE  EditsReadDrafts' /\ job'.edits = job.edits
  <2>1. \A s \in Requests : request'[s] = request[s] \/ request'[s].op # "patch"
    BY <1>2, <1>7 DEF FindClean, Submit, InsertEvidence, AddScan, Crash, VerifyObject, Idle
  <2>2. UNCHANGED job
    BY <1>7 DEF FindClean, Submit, InsertEvidence, AddScan, Crash, VerifyObject
  <2>3. QED
    BY <1>1, <2>1, <2>2
<1>8. CASE \/ Apply \/ CheckIn \/ CheckOut
           \/ \E next \in {"ACCEPTED", "REJECTED"} : Decide(next)
           \/ \E e \in Evidence : Upload(e)
           \/ UNCHANGED vars
  BY <1>1, <1>8 DEF Apply, CheckIn, CheckOut, Attend, Decide, Upload, vars
<1>9. ASSUME NEW p \in Slots,
             \/ ClamScan(p) \/ StoreVerdict(p) \/ DeleteObject(p) \/ ScanThrows(p) \/ StoreError(p)
             \/ CrashRun(p) \/ Stall(p) \/ \E e \in Evidence : StartScan(p, e)
      PROVE  EditsReadDrafts' /\ job'.edits = job.edits
  <2>1. UNCHANGED <<request, job>>
    BY <1>9 DEF ClamScan, StoreVerdict, DeleteObject, ScanThrows, StoreError, CrashRun, Stall, StartScan
  <2>2. QED
    BY <1>1, <2>1
<1>10. QED
  BY <1>3, <1>4, <1>5, <1>6, <1>7, <1>8, <1>9 DEF Next

\* Every step keeps the invariant.
LEMMA NextIInv == IInv /\ [Next]_vars => IInv'
<1> SUFFICES ASSUME IInv, [Next]_vars PROVE IInv'
  OBVIOUS
<1>1. TypeOK'
  BY NextTypeOK DEF IInv
<1>2. CleanIsSound'
  <2>1. ASSUME NEW e \in Evidence, scanStatus'[e] = "CLEAN" PROVE Sound(e)'
    BY <2>1, ScanSteps DEF IInv, CleanIsSound, Sound
  <2>2. QED
    BY <2>1 DEF CleanIsSound, Sound
<1>3. RunsAreRight'
  <2>1. ASSUME NEW p \in Slots, run'[p].op = "store" PROVE run'[p].id \in bucket' \cup infected'
    <3>1. run'[p] \in RunState /\ run'[p] # Idle
      BY <1>1, <2>1 DEF TypeOK, Idle
    <3>2. run'[p].id \in Evidence
      BY <3>1, RunFields
    <3>3. QED
      BY <2>1, <3>2, ScanSteps
  <2>2. QED
    BY <2>1, ScanSteps DEF RunsAreRight
<1>4. SubmitsAreSound' /\ SubmittedHasEvidence'
  <2>1. \A e \in Evidence : scanStatus[e] = "CLEAN" => Sound(e)
    BY DEF IInv, CleanIsSound
  <2>2. (\E e \in Evidence : Sound(e)) => \E e \in Evidence : Sound(e)'
    BY SoundStays
  <2>3. \A r \in Requests : request'[r].op = "submit" => \E e \in Evidence : Sound(e)'
    BY <2>1, <2>2, RequestSteps DEF IInv, SubmitsAreSound
  <2>4. assignment' = "SUBMITTED" => \E e \in Evidence : Sound(e)'
    BY <2>2, RequestSteps DEF IInv, SubmitsAreSound, SubmittedHasEvidence
  <2>5. QED
    BY <2>3, <2>4 DEF SubmitsAreSound, SubmittedHasEvidence, Sound
<1>5. QED
  BY <1>1, <1>2, <1>3, <1>4, EditsKept DEF IInv

\* The inductive invariant: what is called clean is sound, runs delete only what is
\* infected, a submission in flight has seen sound evidence, and an edit in flight has
\* read the draft at a version before the publication (core-domain.ts, main.ts).
THEOREM MarketplaceInvariant == Spec => []IInv
BY InitIInv, NextIInv, PTL DEF Spec

\* Submitted work has sound evidence, for every number of slots that scan the same
\* object again, fail, stall or die (submit, scanDocument).
THEOREM SubmittedEvidence == Spec => []SubmittedHasEvidence
<1>1. IInv => SubmittedHasEvidence
  BY DEF IInv
<1>2. QED
  BY <1>1, MarketplaceInvariant, PTL

\* A patch that edits a published job read the draft before the publication and named
\* a version ahead of it (patchJob, transitionJob).
THEOREM EditsAhead == Spec => PublishedEditsAreAhead
<1>1. IInv /\ [Next]_vars =>
        [job.status = "PUBLISHED" /\ job'.edits # job.edits =>
           \E r \in Requests :
             /\ request[r].op = "patch" /\ request'[r] = Idle
             /\ request[r].expected = job.version
             /\ request[r].read < job.version]_vars
  BY EditsKept
<1>2. QED
  BY <1>1, MarketplaceInvariant, PTL DEF Spec, PublishedEditsAreAhead
=============================================================================
