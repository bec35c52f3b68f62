----------------------------- MODULE Marketplace -----------------------------
(***************************************************************************)
(* One job of the service stack and one worker's application to it, up to   *)
(* the submission of the work on evidence that was scanned                  *)
(* (apps/api/src/modules/core-domain.ts, documents.ts, the job              *)
(* document.scan of apps/worker/src/main.ts).  Approval is in               *)
(* PayoutPipeline.                                                          *)
(*                                                                          *)
(* transitionJob, decide and attendance are transactions, and steps.        *)
(* patchJob, submit and completeEvidence are requests in flight between two *)
(* awaits.  A scan is run by a worker's slot, which may die, or lose the    *)
(* lock of its job, which the queue then gives to another slot, and go on.  *)
(*                                                                          *)
(* The business and the worker are verified, members active: the handlers   *)
(* read those rows and change none.  An object is put once, before          *)
(* completeEvidence, although its URL is good for 300 seconds, and ClamAV    *)
(* says the same of it every time.  Verification documents take the same    *)
(* way as evidence.  Payment intents are read by no handler.                *)
(***************************************************************************)
EXTENDS Integers, FiniteSets

CONSTANTS Requests,     \* requests in flight at a time
          Slots,        \* jobs the workers run at a time
          Evidence,     \* bound: assignment_evidence rows, by id, with their objects
          MaxAttempts,  \* attempts of a job (6 in the code)
          MaxVersion    \* bound: versions of the job, and expected ones, explored

ASSUME MarketplaceAssumption ==
  /\ "none" \notin Slots /\ "waiting" \notin Slots /\ "over" \notin Slots
  /\ MaxAttempts \in Nat \ {0}
  /\ MaxVersion \in Nat

VARIABLES
  job,          \* jobs: status, funding_status, version, and how often edited
  application,  \* job_applications.status
  assignment,   \* job_assignments.status
  scanStatus,   \* assignment_evidence.scan_status by id
  bucket,       \* objects in the private bucket, named by evidence
  infected,     \* evidence whose object ClamAV finds infected
  scanJob,      \* scan-evidence-<id>: waiting, over, or the slot that holds it
  attempts,     \* attempts of the job begun
  run,          \* what a slot is doing
  request       \* what a request in flight has read and done

work == <<job, application, assignment>>
scans == <<scanStatus, bucket, infected>>
queue == <<scanJob, attempts, run>>
vars == <<work, scans, queue, request>>

JobRow == [status : {"NONE", "DRAFT", "PUBLISHED"}, funding : {"UNFUNDED", "PENDING"},
           version : Nat, edits : Nat]

Idle == [op |-> "none"]
RequestState ==
  {Idle}
  \cup [op : {"patch"}, expected : Nat, read : Nat]
  \cup [op : {"insert", "add"}, id : Evidence]
  \cup [op : {"submit"}]
RunState == {Idle} \cup [op : {"scan", "store", "delete", "fail"}, id : Evidence]

TypeOK ==
  /\ job \in JobRow
  /\ application \in {"NONE", "APPLIED", "ACCEPTED", "REJECTED"}
  /\ assignment \in {"NONE", "ASSIGNED", "IN_PROGRESS", "CHECKED_OUT", "SUBMITTED"}
  /\ scanStatus \in [Evidence -> {"NONE", "PENDING", "SCANNING", "CLEAN", "INFECTED", "ERROR"}]
  /\ bucket \in SUBSET Evidence
  /\ infected \in SUBSET Evidence
  /\ scanJob \in [Evidence -> {"none", "waiting", "over"} \cup Slots]
  /\ attempts \in [Evidence -> 0 .. MaxAttempts]
  /\ run \in [Slots -> RunState]
  /\ request \in [Requests -> RequestState]

Init ==
  /\ job = [status |-> "NONE", funding |-> "UNFUNDED", version |-> 0, edits |-> 0]
  /\ application = "NONE"
  /\ assignment = "NONE"
  /\ scanStatus = [e \in Evidence |-> "NONE"]
  /\ bucket = {}
  /\ infected \in SUBSET Evidence
  /\ scanJob = [e \in Evidence |-> "none"]
  /\ attempts = [e \in Evidence |-> 0]
  /\ run = [p \in Slots |-> Idle]
  /\ request = [r \in Requests |-> Idle]

Becomes(r, state) == request' = [request EXCEPT ![r] = state]
Turns(p, state) == run' = [run EXCEPT ![p] = state]

-----------------------------------------------------------------------------
(***************************************************************************)
(* The job: createJob, patchJob, transitionJob.                             *)
(***************************************************************************)
CreateJob ==
  /\ job.status = "NONE"
  /\ job' = [job EXCEPT !.status = "DRAFT", !.version = 1]
  /\ UNCHANGED <<application, assignment, scans, queue, request>>

\* The query asks for the status only: any expectedVersion goes on to the update.
\* read, the version of the row, is history for the properties.
ReadDraft(r, expected) ==
  /\ request[r] = Idle
  /\ job.status = "DRAFT"
  /\ Becomes(r, [op |-> "patch", expected |-> expected, read |-> job.version])
  /\ UNCHANGED <<work, scans, queue>>

Edit == job' = [job EXCEPT !.edits = @ + 1, !.version = @ + 1]

PatchAnyVersion(r) ==  \* defect for the checks: the update names the row only
  /\ request[r].op = "patch"
  /\ job.version < MaxVersion
  /\ Edit
  /\ Becomes(r, Idle)
  /\ UNCHANGED <<application, assignment, scans, queue>>

\* WHERE version = expectedVersion, whatever the status has become.
PatchJob(r) ==
  /\ request[r].op = "patch"
  /\ job.version < MaxVersion
  /\ IF job.version = request[r].expected THEN Edit ELSE UNCHANGED job
  /\ Becomes(r, Idle)
  /\ UNCHANGED <<application, assignment, scans, queue>>

Publish ==
  /\ job.status = "DRAFT"
  /\ job.version < MaxVersion
  /\ job' = [job EXCEPT !.status = "PUBLISHED", !.version = @ + 1]
  /\ UNCHANGED <<application, assignment, scans, queue, request>>

Fund ==
  /\ job.status = "PUBLISHED"
  /\ job.version < MaxVersion
  /\ job' = [job EXCEPT !.funding = "PENDING", !.version = @ + 1]
  /\ UNCHANGED <<application, assignment, scans, queue, request>>

-----------------------------------------------------------------------------
(***************************************************************************)
(* The work: apply, decide, attendance, submit.                             *)
(***************************************************************************)
Apply ==
  /\ job.status = "PUBLISHED"
  /\ application = "NONE"
  /\ application' = "APPLIED"
  /\ UNCHANGED <<job, assignment, scans, queue, request>>

Decide(next) ==
  /\ application = "APPLIED"
  /\ application' = next
  /\ assignment' = IF next = "ACCEPTED" THEN "ASSIGNED" ELSE assignment
  /\ UNCHANGED <<job, scans, queue, request>>

Attend(expected, next) ==
  /\ assignment = expected
  /\ assignment' = next
  /\ UNCHANGED <<job, application, scans, queue, request>>
CheckIn == Attend("ASSIGNED", "IN_PROGRESS")
CheckOut == Attend("IN_PROGRESS", "CHECKED_OUT")

FindClean(r) ==
  /\ request[r] = Idle
  /\ \E e \in Evidence : scanStatus[e] = "CLEAN"
  /\ Becomes(r, [op |-> "submit"])
  /\ UNCHANGED <<work, scans, queue>>

\* The evidence is not looked at again.
Submit(r) ==
  /\ request[r].op = "submit"
  /\ assignment' = IF assignment = "CHECKED_OUT" THEN "SUBMITTED" ELSE assignment
  /\ Becomes(r, Idle)
  /\ UNCHANGED <<job, application, scans, queue>>

-----------------------------------------------------------------------------
(***************************************************************************)
(* Evidence: presign and upload, completeEvidence.                          *)
(***************************************************************************)
Upload(e) ==
  /\ scanStatus[e] = "NONE"
  /\ e \notin bucket
  /\ bucket' = bucket \cup {e}
  /\ UNCHANGED <<work, scanStatus, infected, queue, request>>

VerifyObject(r, e) ==
  /\ request[r] = Idle
  /\ e \in bucket
  /\ assignment # "NONE"
  /\ Becomes(r, [op |-> "insert", id |-> e])
  /\ UNCHANGED <<work, scans, queue>>

\* The id is the client's: the second insert of it throws.
InsertEvidence(r) ==
  LET e == request[r].id
  IN /\ request[r].op = "insert"
     /\ IF scanStatus[e] = "NONE"
        THEN /\ scanStatus' = [scanStatus EXCEPT ![e] = "PENDING"]
             /\ Becomes(r, [op |-> "add", id |-> e])
        ELSE UNCHANGED scanStatus /\ Becomes(r, Idle)
     /\ UNCHANGED <<work, bucket, infected, queue>>

AddScan(r) ==
  /\ request[r].op = "add"
  /\ scanJob' = [scanJob EXCEPT ![request[r].id] = "waiting"]
  /\ Becomes(r, Idle)
  /\ UNCHANGED <<work, scans, attempts, run>>

Crash(r) ==
  /\ request[r] # Idle
  /\ Becomes(r, Idle)
  /\ UNCHANGED <<work, scans, queue>>

-----------------------------------------------------------------------------
(***************************************************************************)
(* scanDocument.                                                            *)
(***************************************************************************)

\* The slot takes the job and claims the row, if it is not claimed or judged.
StartScan(p, e) ==
  /\ run[p] = Idle
  /\ scanJob[e] = "waiting"
  /\ attempts[e] < MaxAttempts
  /\ scanJob' = [scanJob EXCEPT ![e] = p]
  /\ attempts' = [attempts EXCEPT ![e] = @ + 1]
  /\ scanStatus' = [scanStatus EXCEPT ![e] = IF @ \in {"PENDING", "ERROR"} THEN "SCANNING" ELSE @]
  /\ Turns(p, [op |-> "scan", id |-> e])
  /\ UNCHANGED <<work, bucket, infected, request>>

ClamScan(p) ==
  /\ run[p].op = "scan"
  /\ run[p].id \in bucket
  /\ Turns(p, [run[p] EXCEPT !.op = "store"])
  /\ UNCHANGED <<work, scans, scanJob, attempts, request>>

\* A slot that has lost the lock of its job ends it no more.
EndJob(p, left) ==
  /\ scanJob' = [scanJob EXCEPT ![run[p].id] =
                   IF @ # p THEN @ ELSE IF left THEN "waiting" ELSE "over"]
  /\ Turns(p, Idle)
  /\ UNCHANGED attempts

StoreClean(p) ==  \* defect for the checks: whatever ClamAV has answered
  /\ run[p].op = "store"
  /\ scanStatus' = [scanStatus EXCEPT ![run[p].id] = "CLEAN"]
  /\ EndJob(p, FALSE)
  /\ UNCHANGED <<work, bucket, infected, request>>

\* By id, over whatever another run of the job has stored.
StoreVerdict(p) ==
  LET e == run[p].id
  IN /\ run[p].op = "store"
     /\ scanStatus' = [scanStatus EXCEPT ![e] = IF e \in infected THEN "INFECTED" ELSE "CLEAN"]
     /\ IF e \in infected
        THEN Turns(p, [run[p] EXCEPT !.op = "delete"]) /\ UNCHANGED <<scanJob, attempts>>
        ELSE EndJob(p, FALSE)
     /\ UNCHANGED <<work, bucket, infected, request>>

DeleteObject(p) ==
  /\ run[p].op = "delete"
  /\ bucket' = bucket \ {run[p].id}
  /\ EndJob(p, FALSE)
  /\ UNCHANGED <<work, scanStatus, infected, request>>

\* Storage, ClamAV or Postgres fails.
ScanThrows(p) ==
  /\ run[p].op \in {"scan", "store", "delete"}
  /\ Turns(p, [run[p] EXCEPT !.op = "fail"])
  /\ UNCHANGED <<work, scans, scanJob, attempts, request>>

StoreFailed(p) ==  \* defect for the checks: a status no handler knows
  /\ run[p].op = "fail"
  /\ scanStatus' = [scanStatus EXCEPT ![run[p].id] = "FAILED"]
  /\ EndJob(p, attempts[run[p].id] < MaxAttempts)
  /\ UNCHANGED <<work, bucket, infected, request>>

\* By id as well, over INFECTED too; the job is tried again.
StoreError(p) ==
  /\ run[p].op = "fail"
  /\ scanStatus' = [scanStatus EXCEPT ![run[p].id] = "ERROR"]
  /\ EndJob(p, attempts[run[p].id] < MaxAttempts)
  /\ UNCHANGED <<work, bucket, infected, request>>

\* The worker dies: the queue gives its job to another.
CrashRun(p) ==
  /\ run[p] # Idle
  /\ EndJob(p, attempts[run[p].id] < MaxAttempts)
  /\ UNCHANGED <<work, scans, request>>

\* The lock ends while the run goes on.
Stall(p) ==
  /\ run[p] # Idle
  /\ scanJob[run[p].id] = p
  /\ attempts[run[p].id] < MaxAttempts
  /\ scanJob' = [scanJob EXCEPT ![run[p].id] = "waiting"]
  /\ UNCHANGED <<work, scans, attempts, run, request>>

Next ==
  \/ CreateJob \/ Publish \/ Fund
  \/ Apply \/ CheckIn \/ CheckOut
  \/ \E next \in {"ACCEPTED", "REJECTED"} : Decide(next)
  \/ \E e \in Evidence : Upload(e)
  \/ \E r \in Requests :
       \/ PatchJob(r) \/ FindClean(r) \/ Submit(r)
       \/ InsertEvidence(r) \/ AddScan(r) \/ Crash(r)
       \/ \E expected \in 1 .. MaxVersion : ReadDraft(r, expected)
       \/ \E e \in Evidence : VerifyObject(r, e)
  \/ \E p \in Slots :
       \/ ClamScan(p) \/ StoreVerdict(p) \/ DeleteObject(p) \/ ScanThrows(p) \/ StoreError(p)
       \/ CrashRun(p) \/ Stall(p)
       \/ \E e \in Evidence : StartScan(p, e)

Spec == Init /\ [][Next]_vars

-----------------------------------------------------------------------------
(***************************************************************************)
(* Properties.                                                              *)
(***************************************************************************)

\* Evidence that stays, once it is there.
Sound(e) == scanStatus[e] # "NONE" /\ e \in bucket /\ e \notin infected

\* Work that was submitted has a piece of evidence that is not infected and whose
\* object is still in the bucket, although its row may by then say ERROR again:
\* whatever repeated, late and failing scans store and delete (submit,
\* scanDocument).
SubmittedHasEvidence ==
  assignment = "SUBMITTED" =>
    \E e \in Evidence : Sound(e)

\* A published job is edited only by a patch that read the draft and whose client
\* named, ahead of it, the very version the job has by now: publication and funding
\* take the version away from every client that names one it was shown (patchJob,
\* transitionJob).
PublishedEditsAreAhead ==
  [][job.status = "PUBLISHED" /\ job'.edits # job.edits =>
       \E r \in Requests :
         /\ request[r].op = "patch" /\ request'[r] = Idle
         /\ request[r].expected = job.version
         /\ request[r].read < job.version]_vars

(***************************************************************************)
(* The inductive invariant behind them.                                     *)
(***************************************************************************)

CleanIsSound == \A e \in Evidence : scanStatus[e] = "CLEAN" => Sound(e)

\* A run deletes infected objects only, and calls clean only what it has read.
RunsAreRight ==
  \A p \in Slots :
    /\ run[p].op = "delete" => run[p].id \in infected
    /\ run[p].op = "store" => run[p].id \in bucket \cup infected

SubmitsAreSound ==
  \A r \in Requests : request[r].op = "submit" => \E e \in Evidence : Sound(e)

\* An edit in flight has read the draft at a version that is over once the job is
\* published.
EditsReadDrafts ==
  \A r \in Requests : request[r].op = "patch" =>
    /\ job.status \in {"DRAFT", "PUBLISHED"}
    /\ request[r].read <= job.version
    /\ job.status = "PUBLISHED" => request[r].read < job.version

IInv ==
  /\ TypeOK
  /\ CleanIsSound
  /\ RunsAreRight
  /\ SubmitsAreSound
  /\ EditsReadDrafts
  /\ SubmittedHasEvidence

-----------------------------------------------------------------------------
\* patchJob: "Hanya draft dapat diedit", only a draft can be edited.
PublishedIsNotEdited == [][job.status = "PUBLISHED" => job'.edits = job.edits]_vars
=============================================================================
