------------------------- MODULE HostedVerification -------------------------
(***************************************************************************)
(* Onboarding and identity verification of one account of the hosted stack  *)
(* (app/api/v1/onboarding, verifications, internal/verification-maintenance),*)
(* a worker or a business owner.                                            *)
(*                                                                          *)
(* A handler is a request in flight: what its queries returned, then its    *)
(* batch, which D1 runs as one transaction.  The submission of documents    *)
(* also puts objects into the private bucket, one call each, before its     *)
(* batch, and deletes them when a put or the batch throws; it may die       *)
(* anywhere in between.  A batch that throws is taken to have changed       *)
(* nothing.  An approval ends when its expires_at has passed and the         *)
(* maintenance request, which a schedule outside sends, comes by.           *)
(*                                                                          *)
(* profile_completion and trust_score are written with the statuses below   *)
(* and read by no handler: they are left out, like the audit log.           *)
(***************************************************************************)
EXTENDS Integers, FiniteSets

CONSTANTS Requests,     \* requests in flight at a time
          Submissions   \* bound: submissions the account makes, by id

ASSUME VerificationAssumption == IsFiniteSet(Requests) /\ IsFiniteSet(Submissions)

VARIABLES
  role,        \* users.role, which no handler changes
  profile,     \* the worker_profiles or businesses row of the account
  submission,  \* verification_submissions by id: status and version
  documents,   \* verification_documents: the types a submission has rows for
  overdue,     \* submissions whose expires_at has passed
  bucket,      \* objects in the private bucket, named by submission and type
  request      \* what a request in flight has read and stored

rows == <<submission, documents, overdue>>
vars == <<role, profile, rows, bucket, request>>

WorkerProfile ==
  [onboarding : {"BASIC_COMPLETE", "COMPLETE", "VERIFICATION_SUBMITTED", "NEEDS_REVISION", "VERIFIED"},
   verification : {"BASIC", "IDENTITY_VERIFIED"}]
Business ==
  [onboarding : {"BASIC_COMPLETE", "COMPLETE"},
   verification : {"DRAFT", "SUBMITTED", "VERIFIED", "REJECTED", "NEEDS_REVISION"}]
Profile(account) == IF account = "WORKER" THEN WorkerProfile ELSE Business

DocumentType == {"IDENTITY", "BUSINESS"}
Decision == {"APPROVED", "REJECTED", "NEEDS_REVISION"}
SubmissionRow == [status : {"NONE", "SUBMITTED", "EXPIRED"} \cup Decision, version : Nat]
NoRow == [status |-> "NONE", version |-> 0]

\* What the form must hold; a worker may add a business document.
Required(account) == IF account = "WORKER" THEN {"IDENTITY"} ELSE DocumentType

FormsAnyDocument(account) ==  \* defect for the checks: one document will do
  {files \in SUBSET DocumentType : "IDENTITY" \in files}

Forms(account) == {files \in SUBSET DocumentType : Required(account) \subseteq files}

Idle == [op |-> "none"]
RequestState ==
  {Idle}
  \cup [op : {"onboard", "eligible"}]
  \cup [op : {"submit"}, id : Submissions, files : SUBSET DocumentType, stored : SUBSET DocumentType]
  \cup [op : {"discard"}, id : Submissions, stored : SUBSET DocumentType]
  \cup [op : {"review"}, id : Submissions, version : Nat, next : Decision]
  \cup [op : {"expire"}, left : SUBSET Submissions]

TypeOK ==
  /\ role \in {"WORKER", "BUSINESS_OWNER"}
  /\ profile \in Profile(role)
  /\ submission \in [Submissions -> SubmissionRow]
  /\ documents \in [Submissions -> SUBSET DocumentType]
  /\ overdue \in SUBSET Submissions
  /\ bucket \in SUBSET (Submissions \X DocumentType)
  /\ request \in [Requests -> RequestState]

\* As registration leaves it.
Init ==
  /\ role \in {"WORKER", "BUSINESS_OWNER"}
  /\ profile = [onboarding |-> "BASIC_COMPLETE",
                verification |-> IF role = "WORKER" THEN "BASIC" ELSE "DRAFT"]
  /\ submission = [s \in Submissions |-> NoRow]
  /\ documents = [s \in Submissions |-> {}]
  /\ overdue = {}
  /\ bucket = {}
  /\ request = [r \in Requests |-> Idle]

Active == {s \in Submissions : submission[s].status = "SUBMITTED"}
Unused(s) ==
  /\ submission[s] = NoRow
  /\ \A t \in DocumentType : <<s, t>> \notin bucket
  /\ \A r \in Requests : request[r].op \in {"submit", "discard"} => request[r].id # s
Objects(s, types) == {<<s, t>> : t \in types}

Becomes(r, state) == request' = [request EXCEPT ![r] = state]

-----------------------------------------------------------------------------
(***************************************************************************)
(* PUT /onboarding.                                                         *)
(***************************************************************************)
ReadWorkerOnboarding(r) ==
  /\ role = "WORKER"
  /\ request[r] = Idle
  /\ Becomes(r, [op |-> "onboard"])
  /\ UNCHANGED <<role, profile, rows, bucket>>

ReadBusinessOnboarding(r) ==
  /\ role = "BUSINESS_OWNER"
  /\ request[r] = Idle
  /\ profile.verification \in {"DRAFT", "NEEDS_REVISION", "REJECTED"}
  /\ Becomes(r, [op |-> "onboard"])
  /\ UNCHANGED <<role, profile, rows, bucket>>

\* The update names the row only: a worker under review, or verified, is
\* COMPLETE again.
Complete(r) ==
  /\ request[r].op = "onboard"
  /\ profile' = [profile EXCEPT !.onboarding = "COMPLETE"]
  /\ Becomes(r, Idle)
  /\ UNCHANGED <<role, rows, bucket>>
CompleteWorker(r) == role = "WORKER" /\ Complete(r)
CompleteBusiness(r) == role = "BUSINESS_OWNER" /\ Complete(r)

-----------------------------------------------------------------------------
(***************************************************************************)
(* POST /verifications.                                                     *)
(***************************************************************************)
ReadProfile(r) ==
  /\ request[r] = Idle
  /\ profile.onboarding = "COMPLETE"
  /\ Becomes(r, [op |-> "eligible"])
  /\ UNCHANGED <<role, profile, rows, bucket>>

Begin(r, s, files) ==
  /\ request[r].op = "eligible"
  /\ Unused(s)
  /\ Becomes(r, [op |-> "submit", id |-> s, files |-> files, stored |-> {}])
  /\ UNCHANGED <<role, profile, rows, bucket>>

ReadNothing(r, s, files) ==  \* defect for the checks: active submissions are not asked for
  Begin(r, s, files)

ReadActive(r, s, files) ==
  /\ Active = {}
  /\ Begin(r, s, files)

FindsActive(r) ==
  /\ request[r].op = "eligible"
  /\ Active # {}
  /\ Becomes(r, Idle)
  /\ UNCHANGED <<role, profile, rows, bucket>>

\* The identity document goes first.
Put(r, t) ==
  /\ request[r].op = "submit"
  /\ t \in request[r].files \ request[r].stored
  /\ t = "BUSINESS" => "IDENTITY" \in request[r].stored
  /\ bucket' = bucket \cup {<<request[r].id, t>>}
  /\ Becomes(r, [request[r] EXCEPT !.stored = @ \cup {t}])
  /\ UNCHANGED <<role, profile, rows>>

SubmittedProfileAlike ==  \* defect for the checks: a business is treated like a worker
  [profile EXCEPT !.onboarding = "VERIFICATION_SUBMITTED"]

SubmittedProfile ==
  IF role = "WORKER" THEN [profile EXCEPT !.onboarding = "VERIFICATION_SUBMITTED"]
                     ELSE [profile EXCEPT !.verification = "SUBMITTED"]

InsertSubmission(r) ==
  LET s == request[r].id
  IN /\ submission' = [submission EXCEPT ![s] = [status |-> "SUBMITTED", version |-> 1]]
     /\ documents' = [documents EXCEPT ![s] = request[r].files]
     /\ profile' = SubmittedProfile
     /\ Becomes(r, Idle)
     /\ UNCHANGED <<role, overdue, bucket>>

Submit(r) ==
  /\ request[r].op = "submit"
  /\ request[r].stored = request[r].files
  /\ InsertSubmission(r)

\* A put or the batch throws.
SubmitFails(r) ==
  /\ request[r].op = "submit"
  /\ Becomes(r, [op |-> "discard", id |-> request[r].id, stored |-> request[r].stored])
  /\ UNCHANGED <<role, profile, rows, bucket>>

DiscardAll(r, kept) ==  \* defect for the checks: the account's objects, not the submission's
  /\ request[r].op = "discard"
  /\ bucket' = {}
  /\ Becomes(r, Idle)
  /\ UNCHANGED <<role, profile, rows>>

\* A delete that fails is swallowed, and its object kept.
Discard(r, kept) ==
  /\ request[r].op = "discard"
  /\ kept \subseteq request[r].stored
  /\ bucket' = bucket \ Objects(request[r].id, request[r].stored \ kept)
  /\ Becomes(r, Idle)
  /\ UNCHANGED <<role, profile, rows>>

-----------------------------------------------------------------------------
(***************************************************************************)
(* POST /verifications/:id/review.                                          *)
(***************************************************************************)
ReadReview(r, s, next) ==
  /\ request[r] = Idle
  /\ submission[s].status = "SUBMITTED"
  /\ Becomes(r, [op |-> "review", id |-> s, version |-> submission[s].version, next |-> next])
  /\ UNCHANGED <<role, profile, rows, bucket>>

WorkerDecision(next) ==
  [onboarding |-> CASE next = "APPROVED" -> "VERIFIED"
                    [] next = "REJECTED" -> "COMPLETE"
                    [] next = "NEEDS_REVISION" -> "NEEDS_REVISION",
   verification |-> IF next = "APPROVED" THEN "IDENTITY_VERIFIED" ELSE "BASIC"]

ReviewedProfile(next) ==
  IF role = "WORKER" THEN WorkerDecision(next)
  ELSE [profile EXCEPT !.verification = IF next = "APPROVED" THEN "VERIFIED" ELSE next]

\* UPDATE verification_submissions ... WHERE version = ? AND status IN (...); the
\* update of the profile, in the same batch, names its row only.
Review(r) ==
  LET s == request[r].id
      next == request[r].next
  IN /\ request[r].op = "review"
     /\ IF submission[s].status = "SUBMITTED" /\ submission[s].version = request[r].version
        THEN submission' = [submission EXCEPT ![s] = [status |-> next, version |-> @.version + 1]]
        ELSE UNCHANGED submission
     /\ profile' = ReviewedProfile(next)
     /\ Becomes(r, Idle)
     /\ UNCHANGED <<role, documents, overdue, bucket>>

-----------------------------------------------------------------------------
(***************************************************************************)
(* POST /internal/verification-maintenance.                                 *)
(***************************************************************************)

\* expires_at is at least thirty days after the approval.
BecomesOverdue(s) ==
  /\ submission[s].status = "APPROVED"
  /\ s \notin overdue
  /\ overdue' = overdue \cup {s}
  /\ UNCHANGED <<role, profile, submission, documents, bucket, request>>

ReadExpired(r) ==
  LET expired == {s \in overdue : submission[s].status = "APPROVED"}
  IN /\ request[r] = Idle
     /\ expired # {}
     /\ Becomes(r, [op |-> "expire", left |-> expired])
     /\ UNCHANGED <<role, profile, rows, bucket>>

ExpiredProfile ==
  IF role = "WORKER" THEN [onboarding |-> "COMPLETE", verification |-> "BASIC"]
                     ELSE [profile EXCEPT !.verification = "NEEDS_REVISION"]

\* Submissions notifications has verification-expired:<id> for, a unique reference.
Noticed == {s \in Submissions : submission[s].status = "EXPIRED"}

\* One batch a submission.  The notice rolls a second one back, which ends the
\* request; of the rest only the update of the submission looks at its status.
Expire(r, s) ==
  LET left == request[r].left \ {s}
  IN /\ request[r].op = "expire"
     /\ s \in request[r].left
     /\ IF s \in Noticed
        THEN UNCHANGED <<submission, profile>> /\ Becomes(r, Idle)
        ELSE /\ submission' = IF submission[s].status = "APPROVED"
                              THEN [submission EXCEPT ![s] = [status |-> "EXPIRED", version |-> @.version + 1]]
                              ELSE submission
             /\ profile' = ExpiredProfile
             /\ Becomes(r, IF left = {} THEN Idle ELSE [op |-> "expire", left |-> left])
     /\ UNCHANGED <<role, documents, overdue, bucket>>

-----------------------------------------------------------------------------
\* The isolate that serves a request dies.
Crash(r) ==
  /\ request[r] # Idle
  /\ Becomes(r, Idle)
  /\ UNCHANGED <<role, profile, rows, bucket>>

Next ==
  \/ \E s \in Submissions : BecomesOverdue(s)
  \/ \E r \in Requests :
      \/ ReadWorkerOnboarding(r) \/ ReadBusinessOnboarding(r)
      \/ CompleteWorker(r) \/ CompleteBusiness(r)
      \/ ReadProfile(r) \/ FindsActive(r) \/ ReadExpired(r)
      \/ Submit(r) \/ SubmitFails(r) \/ Review(r) \/ Crash(r)
      \/ \E t \in DocumentType : Put(r, t)
      \/ \E kept \in SUBSET DocumentType : Discard(r, kept)
      \/ \E s \in Submissions :
           \/ Expire(r, s)
           \/ \E files \in Forms(role) : ReadActive(r, s, files)
           \/ \E next \in Decision : ReadReview(r, s, next)

Spec == Init /\ [][Next]_vars

-----------------------------------------------------------------------------
(***************************************************************************)
(* Properties.                                                              *)
(***************************************************************************)

\* Every document an officer is shown can be opened: its object is in the bucket,
\* though puts, batch and clean-up of several submissions interleave and fail
\* anywhere (POST /verifications, GET /documents/:id).
DocumentsAreStored == \A s \in Submissions : Objects(s, documents[s]) \subseteq bucket

\* A worker or business is verified only if a submission with all the documents
\* its role must show was decided on, whoever reviewed what in which order
\* (POST review updates the profile without looking at it).
Verified == profile.verification \in {"IDENTITY_VERIFIED", "VERIFIED"}
VerifiedOnDocuments ==
  Verified => \E s \in Submissions :
                submission[s].status \notin {"NONE", "SUBMITTED"} /\ Required(role) \subseteq documents[s]

\* No index keeps an account from having two active submissions; the query does,
\* except for requests served at the same time, so there are never more of them
\* than requests (POST /verifications).
ActiveAreConcurrent == Cardinality(Active) <= Cardinality(Requests)

\* The first decision on a submission stands: a second reviewer, who read it
\* before, changes nothing of it; only an approval ends (POST review, maintenance).
DecisionStands ==
  [][\A s \in Submissions :
       submission[s].status \in Decision =>
         \/ submission'[s] = submission[s]
         \/ submission[s].status = "APPROVED" /\ submission'[s].status = "EXPIRED"]_vars

(***************************************************************************)
(* The inductive invariant behind them.                                     *)
(***************************************************************************)

\* What is in flight for a submission has put what it says it put, belongs to no
\* row yet, and to no other request.
UploadsAreOwn ==
  \A r \in Requests :
    /\ request[r].op \in {"submit", "discard"} =>
         /\ submission[request[r].id] = NoRow
         /\ documents[request[r].id] = {}
         /\ \A q \in Requests \ {r} :
              request[q].op \in {"submit", "discard"} => request[q].id # request[r].id
    /\ request[r].op = "submit" =>
         /\ Required(role) \subseteq request[r].files
         /\ Objects(request[r].id, request[r].stored) \subseteq bucket

\* A review is of a row that was there; rows have the documents that were required
\* and their first version until they are decided on.
ReviewsAreOfRows ==
  /\ \A r \in Requests :
       request[r].op = "review" => submission[request[r].id] # NoRow /\ request[r].version = 1
  /\ \A s \in Submissions :
       IF submission[s].status = "NONE"
       THEN submission[s] = NoRow
       ELSE Required(role) \subseteq documents[s]
  /\ \A s \in Active : submission[s].version = 1

\* Room for the submissions in flight beside the active ones.
Submitting == {r \in Requests : request[r].op = "submit"}
RoomForSubmits == Cardinality(Active) + Cardinality(Submitting) <= Cardinality(Requests)

IInv ==
  /\ TypeOK
  /\ UploadsAreOwn
  /\ ReviewsAreOfRows
  /\ DocumentsAreStored
  /\ VerifiedOnDocuments
  /\ RoomForSubmits
-----------------------------------------------------------------------------
(***************************************************************************)
(* Where requests do not overlap, what a review has read still holds when   *)
(* its batch runs, and the profile says what was decided.                   *)
(***************************************************************************)
OneAtATime == \A r, q \in Requests : r = q

\* Nobody is verified without a submission that is approved.
VerifiedIsApproved == Verified => \E s \in Submissions : submission[s].status = "APPROVED"

\* There is one submission to decide on at a time.
OneActive == \A s, t \in Active : s = t

ReviewsStand ==
  \A r \in Requests :
    /\ request[r].op = "review" =>
         /\ submission[request[r].id].status = "SUBMITTED"
         /\ submission[request[r].id].version = request[r].version
    /\ request[r].op = "submit" => Active = {}

AloneInv ==
  /\ ReviewsStand
  /\ VerifiedIsApproved
  /\ OneActive
=============================================================================
