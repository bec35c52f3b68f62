---------------------- MODULE HostedVerificationProofs ----------------------
(***************************************************************************)
(* Proofs about HostedVerification for every number of requests and          *)
(* submissions.                                                              *)
(***************************************************************************)
EXTENDS HostedVerification, FiniteSetTheorems, TLAPS

-----------------------------------------------------------------------------
(***************************************************************************)
(* Type correctness.                                                        *)
(***************************************************************************)

\* What a request holds tells from its operation.
LEMMA RequestFields ==
  ASSUME NEW q \in RequestState
  PROVE  /\ q.op \in {"submit", "discard", "review"} => q.id \in Submissions
         /\ q.op = "submit" =>
              /\ q.files \in SUBSET DocumentType /\ q.stored \in SUBSET DocumentType
              /\ \A t \in DocumentType :
                   LET p == [q EXCEPT !.stored = @ \cup {t}]
                   IN /\ p \in RequestState
                      /\ p.op = "submit" /\ p.id = q.id /\ p.files = q.files
                      /\ p.stored = q.stored \cup {t}
         /\ q.op = "discard" => q.stored \in SUBSET DocumentType
         /\ q.op = "review" => q.version \in Nat /\ q.next \in Decision
         /\ q.op = "expire" => q.left \in SUBSET Submissions
<1>1. CASE q = Idle
  BY <1>1 DEF Idle
<1>2. CASE q \in [op : {"onboard", "eligible"}]
  BY <1>2
<1>3. CASE q \in [op : {"submit"}, id : Submissions, files : SUBSET DocumentType,
                  stored : SUBSET DocumentType]
  BY <1>3 DEF RequestState
<1>4. CASE q \in [op : {"discard"}, id : Submissions, stored : SUBSET DocumentType]
  BY <1>4
<1>5. CASE q \in [op : {"review"}, id : Submissions, version : Nat, next : Decision]
  BY <1>5
<1>6. CASE q \in [op : {"expire"}, left : SUBSET Submissions]
  BY <1>6
<1>7. QED
  BY <1>1, <1>2, <1>3, <1>4, <1>5, <1>6 DEF RequestState

\* The states requests go on to.
LEMMA RequestStates ==
  /\ Idle \in RequestState
  /\ [op |-> "onboard"] \in RequestState /\ [op |-> "eligible"] \in RequestState
  /\ \A s \in Submissions, stored \in SUBSET DocumentType :
       [op |-> "discard", id |-> s, stored |-> stored] \in RequestState
  /\ \A s \in Submissions, n \in Nat, next \in Decision :
       [op |-> "review", id |-> s, version |-> n, next |-> next] \in RequestState
  /\ \A left \in SUBSET Submissions : [op |-> "expire", left |-> left] \in RequestState
BY DEF RequestState

\* A request that goes on to a state of a request is well typed.
LEMMA BecomesType ==
  ASSUME TypeOK, NEW r \in Requests, NEW q \in RequestState, Becomes(r, q)
  PROVE  request' \in [Requests -> RequestState]
BY DEF TypeOK, Becomes

\* What the handlers make of a profile is a profile of the role, and whether it
\* is verified afterwards.
LEMMA ProfileSteps ==
  ASSUME role \in {"WORKER", "BUSINESS_OWNER"}, profile \in Profile(role)
  PROVE  /\ [profile EXCEPT !.onboarding = "COMPLETE"] \in Profile(role)
         /\ [profile EXCEPT !.onboarding = "COMPLETE"].verification = profile.verification
         /\ SubmittedProfile \in Profile(role)
         /\ SubmittedProfile.verification \in {profile.verification, "SUBMITTED"}
         /\ ExpiredProfile \in Profile(role)
         /\ ExpiredProfile.verification \in {"BASIC", "NEEDS_REVISION"}
         /\ \A next \in Decision : ReviewedProfile(next) \in Profile(role)
<1>1. CASE role = "WORKER"
  <2>1. Profile(role) = WorkerProfile
    BY <1>1 DEF Profile
  <2>2. /\ [profile EXCEPT !.onboarding = "COMPLETE"] \in WorkerProfile
        /\ [profile EXCEPT !.onboarding = "COMPLETE"].verification = profile.verification
        /\ [profile EXCEPT !.onboarding = "VERIFICATION_SUBMITTED"] \in WorkerProfile
        /\ [profile EXCEPT !.onboarding = "VERIFICATION_SUBMITTED"].verification
             = profile.verification
    BY <2>1 DEF WorkerProfile
  <2>3. [onboarding |-> "COMPLETE", verification |-> "BASIC"] \in WorkerProfile
    BY DEF WorkerProfile
  <2>4. \A next \in Decision : WorkerDecision(next) \in WorkerProfile
    <3>1. WorkerDecision("APPROVED") \in WorkerProfile
      BY DEF WorkerDecision, WorkerProfile
    <3>2. WorkerDecision("REJECTED") \in WorkerProfile
      BY DEF WorkerDecision, WorkerProfile
    <3>3. WorkerDecision("NEEDS_REVISION") \in WorkerProfile
      BY DEF WorkerDecision, WorkerProfile
    <3>4. QED
      BY <3>1, <3>2, <3>3 DEF Decision
  <2>5. QED
    BY <1>1, <2>1, <2>2, <2>3, <2>4 DEF SubmittedProfile, ExpiredProfile, ReviewedProfile
<1>2. CASE role = "BUSINESS_OWNER"
  <2>1. Profile(role) = Business
    BY <1>2 DEF Profile
  <2>2. /\ [profile EXCEPT !.onboarding = "COMPLETE"] \in Business
        /\ [profile EXCEPT !.onboarding = "COMPLETE"].verification = profile.verification
        /\ \A v \in {"SUBMITTED", "VERIFIED", "REJECTED", "NEEDS_REVISION"} :
             /\ [profile EXCEPT !.verification = v] \in Business
             /\ [profile EXCEPT !.verification = v].verification = v
    BY <2>1 DEF Business
  <2>3. \A next \in Decision : ReviewedProfile(next) \in Business
    BY <1>2, <2>2 DEF ReviewedProfile, Decision
  <2>4. QED
    BY <1>2, <2>1, <2>2, <2>3 DEF SubmittedProfile, ExpiredProfile
<1>3. QED
  BY <1>1, <1>2

\* The initial state is well typed.
LEMMA InitTypeOK == Init => TypeOK
<1> SUFFICES ASSUME Init PROVE TypeOK
  OBVIOUS
<1>1. profile \in Profile(role)
  <2>1. CASE role = "WORKER"
    BY <2>1 DEF Init, Profile, WorkerProfile
  <2>2. CASE role = "BUSINESS_OWNER"
    BY <2>2 DEF Init, Profile, Business
  <2>3. QED
    BY <2>1, <2>2 DEF Init
<1>2. NoRow \in SubmissionRow
  BY DEF NoRow, SubmissionRow
<1>3. QED
  BY <1>1, <1>2, RequestStates DEF Init, TypeOK

\* Every step keeps the types.
LEMMA NextTypeOK == TypeOK /\ [Next]_vars => TypeOK'
<1> SUFFICES ASSUME TypeOK, [Next]_vars PROVE TypeOK'
  OBVIOUS
<1> USE DEF rows
<1>0. /\ \A r \in Requests : request[r] \in RequestState
      /\ role \in {"WORKER", "BUSINESS_OWNER"} /\ profile \in Profile(role)
  BY DEF TypeOK
<1>1. ASSUME NEW r \in Requests,
             ReadWorkerOnboarding(r) \/ ReadBusinessOnboarding(r) \/ ReadProfile(r)
               \/ FindsActive(r) \/ Crash(r)
      PROVE  TypeOK'
  <2>1. request' \in [Requests -> RequestState]
    BY <1>1, RequestStates, BecomesType
       DEF ReadWorkerOnboarding, ReadBusinessOnboarding, ReadProfile, FindsActive, Crash
  <2>2. UNCHANGED <<role, profile, rows, bucket>>
    BY <1>1 DEF ReadWorkerOnboarding, ReadBusinessOnboarding, ReadProfile, FindsActive, Crash
  <2>3. QED
    BY <2>1, <2>2 DEF TypeOK
<1>2. ASSUME NEW r \in Requests, Complete(r) PROVE TypeOK'
  <2>1. request' \in [Requests -> RequestState]
    BY <1>2, RequestStates, BecomesType DEF Complete
  <2>2. role' = role /\ profile' \in Profile(role)
    BY <1>0, <1>2, ProfileSteps DEF Complete
  <2>3. QED
    BY <1>2, <2>1, <2>2 DEF TypeOK, Complete
<1>3. ASSUME NEW r \in Requests, NEW s \in Submissions, NEW files \in Forms(role),
             ReadActive(r, s, files)
      PROVE  TypeOK'
  <2>1. [op |-> "submit", id |-> s, files |-> files, stored |-> {}] \in RequestState
    BY DEF RequestState, Forms
  <2>2. request' \in [Requests -> RequestState]
    BY <1>3, <2>1, BecomesType DEF ReadActive, Begin
  <2>3. QED
    BY <1>3, <2>2 DEF TypeOK, ReadActive, Begin
<1>4. ASSUME NEW r \in Requests, NEW t \in DocumentType, Put(r, t) PROVE TypeOK'
  <2>1. request[r].id \in Submissions /\ [request[r] EXCEPT !.stored = @ \cup {t}] \in RequestState
    BY <1>0, <1>4, RequestFields DEF Put
  <2>2. request' \in [Requests -> RequestState]
    BY <1>4, <2>1, BecomesType DEF Put
  <2>3. QED
    BY <1>4, <2>1, <2>2 DEF TypeOK, Put
<1>5. ASSUME NEW r \in Requests, Submit(r) PROVE TypeOK'
  <2>1. request[r].id \in Submissions /\ request[r].files \in SUBSET DocumentType
    BY <1>0, <1>5, RequestFields DEF Submit
  <2>2. request' \in [Requests -> RequestState]
    BY <1>5, RequestStates, BecomesType DEF Submit, InsertSubmission
  <2>3. [status |-> "SUBMITTED", version |-> 1] \in SubmissionRow
    BY DEF SubmissionRow
  <2>4. role' = role /\ profile' \in Profile(role)
    BY <1>0, <1>5, ProfileSteps DEF Submit, InsertSubmission
  <2>5. QED
    BY <1>5, <2>1, <2>2, <2>3, <2>4 DEF TypeOK, Submit, InsertSubmission
<1>6. ASSUME NEW r \in Requests, SubmitFails(r) PROVE TypeOK'
  <2>1. request[r].id \in Submissions /\ request[r].stored \in SUBSET DocumentType
    BY <1>0, <1>6, RequestFields DEF SubmitFails
  <2>2. request' \in [Requests -> RequestState]
    BY <1>6, <2>1, RequestStates, BecomesType DEF SubmitFails
  <2>3. QED
    BY <1>6, <2>2 DEF TypeOK, SubmitFails
<1>7. ASSUME NEW r \in Requests, NEW kept, Discard(r, kept) PROVE TypeOK'
  <2>1. request' \in [Requests -> RequestState]
    BY <1>7, RequestStates, BecomesType DEF Discard
  <2>2. QED
    BY <1>7, <2>1 DEF TypeOK, Discard
<1>8. ASSUME NEW r \in Requests, NEW s \in Submissions, NEW next \in Decision,
             ReadReview(r, s, next)
      PROVE  TypeOK'
  <2>1. submission[s].version \in Nat
    BY DEF TypeOK, SubmissionRow
  <2>2. request' \in [Requests -> RequestState]
    BY <1>8, <2>1, RequestStates, BecomesType DEF ReadReview
  <2>3. QED
    BY <1>8, <2>2 DEF TypeOK, ReadReview
<1>9. ASSUME NEW r \in Requests, Review(r) PROVE TypeOK'
  <2>1. request[r].id \in Submissions /\ request[r].next \in Decision
    BY <1>0, <1>9, RequestFields DEF Review
  <2>2. request' \in [Requests -> RequestState]
    BY <1>9, RequestStates, BecomesType DEF Review
  <2>3. [status |-> request[r].next, version |-> submission[request[r].id].version + 1] \in SubmissionRow
    BY <2>1 DEF TypeOK, SubmissionRow
  <2>4. submission' \in [Submissions -> SubmissionRow]
    BY <1>9, <2>1, <2>3 DEF TypeOK, Review
  <2>5. role' = role /\ profile' \in Profile(role)
    BY <1>0, <1>9, <2>1, ProfileSteps DEF Review
  <2>6. QED
    BY <1>9, <2>2, <2>4, <2>5 DEF TypeOK, Review
<1>10. ASSUME NEW s \in Submissions, BecomesOverdue(s) PROVE TypeOK'
  BY <1>10 DEF TypeOK, BecomesOverdue
<1>11. ASSUME NEW r \in Requests, ReadExpired(r) PROVE TypeOK'
  <2>1. {s \in overdue : submission[s].status = "APPROVED"} \in SUBSET Submissions
    BY DEF TypeOK
  <2>2. request' \in [Requests -> RequestState]
    BY <1>11, <2>1, RequestStates, BecomesType DEF ReadExpired
  <2>3. QED
    BY <1>11, <2>2 DEF TypeOK, ReadExpired
<1>12. ASSUME NEW r \in Requests, NEW s \in Submissions, Expire(r, s) PROVE TypeOK'
  <2>1. request[r].left \ {s} \in SUBSET Submissions
    BY <1>0, <1>12, RequestFields DEF Expire
  <2>2. request' \in [Requests -> RequestState]
    BY <1>12, <2>1, RequestStates, BecomesType DEF Expire
  <2>3. [status |-> "EXPIRED", version |-> submission[s].version + 1] \in SubmissionRow
    BY DEF TypeOK, SubmissionRow
  <2>4. submission' \in [Submissions -> SubmissionRow]
    BY <1>12, <2>3 DEF TypeOK, Expire
  <2>5. role' = role /\ profile' \in Profile(role)
    BY <1>0, <1>12, ProfileSteps DEF Expire
  <2>6. QED
    BY <1>12, <2>2, <2>4, <2>5 DEF TypeOK, Expire
<1>13. CASE UNCHANGED vars
  BY <1>13 DEF TypeOK, vars
<1>14. QED
  BY <1>1, <1>2, <1>3, <1>4, <1>5, <1>6, <1>7, <1>8, <1>9, <1>10, <1>11, <1>12, <1>13
     DEF Next, CompleteWorker, CompleteBusiness

\* The profile, the submissions, the bucket and the requests in flight keep their
\* types.
THEOREM TypeCorrect == Spec => []TypeOK
BY InitTypeOK, NextTypeOK, PTL DEF Spec

-----------------------------------------------------------------------------
(***************************************************************************)
(* The inductive invariant.                                                 *)
(***************************************************************************)

\* What is named by a submission and types is in the bucket, each or together.
LEMMA ObjectsIn ==
  ASSUME NEW s, NEW types, NEW objects
  PROVE  Objects(s, types) \subseteq objects <=> \A t \in types : <<s, t>> \in objects
BY DEF Objects

\* Requests that submit are counted, and active submissions.
LEMMA Counting ==
  ASSUME TypeOK
  PROVE  /\ IsFiniteSet(Active) /\ IsFiniteSet(Submitting)
         /\ Cardinality(Active) \in Nat /\ Cardinality(Submitting) \in Nat
         /\ Cardinality(Submitting) <= Cardinality(Requests) /\ Cardinality(Requests) \in Nat
<1>1. Active \in SUBSET Submissions /\ Submitting \in SUBSET Requests
  BY DEF Active, Submitting
<1>2. QED
  BY <1>1, VerificationAssumption, FS_Subset, FS_CardinalityType

\* Room stays if no submission becomes active and no request submits.
LEMMA RoomKept ==
  ASSUME TypeOK, TypeOK', RoomForSubmits, Active' \subseteq Active, Submitting' \subseteq Submitting
  PROVE  RoomForSubmits'
<1> DEFINE a == Cardinality(Active)
           b == Cardinality(Submitting)
<1>1. /\ a \in Nat /\ b \in Nat /\ Cardinality(Requests) \in Nat
      /\ IsFiniteSet(Active) /\ IsFiniteSet(Submitting)
      /\ a' \in Nat /\ b' \in Nat
  <2>1. /\ IsFiniteSet(Active) /\ IsFiniteSet(Submitting)
        /\ a \in Nat /\ b \in Nat /\ Cardinality(Requests) \in Nat
    BY Counting
  <2>2. IsFiniteSet(Active') /\ IsFiniteSet(Submitting')
    BY <2>1, FS_Subset
  <2>3. QED
    BY <2>1, <2>2, FS_CardinalityType
<1>2. a' <= a /\ b' <= b
  BY <1>1, FS_Subset
<1>3. QED
  BY <1>1, <1>2 DEF RoomForSubmits

\* The invariant holds at the start.
LEMMA InitIInv == Init => IInv
<1> SUFFICES ASSUME Init PROVE IInv
  OBVIOUS
<1>1. TypeOK
  BY InitTypeOK
<1>2. \A r \in Requests : request[r].op = "none"
  BY DEF Init, Idle
<1>3. Active = {} /\ Submitting = {}
  BY <1>2 DEF Init, Active, Submitting, NoRow
<1>4. RoomForSubmits
  BY <1>1, <1>3, Counting, FS_EmptySet DEF RoomForSubmits
<1>5. UploadsAreOwn /\ ReviewsAreOfRows
  BY <1>2, <1>3 DEF Init, UploadsAreOwn, ReviewsAreOfRows, NoRow
<1>6. DocumentsAreStored
  BY ObjectsIn DEF Init, DocumentsAreStored
<1>7. VerifiedOnDocuments
  BY DEF Init, VerifiedOnDocuments, Verified
<1>8. QED
  BY <1>1, <1>4, <1>5, <1>6, <1>7 DEF IInv

\* Steps of a request that change no submission and take nothing from the bucket.
LEMMA QuietKeepsIInv ==
  ASSUME IInv, TypeOK', NEW r \in Requests, NEW q, Becomes(r, q),
         UNCHANGED <<role, submission, documents>>, bucket \subseteq bucket',
         q.op # "submit",
         q.op = "discard" => request[r].op = "submit" /\ q.id = request[r].id,
         q.op = "review" => submission[q.id] # NoRow /\ q.version = 1,
         Verified' => Verified
  PROVE  IInv'
<1>0. /\ TypeOK /\ UploadsAreOwn /\ ReviewsAreOfRows /\ DocumentsAreStored /\ VerifiedOnDocuments
      /\ RoomForSubmits /\ request \in [Requests -> RequestState]
  BY DEF IInv, TypeOK
<1>1. \A s \in Requests : request'[s] = IF s = r THEN q ELSE request[s]
  BY <1>0 DEF Becomes
<1>2. UploadsAreOwn'
  <2>1. ASSUME NEW s \in Requests, request'[s].op \in {"submit", "discard"}
        PROVE  /\ request[s].op \in {"submit", "discard"}
               /\ request'[s].id = request[s].id
               /\ request'[s].op = "submit" => request'[s] = request[s]
    BY <1>1, <2>1
  <2>2. \A s \in Requests : request[s].op = "submit" =>
          Objects(request[s].id, request[s].stored) \subseteq bucket'
    BY <1>0 DEF UploadsAreOwn
  <2>3. QED
    BY <1>0, <2>1, <2>2 DEF UploadsAreOwn
<1>3. ReviewsAreOfRows'
  BY <1>0, <1>1 DEF ReviewsAreOfRows, Active
<1>4. DocumentsAreStored' /\ VerifiedOnDocuments'
  BY <1>0 DEF DocumentsAreStored, VerifiedOnDocuments
<1>5. RoomForSubmits'
  <2>1. Active' \subseteq Active /\ Submitting' \subseteq Submitting
    BY <1>1 DEF Active, Submitting
  <2>2. QED
    BY <1>0, <2>1, RoomKept
<1>6. QED
  BY <1>2, <1>3, <1>4, <1>5 DEF IInv

\* A submission begins with an id of its own, while none is active.
LEMMA BeginKeepsIInv ==
  ASSUME IInv, TypeOK', NEW r \in Requests, NEW s \in Submissions, NEW files \in Forms(role),
         ReadActive(r, s, files)
  PROVE  IInv'
<1> DEFINE q == [op |-> "submit", id |-> s, files |-> files, stored |-> {}]
<1>0. /\ TypeOK /\ UploadsAreOwn /\ ReviewsAreOfRows /\ DocumentsAreStored /\ VerifiedOnDocuments
      /\ request \in [Requests -> RequestState]
  BY DEF IInv, TypeOK
<1>1. /\ \A x \in Requests : request'[x] = IF x = r THEN q ELSE request[x]
      /\ UNCHANGED <<role, profile, submission, documents, bucket>> /\ Active = {} /\ Unused(s)
  BY <1>0 DEF ReadActive, Begin, Becomes, rows
<1>2. documents[s] = {}
  <2>1. \A t \in documents[s] : <<s, t>> \in bucket /\ t \in DocumentType
    BY <1>0, ObjectsIn DEF DocumentsAreStored, TypeOK
  <2>2. QED
    BY <1>1, <2>1 DEF Unused
<1>3. UploadsAreOwn'
  <2>1. Objects(s, {}) \subseteq bucket
    BY ObjectsIn
  <2>2. Required(role) \subseteq files
    BY DEF Forms
  <2>3. ASSUME NEW x \in Requests, x # r, request[x].op \in {"submit", "discard"}
        PROVE  request[x].id # s
    BY <1>1, <2>3 DEF Unused
  <2>4. \A x \in Requests : x # r => request'[x] = request[x]
    BY <1>1
  <2>5. request'[r].id = s /\ request'[r].files = files /\ request'[r].stored = {}
    BY <1>1
  <2>6. submission[s] = NoRow
    BY <1>1 DEF Unused
  <2>7. ASSUME NEW x \in Requests, request'[x].op \in {"submit", "discard"}
        PROVE  /\ submission'[request'[x].id] = NoRow
               /\ documents'[request'[x].id] = {}
               /\ \A y \in Requests \ {x} :
                    request'[y].op \in {"submit", "discard"} => request'[y].id # request'[x].id
    BY <1>0, <1>1, <1>2, <2>3, <2>4, <2>5, <2>6, <2>7 DEF UploadsAreOwn
  <2>8. ASSUME NEW x \in Requests, request'[x].op = "submit"
        PROVE  /\ Required(role') \subseteq request'[x].files
               /\ Objects(request'[x].id, request'[x].stored) \subseteq bucket'
    BY <1>0, <1>1, <2>1, <2>2, <2>4, <2>5, <2>8 DEF UploadsAreOwn
  <2>9. QED
    BY <2>7, <2>8 DEF UploadsAreOwn
<1>4. ReviewsAreOfRows'
  BY <1>0, <1>1 DEF ReviewsAreOfRows, Active
<1>5. DocumentsAreStored' /\ VerifiedOnDocuments'
  BY <1>0, <1>1 DEF DocumentsAreStored, VerifiedOnDocuments, Verified
<1>6. RoomForSubmits'
  <2>1. Active' = {}
    BY <1>1 DEF Active
  <2>2. Cardinality(Submitting') <= Cardinality(Requests) /\ Cardinality(Submitting') \in Nat
    <3>1. Submitting' \in SUBSET Requests
      BY DEF Submitting
    <3>2. QED
      BY <3>1, VerificationAssumption, FS_Subset, FS_CardinalityType
  <2>3. QED
    BY <2>1, <2>2, FS_EmptySet DEF RoomForSubmits
<1>7. QED
  BY <1>3, <1>4, <1>5, <1>6 DEF IInv

\* A put adds an object of the request's own submission.
LEMMA PutKeepsIInv ==
  ASSUME IInv, TypeOK', NEW r \in Requests, NEW t \in DocumentType, Put(r, t)
  PROVE  IInv'
<1> DEFINE q == [request[r] EXCEPT !.stored = @ \cup {t}]
<1>0. /\ TypeOK /\ UploadsAreOwn /\ ReviewsAreOfRows /\ DocumentsAreStored /\ VerifiedOnDocuments
      /\ RoomForSubmits
      /\ request \in [Requests -> RequestState] /\ request[r].op = "submit"
  BY DEF IInv, TypeOK, Put
<1>1. /\ \A x \in Requests : x # r => request'[x] = request[x]
      /\ request'[r].op = "submit" /\ request'[r].id = request[r].id
      /\ request'[r].files = request[r].files /\ request'[r].stored = request[r].stored \cup {t}
  <2>1. /\ q.op = "submit" /\ q.id = request[r].id
        /\ q.files = request[r].files /\ q.stored = request[r].stored \cup {t}
    BY <1>0, RequestFields
  <2>2. request' = [request EXCEPT ![r] = q]
    BY DEF Put, Becomes
  <2>3. QED
    BY <1>0, <2>1, <2>2
<1>2. /\ UNCHANGED <<role, profile, submission, documents>>
      /\ bucket' = bucket \cup {<<request[r].id, t>>}
  BY DEF Put, rows
<1>3. UploadsAreOwn'
  <2>1. \A x \in Requests : request'[x].op = request[x].op /\ request'[x].id = request[x].id
    BY <1>0, <1>1
  <2>2. Objects(request[r].id, request[r].stored \cup {t}) \subseteq bucket'
    BY <1>0, <1>2, ObjectsIn DEF UploadsAreOwn
  <2>3. \A x \in Requests : request[x].op = "submit" =>
          Objects(request[x].id, request[x].stored) \subseteq bucket'
    BY <1>0, <1>2 DEF UploadsAreOwn
  <2>4. ASSUME NEW x \in Requests, request'[x].op = "submit"
        PROVE  /\ Required(role') \subseteq request'[x].files
               /\ Objects(request'[x].id, request'[x].stored) \subseteq bucket'
    BY <1>0, <1>1, <1>2, <2>2, <2>3, <2>4 DEF UploadsAreOwn
  <2>5. QED
    BY <1>0, <1>2, <2>1, <2>4 DEF UploadsAreOwn
<1>4. ReviewsAreOfRows'
  BY <1>0, <1>1, <1>2 DEF ReviewsAreOfRows, Active
<1>5. DocumentsAreStored' /\ VerifiedOnDocuments'
  BY <1>0, <1>2 DEF DocumentsAreStored, VerifiedOnDocuments, Verified
<1>6. RoomForSubmits'
  <2>1. Active' = Active /\ Submitting' = Submitting
    BY <1>0, <1>1, <1>2 DEF Active, Submitting
  <2>2. QED
    BY <1>0, <2>1 DEF RoomForSubmits
<1>7. QED
  BY <1>3, <1>4, <1>5, <1>6 DEF IInv

\* The batch inserts the row of a submission all of whose objects are there.
LEMMA SubmitKeepsIInv ==
  ASSUME IInv, TypeOK', NEW r \in Requests, Submit(r)
  PROVE  IInv'
<1> DEFINE s == request[r].id
<1>0. /\ TypeOK /\ UploadsAreOwn /\ ReviewsAreOfRows /\ DocumentsAreStored /\ VerifiedOnDocuments
      /\ RoomForSubmits
      /\ request \in [Requests -> RequestState] /\ request[r].op = "submit"
      /\ submission \in [Submissions -> SubmissionRow]
      /\ documents \in [Submissions -> SUBSET DocumentType]
      /\ role \in {"WORKER", "BUSINESS_OWNER"} /\ profile \in Profile(role)
  BY DEF IInv, TypeOK, Submit
<1>1. s \in Submissions /\ submission[s] = NoRow
  BY <1>0, RequestFields DEF UploadsAreOwn
<1>2. /\ \A x \in Requests : request'[x] = IF x = r THEN Idle ELSE request[x]
      /\ \A x \in Submissions : x # s => submission'[x] = submission[x] /\ documents'[x] = documents[x]
      /\ submission'[s] = [status |-> "SUBMITTED", version |-> 1]
      /\ documents'[s] = request[r].files
      /\ UNCHANGED <<role, bucket>>
      /\ profile' = SubmittedProfile
  BY <1>0, <1>1 DEF Submit, InsertSubmission, Becomes
<1>3. UploadsAreOwn'
  <2>1. ASSUME NEW x \in Requests, request'[x].op \in {"submit", "discard"}
        PROVE  x # r /\ request'[x] = request[x] /\ request[x].id # s /\ request[x].id \in Submissions
    <3>1. x # r /\ request'[x] = request[x]
      BY <1>2, <2>1 DEF Idle
    <3>2. QED
      BY <1>0, <2>1, <3>1, RequestFields DEF UploadsAreOwn
  <2>2. QED
    BY <1>0, <1>2, <2>1 DEF UploadsAreOwn
<1>4. ReviewsAreOfRows'
  <2>1. Required(role) \subseteq request[r].files
    BY <1>0 DEF UploadsAreOwn
  <2>2. ASSUME NEW x \in Requests, request'[x].op = "review"
        PROVE  submission'[request'[x].id] # NoRow /\ request'[x].version = 1
    <3>1. request'[x] = request[x]
      BY <1>2, <2>2 DEF Idle
    <3>2. request[x].id \in Submissions /\ submission[request[x].id] # NoRow /\ request[x].version = 1
      BY <1>0, <2>2, <3>1, RequestFields DEF ReviewsAreOfRows
    <3>3. QED
      BY <1>1, <1>2, <3>1, <3>2
  <2>3. submission'[s].status = "SUBMITTED" /\ submission'[s].version = 1
    BY <1>2
  <2>4. \A x \in Submissions : IF submission'[x].status = "NONE"
                               THEN submission'[x] = NoRow
                               ELSE Required(role') \subseteq documents'[x]
    BY <1>0, <1>2, <2>1, <2>3 DEF ReviewsAreOfRows
  <2>5. \A x \in Active' : submission'[x].version = 1
    BY <1>0, <1>2, <2>3 DEF ReviewsAreOfRows, Active
  <2>6. QED
    BY <2>2, <2>4, <2>5 DEF ReviewsAreOfRows
<1>5. DocumentsAreStored'
  <2>1. Objects(s, request[r].files) \subseteq bucket
    BY <1>0 DEF UploadsAreOwn, Submit
  <2>2. QED
    BY <1>0, <1>2, <2>1 DEF DocumentsAreStored
<1>6. VerifiedOnDocuments'
  <2>1. Verified' => Verified
    BY <1>0, <1>2, ProfileSteps DEF Verified
  <2>2. \A x \in Submissions : submission[x].status \notin {"NONE", "SUBMITTED"} => x # s
    BY <1>1 DEF NoRow
  <2>3. QED
    BY <1>0, <1>2, <2>1, <2>2 DEF VerifiedOnDocuments
<1>7. RoomForSubmits'
  <2> DEFINE a == Cardinality(Active)
             b == Cardinality(Submitting)
  <2>1. Active' = Active \cup {s} /\ s \notin Active
    BY <1>1, <1>2 DEF Active, NoRow
  <2>2. Submitting' = Submitting \ {r} /\ r \in Submitting
    BY <1>0, <1>2 DEF Submitting, Idle
  <2>3. /\ IsFiniteSet(Active) /\ IsFiniteSet(Submitting) /\ a \in Nat /\ b \in Nat
        /\ Cardinality(Requests) \in Nat
    BY <1>0, Counting
  <2>4. a' = a + 1 /\ b' = b - 1
    BY <2>1, <2>2, <2>3, FS_AddElement, FS_RemoveElement
  <2>5. QED
    BY <1>0, <2>3, <2>4 DEF RoomForSubmits
<1>8. QED
  BY <1>3, <1>4, <1>5, <1>6, <1>7 DEF IInv

\* The clean-up takes objects no row points to.
LEMMA DiscardKeepsIInv ==
  ASSUME IInv, TypeOK', NEW r \in Requests, NEW kept, Discard(r, kept)
  PROVE  IInv'
<1> DEFINE s == request[r].id
<1>0. /\ TypeOK /\ UploadsAreOwn /\ ReviewsAreOfRows /\ DocumentsAreStored /\ VerifiedOnDocuments
      /\ RoomForSubmits
      /\ request \in [Requests -> RequestState] /\ request[r].op = "discard"
  BY DEF IInv, TypeOK, Discard
<1>1. /\ \A x \in Requests : request'[x] = IF x = r THEN Idle ELSE request[x]
      /\ UNCHANGED <<role, profile, submission, documents>>
      /\ bucket' = bucket \ Objects(s, request[r].stored \ kept)
  BY <1>0 DEF Discard, Becomes, rows
<1>2. \A x, t : x # s /\ <<x, t>> \in bucket => <<x, t>> \in bucket'
  BY <1>1 DEF Objects
<1>3. ASSUME NEW x \in Requests, request'[x].op \in {"submit", "discard"}
      PROVE  x # r /\ request'[x] = request[x] /\ request[x].id # s
  <2>1. x # r /\ request'[x] = request[x]
    BY <1>1, <1>3 DEF Idle
  <2>2. QED
    BY <1>0, <1>3, <2>1 DEF UploadsAreOwn
<1>4. UploadsAreOwn'
  <2>1. ASSUME NEW x \in Requests, request'[x].op = "submit"
        PROVE  Objects(request'[x].id, request'[x].stored) \subseteq bucket'
    <3>1. request'[x] = request[x] /\ request[x].id # s
      BY <1>3, <2>1
    <3>2. \A t \in request[x].stored : <<request[x].id, t>> \in bucket
      BY <1>0, <2>1, <3>1, ObjectsIn DEF UploadsAreOwn
    <3>3. \A t \in request[x].stored : <<request[x].id, t>> \in bucket'
      BY <1>2, <3>1, <3>2
    <3>4. Objects(request[x].id, request[x].stored) \subseteq bucket'
      BY <3>3, ObjectsIn
    <3>5. QED
      BY <3>1, <3>4
  <2>2. ASSUME NEW x \in Requests, request'[x].op \in {"submit", "discard"}
        PROVE  /\ submission'[request'[x].id] = NoRow
               /\ documents'[request'[x].id] = {}
               /\ \A q \in Requests \ {x} :
                    request'[q].op \in {"submit", "discard"} => request'[q].id # request'[x].id
               /\ request'[x].op = "submit" => Required(role') \subseteq request'[x].files
    BY <1>0, <1>1, <1>3, <2>2 DEF UploadsAreOwn
  <2>3. QED
    BY <2>1, <2>2 DEF UploadsAreOwn
<1>5. ReviewsAreOfRows'
  <2>1. \A x \in Requests : request'[x].op = "review" => request'[x] = request[x]
    BY <1>1 DEF Idle
  <2>2. QED
    BY <1>0, <1>1, <2>1 DEF ReviewsAreOfRows, Active
<1>6. DocumentsAreStored'
  <2>1. documents[s] = {}
    BY <1>0 DEF UploadsAreOwn
  <2>2. ASSUME NEW x \in Submissions, NEW t \in documents[x] PROVE <<x, t>> \in bucket'
    <3>1. x # s /\ <<x, t>> \in bucket
      BY <1>0, <2>1, <2>2, ObjectsIn DEF DocumentsAreStored
    <3>2. QED
      BY <1>2, <3>1
  <2>3. \A x \in Submissions : Objects(x, documents[x]) \subseteq bucket'
    BY <2>2, ObjectsIn
  <2>4. QED
    BY <1>1, <2>3 DEF DocumentsAreStored
<1>7. VerifiedOnDocuments'
  BY <1>0, <1>1 DEF VerifiedOnDocuments, Verified
<1>8. RoomForSubmits'
  <2>1. Active' \subseteq Active /\ Submitting' \subseteq Submitting
    BY <1>1, <1>3 DEF Active, Submitting
  <2>2. QED
    BY <1>0, <2>1, RoomKept
<1>9. QED
  BY <1>4, <1>5, <1>6, <1>7, <1>8 DEF IInv

\* Decisions and expiries: rows that were decided on stay decided on, with their
\* documents, and the profile is verified only with one of them.
LEMMA DecidedKeepsIInv ==
  ASSUME IInv, TypeOK', NEW r \in Requests,
         UNCHANGED <<role, documents, bucket>>,
         \A x \in Requests : x # r => request'[x] = request[x],
         request'[r].op \in {"none", "expire"},
         \A x \in Submissions :
           submission'[x] = submission[x] \/ submission'[x].status \in Decision \cup {"EXPIRED"},
         \A x \in Submissions : submission[x] = NoRow => submission'[x] = NoRow,
         Verified' => \/ Verified
                      \/ \E x \in Submissions : submission'[x].status \notin {"NONE", "SUBMITTED"}
  PROVE  IInv'
<1>0. /\ TypeOK /\ UploadsAreOwn /\ ReviewsAreOfRows /\ DocumentsAreStored /\ VerifiedOnDocuments
      /\ RoomForSubmits
      /\ request \in [Requests -> RequestState]
  BY DEF IInv, TypeOK
<1>1. \A x \in Requests : /\ request'[x].op \in {"submit", "discard", "review"} =>
                             x # r /\ request'[x] = request[x] /\ request[x].id \in Submissions
  BY <1>0, RequestFields
<1>2. UploadsAreOwn'
  BY <1>0, <1>1 DEF UploadsAreOwn
<1>3. \A x \in Submissions : submission'[x].status = "NONE" <=> submission[x].status = "NONE"
  BY <1>0 DEF ReviewsAreOfRows, Decision, NoRow
<1>4. ReviewsAreOfRows'
  <2>1. \A x \in Submissions : IF submission'[x].status = "NONE"
                               THEN submission'[x] = NoRow
                               ELSE Required(role') \subseteq documents'[x]
    BY <1>0, <1>3 DEF ReviewsAreOfRows
  <2>2. \A x \in Active' : submission'[x] = submission[x]
    BY DEF Active, Decision
  <2>3. \A x \in Submissions : submission[x] # NoRow => submission'[x] # NoRow
    BY <1>0, <1>3 DEF ReviewsAreOfRows, NoRow
  <2>4. QED
    BY <1>0, <1>1, <2>1, <2>2, <2>3 DEF ReviewsAreOfRows, Active
<1>5. DocumentsAreStored'
  BY <1>0 DEF DocumentsAreStored
<1>6. VerifiedOnDocuments'
  <2>1. \A x \in Submissions : submission[x].status \notin {"NONE", "SUBMITTED"} =>
                               submission'[x].status \notin {"NONE", "SUBMITTED"}
    BY <1>3 DEF Decision
  <2>2. \A x \in Submissions : submission'[x].status # "NONE" => Required(role) \subseteq documents[x]
    BY <1>0, <1>3 DEF ReviewsAreOfRows
  <2>3. QED
    BY <1>0, <2>1, <2>2 DEF VerifiedOnDocuments
<1>7. RoomForSubmits'
  <2>1. Active' \subseteq Active /\ Submitting' \subseteq Submitting
    BY <1>1 DEF Active, Submitting, Decision
  <2>2. QED
    BY <1>0, <2>1, RoomKept
<1>8. QED
  BY <1>2, <1>4, <1>5, <1>6, <1>7 DEF IInv

\* What a decision or an expiry does to a row.
LEMMA ReviewStep ==
  ASSUME IInv, NEW r \in Requests, Review(r)
  PROVE  /\ request[r].id \in Submissions
         /\ \A x \in Submissions :
              \/ submission'[x] = submission[x]
              \/ submission[x].status = "SUBMITTED" /\ submission'[x].status \in Decision
         /\ submission'[request[r].id].status \notin {"NONE", "SUBMITTED"}
<1> DEFINE s == request[r].id
<1>1. /\ s \in Submissions /\ request[r].next \in Decision /\ request[r].version = 1
      /\ submission[s] # NoRow /\ submission \in [Submissions -> SubmissionRow]
  BY RequestFields DEF IInv, TypeOK, ReviewsAreOfRows, Review
<1>2. submission[s].status # "NONE" /\ (submission[s].status = "SUBMITTED" => submission[s].version = 1)
  BY <1>1 DEF IInv, ReviewsAreOfRows, Active
<1>3. CASE submission[s].status = "SUBMITTED"
  BY <1>1, <1>2, <1>3 DEF Review, Decision
<1>4. CASE submission[s].status # "SUBMITTED"
  <2>1. submission' = submission
    BY <1>4 DEF Review
  <2>2. QED
    BY <1>1, <1>2, <1>4, <2>1
<1>5. QED
  BY <1>3, <1>4

\* An expiry is of approved submissions only, and demotes the profile or leaves it.
LEMMA ExpireStep ==
  ASSUME IInv, NEW r \in Requests, NEW s \in Submissions, Expire(r, s)
  PROVE  /\ \A x \in Submissions :
              \/ submission'[x] = submission[x]
              \/ submission[x].status = "APPROVED" /\ submission'[x].status = "EXPIRED"
         /\ profile' \in {profile, ExpiredProfile}
<1>1. submission \in [Submissions -> SubmissionRow]
  BY DEF IInv, TypeOK
<1>2. CASE submission[s].status = "APPROVED"
  BY <1>1, <1>2 DEF Expire
<1>3. CASE submission[s].status # "APPROVED"
  BY <1>3 DEF Expire
<1>4. QED
  BY <1>2, <1>3

\* Every step keeps the invariant.
LEMMA NextIInv == IInv /\ [Next]_vars => IInv'
<1> SUFFICES ASSUME IInv, [Next]_vars PROVE IInv'
  OBVIOUS
<1> USE DEF rows
<1>0. /\ TypeOK /\ TypeOK' /\ request \in [Requests -> RequestState]
      /\ role \in {"WORKER", "BUSINESS_OWNER"} /\ profile \in Profile(role)
  BY NextTypeOK DEF IInv, TypeOK
<1>1. ASSUME NEW r \in Requests,
             \/ ReadWorkerOnboarding(r) \/ ReadBusinessOnboarding(r) \/ ReadProfile(r)
             \/ FindsActive(r) \/ ReadExpired(r) \/ Crash(r)
      PROVE  IInv'
  <2>1. UNCHANGED <<role, profile, submission, documents, bucket>>
    BY <1>1 DEF ReadWorkerOnboarding, ReadBusinessOnboarding, ReadProfile, FindsActive,
                ReadExpired, Crash
  <2>2. PICK q : Becomes(r, q) /\ q.op \in {"none", "onboard", "eligible", "expire"}
    BY <1>1 DEF ReadWorkerOnboarding, ReadBusinessOnboarding, ReadProfile, FindsActive,
                ReadExpired, Crash, Idle
  <2>3. QED
    BY <1>0, <2>1, <2>2, QuietKeepsIInv DEF Verified
<1>2. ASSUME NEW r \in Requests, Complete(r) PROVE IInv'
  <2>1. Becomes(r, Idle) /\ UNCHANGED <<role, submission, documents, bucket>>
    BY <1>2 DEF Complete
  <2>2. Verified' => Verified
    BY <1>0, <1>2, ProfileSteps DEF Complete, Verified
  <2>3. Idle.op = "none"
    BY DEF Idle
  <2>4. QED
    BY <1>0, <2>1, <2>2, <2>3, QuietKeepsIInv
<1>3. ASSUME NEW r \in Requests, SubmitFails(r) PROVE IInv'
  <2>1. UNCHANGED <<role, profile, submission, documents, bucket>> /\ request[r].op = "submit"
    BY <1>3 DEF SubmitFails
  <2>2. PICK q : Becomes(r, q) /\ q.op = "discard" /\ q.id = request[r].id
    BY <1>3 DEF SubmitFails
  <2>3. QED
    BY <1>0, <2>1, <2>2, QuietKeepsIInv DEF Verified
<1>4. ASSUME NEW r \in Requests, NEW s \in Submissions, NEW next \in Decision,
             ReadReview(r, s, next)
      PROVE  IInv'
  <2>1. UNCHANGED <<role, profile, submission, documents, bucket>>
    BY <1>4 DEF ReadReview
  <2>2. submission[s].version = 1 /\ submission[s] # NoRow
    BY <1>4 DEF ReadReview, IInv, ReviewsAreOfRows, Active, NoRow
  <2>3. PICK q : Becomes(r, q) /\ q.op = "review" /\ q.id = s /\ q.version = 1
    BY <1>4, <2>2 DEF ReadReview
  <2>4. QED
    BY <1>0, <2>1, <2>2, <2>3, QuietKeepsIInv DEF Verified
<1>5. ASSUME NEW r \in Requests, Review(r) PROVE IInv'
  <2>1. /\ \A x \in Requests : x # r => request'[x] = request[x]
        /\ request'[r].op = "none" /\ UNCHANGED <<role, documents, bucket>>
    BY <1>0, <1>5 DEF Review, Becomes, Idle
  <2>2. \A x \in Submissions : submission[x] = NoRow => submission'[x] = NoRow
    BY <1>5, ReviewStep DEF NoRow
  <2>3. QED
    BY <1>0, <1>5, <2>1, <2>2, ReviewStep, DecidedKeepsIInv
<1>6. ASSUME NEW r \in Requests, NEW s \in Submissions, Expire(r, s) PROVE IInv'
  <2>1. /\ \A x \in Requests : x # r => request'[x] = request[x]
        /\ request'[r].op \in {"none", "expire"} /\ UNCHANGED <<role, documents, bucket>>
    BY <1>0, <1>6 DEF Expire, Becomes, Idle
  <2>2. \A x \in Submissions : submission[x] = NoRow => submission'[x] = NoRow
    BY <1>6, ExpireStep DEF NoRow
  <2>3. Verified' => Verified
    BY <1>0, <1>6, ExpireStep, ProfileSteps DEF Verified
  <2>4. QED
    BY <1>0, <1>6, <2>1, <2>2, <2>3, ExpireStep, DecidedKeepsIInv
<1>7. CASE (\E s \in Submissions : BecomesOverdue(s)) \/ UNCHANGED vars
  <2>1. UNCHANGED <<role, profile, submission, documents, bucket, request>>
    BY <1>7 DEF BecomesOverdue, vars
  <2>2. QED
    BY <1>0, <2>1 DEF IInv, UploadsAreOwn, ReviewsAreOfRows, DocumentsAreStored,
                      VerifiedOnDocuments, Verified, RoomForSubmits, Active, Submitting
<1>8. QED
  BY <1>0, <1>1, <1>2, <1>3, <1>4, <1>5, <1>6, <1>7, BeginKeepsIInv, PutKeepsIInv,
     SubmitKeepsIInv, DiscardKeepsIInv
     DEF Next, CompleteWorker, CompleteBusiness

\* The inductive invariant: uploads belong to one request, rows have what was
\* required, the profile is verified with such a row only, submits have room.
THEOREM VerificationInvariant == Spec => []IInv
BY InitIInv, NextIInv, PTL DEF Spec

-----------------------------------------------------------------------------
(***************************************************************************)
(* Properties.                                                              *)
(***************************************************************************)

\* The documents of every row are in the bucket, whatever put, batch, clean-up or
\* crash comes in between (POST /verifications).
THEOREM DocumentsStored == Spec => []DocumentsAreStored
<1>1. IInv => DocumentsAreStored
  BY DEF IInv
<1>2. QED
  BY <1>1, VerificationInvariant, PTL

\* Who is verified has shown all documents of the role in a submission that was
\* decided on, although a late review writes the profile unguarded (POST review).
THEOREM VerifiedDocuments == Spec => []VerifiedOnDocuments
<1>1. IInv => VerifiedOnDocuments
  BY DEF IInv
<1>2. QED
  BY <1>1, VerificationInvariant, PTL

\* There are never more active submissions than requests served at a time (POST
\* /verifications).
THEOREM ActiveBounded == Spec => []ActiveAreConcurrent
<1>1. IInv => ActiveAreConcurrent
  <2> SUFFICES ASSUME IInv PROVE Cardinality(Active) <= Cardinality(Requests)
    BY DEF ActiveAreConcurrent
  <2>1. /\ Cardinality(Active) \in Nat /\ Cardinality(Submitting) \in Nat
        /\ Cardinality(Requests) \in Nat
    BY Counting DEF IInv
  <2>2. QED
    BY <2>1 DEF IInv, RoomForSubmits
<1>2. QED
  BY <1>1, VerificationInvariant, PTL

\* A decision is not taken back by a second reviewer; only an approval expires
\* (POST review, maintenance).
THEOREM DecisionKept == Spec => DecisionStands
<1> DEFINE Stands == \A s \in Submissions :
                       submission[s].status \in Decision =>
                         \/ submission'[s] = submission[s]
                         \/ submission[s].status = "APPROVED" /\ submission'[s].status = "EXPIRED"
<1>1. IInv /\ [Next]_vars => [Stands]_vars
  <2> SUFFICES ASSUME IInv, Next PROVE Stands
    OBVIOUS
  <2>1. CASE submission' = submission
    BY <2>1
  <2>2. ASSUME NEW r \in Requests, Submit(r) PROVE Stands
    <3>1. /\ request[r].id \in Submissions /\ submission[request[r].id] = NoRow
          /\ submission \in [Submissions -> SubmissionRow]
      BY <2>2, RequestFields DEF IInv, TypeOK, UploadsAreOwn, Submit
    <3>2. QED
      BY <2>2, <3>1 DEF Submit, InsertSubmission, NoRow, Decision
  <2>3. ASSUME NEW r \in Requests, Review(r) PROVE Stands
    BY <2>3, ReviewStep DEF Decision
  <2>4. ASSUME NEW r \in Requests, NEW s \in Submissions, Expire(r, s) PROVE Stands
    BY <2>4, ExpireStep
  <2>5. QED
    BY <2>1, <2>2, <2>3, <2>4
       DEF Next, rows, BecomesOverdue, ReadWorkerOnboarding, ReadBusinessOnboarding,
           CompleteWorker, CompleteBusiness, Complete, ReadProfile, FindsActive, ReadExpired,
           SubmitFails, Crash, Put, Discard, ReadActive, Begin, ReadReview
<1>2. QED
  BY <1>1, VerificationInvariant, PTL DEF Spec, DecisionStands

-----------------------------------------------------------------------------
(***************************************************************************)
(* Requests that do not overlap.                                            *)
(***************************************************************************)

\* Steps that decide on nothing and verify nobody.
LEMMA QuietAlone ==
  ASSUME OneAtATime, IInv, AloneInv, UNCHANGED submission, Verified' => Verified,
         NEW r \in Requests, NEW q, Becomes(r, q),
         q.op = "review" => /\ submission[q.id].status = "SUBMITTED"
                            /\ submission[q.id].version = q.version,
         q.op = "submit" => Active = {}
  PROVE  AloneInv'
<1>1. \A x \in Requests : request'[x] = q
  BY DEF IInv, TypeOK, Becomes, OneAtATime
<1>2. Active' = Active
  BY DEF Active
<1>3. QED
  BY <1>1, <1>2 DEF AloneInv, ReviewsStand, VerifiedIsApproved, OneActive

\* The batch of a submission finds none active and leaves the others as they are.
LEMMA SubmitAlone ==
  ASSUME OneAtATime, IInv, AloneInv, NEW r \in Requests, Submit(r)
  PROVE  AloneInv'
<1> DEFINE s == request[r].id
<1>1. /\ s \in Submissions /\ submission[s] = NoRow
      /\ submission \in [Submissions -> SubmissionRow] /\ Active = {}
      /\ role \in {"WORKER", "BUSINESS_OWNER"} /\ profile \in Profile(role)
  BY RequestFields DEF IInv, TypeOK, UploadsAreOwn, AloneInv, ReviewsStand, Submit
<1>2. submission' = [submission EXCEPT ![s] = [status |-> "SUBMITTED", version |-> 1]]
  BY DEF Submit, InsertSubmission
<1>3. Active' \subseteq {s}
  BY <1>1, <1>2 DEF Active
<1>4. \A x \in Requests : request'[x].op = "none"
  BY DEF Submit, InsertSubmission, Becomes, OneAtATime, IInv, TypeOK, Idle
<1>5. \A x \in Submissions : submission[x].status = "APPROVED" =>
                             submission'[x].status = "APPROVED"
  BY <1>1, <1>2 DEF NoRow
<1>6. Verified' => Verified
  BY <1>1, ProfileSteps DEF Submit, InsertSubmission, Verified
<1>7. QED
  BY <1>3, <1>4, <1>5, <1>6 DEF AloneInv, ReviewsStand, VerifiedIsApproved, OneActive

\* The batch of a review decides on the submission it read, and the profile says so.
LEMMA ReviewAlone ==
  ASSUME OneAtATime, IInv, AloneInv, NEW r \in Requests, Review(r)
  PROVE  AloneInv'
<1> DEFINE s == request[r].id
           next == request[r].next
<1>1. /\ s \in Submissions /\ next \in Decision
      /\ submission \in [Submissions -> SubmissionRow]
      /\ submission[s].status = "SUBMITTED" /\ submission[s].version = request[r].version
      /\ role \in {"WORKER", "BUSINESS_OWNER"} /\ profile \in Profile(role)
  BY RequestFields DEF IInv, TypeOK, AloneInv, ReviewsStand, Review
<1>2. /\ submission' = [submission EXCEPT ![s] = [status |-> next, version |-> @.version + 1]]
      /\ profile' = ReviewedProfile(next)
  BY <1>1 DEF Review
<1>3. submission'[s].status = next /\ \A x \in Submissions : x # s => submission'[x] = submission[x]
  BY <1>1, <1>2
<1>4. Active' \subseteq Active
  BY <1>1, <1>3 DEF Active
<1>5. \A x \in Requests : request'[x].op = "none"
  BY DEF Review, Becomes, OneAtATime, IInv, TypeOK, Idle
<1>6. Verified' => next = "APPROVED"
  BY <1>1, <1>2
  DEF Verified, ReviewedProfile, WorkerDecision, Decision, Profile, WorkerProfile, Business
<1>7. QED
  BY <1>1, <1>3, <1>4, <1>5, <1>6 DEF AloneInv, ReviewsStand, VerifiedIsApproved, OneActive

\* An expiry takes the verification away with the approval.
LEMMA ExpireAlone ==
  ASSUME OneAtATime, IInv, AloneInv, NEW r \in Requests, NEW s \in Submissions, Expire(r, s)
  PROVE  AloneInv'
<1>1. Active' \subseteq Active
  BY ExpireStep DEF Active
<1>2. \A x \in Requests : request'[x].op \in {"none", "expire"}
  BY DEF Expire, Becomes, OneAtATime, IInv, TypeOK, Idle
<1>3. UNCHANGED <<submission, profile>> \/ ~Verified'
  <2>1. role \in {"WORKER", "BUSINESS_OWNER"} /\ profile \in Profile(role)
    BY DEF IInv, TypeOK
  <2>2. UNCHANGED <<submission, profile>> \/ profile' = ExpiredProfile
    BY DEF Expire
  <2>3. ExpiredProfile.verification \notin {"IDENTITY_VERIFIED", "VERIFIED"}
    BY <2>1 DEF ExpiredProfile, Profile, Business
  <2>4. QED
    BY <2>2, <2>3 DEF Verified
<1>4. VerifiedIsApproved'
  BY <1>3 DEF AloneInv, VerifiedIsApproved, Verified
<1>5. QED
  BY <1>1, <1>2, <1>4 DEF AloneInv, ReviewsStand, OneActive

\* Every step of requests that do not overlap keeps decisions and profile in step.
LEMMA NextAlone == OneAtATime /\ IInv /\ AloneInv /\ [Next]_vars => AloneInv'
<1> SUFFICES ASSUME OneAtATime, IInv, AloneInv, [Next]_vars PROVE AloneInv'
  OBVIOUS
<1> USE DEF rows
<1>0. /\ request \in [Requests -> RequestState]
      /\ role \in {"WORKER", "BUSINESS_OWNER"} /\ profile \in Profile(role)
  BY DEF IInv, TypeOK
<1>1. ASSUME NEW r \in Requests,
             \/ ReadWorkerOnboarding(r) \/ ReadBusinessOnboarding(r) \/ ReadProfile(r)
             \/ FindsActive(r) \/ ReadExpired(r) \/ Crash(r) \/ SubmitFails(r)
             \/ \E kept \in SUBSET DocumentType : Discard(r, kept)
      PROVE  AloneInv'
  <2>1. UNCHANGED <<profile, submission>>
    BY <1>1 DEF ReadWorkerOnboarding, ReadBusinessOnboarding, ReadProfile, FindsActive,
                ReadExpired, Crash, SubmitFails, Discard
  <2>2. PICK q : Becomes(r, q) /\ q.op \in {"none", "onboard", "eligible", "expire", "discard"}
    <3>1. CASE FindsActive(r) \/ Crash(r) \/ \E kept \in SUBSET DocumentType : Discard(r, kept)
      <4>1. Becomes(r, Idle) /\ Idle.op = "none"
        BY <3>1 DEF FindsActive, Crash, Discard, Idle
      <4>2. QED
        BY <4>1
    <3>2. CASE ReadWorkerOnboarding(r) \/ ReadBusinessOnboarding(r) \/ ReadProfile(r)
      BY <3>2 DEF ReadWorkerOnboarding, ReadBusinessOnboarding, ReadProfile
    <3>3. CASE ReadExpired(r) \/ SubmitFails(r)
      BY <3>3 DEF ReadExpired, SubmitFails
    <3>4. QED
      BY <1>1, <3>1, <3>2, <3>3
  <2>3. QED
    BY <2>1, <2>2, QuietAlone DEF Verified
<1>2. ASSUME NEW r \in Requests, Complete(r) PROVE AloneInv'
  <2>1. Becomes(r, Idle) /\ UNCHANGED submission /\ Idle.op = "none"
    BY <1>2 DEF Complete, Idle
  <2>2. Verified' => Verified
    BY <1>0, <1>2, ProfileSteps DEF Complete, Verified
  <2>3. QED
    BY <2>1, <2>2, QuietAlone
<1>3. ASSUME NEW r \in Requests, NEW s \in Submissions, NEW files, ReadActive(r, s, files)
      PROVE  AloneInv'
  <2>1. UNCHANGED <<profile, submission>> /\ Active = {}
    BY <1>3 DEF ReadActive, Begin
  <2>2. PICK q : Becomes(r, q) /\ q.op = "submit"
    BY <1>3 DEF ReadActive, Begin
  <2>3. QED
    BY <2>1, <2>2, QuietAlone DEF Verified
<1>4. ASSUME NEW r \in Requests, NEW t \in DocumentType, Put(r, t) PROVE AloneInv'
  <2>1. UNCHANGED <<profile, submission>> /\ request[r].op = "submit"
    BY <1>4 DEF Put
  <2>2. PICK q : Becomes(r, q) /\ q.op = "submit"
    <3> DEFINE q == [request[r] EXCEPT !.stored = @ \cup {t}]
    <3>1. request[r] \in RequestState
      BY <1>0
    <3>2. q.op = "submit"
      BY <2>1, <3>1, RequestFields
    <3>3. Becomes(r, q)
      BY <1>4 DEF Put
    <3> HIDE DEF q
    <3>4. QED
      BY <3>2, <3>3
  <2>3. Active = {}
    BY <2>1 DEF AloneInv, ReviewsStand
  <2>4. QED
    BY <2>1, <2>2, <2>3, QuietAlone DEF Verified
<1>5. ASSUME NEW r \in Requests, NEW s \in Submissions, NEW next \in Decision,
             ReadReview(r, s, next)
      PROVE  AloneInv'
  <2>1. UNCHANGED <<profile, submission>> /\ submission[s].status = "SUBMITTED"
    BY <1>5 DEF ReadReview
  <2>2. PICK q : /\ Becomes(r, q) /\ q.op = "review" /\ q.id = s
                 /\ q.version = submission[s].version
    BY <1>5 DEF ReadReview
  <2>3. QED
    BY <2>1, <2>2, QuietAlone DEF Verified
<1>6. CASE (\E s \in Submissions : BecomesOverdue(s)) \/ UNCHANGED vars
  <2>1. UNCHANGED <<profile, submission, request>>
    BY <1>6 DEF BecomesOverdue, vars
  <2>2. QED
    BY <2>1 DEF AloneInv, ReviewsStand, VerifiedIsApproved, Verified, OneActive, Active
<1>7. QED
  BY <1>1, <1>2, <1>3, <1>4, <1>5, <1>6, SubmitAlone, ReviewAlone, ExpireAlone
     DEF Next, CompleteWorker, CompleteBusiness

\* Nobody is verified, and nothing is submitted, at the start.
LEMMA InitAlone == Init => AloneInv
<1> SUFFICES ASSUME Init PROVE AloneInv
  OBVIOUS
<1>1. ~Verified /\ Active = {} /\ \A r \in Requests : request[r].op = "none"
  BY DEF Init, Verified, Active, NoRow, Idle
<1>2. QED
  BY <1>1 DEF AloneInv, ReviewsStand, VerifiedIsApproved, OneActive

\* An account that is verified on a submission that was rejected is a race of two
\* reviews, or of two submissions: where requests do not overlap, one of its
\* submissions is approved as long as it is verified (POST review, maintenance).
THEOREM VerifiedApprovedAlone == ASSUME OneAtATime PROVE Spec => []VerifiedIsApproved
<1>1. OneAtATime /\ IInv /\ AloneInv /\ [Next]_vars => AloneInv'
  BY NextAlone
<1>2. AloneInv => VerifiedIsApproved
  BY DEF AloneInv
<1>3. QED
  BY <1>1, <1>2, InitAlone, VerificationInvariant, PTL DEF Spec

\* Two submissions to decide on at the same time are a race of two requests: where
\* they do not overlap, POST verifications sees the one that is active.
THEOREM OneActiveAlone == ASSUME OneAtATime PROVE Spec => []OneActive
<1>1. OneAtATime /\ IInv /\ AloneInv /\ [Next]_vars => AloneInv'
  BY NextAlone
<1>2. AloneInv => OneActive
  BY DEF AloneInv
<1>3. QED
  BY <1>1, <1>2, InitAlone, VerificationInvariant, PTL DEF Spec
=============================================================================
