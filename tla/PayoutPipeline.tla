--------------------------- MODULE PayoutPipeline ---------------------------
(***************************************************************************)
(* Payouts of the service stack: the HTTP handlers of apps/api that         *)
(* approve work, dispute it, retry a payout and take provider webhooks; the *)
(* BullMQ queue; and the worker of apps/worker that calls the payment       *)
(* provider and books what the provider reports.                            *)
(*                                                                          *)
(* A payout row is identified by its assignment: the unique idempotency key *)
(* payout:<assignment> makes the two one to one.  Each statement the code   *)
(* runs outside a transaction is a step of its own, so a handler and a      *)
(* worker job are interrupted between any two of their statements.  Delays  *)
(* (next_retry_at, BullMQ backoff) are arbitrary.                           *)
(***************************************************************************)
EXTENDS Integers, FiniteSets

CONSTANTS Assignments,  \* the assignments whose work has been submitted
          MaxAttempts,  \* attempts of a queue job (6 in the code)
          RetryLimit,   \* retry_count below which finance may retry (6 in the code)
          Announced,    \* provider statuses the provider sends a callback for
          Copies,       \* event ids under which the provider may announce one fact
          RetryCap,     \* bound: provider calls explored per payout
          MaxIncidents  \* bound: crashes, failed calls, evictions and account reviews explored

ASSUME PipelineAssumption ==
  /\ MaxAttempts \in Nat \ {0}
  /\ Announced \subseteq {"ACCEPTED", "SUCCEEDED", "FAILED", "REVERSED"}
  /\ RetryLimit \in Nat
  /\ RetryCap \in Nat
  /\ MaxIncidents \in Nat

VARIABLES
  assignment,  \* job_assignments.status
  disputing,   \* progress of the createDispute handler
  status,      \* payouts.status, "NONE" while there is no row
  retryCount,  \* payouts.retry_count
  referenced,  \* whether payouts.provider_reference is set
  account,     \* worker_payment_accounts.status
  pending,     \* jobs a running handler is about to add to the queue
  jobState,    \* where a BullMQ job id is, "none" while unknown to the queue
  tries,       \* attemptsMade of a job
  stalled,     \* jobs BullMQ has already recovered once from a lost worker
  failing,     \* payouts whose worker "failed" listener has still to run
  received,    \* provider_webhooks rows
  processed,   \* provider_webhooks rows with status PROCESSED
  ledger,      \* number of ledger_entries with reference payout:<id>
  recon,       \* reconciliation_records.status, "NONE" while there is no row
  resolved,    \* whether reconciliation_records.resolved_at is set
  provider,    \* the payout as the provider knows it
  events,      \* what the provider has announced
  configured,  \* whether the worker has its provider key and licence
  incidents    \* incidents so far

assignmentVars == <<assignment, disputing>>
payoutVars == <<status, retryCount, referenced>>
queueVars == <<pending, jobState, tries, stalled, failing>>
bookVars == <<received, processed, ledger, recon, resolved>>
providerVars == <<provider, events>>
envVars == <<account, configured, incidents>>
vars == <<assignmentVars, payoutVars, queueVars, bookVars, providerVars, envVars>>

PayoutStatus == {"SCHEDULED", "PROCESSING", "PAID", "FAILED", "RETRY_QUEUED",
                 "ON_HOLD", "REVERSED"}
ReconStatus == {"PENDING", "MATCHED", "REVIEW_REQUIRED", "ADJUSTED", "IGNORED"}
ProviderStatus == {"NONE", "ACCEPTED", "SUCCEEDED", "FAILED", "REVERSED"}

\* An event id; "exact" tells whether the amount it reports is the payout's.
Event == [payout : Assignments, status : Announced,
          exact : BOOLEAN, copy : Copies]

\* The job ids the code composes: payout-<id>-<n> and webhook-<hash of event>.
ProcessJobs == [kind : {"payout.process"}, payout : Assignments, n : 0..RetryCap]
WebhookJobs == [kind : {"payout.webhook"}, event : Event]
Jobs == ProcessJobs \cup WebhookJobs
ProcessJob(a, n) == [kind |-> "payout.process", payout |-> a, n |-> n]
WebhookJob(e) == [kind |-> "payout.webhook", event |-> e]

\* Where a payout.process job stands between two statements of processPayout.
InFlight == {"selected", "marked", "accepted", "refused", "deferred"}
JobState == {"none", "waiting", "completed", "failed"} \cup InFlight

TypeOK ==
  /\ assignment \in [Assignments -> {"SUBMITTED", "APPROVED", "DISPUTED"}]
  /\ disputing \in [Assignments -> {"none", "inserted", "marked", "opened"}]
  /\ status \in [Assignments -> PayoutStatus \cup {"NONE"}]
  /\ retryCount \in [Assignments -> 0..RetryCap]
  /\ referenced \in [Assignments -> BOOLEAN]
  /\ account \in [Assignments -> {"VERIFIED", "PENDING_VERIFICATION"}]
  /\ pending \subseteq Jobs
  /\ jobState \in [Jobs -> JobState]
  /\ tries \in [Jobs -> Nat]
  /\ stalled \subseteq Jobs
  /\ failing \subseteq Assignments
  /\ received \subseteq Event
  /\ processed \subseteq Event
  /\ ledger \in [Assignments -> Nat]
  /\ recon \in [Assignments -> ReconStatus \cup {"NONE"}]
  /\ resolved \in [Assignments -> BOOLEAN]
  /\ provider \in [Assignments -> ProviderStatus]
  /\ events \subseteq Event
  /\ configured \in BOOLEAN
  /\ incidents \in 0..MaxIncidents

Init ==
  /\ assignment = [a \in Assignments |-> "SUBMITTED"]
  /\ disputing = [a \in Assignments |-> "none"]
  /\ status = [a \in Assignments |-> "NONE"]
  /\ retryCount = [a \in Assignments |-> 0]
  /\ referenced = [a \in Assignments |-> FALSE]
  /\ account \in [Assignments -> {"VERIFIED", "PENDING_VERIFICATION"}]
  /\ pending = {}
  /\ jobState = [j \in Jobs |-> "none"]
  /\ tries = [j \in Jobs |-> 0]
  /\ stalled = {}
  /\ failing = {}
  /\ received = {}
  /\ processed = {}
  /\ ledger = [a \in Assignments |-> 0]
  /\ recon = [a \in Assignments |-> "NONE"]
  /\ resolved = [a \in Assignments |-> FALSE]
  /\ provider = [a \in Assignments |-> "NONE"]
  /\ events = {}
  /\ configured \in BOOLEAN
  /\ incidents = 0

-----------------------------------------------------------------------------
(***************************************************************************)
(* The API handlers.                                                        *)
(***************************************************************************)

\* Defect for the checks: approval that tests only that it has not happened yet.
ApproveDisputedToo(a) ==
  /\ assignment[a] # "APPROVED"
  /\ status[a] = "NONE"
  /\ assignment' = [assignment EXCEPT ![a] = "APPROVED"]
  /\ status' = [status EXCEPT ![a] =
                  IF account[a] = "VERIFIED" THEN "SCHEDULED" ELSE @]
  /\ pending' = pending \cup {ProcessJob(a, 0)}
  /\ UNCHANGED <<disputing, retryCount, referenced, jobState, tries, stalled,
                 failing, bookVars, providerVars, envVars>>

\* approve: one transaction, then queue.add.  The insert selects the worker's
\* verified account, so without one the work is approved and no row appears.
Approve(a) ==
  /\ assignment[a] = "SUBMITTED"
  /\ assignment' = [assignment EXCEPT ![a] = "APPROVED"]
  /\ status' = [status EXCEPT ![a] =
                  IF account[a] = "VERIFIED" THEN "SCHEDULED" ELSE @]
  /\ pending' = pending \cup {ProcessJob(a, 0)}
  /\ UNCHANGED <<disputing, retryCount, referenced, jobState, tries, stalled,
                 failing, bookVars, providerVars, envVars>>

\* createDispute: three statements, each committed by itself, and no test of
\* the assignment's status.
InsertDispute(a) ==
  /\ disputing[a] = "none"
  /\ disputing' = [disputing EXCEPT ![a] = "inserted"]
  /\ UNCHANGED <<assignment, payoutVars, queueVars, bookVars, providerVars, envVars>>

DisputeAssignment(a) ==
  /\ disputing[a] = "inserted"
  /\ disputing' = [disputing EXCEPT ![a] = "marked"]
  /\ assignment' = [assignment EXCEPT ![a] = "DISPUTED"]
  /\ UNCHANGED <<payoutVars, queueVars, bookVars, providerVars, envVars>>

Holdable == {"SCHEDULED", "PROCESSING", "RETRY_QUEUED"}

HoldPayout(a) ==
  /\ disputing[a] = "marked"
  /\ disputing' = [disputing EXCEPT ![a] = "opened"]
  /\ status' = [status EXCEPT ![a] = IF @ \in Holdable THEN "ON_HOLD" ELSE @]
  /\ UNCHANGED <<assignment, retryCount, referenced, queueVars, bookVars,
                 providerVars, envVars>>

\* retry: finance puts a failed payout back, then queue.add under the current
\* retry_count.
RetryableOrHeld == {"FAILED", "RETRY_QUEUED", "ON_HOLD"}  \* defect for the checks
Retryable == {"FAILED", "RETRY_QUEUED"}

Retry(a) ==
  /\ status[a] \in Retryable
  /\ retryCount[a] < RetryLimit
  /\ status' = [status EXCEPT ![a] = "RETRY_QUEUED"]
  /\ pending' = pending \cup {ProcessJob(a, retryCount[a])}
  /\ UNCHANGED <<assignmentVars, retryCount, referenced, jobState, tries,
                 stalled, failing, bookVars, providerVars, envVars>>

\* ingestWebhook: a redelivered event id finds its row and does nothing; a new
\* one is inserted and committed before queue.add.
IngestWebhook(e) ==
  /\ e \in events \ received
  /\ received' = received \cup {e}
  /\ pending' = pending \cup {WebhookJob(e)}
  /\ UNCHANGED <<assignmentVars, payoutVars, jobState, tries, stalled, failing,
                 processed, ledger, recon, resolved, providerVars, envVars>>

\* resolve: finance closes a reconciliation record that needs review.
ResolveReconciliation(a) ==
  /\ recon[a] = "REVIEW_REQUIRED"
  /\ \E next \in {"MATCHED", "ADJUSTED", "IGNORED"} :
       recon' = [recon EXCEPT ![a] = next]
  /\ resolved' = [resolved EXCEPT ![a] = TRUE]
  /\ UNCHANGED <<assignmentVars, payoutVars, queueVars, received, processed,
                 ledger, providerVars, envVars>>

-----------------------------------------------------------------------------
(***************************************************************************)
(* The BullMQ queue.                                                        *)
(***************************************************************************)

\* queue.add ignores an id the queue still knows, finished jobs included.
AddJob(j) ==
  /\ j \in pending
  /\ pending' = pending \ {j}
  /\ jobState' = [jobState EXCEPT ![j] = IF @ = "none" THEN "waiting" ELSE @]
  /\ UNCHANGED <<assignmentVars, payoutVars, tries, stalled, failing, bookVars,
                 providerVars, envVars>>

\* The handler dies, or queue.add fails, after its statement was committed.
LoseAdd(j) ==
  /\ j \in pending
  /\ incidents < MaxIncidents
  /\ pending' = pending \ {j}
  /\ incidents' = incidents + 1
  /\ UNCHANGED <<assignmentVars, payoutVars, jobState, tries, stalled, failing,
                 bookVars, providerVars, account, configured>>

\* removeOnComplete and removeOnFail drop old finished jobs, and their ids.
EvictJob(j) ==
  /\ jobState[j] \in {"completed", "failed"}
  /\ incidents < MaxIncidents
  /\ incidents' = incidents + 1
  /\ jobState' = [jobState EXCEPT ![j] = "none"]
  /\ tries' = [tries EXCEPT ![j] = 0]
  /\ stalled' = stalled \ {j}
  /\ UNCHANGED <<assignmentVars, payoutVars, pending, failing, bookVars,
                 providerVars, account, configured>>

\* A job that throws waits for its next attempt or, after the last one, fails
\* and leaves the worker's "failed" listener to run.
AttemptFails(j) ==
  LET last == tries[j] + 1 >= MaxAttempts
  IN /\ tries' = [tries EXCEPT ![j] = @ + 1]
     /\ jobState' = [jobState EXCEPT ![j] = IF last THEN "failed" ELSE "waiting"]
     /\ failing' = IF last /\ j \in ProcessJobs THEN failing \cup {j.payout}
                                                ELSE failing
     /\ UNCHANGED <<pending, stalled>>

JobReturns(j) ==
  /\ jobState' = [jobState EXCEPT ![j] = "completed"]
  /\ UNCHANGED <<pending, tries, stalled, failing>>

\* The worker process dies with the job in flight: BullMQ hands a stalled job
\* out once more and fails it the second time.
CrashJob(j) ==
  /\ jobState[j] \in InFlight
  /\ incidents < MaxIncidents
  /\ incidents' = incidents + 1
  /\ jobState' = [jobState EXCEPT ![j] = IF j \in stalled THEN "failed" ELSE "waiting"]
  /\ stalled' = stalled \cup {j}
  /\ UNCHANGED <<assignmentVars, payoutVars, pending, tries, failing, bookVars,
                 providerVars, account, configured>>

-----------------------------------------------------------------------------
(***************************************************************************)
(* The worker: processPayout, statement by statement.                       *)
(***************************************************************************)

\* The rows its first query returns.
Selectable(a) ==
  /\ status[a] \in {"SCHEDULED", "RETRY_QUEUED", "FAILED"}
  /\ account[a] = "VERIFIED"

\* The query runs outside a transaction: its FOR UPDATE lock is gone when it
\* returns, so jobs of one payout may pass it together.
SelectPayout(j) ==
  /\ jobState[j] = "waiting"
  /\ configured
  /\ Selectable(j.payout)
  /\ jobState' = [jobState EXCEPT ![j] = "selected"]
  /\ UNCHANGED <<assignmentVars, payoutVars, pending, tries, stalled, failing,
                 bookVars, providerVars, envVars>>

SkipPayout(j) ==
  /\ jobState[j] = "waiting"
  /\ ~Selectable(j.payout)
  /\ JobReturns(j)
  /\ UNCHANGED <<assignmentVars, payoutVars, bookVars, providerVars, envVars>>

\* assertPayoutProviderOperational, or a missing provider key, throws first.
FailPreflight(j) ==
  /\ jobState[j] = "waiting"
  /\ ~configured
  /\ AttemptFails(j)
  /\ UNCHANGED <<assignmentVars, payoutVars, bookVars, providerVars, envVars>>

\* The update names the row only by id, whatever its status is by now.
MarkProcessing(j) ==
  LET a == j.payout
  IN /\ jobState[j] = "selected"
     /\ retryCount[a] < RetryCap
     /\ jobState' = [jobState EXCEPT ![j] = "marked"]
     /\ status' = [status EXCEPT ![a] = "PROCESSING"]
     /\ retryCount' = [retryCount EXCEPT ![a] = @ + 1]
     /\ UNCHANGED <<assignmentVars, referenced, pending, tries, stalled, failing,
                    bookVars, providerVars, envVars>>

\* A provider fact is announced under each of its event ids; delivery is later,
\* in any order, repeated, or never.
Announcement(a, fact, exact) ==
  {[payout |-> a, status |-> fact, exact |-> exact, copy |-> c] :
     c \in IF fact \in Announced THEN Copies ELSE {}}

\* Defect for the checks: a request without the key, which makes another payout.
ProviderTakesAgain(a) ==
  /\ provider' = [provider EXCEPT ![a] = "ACCEPTED"]
  /\ events' = events \cup Announcement(a, "ACCEPTED", TRUE)

\* The request carries the idempotency key of the payout: the provider creates
\* one payout however often it is asked.
ProviderTakes(a) ==
  IF provider[a] = "NONE"
  THEN /\ provider' = [provider EXCEPT ![a] = "ACCEPTED"]
       /\ events' = events \cup Announcement(a, "ACCEPTED", TRUE)
  ELSE UNCHANGED providerVars

CallAccepted(j) ==
  /\ jobState[j] = "marked"
  /\ ProviderTakes(j.payout)
  /\ jobState' = [jobState EXCEPT ![j] = "accepted"]
  /\ UNCHANGED <<assignmentVars, payoutVars, pending, tries, stalled, failing,
                 bookVars, envVars>>

\* A 4xx other than 408, 409 and 429.
CallRefused(j) ==
  /\ jobState[j] = "marked"
  /\ jobState' = [jobState EXCEPT ![j] = "refused"]
  /\ UNCHANGED <<assignmentVars, payoutVars, pending, tries, stalled, failing,
                 bookVars, providerVars, envVars>>

\* 408, 409, 429 or 5xx: the provider may have taken the request all the same.
CallDeferred(j) ==
  /\ jobState[j] = "marked"
  /\ ProviderTakes(j.payout) \/ UNCHANGED providerVars
  /\ jobState' = [jobState EXCEPT ![j] = "deferred"]
  /\ UNCHANGED <<assignmentVars, payoutVars, pending, tries, stalled, failing,
                 bookVars, envVars>>

\* fetch (or decryptAccount, in its arguments) throws: no statement follows, the
\* row stays as MarkProcessing left it.
CallThrows(j) ==
  /\ jobState[j] = "marked"
  /\ ProviderTakes(j.payout) \/ UNCHANGED providerVars
  /\ AttemptFails(j)
  /\ UNCHANGED <<assignmentVars, payoutVars, bookVars, envVars>>

StoreAccepted(j) ==
  /\ jobState[j] = "accepted"
  /\ status' = [status EXCEPT ![j.payout] = "PROCESSING"]
  /\ referenced' = [referenced EXCEPT ![j.payout] = TRUE]
  /\ JobReturns(j)
  /\ UNCHANGED <<assignmentVars, retryCount, bookVars, providerVars, envVars>>

StoreRefused(j) ==
  /\ jobState[j] = "refused"
  /\ status' = [status EXCEPT ![j.payout] = "FAILED"]
  /\ JobReturns(j)
  /\ UNCHANGED <<assignmentVars, retryCount, referenced, bookVars, providerVars, envVars>>

StoreDeferred(j) ==
  /\ jobState[j] = "deferred"
  /\ status' = [status EXCEPT ![j.payout] = "RETRY_QUEUED"]
  /\ AttemptFails(j)
  /\ UNCHANGED <<assignmentVars, retryCount, referenced, bookVars, providerVars, envVars>>

\* The "failed" listener of a job that used up its attempts.
HandleTerminalFailure(a) ==
  /\ a \in failing
  /\ failing' = failing \ {a}
  /\ status' = [status EXCEPT ![a] = IF @ = "RETRY_QUEUED" THEN "FAILED" ELSE @]
  /\ UNCHANGED <<assignmentVars, retryCount, referenced, pending, jobState, tries,
                 stalled, bookVars, providerVars, envVars>>

\* The listener is lost with its process.
LoseTerminalFailure(a) ==
  /\ a \in failing
  /\ incidents < MaxIncidents
  /\ failing' = failing \ {a}
  /\ incidents' = incidents + 1
  /\ UNCHANGED <<assignmentVars, payoutVars, pending, jobState, tries, stalled,
                 bookVars, providerVars, account, configured>>

\* Defect for the checks: only retries are swept.
DispatchRetriesOnly(a) ==
  /\ status[a] = "RETRY_QUEUED"
  /\ pending' = pending \cup {ProcessJob(a, retryCount[a])}
  /\ UNCHANGED <<assignmentVars, payoutVars, jobState, tries, stalled, failing,
                 bookVars, providerVars, envVars>>

\* dispatchDue, every minute: reads the due rows, then adds a job for each.
DispatchDue(a) ==
  /\ status[a] \in {"SCHEDULED", "RETRY_QUEUED"}
  /\ pending' = pending \cup {ProcessJob(a, retryCount[a])}
  /\ UNCHANGED <<assignmentVars, payoutVars, jobState, tries, stalled, failing,
                 bookVars, providerVars, envVars>>

-----------------------------------------------------------------------------
(***************************************************************************)
(* The worker: processWebhook, one transaction.                             *)
(***************************************************************************)

\* Defects for the checks: the provider's word stored untranslated, or anything
\* but a failure or a reversal taken for a payment.
NextStatusRaw(e) == e.status
NextStatusOptimistic(e) ==
  IF e.status \in {"REVERSED", "FAILED"} THEN e.status ELSE "PAID"

\* The status a provider announcement gives the payout.
NextStatus(e) ==
  IF e.status = "SUCCEEDED" THEN "PAID"
  ELSE IF e.status \in {"REVERSED", "FAILED"} THEN e.status
  ELSE "PROCESSING"

NextReconAnyAmount(e) ==  \* defect for the checks: the amounts are not compared
  IF NextStatus(e) = "PAID" THEN "MATCHED"
  ELSE IF NextStatus(e) = "PROCESSING" THEN "PENDING"
  ELSE "REVIEW_REQUIRED"

NextRecon(e) ==
  IF NextStatus(e) = "PAID" /\ e.exact THEN "MATCHED"
  ELSE IF NextStatus(e) = "PROCESSING" THEN "PENDING"
  ELSE "REVIEW_REQUIRED"

DebitAgain(a) == [ledger EXCEPT ![a] = @ + 1]  \* defect: no unique reference

\* insert ... on conflict(reference) do nothing
Debit(a) == [ledger EXCEPT ![a] = IF @ = 0 THEN 1 ELSE @]

\* Defects for the checks: the reference is left to StoreAccepted, or an event
\* that arrives before StoreAccepted is turned away.
ProcessWebhookNoReference(j) ==
  LET e == j.event
      a == e.payout
  IN /\ jobState[j] = "waiting"
     /\ e \notin processed
     /\ processed' = processed \cup {e}
     /\ status' = [status EXCEPT ![a] = NextStatus(e)]
     /\ ledger' = IF NextStatus(e) = "PAID" THEN Debit(a) ELSE ledger
     /\ recon' = [recon EXCEPT ![a] = NextRecon(e)]
     /\ JobReturns(j)
     /\ UNCHANGED <<assignmentVars, retryCount, referenced, received, resolved,
                    providerVars, envVars>>

ProcessWebhookInOrder(j) ==
  /\ status[j.event.payout] = "PROCESSING"
  /\ referenced[j.event.payout]
  /\ ProcessWebhookNoReference(j)

ProcessWebhook(j) ==
  LET e == j.event
      a == e.payout
  IN /\ jobState[j] = "waiting"
     /\ e \notin processed
     /\ processed' = processed \cup {e}
     /\ status' = [status EXCEPT ![a] = NextStatus(e)]
     /\ referenced' = [referenced EXCEPT ![a] = TRUE]
     /\ ledger' = IF NextStatus(e) = "PAID" THEN Debit(a) ELSE ledger
     /\ recon' = [recon EXCEPT ![a] = NextRecon(e)]
     /\ JobReturns(j)
     /\ UNCHANGED <<assignmentVars, retryCount, received, resolved, providerVars, envVars>>

\* The transaction rolls back: the database is lost, or the payout not found.
WebhookThrows(j) ==
  /\ jobState[j] = "waiting"
  /\ incidents < MaxIncidents
  /\ incidents' = incidents + 1
  /\ AttemptFails(j)
  /\ UNCHANGED <<assignmentVars, payoutVars, bookVars, providerVars, account, configured>>

-----------------------------------------------------------------------------
(***************************************************************************)
(* Outside src/: the payment provider, and the people who verify accounts   *)
(* and deploy the worker.                                                   *)
(***************************************************************************)

ProviderSettles(a, from, to) ==
  /\ provider[a] = from
  /\ provider' = [provider EXCEPT ![a] = to]
  /\ \E exact \in IF to = "SUCCEEDED" THEN BOOLEAN ELSE {TRUE} :
       events' = events \cup Announcement(a, to, exact)
  /\ UNCHANGED <<assignmentVars, payoutVars, queueVars, bookVars, envVars>>

ProviderSucceeds(a) == ProviderSettles(a, "ACCEPTED", "SUCCEEDED")
ProviderFails(a) == ProviderSettles(a, "ACCEPTED", "FAILED")
ProviderReverses(a) == ProviderSettles(a, "SUCCEEDED", "REVERSED")

ReviewAccount(a) ==
  /\ incidents < MaxIncidents
  /\ incidents' = incidents + 1
  /\ account' = [account EXCEPT ![a] =
                   IF @ = "VERIFIED" THEN "PENDING_VERIFICATION" ELSE "VERIFIED"]
  /\ UNCHANGED <<assignmentVars, payoutVars, queueVars, bookVars, providerVars,
                 configured>>

DeployConfiguration ==
  /\ ~configured
  /\ configured' = TRUE
  /\ UNCHANGED <<assignmentVars, payoutVars, queueVars, bookVars, providerVars,
                 account, incidents>>

-----------------------------------------------------------------------------
ApiStep ==
  \/ \E a \in Assignments : \/ Approve(a) \/ InsertDispute(a)
                            \/ DisputeAssignment(a) \/ HoldPayout(a)
                            \/ Retry(a) \/ ResolveReconciliation(a)
  \/ \E e \in Event : IngestWebhook(e)

PayoutJobStep(j) ==
  \/ SelectPayout(j) \/ SkipPayout(j) \/ FailPreflight(j) \/ MarkProcessing(j)
  \/ CallAccepted(j) \/ CallRefused(j) \/ CallDeferred(j) \/ CallThrows(j)
  \/ StoreAccepted(j) \/ StoreRefused(j) \/ StoreDeferred(j)

QueueStep(j) == AddJob(j) \/ LoseAdd(j) \/ EvictJob(j)

WorkerStep ==
  \/ \E j \in ProcessJobs : PayoutJobStep(j) \/ CrashJob(j)
  \/ \E j \in WebhookJobs : ProcessWebhook(j) \/ WebhookThrows(j)
  \/ \E a \in Assignments : HandleTerminalFailure(a) \/ LoseTerminalFailure(a)
                            \/ DispatchDue(a)

EnvironmentStep ==
  \/ \E a \in Assignments : ProviderSucceeds(a) \/ ProviderFails(a)
                            \/ ProviderReverses(a) \/ ReviewAccount(a)
  \/ DeployConfiguration

Next ==
  \/ ApiStep
  \/ \E j \in Jobs : QueueStep(j)
  \/ WorkerStep
  \/ EnvironmentStep

Spec == Init /\ [][Next]_vars

(***************************************************************************)
(* Weak fairness of what runs by itself: a handler that is alive goes on to *)
(* queue.add, the worker takes its jobs and finishes their statements (fetch *)
(* times out by default), and the scheduler repeats dispatchDue.  None of   *)
(* it is assumed of users, of the provider or of incidents.                 *)
(***************************************************************************)
Fairness ==
  /\ \A j \in Jobs : WF_vars(AddJob(j))
  /\ \A j \in ProcessJobs : WF_vars(PayoutJobStep(j))
  /\ \A j \in WebhookJobs : WF_vars(ProcessWebhook(j))
  /\ \A a \in Assignments : WF_vars(DispatchDue(a)) /\ WF_vars(HandleTerminalFailure(a))

FairSpec == Spec /\ Fairness

-----------------------------------------------------------------------------
(***************************************************************************)
(* Safety.                                                                  *)
(***************************************************************************)
Processed(a, fact) == {e \in processed : e.payout = a /\ e.status = fact}

\* The ledger holds exactly one debit for a payout the provider reported paid,
\* under however many event ids and in whatever order, and none otherwise
\* (processWebhook: transaction, unique reference).
LedgerRecordsEachSuccessOnce ==
  \A a \in Assignments :
    ledger[a] = IF Processed(a, "SUCCEEDED") = {} THEN 0 ELSE 1

\* No debit is booked for money the provider has not disbursed, although calls
\* time out, jobs rerun and announcements overtake the worker's own updates.
BookedMeansDisbursed ==
  \A a \in Assignments : ledger[a] > 0 => provider[a] \in {"SUCCEEDED", "REVERSED"}

\* Whoever reads PAID finds the debit and the provider's reference, even when
\* the webhook comes before the answer to the request that created the payout.
PaidIsBooked ==
  \A a \in Assignments : status[a] = "PAID" => ledger[a] = 1 /\ referenced[a]

\* A reconciliation record no person has decided says MATCHED only when the
\* provider reported success with the expected amount.
MatchedIsExact ==
  \A a \in Assignments :
    recon[a] = "MATCHED" /\ ~resolved[a] =>
      \E e \in Processed(a, "SUCCEEDED") : e.exact

(***************************************************************************)
(* The inductive invariant behind the three properties of the books.        *)
(***************************************************************************)

\* A webhook job, queued or about to be, names a row of the inbox; rows are
\* announcements; processed rows are rows.
InboxIsGenuine ==
  /\ \A j \in WebhookJobs : j \in pending \/ jobState[j] # "none" => j.event \in received
  /\ processed \subseteq received
  /\ received \subseteq events

\* The provider announces what has happened.
EventsAreFacts ==
  \A e \in events :
    /\ provider[e.payout] # "NONE"
    /\ e.status = "SUCCEEDED" => provider[e.payout] \in {"SUCCEEDED", "REVERSED"}

\* A job past its first query, and a payout at the provider, have a row.
WorkHasRow ==
  /\ \A j \in ProcessJobs : jobState[j] \in InFlight => status[j.payout] # "NONE"
  /\ \A a \in Assignments : provider[a] # "NONE" => status[a] # "NONE"

IInv ==
  /\ TypeOK
  /\ InboxIsGenuine
  /\ EventsAreFacts
  /\ WorkHasRow
  /\ LedgerRecordsEachSuccessOnce
  /\ PaidIsBooked

\* Work that was not approved yet has no payout: no other statement makes a row.
SubmittedHasNoRow ==
  \A a \in Assignments : assignment[a] = "SUBMITTED" => status[a] = "NONE"

\* Nothing is under way for a payout: no job between two of its statements, no
\* announcement left to process.
Quiet(a) ==
  /\ \A j \in ProcessJobs : j.payout = a => jobState[j] \notin InFlight
  /\ \A e \in events : e.payout = a => e \in processed

\* With nothing under way, no queued job, sweep, retry or late listener moves a
\* payout out of PAID, REVERSED or ON_HOLD (the status guards of retry,
\* dispatchDue, processPayout and the "failed" listener together).
SettledStaysWhenQuiet ==
  [][\A a \in Assignments :
       status[a] \in {"PAID", "REVERSED", "ON_HOLD"} /\ Quiet(a) =>
         status'[a] = status[a]]_vars

\* Once createDispute is through, a payout that no job has marked is on hold or not
\* there, between whichever of its three statements the approval fell, and whatever
\* queue, sweep and finance ask for: only a job that had selected the row before the
\* hold takes it further.
UntriedIsHeld ==
  \A a \in Assignments :
    disputing[a] = "opened" /\ retryCount[a] = 0 => status[a] \in {"NONE", "ON_HOLD"}

\* A payout that was never marked has been asked of nobody.
UntriedIsNew ==
  \A a \in Assignments : retryCount[a] = 0 =>
    /\ status[a] \in {"NONE", "SCHEDULED", "ON_HOLD"}
    /\ provider[a] = "NONE"
    /\ \A j \in ProcessJobs :
         j.payout = a => jobState[j] \notin InFlight \ {"selected"}

\* The assignment is DISPUTED before the payout is held, and stays so.
HoldFollowsMark ==
  \A a \in Assignments : disputing[a] \in {"marked", "opened"} => assignment[a] = "DISPUTED"

HoldInv == UntriedIsHeld /\ UntriedIsNew /\ HoldFollowsMark

(***************************************************************************)
(* The pipeline pays once: PayOnce, read off the provider and the ledger.   *)
(***************************************************************************)
Phase == [a \in Assignments |->
            IF provider[a] \in {"SUCCEEDED", "REVERSED"} THEN "disbursed"
            ELSE IF provider[a] # "NONE" THEN "requested"
            ELSE IF status[a] # "NONE" THEN "scheduled"
            ELSE "open"]

Abstract == INSTANCE PayOnce WITH phase <- Phase, booked <- ledger

\* Every step of handlers, worker and provider is a step of PayOnce or leaves
\* its state alone.
PaysOnce == Abstract!Spec

-----------------------------------------------------------------------------
(***************************************************************************)
(* Liveness.                                                                *)
(***************************************************************************)

\* A webhook job in the queue is processed, though its transaction may fail
\* fewer times than it has attempts.
QueuedWebhookIsProcessed ==
  \A e \in Event :
    (jobState[WebhookJob(e)] = "waiting") ~> (e \in processed)

\* A scheduled payout is attempted or put on hold even if the queue.add of its
\* approval is lost: dispatchDue finds the row.
ScheduledIsAttempted ==
  \A a \in Assignments :
    [](configured /\ account[a] = "VERIFIED") =>
      ((status[a] = "SCHEDULED") ~> (status[a] # "SCHEDULED"))

-----------------------------------------------------------------------------
(***************************************************************************)
(* What documents of the repository say, and the code does not do.          *)
(***************************************************************************)

\* lib/domain/finance-state-machine.ts: PAID leads only to REVERSED.
PaidIsFinal ==
  [][\A a \in Assignments :
       status[a] = "PAID" => status'[a] \in {"PAID", "REVERSED"}]_vars

\* docs/api.md: opening a dispute puts the payout ON_HOLD.
DisputeHoldsPayout ==
  \A a \in Assignments :
    disputing[a] = "opened" => status[a] \notin Holdable

\* docs/payment-flow.md: the webhook is persisted, then the worker writes
\* status, ledger and reconciliation.
PersistedWebhookIsProcessed == \A e \in Event : (e \in received) ~> (e \in processed)

\* docs/payment-flow.md: a transient error is retried, so a payout the provider
\* has never seen does not stay PROCESSING.
UnseenPayoutIsRetried ==
  \A a \in Assignments :
    (status[a] = "PROCESSING" /\ provider[a] = "NONE") ~>
      (status[a] # "PROCESSING" \/ provider[a] # "NONE")
=============================================================================
