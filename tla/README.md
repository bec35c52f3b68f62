# Formal models of Pulihkanaku

TLA+ models of the parts of this repository that move work and money, TLC
configurations that check them on small instances, and TLAPS proofs for all
sizes. `PROJECT.json` maps every definition to the lines it stands for and lists
runs, mutants, findings, hazards and theorems.

## The system

The repository holds two implementations of the same labour marketplace.

**Service stack.** A NestJS API (`apps/api`), a BullMQ worker (`apps/worker`),
Postgres (`packages/database`), Redis, an object store and a payment provider
(Xendit Payouts). Handlers and worker run concurrently; they talk through rows
and through jobs in one queue. Some handlers use a transaction, many commit
statement by statement.

**Hosted stack.** Next.js route handlers (`app/api/v1`) over Cloudflare D1. A
handler reads with one or two queries, decides, and writes with one `batch`,
which D1 runs as a transaction. There is no queue. The provider is a pair of
`mock-*` endpoints, which production refuses.

| Component | State | Operations | Interacts through | What is hard | What makes it correct |
|---|---|---|---|---|---|
| Payouts, service (`payouts.ts`, `core-domain.ts` approve and createDispute, worker `main.ts`) | payouts, ledger, reconciliation, webhook inbox, queue jobs | approve, dispute, retry, webhook, resolve reconciliation; processPayout, processWebhook, dispatchDue, failed listener | rows, BullMQ job ids, HTTP calls and callbacks of the provider | statements without a transaction, repeated jobs, lost `queue.add`, early, late and repeated webhooks | money leaves once, the ledger has it once and only if it left, disputed work is not paid |
| Settlement, hosted (`assignments/*`, `disputes/*`, `payouts/*`) | assignment, evidence, dispute, payouts, ledger | check-in to approve, dispute, resolve, mock-process, mock-complete | rows, versions, unique indexes | every batch acts on a stale read | approve what was read, holds last until a decision, paid once and booked |
| Jobs and funding, hosted (`jobs/*`, `payments/*`, `applications/*`) | job, payments, ledger, applications, assignments | create, transition, fund, confirm, apply, accept | the same | the same; two invoices for one job | legal transitions, credit matches payment, one assignment per acceptance |
| Marketplace and documents, service (`core-domain.ts`, `documents.ts`, worker `scanDocument`) | jobs, applications, assignments, evidence, objects, scan jobs | create, patch, publish, fund, apply, decide, attendance, submit; presign, complete, scan | rows, queue, object store | evidence checked before the update that relies on it, repeated and failing scans, edits beside a publication | submitted work has sound evidence, a published job is edited by nobody who read it published |
| Sign-in, service (`auth.ts`) | credentials, sessions, recovery tokens | login, logout, revoke, reset | rows, Redis | failures counted from a stale row, a login beside a reset | guesses are bounded, old sessions end, a token resets once |
| One-time codes, service (`auth.ts`, `infrastructure.module.ts`) | otp_requests, two counters in Redis | request, verify | rows, Redis, queue | codes read before they are consumed, crash between increment and expiry | guesses and grants are bounded, counters end |
| Accounts, hosted (`lib/security/auth.ts`, `auth/*`) | users, credentials, sessions, limiter rows | register, login, logout, revoke | rows | a limiter and a lock that write what they computed from a stale row | admissions in a window are bounded |
| Verification and onboarding, hosted (`verifications/*`, `onboarding`, `internal/verification-maintenance`) | submissions, documents, objects, profile | onboard, submit, review, expire | rows, object store | uploads that fail half-way, two reviewers, expiry beside both | documents shown exist, verified only on documents |
| Messaging and risk, hosted (`conversations/*`, `admin/risk-cases`) | conversation, messages, risk events and cases, the cursor of a stream | open, send, moderate, stream, resolve | rows, polling | messages stamped before they are inserted, equal stamps | what a stream leaves out came late or is tied |
| Messaging, notifications, risk, SLA, support, service (`operations.ts`, worker) | messages, notifications, risk events and cases, tickets | send, deliver, record risk, escalate | rows, queue | crash in the middle of a fan-out or between event and case | (not modelled) |
| Content (`content.ts`, `admin/content`) | versioned entries | create, update | rows | concurrent edits | (not modelled) |
| Pure functions (`lib/domain`) | none | quote, match, normalise, permit | calls | rounding and bounds | (not modelled) |

The interface (React pages), deployment, health, observability and
preflight code are glue without state the others rely on.

## Modules

| Module | Models |
|---|---|
| `PayOnce` | What paying promises: scheduled, requested, disbursed at most once, in this order; booked once and only after disbursement. |
| `PayoutPipeline` | The payouts of the service stack. |
| `PayoutPipelineProofs` | Its proofs, with refinement of `PayOnce`. |
| `SettleOnce` | What settling promises: a dispute holds every payout that is due, only a decision lets them go and all alike, and what is in the ledger is not paid again. |
| `HostedSettlement` | Settlement of one assignment in the hosted stack. |
| `HostedJobs` | A job of the hosted stack until its workers are accepted. |
| `HostedVerification` | Onboarding, submission, review and expiry of one account of the hosted stack. |
| `HostedAccounts` | Limiter, registration, login and sessions of one account of the hosted stack. |
| `HostedMessages` | One conversation of the hosted stack, its risk cases, and one reader's stream. |
| `SignIn` | Login, lock, sessions and reset of one account of the service stack. |
| `OneTimeCodes` | One-time codes of one identifier, with their counters, in the service stack. |
| `Marketplace` | One job, one application and its evidence in the service stack. |
| `StaleCounts` | How far actors that write back one more than they read can count: the measure behind the bounds of `SignIn` and `HostedAccounts`. No code of its own. |
| `...Proofs` | The proofs of each; `HostedSettlementProofs` has the refinement of `SettleOnce`; `HostedJobsProofs` and so on are alike. Those of `HostedAccounts` are in `SignInProofs`, of an instance, because they share its lemmas. |
| `MC...` | Symmetry sets for the runs. |

**PayoutPipeline.** One row of `payouts` belongs to one assignment (unique key
`payout:<assignment>`), so rows are functions of the assignment. `jobState` holds a BullMQ
job by the id the code composes (`payout-<id>-<retry_count>`,
`webhook-<hash>`): adding an id the queue still knows does nothing, finished jobs
included, until `EvictJob`. `pending` holds what a handler that has committed
will add next. `processPayout` is a chain of actions, one per
statement: `SelectPayout`, `MarkProcessing`, `Call...`, `Store...`; its query
locks rows only until it returns because it runs outside a transaction.
`createDispute` is three actions for the same reason. `approve`,
`ingestWebhook` and `processWebhook` are transactions and so single actions, followed by
`AddJob` where they add a job. `BEGIN`-less statements, crashes (`CrashJob`, `LoseAdd`,
`LoseTerminalFailure`), a transaction that fails (`WebhookThrows`) and account
reviews count against `MaxIncidents`. The provider is external: it takes an idempotent
request or refuses it, may take one whose answer is lost, settles, fails or reverses, and
announces what happened under any number of event ids, with the expected amount or another.

**HostedSettlement** and **HostedJobs.** `request[r]` is a handler between its
query and its batch: `Read...` actions carry the guards the code evaluates on the row read,
the actions named after the handlers carry the WHERE clauses. A
statement that matches nothing lets the rest of its batch run; a broken unique
index rolls all of it back. This is where the two stacks differ from a model
with atomic handlers, and where all of their races live. Payout rows are known by
what inserted them (an approval or a decision), payments by
idempotency key and applications by worker, which unique indexes and `NOT EXISTS`
make names.

**HostedVerification.** The same two phases. `submit` also puts objects: one `PutObject`
each, before the batch, and one deletion each when a put or the batch throws, so
that a crash leaves objects without rows but never rows without objects. A
batch that throws changed nothing. `Expire` is the maintenance request, which rolls back when
one of its notifications exists already. `role` is fixed; onboarding writes the profile
beside all of this.

**HostedAccounts.** Every query and every update is a step, because the
limiter does not use a transaction. The end of a window, of a block and of a lock
are actions of the environment. A password is right or wrong by choice.

**SignIn** and **OneTimeCodes** split `auth.ts` at the recovery token: `verifyOtp` grants
it in the second, `resetPassword` takes it in the first. Each await is a step: a login
holds the failure count and the password it read; a reset has taken its token, then
changes the password, then revokes. Passwords are generations. `OneTimeCodes` keeps
what a failed request has still to undo (`left`): its row, its two counters.

**Marketplace.** Transactions are single actions; `patchJob`, `submit` and
`completeEvidence` are requests between two awaits. `scanJob` tells which slot holds a job. A slot
may lose the lock of its job and go on (`Stall`), so two runs of one job interleave
statement by statement.

**HostedMessages.** A request takes its time stamp before its insert. `Poll` sends the
oldest rows ahead of the cursor, any of equal ones first, up to the limit.

## What the runs check

Properties hold (`pass`):

* `payout_calls`: a payout through two provider calls, with queue retries, finance
  retries, the sweep and a dispute anywhere between. Books are genuine
  (`BookedMeansDisbursed`), settled payouts stay while nothing is under way for
  them (`SettledStaysWhenQuiet`), a dispute that is through has stopped every payout no job
  had marked, also one whose approval fell between its statements
  (`UntriedIsHeld`), and every step is one of `PayOnce` or none (`PaysOnce`), which it would
  not be if requests lost their idempotency key.
* `payout_announcements`: success, failure and reversal under two event ids each, in every
  order. One debit per success, MATCHED for the exact amount only.
* `payout_live`: one incident anywhere. A queued webhook is processed although its
  transaction fails once; a scheduled payout is attempted or held although its
  `queue.add` is lost, since the sweep finds the row.
* `hosted_races`: two requests in flight, two disputes, every decision. Every batch is a step
  of `SettleOnce` or none (`SettlesOnce`): an approval puts a payout where there was none, a
  decision moves all of them, a payout is PAID in the batch that books it. Held
  payouts wait for a decision, and the business approves the submission it read.
* `jobs_races`: two requests, two invoices, two workers. Legal moves only, credit matches
  payment, jobs are listed and applied for only when paid, one assignment per acceptance.
* `verification_reviews`: two requests, three submissions, of a worker or a business. Every document
  in a row can be opened (`DocumentsAreStored`); nobody is verified without a decision on
  the documents the role must show (`VerifiedOnDocuments`); active submissions are no more
  than requests (`ActiveAreConcurrent`), since no index stops the second.
* `accounts_limits`: two requests against the limiter. What its lost updates let through in a
  window is bounded (`AdmissionsAreBounded`), and the bound is met.
* `signin_races`: two requests, the lock at five failures. Twenty wrong passwords, not five, may be
  looked at before the account stays locked (`GuessesAreBounded`, again exact);
  only a login that read the old password leaves a session after a reset (`OldSessionsAreLate`); a
  token resets once.
* `codes_races`: two requests, two codes. Guesses at a code and uses of it exceed the limit
  only by requests in flight (`AttemptsAreBounded`, `GrantsAreConcurrent`); a counter
  without expiry is about to get one, unless a process died (`CountersEnd`).
* `marketplace_evidence`: two requests, two slots, two pieces of evidence. Submitted work has an
  object that is there and not infected, even if its row says ERROR by then
  (`SubmittedHasEvidence`); a published job is edited only by a patch that read the
  draft and names a version ahead of the one it read (`PublishedEditsAreAhead`), as
  the handler compares the two with each other nowhere.
* `messages_stream`: three messages of two requests. A message the stream has passed over was
  inserted behind the cursor, or shares a millisecond with one sent (`PassedAreLateOrTied`).

Distinct states: `payout_calls` 719 914, `payout_announcements` 255 158, `payout_live` 96 702,
`hosted_races` 345 290, `jobs_races` 172 366, `verification_reviews` 129 254, `accounts_limits`
1 887 491, `signin_races` 337 632, `codes_races` 3 630 438, `marketplace_evidence` 2 322 182,
`messages_stream` 401 710.

A document and the code disagree (`violation`; `findings` quotes the document):

* `payout_dispute_hold`: a payout selected before the hold is paid after it.

Every property of a passing run has a mutant: a defect operator beside the
definition it replaces (a dropped guard, a missing reset, an insert without its
unique index) that the run then refutes.

### Seen on the way

Seven more statements of documents and messages are definitions that no run checks, because the code does
not keep them. To see TLC refute one, add it to the configuration named (the two of
`HostedSettlement` are theorems where requests do not overlap):

| Definition | Says | What the code does | Configuration |
|---|---|---|---|
| `PaidIsFinal` | docs: PAID may only be reversed | the worker's late update puts it back to PROCESSING | `PayoutPipeline_live.cfg` with `Spec` and `MaxIncidents = 0`, as PROPERTY |
| `PersistedWebhookIsProcessed` | a persisted webhook is processed | not if its `queue.add` was lost | `PayoutPipeline_live.cfg`, as PROPERTY |
| `UnseenPayoutIsRetried` | a transient error is retried | a request that throws leaves PROCESSING for ever | `PayoutPipeline_live.cfg` with `Announced = {}` and `MaxIncidents = 0`, as PROPERTY |
| `DecisionStands` (`HostedSettlement`) | a decision for the business reverses the payout | the loser of two decisions schedules it again | `HostedSettlement_races.cfg`, as INVARIANT |
| `OnePayoutPerAssignment` | versions lock | an approval that lost to a dispute adds a second payout | `HostedSettlement_races.cfg`, as INVARIANT |
| `PublishedIsNotEdited` | `patchJob`'s own message: only a draft can be edited | the patch reads the draft, the job is published, and the version the client sent is the one the publication set | `Marketplace_evidence.cfg`, as PROPERTY |
| `PublishedIsPaid` | publication needs a PAID invoice | `transition` does not ask | `HostedJobs_races.cfg`, as INVARIANT |

Nine more say what the code means to keep; documents speak of them in general words at most
(`docs/onboarding-verification.md:16` of "review dengan optimistic locking", which holds of the submission but
not of the profile: `VerifiedIsApproved`). TLC refutes
each with two requests (add it to the configuration as an INVARIANT); with one at a time each
is a theorem, so that these are races and not rules that are wrong:

| Definition | Says | What two requests do | Configuration |
|---|---|---|---|
| `PaidAsBooked` | the ledger has the amount of the payout | a decision changes the amount between the query of a completion and its batch | `HostedSettlement_races.cfg` |
| `NotOverpaid` | an assignment is paid no more than the job pays | an approval that lost to a decision pays beside it | `HostedSettlement_races.cfg` |
| `PaidFunds` | money that came in funds the job | the job is cancelled between query and batch of a confirmation | `HostedJobs_races.cfg` |
| `VerifiedIsApproved` | the verified have an approved submission | the loser of two reviews updates the profile | `HostedVerification_reviews.cfg` |
| `OneActive` | one submission to decide on | two submissions see none that is active | `HostedVerification_reviews.cfg` |
| `OneOpenCase` | one open case of an account | two messages see none that is open | `HostedMessages_stream.cfg`, with two `Cases` |
| `MissedAreTied` | a reader misses only equal time stamps | a message is stamped before another and inserted after it | `HostedMessages_stream.cfg` |
| `NoOldSession` | no session outlives a reset | a login read the hash before the reset | `SignIn_races.cfg` |
| `OneUse` | a code grants once, within its attempts | both read the row before it is consumed | `OneTimeCodes_races.cfg` |

The models also show the following, and the properties are stated so that they hold in
spite of it. `docs/authentication.md:29` ("Akun dikunci 15 menit setelah lima kata sandi salah", locked after
five wrong passwords) says otherwise of the lock, the line above of the reviewers; of the rest no document speaks.

* Verification: the losing reviewer still updates the profile, in spite of optimistic locking; the expiry of an old approval
  demotes an account with a newer one; onboarding again resets a VERIFIED worker; a business may be
  edited under review.
* Sign-in: a late failure lowers the count and lifts the lock, so more than five passwords are
  looked at (`GuessesAreBounded` says how many); a login across a reset leaves a session
  opened with the old password.
* One-time codes: parallel requests may all be granted by one code; the report of a brute
  force may be lost; a crash between INCR and EXPIRE blocks an identifier until somebody
  clears it; undoing one request clears the hourly count of all.
* Accounts: a late write of the limiter lifts a block or restarts the window; a registration whose session
  fails answers 409 although the account exists.
* Marketplace: `submit` relies on evidence read before; a late ERROR replaces a verdict; evidence
  whose job was never queued is never scanned; acceptance ignores `worker_count`.
* Messages: a crash before the risk event is not made up for by the repeated request; two
  cases may be open at once; who joins the business later never takes part; BLOCKED messages are listed and
  streamed.

### Bounds

* One assignment in the payout runs: its rows, jobs, events and ledger
  reference are disjoint from any other's. Two provider calls (`RetryCap`) are the first
  number at which calls of different jobs interleave; attempts
  (`MaxAttempts`, six in the code) are two, so that a first and a last one exist.
  `payout_announcements` has one call and no incident but three facts, two event ids
  each and both amounts; `payout_live` has one incident, which is every single
  fault at every point.
* Two requests in flight, everywhere: a stale read needs one request to read and another to
  write. Each module follows one job, account, identifier or conversation: the rows of
  others are disjoint. Where a bound depends on the number of requests (`GuessesAreBounded`,
  `AdmissionsAreBounded`, `AttemptsAreBounded`) it is stated with it.
* `hosted_races`, `jobs_races`: two disputes, as a second can follow a decision. `Pay = 2`
  leaves room for a share between nothing and all. `MaxVersion` (7, 10) stops new requests, not
  those in flight; seven versions are check-in, check-out, submission, revision,
  resubmission and a dispute; ten take a job through suspension and a second publication.
* `verification_reviews`: three submissions are a first that is approved, one that renews it,
  and one more beside.
* `accounts_limits`: limits of 2 and 1 instead of 10 and 5, and two failures; `MaxCount` 4 is above what
  any of them reaches. `signin_races` has the code's five failures.
* `codes_races`: two codes, two attempts each and two an hour, so that each limit has a
  value below, at and above it (`MaxCount` 3).
* `marketplace_evidence`: two slots and two attempts, so that a job runs twice at the same time and
  once more; `MaxVersion` 4 is creation, an edit, publication and funding. It also bounds the version a
  client may send, which the code takes as it comes, so that versions behind, at and ahead of the job's occur.
* `messages_stream`: three messages in two milliseconds with a poll of one row (fifty in the
  code): ties, a late insert and a cut poll all occur.
* Deadlock checking is off: all work may be done, and the bounds stop the rest.

### Fairness

Only `PayoutPipeline` states liveness: it is the one module with a mechanism, the queue and the sweep,
that runs by itself. Its `FairSpec` assumes weak fairness of what runs by itself: a
live handler reaches `queue.add`; BullMQ hands waiting jobs to the worker, which
runs their next statement (`fetch` has a default timeout); `dispatchDue` is
repeated every minute; the failed listener runs. Nothing is assumed of users,
provider, or operators. `ScheduledIsAttempted` is conditional on a configured
worker and a verified account, because the code attempts nothing otherwise.

## What is proved

For every value of the constants, from the assumptions the modules state about
them (`PipelineAssumption`, `SettlementAssumption`, `JobsAssumption`, `VerificationAssumption`,
`AccountsAssumption`, `SignInAssumption`, `CodesAssumption`, `MarketplaceAssumption`, `MessagesAssumption`: numbers are natural, sets
that are counted are finite, names of states are no slots). Each proof module shows that `Init`
implies `IInv` (or the invariants one by one), that every action preserves it, and that the properties follow.

* **PayoutPipeline.** `TypeOK`, and the invariant `IInv`, which strengthens the
  ledger property: rows of the inbox are announcements and queued webhook jobs name
  rows (`InboxIsGenuine`), announcements are facts of the provider
  (`EventsAreFacts`), a job past its query and a payout at the provider have a row
  (`WorkHasRow`). Without the first two a debit could not be traced to a disbursement;
  without the third a late `Store...` could create a status for a payout that does not
  exist, and the refinement would skip "scheduled". From it follow
  `LedgerRecordsEachSuccessOnce`, `PaidIsBooked`, `BookedMeansDisbursed`,
  and `PaysOnce`: every step maps to a step of `PayOnce` or leaves its state alone.
  `UntriedIsHeld` needs that a payout never marked has been asked of nobody, so no
  announcement and no late answer moves it (`UntriedIsNew`), and that the assignment is DISPUTED
  before the payout is held (`HoldFollowsMark`), so no approval comes after the hold. `MatchedIsExact` is inductive with the types;
  `SettledStaysWhenQuiet` needs in addition that work that waits for approval has no row
  (`SubmittedHasNoRow`), or an approval could put a settled payout back to SCHEDULED.
* **HostedSettlement.** `IInv` says that requests hold snapshots of the past
  (`ReadsAreSnapshots`: no version from the future, and the same version means
  the same submission), that what a submission was let through for is not taken
  back (`SubmitReadsAreComplete`), that an approval's payout comes with its payable
  (`PayoutHasPayable`, without which an approval could overwrite a held payout), that
  completions and entries of the ledger are of payouts that are there (`CompletesAreOfRows`), and that
  a decision for the business pays nothing (`BusinessPaysNothing`, without which its batch could
  both void and insert). From it: `SubmittedIsComplete`, `PaidIsBooked`, the action properties
  `PaidOnce`, `HeldUntilDecided`, `ApprovesWhatItRead`, and the refinement `SettlesOnce`, handler by
  handler (`ApproveSettles`, `DisputeSettles`, `DecisionSettles`, `CompletionSettles`): an
  approval inserts or stutters, a dispute holds or stutters, a decision decides, inserts or
  stutters, a completion pays, books late, or is rolled back. Reads and `Process` stutter.
  Where requests do not overlap (`OneAtATime`): `OnePayoutPerAssignment`, `PaidAsBooked`, `NotOverpaid`, and,
  with one dispute, `DecisionStands`. Their
  invariant is `AloneInv`: what a request has read stands until its batch (`ReadsStand`), an open
  dispute stops the work (`OpenDisputeStopsWork`), no approval follows a decision that paid
  (`DecisionPaysAlone`), a reversal ends the assignment (`ReversalEnds`).
* **HostedJobs.** `IInv` says that what a request was let through for stands
  until its batch runs (`MovesAreLegal`, `ReadsStand`, `FundedIsPaid`). From it:
  `PaidIsCredited`, `AppliedJobIsPaid`, `AcceptedIsAssignedOnce`, `FollowsTransitions`. Where
  requests do not overlap a confirmation meets the job it read, and `PaidFunds` follows.
* **HostedVerification.** `IInv` says whose the objects in flight are (`UploadsAreOwn`: a
  submission's uploads belong to one request and to no row, so its clean-up deletes nothing
  that is shown), that reviews are of rows (`ReviewsAreOfRows`), and that
  active submissions leave room for the requests about to insert one
  (`RoomForSubmits`). From it: `DocumentsAreStored`, `VerifiedOnDocuments`,
  `ActiveAreConcurrent`. `DecisionKept` adds that a decision is not taken back (`DecisionStands`). Where
  requests do not overlap, a review meets the version it read and a submission no active one
  (`ReviewsStand`), which gives `VerifiedIsApproved` and `OneActive`.
* **SignIn.** `TypeOK`; `OldSessionsAreLate`, which is inductive with it; `TokenResetsOnce`, by counting spent
  tokens against resets. `GuessesAreBounded` by the measure of `StaleCounts`: `Left` says how many
  failures of its own each request is from the lock, its tally how many requests have at least k
  left. A wrong password lowers the tally at what that request had left and raises it only further
  down, so it passes a tally that does not come back; as many were passed as passwords looked at
  (`GuessesArePassed`), and the tallies are C(MaxFailures + R, R) (`TalliesChosen`). That count
  needs an induction over numbers, which the library's theorem cannot give these provers: `NatInd`
  proves it for sets of numbers, from the pigeonhole principle for finite sets, and `FactorialDef`
  the recursion of the library's factorial. For R = 1 the bound is the limit (`GuessesOfOne`).
  Where requests do not overlap a login holds the password of its time, and `NoOldSession` follows.
* **HostedAccounts** (in `SignInProofs`). `TypeOK`, and `AdmissionsAreBounded` by the same measure
  (`AdmissionsArePassed`). Windows add a case: in one that is over, everybody who knows has the
  whole limit left, and each request that does not know is let through once more, which is
  the R beside the binomial. For R = 1 it is the limit and one (`AdmissionsOfOne`). The
  theorems assume what the module does of its constants (`AccountsAssumption`).
* **OneTimeCodes.** `IInv` counts requests in flight: a wrong code trades a request for an attempt
  (`AttemptsInFlight`), a right one for a grant (`GrantsInFlight`); rows come in order and
  requests are of rows (`RowsInOrder`, `RequestsAreOfRows`, `ReportsAreRight`). From it:
  `AttemptsAreBounded`, `GrantsAreConcurrent`, `CountersEnd`. With one request the two bounds are one
  grant and the limit of attempts (`OneUse`).
* **Marketplace.** `IInv`: CLEAN is said of sound objects only, a run deletes infected ones only, a
  submission in flight has seen sound evidence, a patch in flight has read the draft at a version that publication leaves behind (`CleanIsSound`,
  `RunsAreRight`, `SubmitsAreSound`, `EditsReadDrafts`). From it:
  `SubmittedHasEvidence`, `PublishedEditsAreAhead`.
* **HostedMessages.** `IInv` adds `SentAreStored`; from it `PassedAreLateOrTied`. Where requests
  do not overlap, a message being inserted is the newest (`InsertsAreNewest`), the cursor is the time of
  one sent (`CursorIsSent`), so one that comes late is tied (`LateAreTied`): `MissedAreTied`. A
  case is only being opened while none is (`CasesAreNeeded`): `OneOpenCase`.

`OneAtATime` (or a single member of `Requests`) is a hypothesis of the theorems that need it and of no
other. It is not what the code guarantees but the case in which nobody interferes: states and
steps under it are those of the same specification with one request at a time, any number of times.

Only model-checked: liveness (`QueuedWebhookIsProcessed`, `ScheduledIsAttempted`), which under
fairness is out of this prover's reach. Every invariant and every action property of the runs
is a theorem.

## What is not modelled

* Messaging, notifications, risk, SLA and support of the service stack: each job inserts
  under a unique key or updates with a guard, and repeats on retry. What a crash between
  statements loses is lost in the hosted form too, which `HostedMessages` has.
* Content: one update with a version in its WHERE. Pure functions: a few lines each, with unit
  tests; handlers that call them are modelled with the outcome as a guard.
* The one-off copy of D1 to Postgres, which runs while nothing else does; interface, deployment, health,
  observability and preflight, which hold no state the others rely on.
* Bodies, formats, authentication and ownership checks, which read rows nobody changes
  in these handlers; audit rows, consents, attendance rows, reviews and read marks, which no handler decides on.
* A second PUT of an object: the presigned URL of evidence stays good for 300 seconds
  (`documents.ts:34`), and nothing keeps a client from putting another object under the key after
  `completeEvidence` or after the scan. `Marketplace` puts each object once, before completion;
  `SubmittedHasEvidence` is about that object.
* Time: `next_retry_at`, backoff, windows and expiries are arbitrary delays.
* The limit of 100 rows per sweep, and the difference of six between `MaxAttempts` and
  `RetryLimit` (bounded above).

What would come next: `worker_count` against acceptances and one job through `HostedJobs` and
`HostedSettlement` over one ledger, that what is credited covers what is payable.
