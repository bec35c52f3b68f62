------------------------ MODULE PayoutPipelineProofs ------------------------
(***************************************************************************)
(* Proofs about PayoutPipeline for every set of assignments, every number    *)
(* of attempts, announcements, provider calls and incidents.                 *)
(***************************************************************************)
EXTENDS PayoutPipeline, TLAPS

-----------------------------------------------------------------------------
(***************************************************************************)
(* Type correctness.                                                        *)
(***************************************************************************)

\* The job ids the handlers compose are job ids, and lead back to their row.
LEMMA JobTypes ==
  /\ \A a \in Assignments, n \in 0..RetryCap : ProcessJob(a, n) \in ProcessJobs
  /\ \A e \in Event : WebhookJob(e) \in WebhookJobs
  /\ \A j \in ProcessJobs : j \in Jobs /\ j.payout \in Assignments
  /\ \A j \in WebhookJobs : j \in Jobs /\ j.event \in Event
  /\ \A e \in Event : e.payout \in Assignments /\ e.status \in Announced
  /\ 0 \in 0..RetryCap
  /\ ProcessJobs \cap WebhookJobs = {}
<1>1. ProcessJobs \cap WebhookJobs = {}
  <2> SUFFICES ASSUME NEW j \in ProcessJobs, j \in WebhookJobs PROVE FALSE
    OBVIOUS
  <2>1. j.kind = "payout.process"
    BY DEF ProcessJobs
  <2>2. j.kind = "payout.webhook"
    BY DEF WebhookJobs
  <2> QED BY <2>1, <2>2
<1>2. 0 \in 0..RetryCap
  BY PipelineAssumption
<1>3. QED
  BY <1>1, <1>2 DEF ProcessJob, WebhookJob, ProcessJobs, WebhookJobs, Jobs, Event

\* An announcement consists of events.
LEMMA AnnouncementType ==
  ASSUME NEW a \in Assignments, NEW fact, NEW exact \in BOOLEAN
  PROVE  Announcement(a, fact, exact) \subseteq Event
BY DEF Announcement, Event

\* What a job that throws does to the queue.
LEMMA AttemptFailsType ==
  ASSUME TypeOK, NEW j \in Jobs, AttemptFails(j)
  PROVE  /\ pending' \subseteq Jobs
         /\ jobState' \in [Jobs -> JobState]
         /\ tries' \in [Jobs -> Nat]
         /\ stalled' \subseteq Jobs
         /\ failing' \subseteq Assignments
<1>1. j \in ProcessJobs => j.payout \in Assignments
  BY JobTypes
<1>2. QED
  BY <1>1 DEF TypeOK, AttemptFails, JobState

\* What a job that returns does to the queue.
LEMMA JobReturnsType ==
  ASSUME TypeOK, NEW j \in Jobs, JobReturns(j)
  PROVE  /\ pending' \subseteq Jobs
         /\ jobState' \in [Jobs -> JobState]
         /\ tries' \in [Jobs -> Nat]
         /\ stalled' \subseteq Jobs
         /\ failing' \subseteq Assignments
BY DEF TypeOK, JobReturns, JobState

\* What the provider does on a request.
LEMMA ProviderTakesType ==
  ASSUME TypeOK, NEW a \in Assignments, ProviderTakes(a) \/ UNCHANGED providerVars
  PROVE  provider' \in [Assignments -> ProviderStatus] /\ events' \subseteq Event
<1>1. Announcement(a, "ACCEPTED", TRUE) \subseteq Event
  BY AnnouncementType
<1>2. QED
  BY <1>1 DEF TypeOK, ProviderTakes, providerVars, ProviderStatus

\* The initial state is well typed.
LEMMA InitTypeOK == Init => TypeOK
<1> SUFFICES ASSUME Init PROVE TypeOK
  OBVIOUS
<1>1. 0 \in 0..RetryCap /\ 0 \in 0..MaxIncidents /\ 0 \in Nat /\ FALSE \in BOOLEAN
  BY PipelineAssumption
<1>2. /\ assignment \in [Assignments -> {"SUBMITTED", "APPROVED", "DISPUTED"}]
      /\ disputing \in [Assignments -> {"none", "inserted", "marked", "opened"}]
      /\ status \in [Assignments -> PayoutStatus \cup {"NONE"}]
      /\ retryCount \in [Assignments -> 0..RetryCap]
      /\ referenced \in [Assignments -> BOOLEAN]
  BY <1>1 DEF Init
<1>3. /\ jobState \in [Jobs -> JobState]
      /\ tries \in [Jobs -> Nat]
      /\ ledger \in [Assignments -> Nat]
      /\ recon \in [Assignments -> ReconStatus \cup {"NONE"}]
      /\ resolved \in [Assignments -> BOOLEAN]
      /\ provider \in [Assignments -> ProviderStatus]
  BY <1>1 DEF Init, JobState, ProviderStatus
<1>4. QED
  BY <1>1, <1>2, <1>3 DEF Init, TypeOK

\* Every step keeps the types.
LEMMA NextTypeOK == TypeOK /\ [Next]_vars => TypeOK'
<1> SUFFICES ASSUME TypeOK, [Next]_vars PROVE TypeOK'
  OBVIOUS
<1> USE PipelineAssumption DEF TypeOK, assignmentVars, payoutVars, queueVars, bookVars,
        providerVars, envVars
<1>1. ASSUME NEW a \in Assignments, Approve(a) PROVE TypeOK'
  <2>1. ProcessJob(a, 0) \in Jobs
    BY JobTypes
  <2>2. QED
    BY <1>1, <2>1 DEF Approve, PayoutStatus
<1>2. ASSUME NEW a \in Assignments, InsertDispute(a) PROVE TypeOK'
  BY <1>2 DEF InsertDispute
<1>3. ASSUME NEW a \in Assignments, DisputeAssignment(a) PROVE TypeOK'
  BY <1>3 DEF DisputeAssignment
<1>4. ASSUME NEW a \in Assignments, HoldPayout(a) PROVE TypeOK'
  BY <1>4 DEF HoldPayout, PayoutStatus
<1>5. ASSUME NEW a \in Assignments, Retry(a) PROVE TypeOK'
  <2>1. ProcessJob(a, retryCount[a]) \in Jobs
    BY JobTypes
  <2>2. QED
    BY <1>5, <2>1 DEF Retry, PayoutStatus
<1>6. ASSUME NEW a \in Assignments, ResolveReconciliation(a) PROVE TypeOK'
  BY <1>6 DEF ResolveReconciliation, ReconStatus
<1>7. ASSUME NEW e \in Event, IngestWebhook(e) PROVE TypeOK'
  <2>1. WebhookJob(e) \in Jobs
    BY JobTypes
  <2>2. QED
    BY <1>7, <2>1 DEF IngestWebhook
<1>8. ASSUME NEW j \in Jobs, AddJob(j) PROVE TypeOK'
  BY <1>8 DEF AddJob, JobState
<1>9. ASSUME NEW j \in Jobs, LoseAdd(j) PROVE TypeOK'
  BY <1>9 DEF LoseAdd
<1>10. ASSUME NEW j \in Jobs, EvictJob(j) PROVE TypeOK'
  BY <1>10 DEF EvictJob, JobState
<1>11. ASSUME NEW j \in ProcessJobs, PayoutJobStep(j) PROVE TypeOK'
  <2>0. j \in Jobs /\ j.payout \in Assignments
    BY JobTypes
  <2>1. CASE SelectPayout(j)
    BY <2>0, <2>1 DEF SelectPayout, JobState, InFlight
  <2>2. CASE SkipPayout(j)
    BY <2>0, <2>2, JobReturnsType DEF SkipPayout
  <2>3. CASE FailPreflight(j)
    BY <2>0, <2>3, AttemptFailsType DEF FailPreflight
  <2>4. CASE MarkProcessing(j)
    BY <2>0, <2>4 DEF MarkProcessing, JobState, InFlight, PayoutStatus
  <2>5. CASE CallAccepted(j)
    BY <2>0, <2>5, ProviderTakesType DEF CallAccepted, JobState, InFlight
  <2>6. CASE CallRefused(j)
    BY <2>0, <2>6 DEF CallRefused, JobState, InFlight
  <2>7. CASE CallDeferred(j)
    BY <2>0, <2>7, ProviderTakesType DEF CallDeferred, JobState, InFlight
  <2>8. CASE CallThrows(j)
    BY <2>0, <2>8, ProviderTakesType, AttemptFailsType DEF CallThrows
  <2>9. CASE StoreAccepted(j)
    BY <2>0, <2>9, JobReturnsType DEF StoreAccepted, PayoutStatus
  <2>10. CASE StoreRefused(j)
    BY <2>0, <2>10, JobReturnsType DEF StoreRefused, PayoutStatus
  <2>11. CASE StoreDeferred(j)
    BY <2>0, <2>11, AttemptFailsType DEF StoreDeferred, PayoutStatus
  <2>12. QED
    BY <1>11, <2>1, <2>2, <2>3, <2>4, <2>5, <2>6, <2>7, <2>8, <2>9, <2>10, <2>11
       DEF PayoutJobStep
<1>12. ASSUME NEW j \in ProcessJobs, CrashJob(j) PROVE TypeOK'
  BY <1>12, JobTypes DEF CrashJob, JobState
<1>13. ASSUME NEW j \in WebhookJobs, ProcessWebhook(j) PROVE TypeOK'
  <2>1. /\ j \in Jobs /\ j.event \in Event /\ j.event.payout \in Assignments
    BY JobTypes
  <2>2. /\ NextStatus(j.event) \in PayoutStatus
        /\ NextRecon(j.event) \in ReconStatus
    BY DEF NextStatus, NextRecon, PayoutStatus, ReconStatus
  <2>3. Debit(j.event.payout) \in [Assignments -> Nat]
    BY <2>1 DEF Debit
  <2>4. QED
    BY <1>13, <2>1, <2>2, <2>3, JobReturnsType DEF ProcessWebhook
<1>14. ASSUME NEW j \in WebhookJobs, WebhookThrows(j) PROVE TypeOK'
  BY <1>14, JobTypes, AttemptFailsType DEF WebhookThrows
<1>15. ASSUME NEW a \in Assignments, HandleTerminalFailure(a) PROVE TypeOK'
  BY <1>15 DEF HandleTerminalFailure, PayoutStatus
<1>16. ASSUME NEW a \in Assignments, LoseTerminalFailure(a) PROVE TypeOK'
  BY <1>16 DEF LoseTerminalFailure
<1>17. ASSUME NEW a \in Assignments, DispatchDue(a) PROVE TypeOK'
  <2>1. ProcessJob(a, retryCount[a]) \in Jobs
    BY JobTypes
  <2>2. QED
    BY <1>17, <2>1 DEF DispatchDue
<1>18. ASSUME NEW a \in Assignments, NEW from, NEW to \in ProviderStatus,
              ProviderSettles(a, from, to)
       PROVE  TypeOK'
  BY <1>18, AnnouncementType DEF ProviderSettles
<1>19. ASSUME NEW a \in Assignments, ReviewAccount(a) PROVE TypeOK'
  BY <1>19 DEF ReviewAccount
<1>20. ASSUME DeployConfiguration PROVE TypeOK'
  BY <1>20 DEF DeployConfiguration
<1>21. CASE UNCHANGED vars
  BY <1>21 DEF vars
<1>22. QED
  BY <1>1, <1>2, <1>3, <1>4, <1>5, <1>6, <1>7, <1>8, <1>9, <1>10, <1>11, <1>12,
     <1>13, <1>14, <1>15, <1>16, <1>17, <1>18, <1>19, <1>20, <1>21
     DEF Next, ApiStep, QueueStep, WorkerStep, EnvironmentStep, ProviderSucceeds,
         ProviderFails, ProviderReverses, ProviderStatus

\* Every reachable state of the payout pipeline has the types its columns,
\* queue entries and provider records are declared with.
THEOREM TypeCorrect == Spec => []TypeOK
BY InitTypeOK, NextTypeOK, PTL DEF Spec

-----------------------------------------------------------------------------
(***************************************************************************)
(* The books.                                                               *)
(*                                                                          *)
(* A step falls in one of a few classes by what it does to the state the     *)
(* invariant relates; the lemmas below deal with the classes once.           *)
(***************************************************************************)

\* No row disappears, no announcement is processed and no payout becomes PAID.
KeepsRows ==
  /\ \A a \in Assignments : status[a] # "NONE" => status'[a] # "NONE"
  /\ \A a \in Assignments : status'[a] = "PAID" => status[a] = "PAID"
  /\ \A a \in Assignments : referenced[a] => referenced'[a]

\* A step on the rows, the process jobs and the request side of the provider.
LEMMA RowStep ==
  ASSUME IInv, TypeOK', KeepsRows,
         UNCHANGED <<received, processed, ledger>>,
         events \subseteq events',
         \A e \in events' \ events : e.status # "SUCCEEDED" /\ provider'[e.payout] # "NONE",
         \A a \in Assignments : \/ provider'[a] = provider[a]
                               \/ (provider[a] = "NONE" /\ status[a] # "NONE"),
         \A j \in WebhookJobs : j \in pending' \/ jobState'[j] # "none" =>
                               j \in pending \/ jobState[j] # "none",
         \A j \in ProcessJobs : jobState'[j] \in InFlight =>
                               jobState[j] \in InFlight \/ status[j.payout] # "NONE"
  PROVE  IInv'
<1>1. InboxIsGenuine'
  BY DEF IInv, InboxIsGenuine
<1>2. EventsAreFacts'
  <2> SUFFICES ASSUME NEW e \in events'
               PROVE  /\ provider'[e.payout] # "NONE"
                      /\ e.status = "SUCCEEDED" =>
                           provider'[e.payout] \in {"SUCCEEDED", "REVERSED"}
    BY DEF EventsAreFacts
  <2>1. CASE e \in events
    <3>1. e.payout \in Assignments
      BY <2>1, JobTypes DEF IInv, TypeOK
    <3>2. provider[e.payout] # "NONE"
      BY <2>1 DEF IInv, EventsAreFacts
    <3>3. QED
      BY <2>1, <3>1, <3>2 DEF IInv, EventsAreFacts
  <2>2. CASE e \notin events
    BY <2>2
  <2>3. QED
    BY <2>1, <2>2
<1>3. WorkHasRow'
  BY JobTypes DEF IInv, WorkHasRow, KeepsRows
<1>4. LedgerRecordsEachSuccessOnce' /\ PaidIsBooked'
  BY DEF IInv, LedgerRecordsEachSuccessOnce, PaidIsBooked, Processed, KeepsRows
<1>5. QED
  BY <1>1, <1>2, <1>3, <1>4 DEF IInv

\* The ledger after a success is booked.
LEMMA DebitOnce ==
  ASSUME IInv, NEW a \in Assignments
  PROVE  Debit(a) = [ledger EXCEPT ![a] = 1]
<1>1. ledger \in [Assignments -> Nat]
  BY DEF IInv, TypeOK
<1>2. ledger[a] = 0 \/ ledger[a] = 1
  BY DEF IInv, LedgerRecordsEachSuccessOnce
<1>3. QED
  BY <1>1, <1>2 DEF Debit

\* processWebhook keeps the invariant: the one step that books.
LEMMA WebhookStep ==
  ASSUME IInv, TypeOK', NEW j \in WebhookJobs, ProcessWebhook(j)
  PROVE  IInv'
<1> DEFINE e == j.event
           a == e.payout
<1>1. j \in Jobs /\ e \in Event /\ a \in Assignments
  BY JobTypes
<1>2. e \in received /\ e \in events
  BY DEF ProcessWebhook, IInv, InboxIsGenuine
<1>3. /\ UNCHANGED <<received, pending, provider, events>>
      /\ processed' = processed \cup {e}
      /\ jobState' = [jobState EXCEPT ![j] = "completed"]
      /\ status' = [status EXCEPT ![a] = NextStatus(e)]
      /\ referenced' = [referenced EXCEPT ![a] = TRUE]
      /\ ledger' = IF NextStatus(e) = "PAID" THEN Debit(a) ELSE ledger
  BY DEF ProcessWebhook, JobReturns, providerVars
<1>4. InboxIsGenuine'
  BY <1>1, <1>2, <1>3, JobTypes DEF IInv, TypeOK, InboxIsGenuine, ProcessWebhook
<1>5. EventsAreFacts'
  BY <1>3 DEF IInv, EventsAreFacts
<1>6. NextStatus(e) # "NONE" /\ (NextStatus(e) = "PAID" <=> e.status = "SUCCEEDED")
  BY DEF NextStatus
<1>7. WorkHasRow'
  BY <1>1, <1>3, <1>6, JobTypes DEF IInv, TypeOK, WorkHasRow
<1>8. LedgerRecordsEachSuccessOnce'
  <2> SUFFICES ASSUME NEW b \in Assignments
               PROVE  ledger'[b] = IF {f \in processed' : f.payout = b /\ f.status = "SUCCEEDED"} = {}
                                   THEN 0 ELSE 1
    BY DEF LedgerRecordsEachSuccessOnce, Processed
  <2>1. ledger[b] = IF {f \in processed : f.payout = b /\ f.status = "SUCCEEDED"} = {}
                    THEN 0 ELSE 1
    BY DEF IInv, LedgerRecordsEachSuccessOnce, Processed
  <2>2. CASE e.status = "SUCCEEDED" /\ b = a
    <3>1. ledger'[b] = 1
      BY <1>1, <1>3, <1>6, <2>2, DebitOnce DEF IInv, TypeOK
    <3>2. e \in {f \in processed' : f.payout = b /\ f.status = "SUCCEEDED"}
      BY <1>3, <2>2
    <3>3. QED
      BY <3>1, <3>2
  <2>3. CASE ~(e.status = "SUCCEEDED" /\ b = a)
    <3>1. ledger'[b] = ledger[b]
      BY <1>1, <1>3, <1>6, <2>3, DebitOnce DEF IInv, TypeOK
    <3>2. {f \in processed' : f.payout = b /\ f.status = "SUCCEEDED"}
            = {f \in processed : f.payout = b /\ f.status = "SUCCEEDED"}
      BY <1>3, <2>3
    <3>3. QED
      BY <2>1, <3>1, <3>2
  <2>4. QED
    BY <2>2, <2>3
<1>9. PaidIsBooked'
  <2> SUFFICES ASSUME NEW b \in Assignments, status'[b] = "PAID"
               PROVE  ledger'[b] = 1 /\ referenced'[b]
    BY DEF PaidIsBooked
  <2>1. CASE b = a
    BY <1>1, <1>3, <2>1, DebitOnce DEF IInv, TypeOK
  <2>2. CASE b # a
    BY <1>1, <1>3, <2>2, DebitOnce DEF IInv, TypeOK, PaidIsBooked
  <2>3. QED
    BY <2>1, <2>2
<1>10. QED
  BY <1>4, <1>5, <1>7, <1>8, <1>9 DEF IInv

\* ingestWebhook keeps the invariant: the row is in the inbox before its job.
LEMMA IngestStep ==
  ASSUME IInv, TypeOK', NEW e \in Event, IngestWebhook(e)
  PROVE  IInv'
<1>1. /\ UNCHANGED <<processed, ledger, events, provider, status, referenced, jobState>>
      /\ received' = received \cup {e}
      /\ pending' = pending \cup {WebhookJob(e)}
      /\ e \in events
  BY DEF IngestWebhook, assignmentVars, payoutVars, providerVars
<1>2. WebhookJob(e).event = e
  BY DEF WebhookJob
<1>3. InboxIsGenuine'
  BY <1>1, <1>2 DEF IInv, InboxIsGenuine
<1>4. EventsAreFacts' /\ WorkHasRow'
  BY <1>1 DEF IInv, EventsAreFacts, WorkHasRow
<1>5. LedgerRecordsEachSuccessOnce' /\ PaidIsBooked'
  BY <1>1 DEF IInv, LedgerRecordsEachSuccessOnce, PaidIsBooked, Processed
<1>6. QED
  BY <1>3, <1>4, <1>5 DEF IInv

\* The provider keeps the invariant: it announces what it has just done.
LEMMA SettleStep ==
  ASSUME IInv, TypeOK', NEW a \in Assignments, NEW from, NEW to,
         ProviderSettles(a, from, to),
         \/ from = "ACCEPTED" /\ to \in {"SUCCEEDED", "FAILED"}
         \/ from = "SUCCEEDED" /\ to = "REVERSED"
  PROVE  IInv'
<1>1. /\ UNCHANGED <<received, processed, ledger, status, referenced, pending, jobState>>
      /\ provider[a] = from
      /\ provider' = [provider EXCEPT ![a] = to]
  BY DEF ProviderSettles, payoutVars, queueVars, bookVars
<1>2. PICK exact \in BOOLEAN : events' = events \cup Announcement(a, to, exact)
  BY DEF ProviderSettles
<1>3. \A e \in events' \ events : e.payout = a /\ e.status = to
  BY <1>2 DEF Announcement
<1>4. provider'[a] = to /\ \A b \in Assignments : b # a => provider'[b] = provider[b]
  BY <1>1 DEF IInv, TypeOK
<1>5. InboxIsGenuine'
  BY <1>1, <1>2 DEF IInv, InboxIsGenuine
<1>6. EventsAreFacts'
  <2> SUFFICES ASSUME NEW e \in events'
               PROVE  /\ provider'[e.payout] # "NONE"
                      /\ e.status = "SUCCEEDED" =>
                           provider'[e.payout] \in {"SUCCEEDED", "REVERSED"}
    BY DEF EventsAreFacts
  <2>1. CASE e \in events
    <3>1. e.payout \in Assignments
      BY <2>1, JobTypes DEF IInv, TypeOK
    <3>2. /\ provider[e.payout] # "NONE"
          /\ e.status = "SUCCEEDED" => provider[e.payout] \in {"SUCCEEDED", "REVERSED"}
      BY <2>1 DEF IInv, EventsAreFacts
    <3>3. QED
      BY <1>1, <1>4, <3>1, <3>2
  <2>2. CASE e \notin events
    BY <1>3, <1>4, <2>2
  <2>3. QED
    BY <2>1, <2>2
<1>7. WorkHasRow'
  BY <1>1, <1>4 DEF IInv, WorkHasRow
<1>8. LedgerRecordsEachSuccessOnce' /\ PaidIsBooked'
  BY <1>1 DEF IInv, LedgerRecordsEachSuccessOnce, PaidIsBooked, Processed
<1>9. QED
  BY <1>5, <1>6, <1>7, <1>8 DEF IInv

\* A request reaches the provider only for a payout that has a row, and what it
\* announces is the acceptance.
LEMMA RequestStep ==
  ASSUME IInv, NEW a \in Assignments, status[a] # "NONE",
         ProviderTakes(a) \/ UNCHANGED providerVars
  PROVE  /\ events \subseteq events'
         /\ \A e \in events' \ events :
              e.status # "SUCCEEDED" /\ provider'[e.payout] # "NONE"
         /\ \A b \in Assignments : \/ provider'[b] = provider[b]
                                   \/ (provider[b] = "NONE" /\ status[b] # "NONE")
<1>1. CASE UNCHANGED providerVars
  BY <1>1 DEF providerVars
<1>2. CASE ProviderTakes(a) /\ provider[a] = "NONE"
  <2>1. /\ provider' = [provider EXCEPT ![a] = "ACCEPTED"]
        /\ events' = events \cup Announcement(a, "ACCEPTED", TRUE)
    BY <1>2 DEF ProviderTakes
  <2>2. \A e \in Announcement(a, "ACCEPTED", TRUE) : e.payout = a /\ e.status = "ACCEPTED"
    BY DEF Announcement
  <2>3. QED
    BY <1>2, <2>1, <2>2 DEF IInv, TypeOK
<1>3. CASE ProviderTakes(a) /\ provider[a] # "NONE"
  BY <1>3 DEF ProviderTakes, providerVars
<1>4. QED
  BY <1>1, <1>2, <1>3

\* What AttemptFails and JobReturns leave: no job of another kind, no job in flight.
LEMMA JobEnds ==
  ASSUME IInv, NEW k \in ProcessJobs, AttemptFails(k) \/ JobReturns(k)
  PROVE  /\ \A j \in WebhookJobs : j \in pending' \/ jobState'[j] # "none" =>
                                   j \in pending \/ jobState[j] # "none"
         /\ \A j \in ProcessJobs : jobState'[j] \in InFlight => jobState[j] \in InFlight
<1>1. /\ k \in Jobs
      /\ \A j \in WebhookJobs : j \in Jobs /\ j # k
      /\ \A j \in ProcessJobs : j \in Jobs
  BY JobTypes
<1>2. pending' = pending
  BY DEF AttemptFails, JobReturns
<1>3. /\ jobState'[k] \notin InFlight
      /\ \A j \in Jobs : j # k => jobState'[j] = jobState[j]
  <2>1. CASE AttemptFails(k)
    BY <1>1, <2>1 DEF AttemptFails, IInv, TypeOK, InFlight
  <2>2. CASE JobReturns(k)
    BY <1>1, <2>2 DEF JobReturns, IInv, TypeOK, InFlight
  <2>3. QED
    BY <2>1, <2>2
<1>4. QED
  BY <1>1, <1>2, <1>3

\* A webhook job that throws stays the job of its inbox row.
LEMMA WebhookThrowsStep ==
  ASSUME IInv, TypeOK', NEW k \in WebhookJobs, WebhookThrows(k)
  PROVE  IInv'
<1>1. /\ k \in Jobs
      /\ \A j \in WebhookJobs : j \in Jobs
      /\ \A j \in ProcessJobs : j \in Jobs /\ j # k
  BY JobTypes
<1>2. /\ UNCHANGED <<pending, provider, events, status, referenced>>
      /\ UNCHANGED <<received, processed, ledger>>
      /\ jobState[k] = "waiting"
      /\ \A j \in Jobs : j # k => jobState'[j] = jobState[j]
  BY <1>1 DEF WebhookThrows, AttemptFails, providerVars, payoutVars, bookVars, IInv, TypeOK
<1>3. KeepsRows
  BY <1>2 DEF KeepsRows
<1>4. QED
  BY <1>1, <1>2, <1>3, RowStep DEF IInv, WorkHasRow

\* A statement of processPayout keeps the invariant: it books nothing, and asks
\* the provider only for the row it selected.
LEMMA PayoutJobKeepsIInv ==
  ASSUME IInv, TypeOK', NEW k \in ProcessJobs, PayoutJobStep(k)
  PROVE  IInv'
<1> DEFINE a == k.payout
<1>1. /\ k \in Jobs /\ a \in Assignments
      /\ \A j \in ProcessJobs : j \in Jobs
      /\ \A j \in WebhookJobs : j \in Jobs /\ j # k
  BY JobTypes
<1>2. jobState[k] \in InFlight => status[a] # "NONE"
  BY DEF IInv, WorkHasRow
<1>3. UNCHANGED <<received, processed, ledger>>
  BY DEF PayoutJobStep, SelectPayout, SkipPayout, FailPreflight, MarkProcessing,
         CallAccepted, CallRefused, CallDeferred, CallThrows, StoreAccepted,
         StoreRefused, StoreDeferred, bookVars
<1>4. KeepsRows
  <2>1. CASE UNCHANGED payoutVars
    BY <2>1 DEF KeepsRows, payoutVars
  <2>2. CASE MarkProcessing(k) \/ StoreRefused(k) \/ StoreDeferred(k)
    BY <1>1, <2>2 DEF KeepsRows, MarkProcessing, StoreRefused, StoreDeferred, IInv, TypeOK
  <2>3. CASE StoreAccepted(k)
    BY <1>1, <2>3 DEF KeepsRows, StoreAccepted, IInv, TypeOK
  <2>4. QED
    BY <2>1, <2>2, <2>3 DEF PayoutJobStep, SelectPayout, SkipPayout, FailPreflight,
       CallAccepted, CallRefused, CallDeferred, CallThrows
<1>5. /\ \A j \in WebhookJobs : j \in pending' \/ jobState'[j] # "none" =>
                                j \in pending \/ jobState[j] # "none"
      /\ \A j \in ProcessJobs : jobState'[j] \in InFlight =>
                                jobState[j] \in InFlight \/ status[j.payout] # "NONE"
  <2>1. CASE AttemptFails(k) \/ JobReturns(k)
    BY <2>1, JobEnds
  <2>2. CASE /\ pending' = pending
             /\ status[a] # "NONE"
             /\ \A j \in Jobs : j # k => jobState'[j] = jobState[j]
    BY <1>1, <2>2
  <2>3. ASSUME NEW x, jobState' = [jobState EXCEPT ![k] = x]
        PROVE  \A j \in Jobs : j # k => jobState'[j] = jobState[j]
    BY <1>1, <2>3 DEF IInv, TypeOK
  <2>4. SelectPayout(k) => status[a] # "NONE"
    BY DEF SelectPayout, Selectable
  <2>5. CASE SelectPayout(k)
    BY <2>2, <2>3, <2>4, <2>5 DEF SelectPayout
  <2>6. CASE MarkProcessing(k)
    BY <1>2, <2>2, <2>3, <2>6 DEF MarkProcessing, InFlight
  <2>7. CASE CallAccepted(k) \/ CallRefused(k) \/ CallDeferred(k)
    BY <1>2, <2>2, <2>3, <2>7 DEF CallAccepted, CallRefused, CallDeferred, InFlight
  <2>8. QED
    BY <2>1, <2>5, <2>6, <2>7 DEF PayoutJobStep, SkipPayout, FailPreflight, CallThrows,
       StoreAccepted, StoreRefused, StoreDeferred
<1>6. /\ events \subseteq events'
      /\ \A e \in events' \ events :
           e.status # "SUCCEEDED" /\ provider'[e.payout] # "NONE"
      /\ \A b \in Assignments : \/ provider'[b] = provider[b]
                                \/ (provider[b] = "NONE" /\ status[b] # "NONE")
  <2>1. CASE UNCHANGED providerVars
    BY <2>1 DEF providerVars
  <2>2. CASE ~ UNCHANGED providerVars
    <3>1. /\ ProviderTakes(a) \/ UNCHANGED providerVars
          /\ jobState[k] = "marked"
      BY <2>2 DEF PayoutJobStep, SelectPayout, SkipPayout, FailPreflight, MarkProcessing,
         CallAccepted, CallRefused, CallDeferred, CallThrows, StoreAccepted,
         StoreRefused, StoreDeferred
    <3>2. status[a] # "NONE"
      BY <1>2, <3>1 DEF InFlight
    <3>3. QED
      BY <1>1, <3>1, <3>2, RequestStep
  <2>3. QED
    BY <2>1, <2>2
<1>7. QED
  BY <1>3, <1>4, <1>5, <1>6, RowStep

\* The invariant holds to begin with: nothing has been requested or announced.
LEMMA InitIInv == Init => IInv
<1> SUFFICES ASSUME Init PROVE IInv
  OBVIOUS
<1>1. TypeOK
  BY InitTypeOK
<1>2. InboxIsGenuine /\ EventsAreFacts
  BY JobTypes DEF Init, InboxIsGenuine, EventsAreFacts
<1>3. WorkHasRow
  BY JobTypes DEF Init, WorkHasRow, InFlight
<1>4. LedgerRecordsEachSuccessOnce
  BY DEF Init, LedgerRecordsEachSuccessOnce, Processed
<1>5. PaidIsBooked
  BY DEF Init, PaidIsBooked
<1>6. QED
  BY <1>1, <1>2, <1>3, <1>4, <1>5 DEF IInv

\* Every step keeps the invariant.
LEMMA NextIInv == IInv /\ [Next]_vars => IInv'
<1> SUFFICES ASSUME IInv, [Next]_vars PROVE IInv'
  OBVIOUS
<1>1. TypeOK'
  BY NextTypeOK DEF IInv
<1>2. TypeOK /\ WorkHasRow
  BY DEF IInv
<1>3. /\ \A j \in ProcessJobs : j \in Jobs /\ j \notin WebhookJobs
      /\ \A j \in WebhookJobs : j \in Jobs
  BY JobTypes
<1> USE DEF assignmentVars, payoutVars, queueVars, bookVars, providerVars, envVars
\* Steps that add a payout.process job or none, and write no row but status.
<1>4. ASSUME NEW a \in Assignments,
             Approve(a) \/ Retry(a) \/ DispatchDue(a) \/ InsertDispute(a)
               \/ DisputeAssignment(a) \/ HoldPayout(a) \/ HandleTerminalFailure(a)
               \/ LoseTerminalFailure(a) \/ ResolveReconciliation(a)
               \/ ReviewAccount(a) \/ DeployConfiguration
      PROVE  IInv'
  <2>1. /\ UNCHANGED <<received, processed, ledger, provider, events, jobState, referenced>>
        /\ \E n \in 0..RetryCap : pending' \subseteq pending \cup {ProcessJob(a, n)}
    BY <1>2, <1>4, JobTypes DEF Approve, Retry, DispatchDue, InsertDispute, DisputeAssignment, HoldPayout,
       HandleTerminalFailure, LoseTerminalFailure, ResolveReconciliation, ReviewAccount,
       DeployConfiguration, TypeOK
  <2>2. \A j \in WebhookJobs : j \in pending' => j \in pending
    BY <1>3, <2>1, JobTypes
  <2>3. KeepsRows
    <3>1. CASE UNCHANGED status
      BY <2>1, <3>1 DEF KeepsRows
    <3>2. CASE Approve(a)
      BY <1>2, <2>1, <3>2 DEF KeepsRows, Approve, TypeOK
    <3>3. CASE Retry(a)
      BY <1>2, <2>1, <3>3 DEF KeepsRows, Retry, TypeOK
    <3>4. CASE HoldPayout(a)
      BY <1>2, <2>1, <3>4 DEF KeepsRows, HoldPayout, TypeOK
    <3>5. CASE HandleTerminalFailure(a)
      BY <1>2, <2>1, <3>5 DEF KeepsRows, HandleTerminalFailure, TypeOK
    <3>6. QED
      BY <1>4, <3>1, <3>2, <3>3, <3>4, <3>5 DEF DispatchDue, InsertDispute,
         DisputeAssignment, LoseTerminalFailure, ResolveReconciliation, ReviewAccount,
         DeployConfiguration
  <2>4. QED
    BY <1>1, <2>1, <2>2, <2>3, RowStep
\* Steps of the queue alone.
<1>5. ASSUME NEW k \in Jobs, QueueStep(k) \/ CrashJob(k)
      PROVE  IInv'
  <2>1. /\ UNCHANGED <<received, processed, ledger, provider, events, status, referenced>>
        /\ pending' \subseteq pending
        /\ \A j \in Jobs : j # k => jobState'[j] = jobState[j]
        /\ jobState'[k] \in InFlight => jobState[k] \in InFlight
        /\ jobState'[k] # "none" => k \in pending \/ jobState[k] # "none"
    <3>1. CASE AddJob(k)
      BY <1>2, <3>1 DEF AddJob, InFlight, TypeOK
    <3>2. CASE LoseAdd(k)
      BY <1>2, <3>2 DEF LoseAdd, TypeOK
    <3>3. CASE EvictJob(k)
      BY <1>2, <3>3 DEF EvictJob, InFlight, TypeOK
    <3>4. CASE CrashJob(k)
      BY <1>2, <3>4 DEF CrashJob, InFlight, TypeOK
    <3>5. QED
      BY <1>5, <3>1, <3>2, <3>3, <3>4 DEF QueueStep
  <2>2. KeepsRows
    BY <2>1 DEF KeepsRows
  <2>3. QED
    BY <1>1, <1>3, <2>1, <2>2, RowStep
<1>6. ASSUME NEW e \in Event, IngestWebhook(e) PROVE IInv'
  BY <1>1, <1>6, IngestStep
<1>7. ASSUME NEW j \in ProcessJobs, PayoutJobStep(j) PROVE IInv'
  BY <1>1, <1>7, PayoutJobKeepsIInv
<1>8. ASSUME NEW j \in WebhookJobs, ProcessWebhook(j) PROVE IInv'
  BY <1>1, <1>8, WebhookStep
<1>9. ASSUME NEW j \in WebhookJobs, WebhookThrows(j) PROVE IInv'
  BY <1>1, <1>9, WebhookThrowsStep
<1>10. ASSUME NEW a \in Assignments,
              ProviderSucceeds(a) \/ ProviderFails(a) \/ ProviderReverses(a)
       PROVE  IInv'
  BY <1>1, <1>10, SettleStep DEF ProviderSucceeds, ProviderFails, ProviderReverses
<1>11. CASE DeployConfiguration
  <2>1. KeepsRows
    BY <1>11 DEF KeepsRows, DeployConfiguration
  <2>2. QED
    BY <1>1, <1>11, <2>1, RowStep DEF DeployConfiguration
<1>12. CASE UNCHANGED vars
  <2>1. KeepsRows
    BY <1>12 DEF KeepsRows, vars
  <2>2. QED
    BY <1>1, <1>12, <2>1, RowStep DEF vars
<1>13. CASE Next
  <2>1. CASE ApiStep
    BY <1>4, <1>6, <2>1 DEF ApiStep
  <2>2. CASE \E j \in Jobs : QueueStep(j)
    BY <1>5, <2>2
  <2>3. CASE WorkerStep
    BY <1>3, <1>4, <1>5, <1>7, <1>8, <1>9, <2>3 DEF WorkerStep
  <2>4. CASE EnvironmentStep
    BY <1>4, <1>10, <1>11, <2>4 DEF EnvironmentStep
  <2>5. QED
    BY <1>13, <2>1, <2>2, <2>3, <2>4 DEF Next
<1>14. QED
  BY <1>12, <1>13

\* The books of the payout pipeline are right in every reachable state.
THEOREM BooksCorrect == Spec => []IInv
BY InitIInv, NextIInv, PTL DEF Spec

\* However many jobs rerun and however often, in whatever order and under
\* however many event ids the provider reports, the ledger holds one debit per
\* payout reported paid and none otherwise.
THEOREM LedgerCorrect == Spec => []LedgerRecordsEachSuccessOnce
<1>1. IInv => LedgerRecordsEachSuccessOnce
  BY DEF IInv
<1>2. QED
  BY <1>1, BooksCorrect, PTL

\* PAID always comes with its debit and the provider's reference.
THEOREM PaidBooked == Spec => []PaidIsBooked
<1>1. IInv => PaidIsBooked
  BY DEF IInv
<1>2. QED
  BY <1>1, BooksCorrect, PTL

\* No debit is booked for money the provider has not disbursed.
THEOREM BooksAreGenuine == Spec => []BookedMeansDisbursed
<1>1. IInv => BookedMeansDisbursed
  <2> SUFFICES ASSUME IInv, NEW a \in Assignments, ledger[a] > 0
               PROVE  provider[a] \in {"SUCCEEDED", "REVERSED"}
    BY DEF BookedMeansDisbursed
  <2>1. PICK e \in processed : e.payout = a /\ e.status = "SUCCEEDED"
    BY DEF IInv, LedgerRecordsEachSuccessOnce, Processed
  <2>2. e \in events
    BY DEF IInv, InboxIsGenuine
  <2>3. QED
    BY <2>1, <2>2 DEF IInv, EventsAreFacts
<1>2. QED
  BY <1>1, BooksCorrect, PTL

\* Where there is no row, only approval makes one, and it asks for SUBMITTED: jobs,
\* webhooks and listeners, however late, update rows that exist.
LEMMA OnlyApprovalSchedules ==
  ASSUME IInv, [Next]_vars, NEW a \in Assignments, status[a] = "NONE", ~ Approve(a)
  PROVE  status'[a] = "NONE"
<1>1. TypeOK /\ WorkHasRow
  BY DEF IInv
<1>2. /\ \A j \in ProcessJobs : j \in Jobs /\ j.payout \in Assignments
      /\ \A j \in WebhookJobs : j \in Jobs /\ j.event.payout \in Assignments
  BY JobTypes
<1> USE DEF payoutVars
<1>3. ASSUME NEW b \in Assignments,
             Approve(b) \/ HoldPayout(b) \/ Retry(b) \/ HandleTerminalFailure(b)
      PROVE  status'[a] = "NONE"
  <2>1. CASE b # a
    BY <1>1, <1>3, <2>1 DEF Approve, HoldPayout, Retry, HandleTerminalFailure, TypeOK
  <2>2. CASE b = a
    BY <1>1, <1>3, <2>2 DEF HoldPayout, Holdable, Retry, Retryable,
       HandleTerminalFailure, TypeOK
  <2>3. QED
    BY <2>1, <2>2
<1>4. ASSUME NEW b \in Assignments,
             \/ InsertDispute(b) \/ DisputeAssignment(b) \/ ResolveReconciliation(b)
             \/ LoseTerminalFailure(b) \/ DispatchDue(b) \/ ReviewAccount(b)
             \/ ProviderSucceeds(b) \/ ProviderFails(b) \/ ProviderReverses(b)
      PROVE  status'[a] = "NONE"
  BY <1>4 DEF InsertDispute, DisputeAssignment, ResolveReconciliation,
     LoseTerminalFailure, DispatchDue, ReviewAccount, ProviderSucceeds, ProviderFails,
     ProviderReverses, ProviderSettles
<1>5. ASSUME NEW j \in ProcessJobs, PayoutJobStep(j) PROVE status'[a] = "NONE"
  <2>1. CASE UNCHANGED status
    BY <2>1
  <2>2. CASE ~ UNCHANGED status
    <3>1. /\ jobState[j] \in InFlight
          /\ \E x \in PayoutStatus : status' = [status EXCEPT ![j.payout] = x]
      BY <1>5, <2>2 DEF PayoutJobStep, SelectPayout, SkipPayout, FailPreflight,
         MarkProcessing, CallAccepted, CallRefused, CallDeferred, CallThrows,
         StoreAccepted, StoreRefused, StoreDeferred, InFlight, PayoutStatus
    <3>2. j.payout # a
      BY <3>1 DEF IInv, WorkHasRow
    <3>3. QED
      BY <1>1, <1>2, <3>1, <3>2 DEF TypeOK
  <2>3. QED
    BY <2>1, <2>2
<1>6. ASSUME NEW j \in WebhookJobs, ProcessWebhook(j) PROVE status'[a] = "NONE"
  <2>1. j.event \in events
    BY <1>6 DEF ProcessWebhook, IInv, InboxIsGenuine
  <2>2. status[j.event.payout] # "NONE"
    BY <1>2, <2>1 DEF IInv, EventsAreFacts, WorkHasRow
  <2>3. QED
    BY <1>1, <1>2, <1>6, <2>2 DEF ProcessWebhook, TypeOK
<1>7. ASSUME NEW j \in Jobs, QueueStep(j) \/ CrashJob(j) \/ WebhookThrows(j)
      PROVE  status'[a] = "NONE"
  BY <1>7 DEF QueueStep, AddJob, LoseAdd, EvictJob, CrashJob, WebhookThrows
<1>8. CASE DeployConfiguration \/ (\E e \in Event : IngestWebhook(e)) \/ UNCHANGED vars
  BY <1>8 DEF DeployConfiguration, IngestWebhook, vars
<1>9. QED
  BY <1>2, <1>3, <1>4, <1>5, <1>6, <1>7, <1>8
     DEF Next, ApiStep, WorkerStep, EnvironmentStep

\* A step after which a payout is untried leaves its row as it was, inserts it
\* (approve) or holds it (createDispute); nobody has been asked for its money.
LEMMA UntriedStep ==
  ASSUME IInv, UntriedIsNew, [Next]_vars, NEW a \in Assignments, retryCount'[a] = 0
  PROVE  /\ retryCount[a] = 0
         /\ \/ status'[a] = status[a]
            \/ Approve(a) /\ status'[a] = "SCHEDULED"
            \/ HoldPayout(a) /\ status'[a] = "ON_HOLD"
         /\ provider'[a] = "NONE"
         /\ \A k \in ProcessJobs :
              k.payout = a => jobState'[k] \notin InFlight \ {"selected"}
<1> DEFINE Same == UNCHANGED <<retryCount, provider>>
           Past == InFlight \ {"selected"}
           Idles == \A k \in ProcessJobs :
                      jobState'[k] = jobState[k] \/ jobState'[k] \notin Past
<1>1. TypeOK
  BY DEF IInv
<1>2. /\ \A j \in ProcessJobs : j \in Jobs /\ j.payout \in Assignments
      /\ \A j \in WebhookJobs : j \in Jobs /\ j.event.payout \in Assignments
      /\ retryCount \in [Assignments -> 0..RetryCap]
      /\ status \in [Assignments -> PayoutStatus \cup {"NONE"}]
      /\ provider \in [Assignments -> ProviderStatus]
      /\ jobState \in [Jobs -> JobState]
  BY <1>1, JobTypes DEF TypeOK
<1>3. retryCount[a] = 0 =>
        /\ status[a] \in {"NONE", "SCHEDULED", "ON_HOLD"}
        /\ provider[a] = "NONE"
        /\ \A k \in ProcessJobs : k.payout = a => jobState[k] \notin Past
  BY DEF UntriedIsNew
<1> USE DEF payoutVars, providerVars
<1>4. ASSUME NEW b \in Assignments,
             Approve(b) \/ HoldPayout(b) \/ Retry(b) \/ HandleTerminalFailure(b)
      PROVE  /\ Same /\ jobState' = jobState
             /\ \/ status'[a] = status[a]
                \/ Approve(a) /\ status'[a] = "SCHEDULED"
                \/ HoldPayout(a) /\ status'[a] = "ON_HOLD"
  <2>1. Same /\ jobState' = jobState
    BY <1>4 DEF Approve, HoldPayout, Retry, HandleTerminalFailure, queueVars
  <2>2. CASE b # a
    BY <1>2, <1>4, <2>1, <2>2 DEF Approve, HoldPayout, Retry, HandleTerminalFailure
  <2>3. CASE b = a
    BY <1>2, <1>3, <1>4, <2>1, <2>3 DEF Approve, HoldPayout, Retry, Retryable,
       HandleTerminalFailure
  <2>4. QED
    BY <2>1, <2>2, <2>3
<1>5. ASSUME NEW b \in Assignments,
             \/ InsertDispute(b) \/ DisputeAssignment(b) \/ ResolveReconciliation(b)
             \/ LoseTerminalFailure(b) \/ DispatchDue(b) \/ ReviewAccount(b)
      PROVE  Same /\ UNCHANGED <<status, jobState>>
  BY <1>5 DEF InsertDispute, DisputeAssignment, ResolveReconciliation, LoseTerminalFailure,
     DispatchDue, ReviewAccount, queueVars
<1>6. ASSUME NEW b \in Assignments,
             ProviderSucceeds(b) \/ ProviderFails(b) \/ ProviderReverses(b)
      PROVE  /\ UNCHANGED <<status, retryCount, jobState>>
             /\ provider[a] = "NONE" => provider'[a] = "NONE"
  BY <1>2, <1>6 DEF ProviderSucceeds, ProviderFails, ProviderReverses, ProviderSettles, queueVars
<1>7. ASSUME NEW k \in Jobs, QueueStep(k) \/ CrashJob(k) \/ WebhookThrows(k)
      PROVE  Same /\ UNCHANGED status /\ Idles
  BY <1>2, <1>7 DEF QueueStep, AddJob, LoseAdd, EvictJob, CrashJob, WebhookThrows,
     AttemptFails, InFlight
<1>8. CASE DeployConfiguration \/ (\E e \in Event : IngestWebhook(e)) \/ UNCHANGED vars
  BY <1>3, <1>8 DEF DeployConfiguration, IngestWebhook, vars, queueVars
<1>9. ASSUME NEW j \in WebhookJobs, ProcessWebhook(j)
      PROVE  /\ Same /\ Idles
             /\ provider[a] = "NONE" => status'[a] = status[a]
  <2>1. Same /\ Idles
    BY <1>2, <1>9 DEF ProcessWebhook, JobReturns, InFlight
  <2>2. provider[j.event.payout] # "NONE"
    BY <1>9 DEF ProcessWebhook, IInv, InboxIsGenuine, EventsAreFacts
  <2>3. provider[a] = "NONE" => status'[a] = status[a]
    BY <1>2, <1>9, <2>2 DEF ProcessWebhook
  <2>4. QED
    BY <2>1, <2>3
<1>10. ASSUME NEW j \in ProcessJobs, PayoutJobStep(j), j.payout # a
       PROVE  /\ retryCount'[a] = retryCount[a] /\ status'[a] = status[a]
              /\ provider'[a] = provider[a]
              /\ \A k \in ProcessJobs : k.payout = a => jobState'[k] = jobState[k]
  <2>1. /\ \E x : jobState' = [jobState EXCEPT ![j] = x]
        /\ \E x : status' = [status EXCEPT ![j.payout] = x]
        /\ \E x : retryCount' = [retryCount EXCEPT ![j.payout] = x]
        /\ \E x : provider' = [provider EXCEPT ![j.payout] = x]
    <3>1. \E x : jobState' = [jobState EXCEPT ![j] = x]
      BY <1>10 DEF PayoutJobStep, SelectPayout, SkipPayout, FailPreflight, MarkProcessing,
         CallAccepted, CallRefused, CallDeferred, CallThrows, StoreAccepted, StoreRefused,
         StoreDeferred, JobReturns, AttemptFails
    <3>2. \E x : status' = [status EXCEPT ![j.payout] = x]
      <4>1. status' = status => status' = [status EXCEPT ![j.payout] = status[j.payout]]
        BY <1>2
      <4>2. QED
        BY <1>10, <4>1 DEF PayoutJobStep, SelectPayout, SkipPayout, FailPreflight,
           MarkProcessing, CallAccepted, CallRefused, CallDeferred, CallThrows,
           StoreAccepted, StoreRefused, StoreDeferred
    <3>3. \E x : retryCount' = [retryCount EXCEPT ![j.payout] = x]
      <4>1. retryCount' = retryCount =>
              retryCount' = [retryCount EXCEPT ![j.payout] = retryCount[j.payout]]
        BY <1>2
      <4>2. QED
        BY <1>10, <4>1 DEF PayoutJobStep, SelectPayout, SkipPayout, FailPreflight,
           MarkProcessing, CallAccepted, CallRefused, CallDeferred, CallThrows,
           StoreAccepted, StoreRefused, StoreDeferred
    <3>4. \E x : provider' = [provider EXCEPT ![j.payout] = x]
      <4>1. provider' = provider =>
              provider' = [provider EXCEPT ![j.payout] = provider[j.payout]]
        BY <1>2
      <4>2. QED
        BY <1>10, <4>1 DEF PayoutJobStep, SelectPayout, SkipPayout, FailPreflight,
           MarkProcessing, CallAccepted, CallRefused, CallDeferred, CallThrows,
           StoreAccepted, StoreRefused, StoreDeferred, ProviderTakes
    <3>5. QED
      BY <3>1, <3>2, <3>3, <3>4
  <2>2. QED
    BY <1>2, <1>10, <2>1
<1>11. ASSUME NEW j \in ProcessJobs, PayoutJobStep(j), j.payout = a
       PROVE  Same /\ UNCHANGED status /\ Idles
  <2>1. ~ MarkProcessing(j)
    BY <1>2, <1>11 DEF MarkProcessing
  <2>2. retryCount' = retryCount
    BY <1>11, <2>1 DEF PayoutJobStep, SelectPayout, SkipPayout, FailPreflight, CallAccepted,
       CallRefused, CallDeferred, CallThrows, StoreAccepted, StoreRefused, StoreDeferred
  <2>3. jobState[j] \notin Past
    BY <1>3, <1>11, <2>2
  <2>4. SelectPayout(j) \/ SkipPayout(j) \/ FailPreflight(j)
    BY <1>11, <2>1, <2>3 DEF PayoutJobStep, CallAccepted, CallRefused, CallDeferred,
       CallThrows, StoreAccepted, StoreRefused, StoreDeferred, InFlight
  <2>5. QED
    BY <1>2, <2>4 DEF SelectPayout, SkipPayout, FailPreflight, JobReturns, AttemptFails,
       InFlight
<1>13. CASE \E j \in ProcessJobs : PayoutJobStep(j)
  <2>1. PICK j \in ProcessJobs : PayoutJobStep(j)
    BY <1>13
  <2>2. CASE j.payout = a
    BY <1>3, <1>11, <2>1, <2>2
  <2>3. CASE j.payout # a
    BY <1>3, <1>10, <2>1, <2>3
  <2>4. QED
    BY <2>2, <2>3
<1>14. CASE \E j \in WebhookJobs : ProcessWebhook(j)
  BY <1>3, <1>9, <1>14
<1>15. CASE \E k \in Jobs : QueueStep(k) \/ CrashJob(k) \/ WebhookThrows(k)
  BY <1>3, <1>7, <1>15
<1>16. CASE \E b \in Assignments :
              ProviderSucceeds(b) \/ ProviderFails(b) \/ ProviderReverses(b)
  BY <1>3, <1>6, <1>16
<1>17. CASE \E b \in Assignments :
              \/ Approve(b) \/ HoldPayout(b) \/ Retry(b) \/ HandleTerminalFailure(b)
              \/ InsertDispute(b) \/ DisputeAssignment(b) \/ ResolveReconciliation(b)
              \/ LoseTerminalFailure(b) \/ DispatchDue(b) \/ ReviewAccount(b)
  BY <1>3, <1>4, <1>5, <1>17
<1>18. QED
  BY <1>2, <1>8, <1>13, <1>14, <1>15, <1>16, <1>17
     DEF Next, ApiStep, WorkerStep, EnvironmentStep

\* Only the steps of createDispute move a dispute, and approval needs SUBMITTED work.
LEMMA MarkKept ==
  ASSUME TypeOK, HoldFollowsMark, [Next]_vars
  PROVE  /\ HoldFollowsMark'
         /\ \A a \in Assignments :
              disputing'[a] = "opened" => disputing[a] = "opened" \/ HoldPayout(a)
<1>1. /\ assignment \in [Assignments -> {"SUBMITTED", "APPROVED", "DISPUTED"}]
      /\ disputing \in [Assignments -> {"none", "inserted", "marked", "opened"}]
  BY DEF TypeOK
<1>2. CASE UNCHANGED assignmentVars
  BY <1>2 DEF HoldFollowsMark, assignmentVars
<1>3. ASSUME NEW b \in Assignments,
             Approve(b) \/ InsertDispute(b) \/ DisputeAssignment(b) \/ HoldPayout(b)
      PROVE  /\ HoldFollowsMark'
             /\ \A a \in Assignments :
                  disputing'[a] = "opened" => disputing[a] = "opened" \/ HoldPayout(a)
  BY <1>1, <1>3 DEF HoldFollowsMark, Approve, InsertDispute, DisputeAssignment, HoldPayout
<1>4. QED
  BY <1>2, <1>3 DEF Next, ApiStep, QueueStep, WorkerStep, EnvironmentStep, Retry,
     ResolveReconciliation, IngestWebhook, AddJob, LoseAdd, EvictJob, CrashJob,
     PayoutJobStep, SelectPayout, SkipPayout, FailPreflight, MarkProcessing, CallAccepted,
     CallRefused, CallDeferred, CallThrows, StoreAccepted, StoreRefused, StoreDeferred,
     ProcessWebhook, WebhookThrows, HandleTerminalFailure, LoseTerminalFailure,
     DispatchDue, ProviderSucceeds, ProviderFails, ProviderReverses, ProviderSettles,
     ReviewAccount, DeployConfiguration, vars

\* An untried payout is held when the dispute is through, since the assignment was
\* DISPUTED before, and stays so.
LEMMA HoldKept == IInv /\ HoldInv /\ [Next]_vars => HoldInv'
<1> SUFFICES ASSUME IInv, HoldInv, [Next]_vars PROVE HoldInv'
  OBVIOUS
<1>1. UntriedIsNew /\ UntriedIsHeld /\ HoldFollowsMark /\ TypeOK
  BY DEF HoldInv, IInv
<1>2. UntriedIsNew'
  <2> SUFFICES ASSUME NEW a \in Assignments, retryCount'[a] = 0
               PROVE  /\ status'[a] \in {"NONE", "SCHEDULED", "ON_HOLD"}
                      /\ provider'[a] = "NONE"
                      /\ \A j \in ProcessJobs :
                           j.payout = a => jobState'[j] \notin InFlight \ {"selected"}
    BY DEF UntriedIsNew
  <2>1. QED
    BY <1>1, UntriedStep DEF UntriedIsNew
<1>3. UntriedIsHeld'
  <2> SUFFICES ASSUME NEW a \in Assignments, disputing'[a] = "opened", retryCount'[a] = 0
               PROVE  status'[a] \in {"NONE", "ON_HOLD"}
    BY DEF UntriedIsHeld
  <2>1. retryCount[a] = 0 /\ status[a] \in {"NONE", "SCHEDULED", "ON_HOLD"}
    BY <1>1, UntriedStep DEF UntriedIsNew
  <2>2. CASE HoldPayout(a)
    BY <1>1, <2>1, <2>2 DEF HoldPayout, Holdable, TypeOK
  <2>3. CASE ~ HoldPayout(a)
    <3>1. disputing[a] = "opened"
      BY <1>1, <2>3, MarkKept
    <3>2. ~ Approve(a) /\ status[a] \in {"NONE", "ON_HOLD"}
      BY <1>1, <2>1, <3>1 DEF HoldFollowsMark, UntriedIsHeld, Approve
    <3>3. QED
      BY <1>1, <2>3, <3>2, UntriedStep
  <2>4. QED
    BY <2>2, <2>3
<1>4. QED
  BY <1>1, <1>2, <1>3, MarkKept DEF HoldInv

\* A dispute that is through has stopped every payout nobody has marked, also one
\* whose approval fell between its statements (createDispute, approve, processPayout).
THEOREM UntriedHeld == Spec => []UntriedIsHeld
<1>1. Init => HoldInv
  <2> SUFFICES ASSUME Init PROVE HoldInv
    OBVIOUS
  <2>1. \A j \in ProcessJobs : jobState[j] = "none"
    BY JobTypes DEF Init
  <2>2. QED
    BY <2>1 DEF Init, HoldInv, UntriedIsHeld, UntriedIsNew, HoldFollowsMark, InFlight
<1>2. HoldInv => UntriedIsHeld
  BY DEF HoldInv
<1>3. QED
  BY <1>1, <1>2, HoldKept, BooksCorrect, PTL DEF Spec

-----------------------------------------------------------------------------
(***************************************************************************)
(* Reconciliation.                                                          *)
(***************************************************************************)

\* Only a webhook writes MATCHED without a person's decision, and decisions stay.
LEMMA ReconStep ==
  ASSUME TypeOK, [Next]_vars
  PROVE  /\ processed \subseteq processed'
         /\ \A a \in Assignments : resolved[a] => resolved'[a]
         /\ \A a \in Assignments :
              \/ recon'[a] = recon[a]
              \/ resolved'[a]
              \/ \E j \in WebhookJobs : ProcessWebhook(j) /\ j.event.payout = a
<1>1. CASE UNCHANGED <<processed, recon, resolved>>
  BY <1>1
<1>2. ASSUME NEW a \in Assignments, ResolveReconciliation(a)
      PROVE  /\ processed' = processed
             /\ \A b \in Assignments : resolved[b] => resolved'[b]
             /\ \A b \in Assignments : recon'[b] = recon[b] \/ resolved'[b]
  BY <1>2 DEF ResolveReconciliation, TypeOK
<1>3. ASSUME NEW j \in WebhookJobs, ProcessWebhook(j)
      PROVE  /\ processed \subseteq processed' /\ resolved' = resolved
             /\ \A b \in Assignments : recon'[b] = recon[b] \/ j.event.payout = b
  BY <1>3 DEF ProcessWebhook, TypeOK
<1>4. QED
  BY <1>1, <1>2, <1>3 DEF Next, ApiStep, QueueStep, WorkerStep, EnvironmentStep, Approve,
     InsertDispute, DisputeAssignment, HoldPayout, Retry, IngestWebhook, AddJob, LoseAdd,
     EvictJob, CrashJob, PayoutJobStep, SelectPayout, SkipPayout, FailPreflight,
     MarkProcessing, CallAccepted, CallRefused, CallDeferred, CallThrows, StoreAccepted,
     StoreRefused, StoreDeferred, WebhookThrows, HandleTerminalFailure,
     LoseTerminalFailure, DispatchDue, ProviderSucceeds, ProviderFails, ProviderReverses,
     ProviderSettles, ReviewAccount, DeployConfiguration, vars, bookVars

\* A step keeps the evidence of an undecided MATCHED, or brings it.
LEMMA MatchedKept ==
  ASSUME TypeOK, TypeOK', MatchedIsExact, [Next]_vars
  PROVE  MatchedIsExact'
<1> SUFFICES ASSUME NEW a \in Assignments, recon'[a] = "MATCHED", ~ resolved'[a]
             PROVE  \E e \in Processed(a, "SUCCEEDED")' : e.exact
  BY DEF MatchedIsExact
<1>1. CASE recon'[a] = recon[a]
  <2>1. ~ resolved[a]
    BY ReconStep
  <2>2. PICK e \in Processed(a, "SUCCEEDED") : e.exact
    BY <1>1, <2>1 DEF MatchedIsExact
  <2>3. QED
    BY <2>2, ReconStep DEF Processed
<1>2. CASE recon'[a] # recon[a]
  <2>1. PICK j \in WebhookJobs : ProcessWebhook(j) /\ j.event.payout = a
    BY <1>2, ReconStep
  <2>2. recon'[a] = NextRecon(j.event) /\ j.event \in processed'
    BY <2>1 DEF ProcessWebhook, TypeOK
  <2>3. j.event.status = "SUCCEEDED" /\ j.event.exact
    BY <2>2, JobTypes, PipelineAssumption DEF NextRecon, NextStatus
  <2>4. QED
    BY <2>1, <2>2, <2>3 DEF Processed
<1>3. QED
  BY <1>1, <1>2

\* MATCHED stands for a reported success with the expected amount unless a person
\* decided otherwise, whatever is announced, repeated or resolved in between
\* (processWebhook, resolve).
THEOREM MatchedExact == Spec => []MatchedIsExact
<1>1. Init => MatchedIsExact
  BY DEF Init, MatchedIsExact
<1>2. TypeOK /\ MatchedIsExact /\ [Next]_vars => MatchedIsExact'
  BY MatchedKept, NextTypeOK
<1>3. QED
  BY <1>1, <1>2, TypeCorrect, PTL DEF Spec

-----------------------------------------------------------------------------
(***************************************************************************)
(* Settled payouts.                                                         *)
(***************************************************************************)

\* Approval makes the row and the assignment APPROVED at once, and nothing makes an
\* assignment SUBMITTED again.
LEMMA SubmittedKept ==
  ASSUME IInv, SubmittedHasNoRow, [Next]_vars
  PROVE  SubmittedHasNoRow'
<1> SUFFICES ASSUME NEW a \in Assignments, assignment'[a] = "SUBMITTED"
             PROVE  status'[a] = "NONE"
  BY DEF SubmittedHasNoRow
<1>1. assignment \in [Assignments -> {"SUBMITTED", "APPROVED", "DISPUTED"}]
  BY DEF IInv, TypeOK
<1>2. ~ Approve(a)
  BY <1>1 DEF Approve
<1>3. assignment[a] = "SUBMITTED"
  <2>1. ASSUME NEW b \in Assignments, Approve(b) \/ DisputeAssignment(b)
        PROVE  assignment[a] = "SUBMITTED"
    BY <1>1, <2>1 DEF Approve, DisputeAssignment
  <2>2. CASE UNCHANGED assignment
    BY <2>2
  <2>3. QED
    BY <2>1, <2>2 DEF Next, ApiStep, QueueStep, WorkerStep, EnvironmentStep, InsertDispute,
       HoldPayout, Retry, ResolveReconciliation, IngestWebhook, AddJob, LoseAdd, EvictJob,
       CrashJob, PayoutJobStep, SelectPayout, SkipPayout, FailPreflight, MarkProcessing,
       CallAccepted, CallRefused, CallDeferred, CallThrows, StoreAccepted, StoreRefused,
       StoreDeferred, ProcessWebhook, WebhookThrows, HandleTerminalFailure,
       LoseTerminalFailure, DispatchDue, ProviderSucceeds, ProviderFails,
       ProviderReverses, ProviderSettles, ReviewAccount, DeployConfiguration,
       vars, assignmentVars
<1>4. QED
  BY <1>2, <1>3, OnlyApprovalSchedules DEF SubmittedHasNoRow

\* With nothing under way, each step that writes a status is barred from a settled one.
LEMMA SettledStep ==
  ASSUME IInv, SubmittedHasNoRow, Next, NEW a \in Assignments,
         status[a] \in {"PAID", "REVERSED", "ON_HOLD"}, Quiet(a)
  PROVE  status'[a] = status[a]
<1>1. TypeOK
  BY DEF IInv
<1>2. /\ \A j \in ProcessJobs : j \in Jobs /\ j.payout \in Assignments
      /\ \A j \in WebhookJobs : j \in Jobs /\ j.event.payout \in Assignments
  BY JobTypes
<1> USE DEF payoutVars
<1>3. ASSUME NEW b \in Assignments,
             Approve(b) \/ HoldPayout(b) \/ Retry(b) \/ HandleTerminalFailure(b)
      PROVE  status'[a] = status[a]
  <2>1. CASE b # a
    BY <1>1, <1>3, <2>1 DEF Approve, HoldPayout, Retry, HandleTerminalFailure, TypeOK
  <2>2. CASE b = a
    <3>1. ~ Approve(a)
      BY DEF Approve, SubmittedHasNoRow
    <3>2. QED
      BY <1>1, <1>3, <2>2, <3>1 DEF HoldPayout, Holdable, Retry, Retryable,
         HandleTerminalFailure, TypeOK
  <2>3. QED
    BY <2>1, <2>2
<1>4. ASSUME NEW j \in ProcessJobs, PayoutJobStep(j) PROVE status'[a] = status[a]
  <2>1. CASE UNCHANGED status
    BY <2>1
  <2>2. CASE ~ UNCHANGED status
    <3>1. /\ jobState[j] \in InFlight
          /\ \E x \in PayoutStatus : status' = [status EXCEPT ![j.payout] = x]
      BY <1>4, <2>2 DEF PayoutJobStep, SelectPayout, SkipPayout, FailPreflight,
         MarkProcessing, CallAccepted, CallRefused, CallDeferred, CallThrows,
         StoreAccepted, StoreRefused, StoreDeferred, InFlight, PayoutStatus
    <3>2. j.payout # a
      BY <3>1 DEF Quiet
    <3>3. QED
      BY <1>1, <1>2, <3>1, <3>2 DEF TypeOK
  <2>3. QED
    BY <2>1, <2>2
<1>5. ASSUME NEW j \in WebhookJobs, ProcessWebhook(j) PROVE status'[a] = status[a]
  <2>1. j.event \in events \ processed
    BY <1>5 DEF ProcessWebhook, IInv, InboxIsGenuine
  <2>2. j.event.payout # a
    BY <2>1 DEF Quiet
  <2>3. QED
    BY <1>1, <1>2, <1>5, <2>2 DEF ProcessWebhook, TypeOK
<1>6. CASE UNCHANGED status
  BY <1>6
<1>7. QED
  BY <1>3, <1>4, <1>5, <1>6 DEF Next, ApiStep, QueueStep, WorkerStep, EnvironmentStep,
     InsertDispute, DisputeAssignment, IngestWebhook, ResolveReconciliation, AddJob,
     LoseAdd, EvictJob, CrashJob, WebhookThrows, LoseTerminalFailure, DispatchDue,
     ProviderSucceeds, ProviderFails, ProviderReverses, ProviderSettles, ReviewAccount,
     DeployConfiguration

\* A payout that is PAID, REVERSED or ON_HOLD stays so while no job is between two
\* statements for it and no announcement is left: queued jobs, sweep, retry and late
\* listeners pass it by.
THEOREM SettledStays == Spec => SettledStaysWhenQuiet
<1>1. Init => SubmittedHasNoRow
  BY DEF Init, SubmittedHasNoRow
<1>2. IInv /\ SubmittedHasNoRow /\ [Next]_vars => SubmittedHasNoRow'
  BY SubmittedKept
<1>3. IInv /\ SubmittedHasNoRow /\ [Next]_vars =>
        [\A a \in Assignments :
           status[a] \in {"PAID", "REVERSED", "ON_HOLD"} /\ Quiet(a) =>
             status'[a] = status[a]]_vars
  BY SettledStep
<1>4. QED
  BY <1>1, <1>2, <1>3, BooksCorrect, PTL DEF Spec, SettledStaysWhenQuiet

-----------------------------------------------------------------------------
(***************************************************************************)
(* The pipeline implements PayOnce.                                         *)
(***************************************************************************)

\* A payout row, once there, stays.
LEMMA RowsStay ==
  ASSUME IInv, [Next]_vars, NEW a \in Assignments, status[a] # "NONE"
  PROVE  status'[a] # "NONE"
<1>1. TypeOK
  BY DEF IInv
<1>2. /\ \A j \in ProcessJobs : j \in Jobs /\ j.payout \in Assignments
      /\ \A j \in WebhookJobs : j \in Jobs /\ j.event.payout \in Assignments
  BY JobTypes
<1>3. CASE UNCHANGED status
  BY <1>3
<1>4. ASSUME NEW b \in Assignments, NEW x, x # "NONE",
             status' = [status EXCEPT ![b] = x]
      PROVE  status'[a] # "NONE"
  BY <1>1, <1>4 DEF TypeOK
<1>5. ASSUME NEW b \in Assignments, Approve(b) \/ HoldPayout(b) \/ HandleTerminalFailure(b)
      PROVE  status'[a] # "NONE"
  BY <1>1, <1>5 DEF Approve, HoldPayout, HandleTerminalFailure, TypeOK
<1>6. ASSUME NEW b \in Assignments, Retry(b) PROVE status'[a] # "NONE"
  BY <1>4, <1>6 DEF Retry
<1>7. ASSUME NEW j \in ProcessJobs, PayoutJobStep(j), ~ UNCHANGED status
      PROVE  status'[a] # "NONE"
  BY <1>2, <1>4, <1>7 DEF PayoutJobStep, SelectPayout, SkipPayout, FailPreflight,
     MarkProcessing, CallAccepted, CallRefused, CallDeferred, CallThrows, StoreAccepted,
     StoreRefused, StoreDeferred, payoutVars
<1>8. ASSUME NEW j \in WebhookJobs, ProcessWebhook(j) PROVE status'[a] # "NONE"
  <2>1. NextStatus(j.event) # "NONE"
    <3>1. j.event.status # "NONE"
      BY JobTypes, PipelineAssumption
    <3>2. QED
      BY <3>1 DEF NextStatus
  <2>2. QED
    BY <1>2, <1>4, <1>8, <2>1 DEF ProcessWebhook
<1>9. QED
  BY <1>3, <1>5, <1>6, <1>7, <1>8 DEF Next, ApiStep, QueueStep, WorkerStep, EnvironmentStep,
     InsertDispute, DisputeAssignment, IngestWebhook, ResolveReconciliation, AddJob,
     LoseAdd, EvictJob, CrashJob, WebhookThrows, LoseTerminalFailure, DispatchDue,
     ProviderSucceeds, ProviderFails, ProviderReverses, ProviderSettles, ReviewAccount,
     DeployConfiguration, vars, payoutVars

\* How a step moves the phase of one payout and of no other.
LEMMA PhaseMoves ==
  ASSUME NEW a \in Assignments, NEW from, NEW to,
         UNCHANGED ledger, Phase[a] = from, Phase'[a] = to,
         \A b \in Assignments : b # a => Phase'[b] = Phase[b]
  PROVE  Abstract!Advance(a, from, to)
<1>1. Phase' = [Phase EXCEPT ![a] = to]
  BY DEF Phase
<1>2. QED
  BY <1>1 DEF Abstract!Advance

\* A step that leaves the provider alone and makes no row moves no phase.
LEMMA PhaseStays ==
  ASSUME IInv, [Next]_vars, UNCHANGED provider, NEW a \in Assignments, ~ Approve(a)
  PROVE  Phase'[a] = Phase[a]
<1>1. status'[a] = "NONE" <=> status[a] = "NONE"
  BY OnlyApprovalSchedules, RowsStay
<1>2. QED
  BY <1>1 DEF Phase

\* A step other than approval that leaves the provider and the ledger alone is
\* invisible to PayOnce.
LEMMA Invisible ==
  ASSUME IInv, [Next]_vars, UNCHANGED <<provider, ledger>>,
         \A a \in Assignments : ~ Approve(a)
  PROVE  UNCHANGED <<Phase, ledger>>
<1>1. \A a \in Assignments : Phase'[a] = Phase[a]
  BY PhaseStays
<1>2. Phase' = Phase
  BY <1>1 DEF Phase
<1>3. QED
  BY <1>2

\* Every step of the pipeline is a step of PayOnce or leaves its state alone.
LEMMA StepImplements ==
  IInv /\ [Next]_vars => [Abstract!Next]_<<Phase, ledger>>
<1> SUFFICES ASSUME IInv, [Next]_vars, ~ UNCHANGED <<Phase, ledger>>
             PROVE  Abstract!Next
  OBVIOUS
<1>1. TypeOK /\ WorkHasRow
  BY DEF IInv
<1>2. /\ \A j \in ProcessJobs : j \in Jobs /\ j.payout \in Assignments
      /\ \A j \in WebhookJobs : j \in Jobs /\ j.event.payout \in Assignments
  BY JobTypes
<1> USE DEF providerVars, bookVars
\* Approval schedules.
<1>3. ASSUME NEW a \in Assignments, Approve(a) PROVE Abstract!Next
  <2>1. UNCHANGED <<provider, ledger>>
    BY <1>3 DEF Approve
  <2>2. \A b \in Assignments : b # a => status'[b] = status[b]
    BY <1>1, <1>3 DEF Approve, TypeOK
  <2>3. \A b \in Assignments : b # a => Phase'[b] = Phase[b]
    BY <2>1, <2>2 DEF Phase
  <2>4. CASE Phase'[a] = Phase[a]
    <3>1. Phase' = Phase
      BY <2>3, <2>4 DEF Phase
    <3>2. QED
      BY <2>1, <3>1
  <2>5. CASE Phase'[a] # Phase[a]
    <3>1. provider[a] = "NONE" /\ status[a] = "NONE" /\ status'[a] # "NONE"
      <4>1. status[a] # "NONE" => status'[a] # "NONE"
        BY RowsStay
      <4>2. QED
        BY <2>1, <2>5, <4>1 DEF Phase
    <3>2. Phase[a] = "open" /\ Phase'[a] = "scheduled"
      BY <2>1, <3>1 DEF Phase
    <3>3. Abstract!Schedule(a)
      BY <2>1, <2>3, <3>2, PhaseMoves DEF Abstract!Schedule
    <3>4. QED
      BY <3>3 DEF Abstract!Next
  <2>6. QED
    BY <2>4, <2>5
\* A call that reaches the provider for the first time requests.
<1>4. ASSUME NEW j \in ProcessJobs, PayoutJobStep(j) PROVE Abstract!Next
  <2> DEFINE a == j.payout
  <2>1. UNCHANGED ledger /\ \A b \in Assignments : ~ Approve(b)
    <3>1. UNCHANGED <<ledger, assignment>>
      BY <1>4 DEF PayoutJobStep, SelectPayout, SkipPayout, FailPreflight, MarkProcessing,
         CallAccepted, CallRefused, CallDeferred, CallThrows, StoreAccepted,
         StoreRefused, StoreDeferred, assignmentVars
    <3>2. \A b \in Assignments : Approve(b) => assignment'[b] # assignment[b]
      BY <1>1 DEF Approve, TypeOK
    <3>3. QED
      BY <3>1, <3>2
  <2>2. CASE UNCHANGED provider
    BY <2>1, <2>2, Invisible
  <2>3. CASE ~ UNCHANGED provider
    <3>1. ProviderTakes(a) /\ jobState[j] = "marked"
      BY <1>4, <2>3 DEF PayoutJobStep, SelectPayout, SkipPayout, FailPreflight,
         MarkProcessing, CallAccepted, CallRefused, CallDeferred, CallThrows,
         StoreAccepted, StoreRefused, StoreDeferred
    <3>2. provider[a] = "NONE" /\ provider' = [provider EXCEPT ![a] = "ACCEPTED"]
      BY <2>3, <3>1 DEF ProviderTakes
    <3>3. status[a] # "NONE" /\ status' = status
      BY <1>1, <1>4, <2>3, <3>1 DEF WorkHasRow, InFlight, PayoutJobStep, SelectPayout,
         SkipPayout, FailPreflight, MarkProcessing, CallAccepted, CallRefused,
         CallDeferred, CallThrows, StoreAccepted, StoreRefused, StoreDeferred, payoutVars
    <3>4. Phase[a] = "scheduled" /\ Phase'[a] = "requested"
      BY <1>1, <1>2, <3>2, <3>3 DEF Phase, TypeOK
    <3>5. \A b \in Assignments : b # a => Phase'[b] = Phase[b]
      BY <1>1, <3>2, <3>3 DEF Phase, TypeOK
    <3>6. Abstract!Request(a)
      BY <1>2, <2>1, <3>4, <3>5, PhaseMoves DEF Abstract!Request
    <3>7. QED
      BY <1>2, <3>6 DEF Abstract!Next
  <2>4. QED
    BY <2>2, <2>3
\* The provider's success disburses; its other steps are invisible.
<1>5. ASSUME NEW a \in Assignments,
             ProviderSucceeds(a) \/ ProviderFails(a) \/ ProviderReverses(a)
      PROVE  Abstract!Next
  <2>1. UNCHANGED <<ledger, status>>
    BY <1>5 DEF ProviderSucceeds, ProviderFails, ProviderReverses, ProviderSettles, payoutVars
  <2>2. \E to \in ProviderStatus : provider' = [provider EXCEPT ![a] = to]
    BY <1>5 DEF ProviderSucceeds, ProviderFails, ProviderReverses, ProviderSettles,
       ProviderStatus
  <2>3. \A b \in Assignments : b # a => Phase'[b] = Phase[b]
    BY <1>1, <2>1, <2>2 DEF Phase, TypeOK
  <2>4. CASE ProviderFails(a) \/ ProviderReverses(a)
    <3>1. Phase'[a] = Phase[a]
      BY <1>1, <2>4 DEF ProviderFails, ProviderReverses, ProviderSettles, Phase, TypeOK
    <3>2. Phase' = Phase
      BY <2>3, <3>1 DEF Phase
    <3>3. QED
      BY <2>1, <3>2
  <2>5. CASE ProviderSucceeds(a)
    <3>1. Phase[a] = "requested" /\ Phase'[a] = "disbursed"
      BY <1>1, <2>5 DEF ProviderSucceeds, ProviderSettles, Phase, TypeOK
    <3>2. Abstract!Disburse(a)
      BY <2>1, <2>3, <3>1, PhaseMoves DEF Abstract!Disburse
    <3>3. QED
      BY <3>2 DEF Abstract!Next
  <2>6. QED
    BY <1>5, <2>4, <2>5
\* A webhook that reports success books.
<1>6. ASSUME NEW j \in WebhookJobs, ProcessWebhook(j) PROVE Abstract!Next
  <2> DEFINE e == j.event
             a == e.payout
  <2>1. UNCHANGED <<provider, assignment>>
    BY <1>6 DEF ProcessWebhook, assignmentVars
  <2>2. \A b \in Assignments : ~ Approve(b)
    BY <1>1, <2>1 DEF Approve, TypeOK
  <2>3. ~ UNCHANGED ledger
    BY <2>1, <2>2, Invisible
  <2>4. /\ e.status = "SUCCEEDED"
        /\ ledger' = [ledger EXCEPT ![a] = 1]
        /\ ledger[a] = 0
    <3>1. NextStatus(e) = "PAID" /\ ledger' = Debit(a)
      BY <1>6, <2>3 DEF ProcessWebhook
    <3>2. e.status = "SUCCEEDED"
      BY <3>1, <1>2, JobTypes, PipelineAssumption DEF NextStatus
    <3>3. ledger[a] = 0
      BY <1>1, <1>2, <2>3, <3>1 DEF Debit, TypeOK
    <3>4. QED
      BY <3>1, <3>2, <3>3 DEF Debit
  <2>5. provider[a] \in {"SUCCEEDED", "REVERSED"}
    BY <1>6, <2>4 DEF ProcessWebhook, IInv, InboxIsGenuine, EventsAreFacts
  <2>6. Phase[a] = "disbursed" /\ Phase' = Phase
    <3>1. \A b \in Assignments : Phase'[b] = Phase[b]
      BY <2>1, <2>2, PhaseStays
    <3>2. QED
      BY <1>2, <2>5, <3>1 DEF Phase
  <2>7. Abstract!Book(a)
    BY <2>4, <2>6 DEF Abstract!Book
  <2>8. QED
    BY <1>2, <2>7 DEF Abstract!Next
\* Everything else leaves provider and ledger alone.
<1>7. CASE UNCHANGED <<provider, ledger>> /\ \A a \in Assignments : ~ Approve(a)
  BY <1>7, Invisible
<1>8. QED
  BY <1>3, <1>4, <1>5, <1>6, <1>7 DEF Next, ApiStep, QueueStep, WorkerStep,
     EnvironmentStep, InsertDispute, DisputeAssignment, HoldPayout, Retry, IngestWebhook,
     ResolveReconciliation, AddJob, LoseAdd, EvictJob, CrashJob, WebhookThrows,
     HandleTerminalFailure, LoseTerminalFailure, DispatchDue, ReviewAccount,
     DeployConfiguration, vars

\* Handlers, queue, worker and provider together implement PayOnce: money is
\* scheduled, requested and disbursed at most once for an assignment, and debited
\* at most once and only when disbursed.
THEOREM PipelinePaysOnce == Spec => PaysOnce
<1>1. Init => Abstract!Init
  <2> SUFFICES ASSUME Init PROVE Abstract!Init
    OBVIOUS
  <2>1. Phase = [a \in Assignments |-> "open"]
    BY DEF Init, Phase
  <2>2. QED
    BY <2>1 DEF Init, Abstract!Init
<1>2. QED
  BY <1>1, StepImplements, BooksCorrect, PTL DEF Spec, PaysOnce, Abstract!Spec
=============================================================================
