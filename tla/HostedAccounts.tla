--------------------------- MODULE HostedAccounts ---------------------------
(***************************************************************************)
(* Registration, sign-in and sessions of one account of the hosted stack    *)
(* (app/api/v1/auth), behind the limiter that lib/security/auth.ts keeps in *)
(* a table, one row for the client's address, the identifier and an action. *)
(*                                                                          *)
(* A request in flight is at an await: every query and update is a step of  *)
(* its own, registration inserts its rows in one batch, and the isolate may *)
(* die in between.  last_seen_at and the audit log are read by no handler.  *)
(***************************************************************************)
EXTENDS Integers, FiniteSets, Combinatorics, StaleCounts

CONSTANTS Requests,       \* requests in flight at a time
          Sessions,       \* bound: user_sessions rows explored
          LoginLimit,     \* logins in a window (10 in the code)
          RegisterLimit,  \* registrations in a window (5 in the code)
          MaxFailures,    \* wrong passwords that lock the account (5 in the code)
          MaxCount        \* bound: counts explored, of the limiter and of failures

ASSUME AccountsAssumption ==
  /\ IsFiniteSet(Requests)
  /\ LoginLimit \in Nat \ {0} /\ RegisterLimit \in Nat \ {0}
  /\ MaxFailures \in Nat \ {0}
  /\ MaxCount \in Nat

VARIABLES
  registered,  \* whether the rows of the account exist
  failed,      \* user_credentials.failed_attempts
  locked,      \* whether user_credentials.locked_until is in the future
  session,     \* user_sessions by id
  limit,       \* auth_rate_limits by action: attempts, end of window, block
  request,     \* what a request in flight has read
  admitted     \* history: requests the limiter let through since the window ended

account == <<registered, failed, locked>>
vars == <<account, session, limit, request, admitted>>

Action == {"login", "register"}
Limit(action) == IF action = "login" THEN LoginLimit ELSE RegisterLimit
LimitRow == [attempts : Nat, over : BOOLEAN, blocked : BOOLEAN]
NoRow == [attempts |-> 0, over |-> FALSE, blocked |-> FALSE]
FirstRow == [NoRow EXCEPT !.attempts = 1]

Idle == [op |-> "none"]
RequestState ==
  {Idle}
  \cup [op : {"limit"}, action : Action, row : LimitRow]
  \cup [op : Action \cup {"create", "open", "revoke"}]
  \cup [op : {"password"}, failed : Nat]

TypeOK ==
  /\ registered \in BOOLEAN
  /\ failed \in Nat
  /\ locked \in BOOLEAN
  /\ session \in [Sessions -> {"NONE", "LIVE", "ENDED"}]
  /\ limit \in [Action -> LimitRow]
  /\ request \in [Requests -> RequestState]
  /\ admitted \in [Action -> Nat]

Init ==
  /\ registered = FALSE
  /\ failed = 0
  /\ locked = FALSE
  /\ session = [s \in Sessions |-> "NONE"]
  /\ limit = [a \in Action |-> NoRow]
  /\ request = [r \in Requests |-> Idle]
  /\ admitted = [a \in Action |-> 0]

Becomes(r, state) == request' = [request EXCEPT ![r] = state]

-----------------------------------------------------------------------------
(***************************************************************************)
(* consumeAuthRateLimit.                                                    *)
(***************************************************************************)

\* A block that lasts ends the request.
ReadLimit(r, action) ==
  /\ request[r] = Idle
  /\ ~limit[action].blocked
  /\ limit[action].attempts < MaxCount
  /\ Becomes(r, [op |-> "limit", action |-> action, row |-> limit[action]])
  /\ UNCHANGED <<account, session, limit, admitted>>

Admit(r, action) ==
  /\ admitted' = [admitted EXCEPT ![action] = @ + 1]
  /\ Becomes(r, [op |-> action])
Refuse(r) == UNCHANGED admitted /\ Becomes(r, Idle)

\* (key_hash, action) is unique: the second of two inserts throws.
StartRow(r) ==
  LET action == request[r].action
  IN /\ request[r].op = "limit"
     /\ request[r].row = NoRow
     /\ IF limit[action] = NoRow
        THEN limit' = [limit EXCEPT ![action] = FirstRow] /\ Admit(r, action)
        ELSE UNCHANGED limit /\ Refuse(r)
     /\ UNCHANGED <<account, session>>

StartWindow(r) ==
  LET action == request[r].action
  IN /\ request[r].op = "limit"
     /\ request[r].row.over
     /\ limit' = [limit EXCEPT ![action] = FirstRow]
     /\ Admit(r, action)
     /\ UNCHANGED <<account, session>>

Counted(r, attempts) ==
  LET action == request[r].action
  IN /\ request[r].op = "limit"
     /\ request[r].row # NoRow
     /\ ~request[r].row.over
     /\ limit' = [limit EXCEPT ![action] = [attempts |-> attempts, over |-> @.over,
                                            blocked |-> attempts > Limit(action)]]
     /\ IF attempts <= Limit(action) THEN Admit(r, action) ELSE Refuse(r)
     /\ UNCHANGED <<account, session>>

CountSame(r) == Counted(r, request[r].row.attempts)  \* defect for the checks: no increment

\* The count is of the row read, and up to the limit a block is taken away.
CountAttempt(r) == Counted(r, request[r].row.attempts + 1)

-----------------------------------------------------------------------------
(***************************************************************************)
(* POST /auth/register.                                                     *)
(***************************************************************************)
ReadUsers(r) ==
  /\ request[r].op = "register"
  /\ Becomes(r, IF registered THEN Idle ELSE [op |-> "create"])
  /\ UNCHANGED <<account, session, limit, admitted>>

\* The user, credentials, consents and profile; email and number are unique.
CreateAccount(r) ==
  /\ request[r].op = "create"
  /\ registered' = TRUE
  /\ Becomes(r, IF registered THEN Idle ELSE [op |-> "open"])
  /\ UNCHANGED <<failed, locked, session, limit, admitted>>

\* createSession.  One that throws ends the request, like a crash.
OpenSession(r, s) ==
  /\ request[r].op = "open"
  /\ session[s] = "NONE"
  /\ session' = [session EXCEPT ![s] = "LIVE"]
  /\ Becomes(r, Idle)
  /\ UNCHANGED <<account, limit, admitted>>

-----------------------------------------------------------------------------
(***************************************************************************)
(* POST /auth/login.                                                        *)
(***************************************************************************)
ReadCredential(r) ==
  /\ request[r].op = "login"
  /\ Becomes(r, IF registered /\ ~locked THEN [op |-> "password", failed |-> failed] ELSE Idle)
  /\ UNCHANGED <<account, session, limit, admitted>>

WrongPassword(r) ==
  LET attempts == request[r].failed + 1
  IN /\ request[r].op = "password"
     /\ attempts <= MaxCount
     /\ failed' = attempts
     /\ locked' = (attempts >= MaxFailures)
     /\ Becomes(r, Idle)
     /\ UNCHANGED <<registered, session, limit, admitted>>

RightPasswordForgivesOne(r) ==  \* defect for the checks: one failure is forgiven
  /\ request[r].op = "password"
  /\ failed' = failed - 1
  /\ locked' = FALSE
  /\ Becomes(r, [op |-> "open"])
  /\ UNCHANGED <<registered, session, limit, admitted>>

\* The session is inserted next, by a statement of its own.
RightPassword(r) ==
  /\ request[r].op = "password"
  /\ failed' = 0
  /\ locked' = FALSE
  /\ Becomes(r, [op |-> "open"])
  /\ UNCHANGED <<registered, session, limit, admitted>>

-----------------------------------------------------------------------------
(***************************************************************************)
(* Sessions: POST /internal/e2e-session outside production, POST            *)
(* /auth/logout, DELETE /auth/sessions.                                     *)
(***************************************************************************)
ReadTestUser(r) ==
  /\ request[r] = Idle
  /\ registered
  /\ Becomes(r, [op |-> "open"])
  /\ UNCHANGED <<account, session, limit, admitted>>

Logout(s) ==
  /\ session[s] = "LIVE"
  /\ session' = [session EXCEPT ![s] = "ENDED"]
  /\ UNCHANGED <<account, limit, request, admitted>>

\* requireApiIdentity, with the cookie of some session.
ReadIdentity(r) ==
  /\ request[r] = Idle
  /\ \E s \in Sessions : session[s] = "LIVE"
  /\ Becomes(r, [op |-> "revoke"])
  /\ UNCHANGED <<account, session, limit, admitted>>

RevokeAll(r) ==
  /\ request[r].op = "revoke"
  /\ session' = [s \in Sessions |-> IF session[s] = "LIVE" THEN "ENDED" ELSE session[s]]
  /\ Becomes(r, Idle)
  /\ UNCHANGED <<account, limit, admitted>>

-----------------------------------------------------------------------------
(***************************************************************************)
(* Time, and crashes.                                                       *)
(***************************************************************************)
SessionExpires(s) ==
  /\ session[s] = "LIVE"
  /\ session' = [session EXCEPT ![s] = "ENDED"]
  /\ UNCHANGED <<account, limit, request, admitted>>

LockEnds ==
  /\ locked
  /\ locked' = FALSE
  /\ UNCHANGED <<registered, failed, session, limit, request, admitted>>

WindowEnds(action) ==
  /\ limit[action] # NoRow
  /\ ~limit[action].over
  /\ limit' = [limit EXCEPT ![action].over = TRUE]
  /\ admitted' = [admitted EXCEPT ![action] = 0]
  /\ UNCHANGED <<account, session, request>>

BlockEnds(action) ==
  /\ limit[action].blocked
  /\ limit' = [limit EXCEPT ![action].blocked = FALSE]
  /\ UNCHANGED <<account, session, request, admitted>>

Crash(r) ==
  /\ request[r] # Idle
  /\ Becomes(r, Idle)
  /\ UNCHANGED <<account, session, limit, admitted>>

Next ==
  \/ LockEnds
  \/ \E a \in Action : WindowEnds(a) \/ BlockEnds(a)
  \/ \E s \in Sessions : Logout(s) \/ SessionExpires(s)
  \/ \E r \in Requests :
       \/ StartRow(r) \/ StartWindow(r) \/ CountAttempt(r)
       \/ ReadUsers(r) \/ CreateAccount(r)
       \/ ReadCredential(r) \/ WrongPassword(r) \/ RightPassword(r)
       \/ ReadTestUser(r) \/ ReadIdentity(r) \/ RevokeAll(r) \/ Crash(r)
       \/ \E a \in Action : ReadLimit(r, a)
       \/ \E s \in Sessions : OpenSession(r, s)

Spec == Init /\ [][Next]_vars

-----------------------------------------------------------------------------
(***************************************************************************)
(* Properties.                                                              *)
(***************************************************************************)

\* Counts written from stale rows are lost, and a late one lifts a block or starts
\* the window again, but not for ever: of R requests at a time at most
\* C(limit + R, R) - 1 are let through in a window, and R more that had read the
\* window before (consumeAuthRateLimit).  For one request that is the limit, and
\* one for a count read in the old window.
AdmissionsAreBounded ==
  LET atOnce == Cardinality(Requests)
  IN \A a \in Action : admitted[a] < choose(Limit(a) + atOnce, atOnce) + atOnce

\* The strengthening behind it.  A window that is over is at its start for all who
\* read it; the requests that have not seen its end are each let through once.
Remaining(a, row) ==
  IF row.over THEN Limit(a) ELSE IF row.attempts < Limit(a) THEN Limit(a) - row.attempts ELSE 0
Reading(a) == {r \in Requests : request[r].op = "limit" /\ request[r].action = a}
Left(a) == [r \in Requests |->
              IF r \in Reading(a) /\ Remaining(a, request[r].row) > Remaining(a, limit[a])
              THEN Remaining(a, request[r].row) ELSE Remaining(a, limit[a])]
Late(a) == {r \in Reading(a) : ~request[r].row.over}

Passing(a) ==
  IF limit[a].over
  THEN admitted[a] + Cardinality(Late(a)) <= Cardinality(Requests)
  ELSE admitted[a] <= Cardinality(Requests) + Cardinality(Passed(Left(a), Limit(a)))
AdmissionsArePassed == \A a \in Action : Passing(a)
=============================================================================
