------------------------------- MODULE SignIn -------------------------------
(***************************************************************************)
(* Sign-in to one account of the service stack                              *)
(* (apps/api/src/modules/auth.ts): login with its failure count and lock,   *)
(* sessions, and the reset of the password with a recovery token.           *)
(*                                                                          *)
(* A request in flight is at an await: it keeps what its query returned and *)
(* its next statement, or transaction, is the next step.  The process may   *)
(* die at any of them.                                                      *)
(*                                                                          *)
(* A password is known by its generation, which password_updated_at tells   *)
(* apart.  Recovery tokens are the keys verifyOtp has set (OneTimeCodes).   *)
(* The rate limiter counts per address, and a client has as many as it      *)
(* likes: a request it stops changes nothing here.  The account is ACTIVE.  *)
(* The risk event a wrong password queues is read by no handler of these.   *)
(***************************************************************************)
EXTENDS Integers, FiniteSets, Combinatorics, StaleCounts

CONSTANTS Requests,     \* requests in flight at a time
          Sessions,     \* bound: user_sessions rows explored
          Tokens,       \* bound: recovery tokens explored
          MaxFailures,  \* wrong passwords that lock the account (5 in the code)
          MaxCount      \* bound: failed_attempts explored

ASSUME SignInAssumption ==
  /\ IsFiniteSet(Requests)
  /\ IsFiniteSet(Tokens)
  /\ MaxFailures \in Nat \ {0}
  /\ MaxCount \in Nat

VARIABLES
  failed,      \* user_credentials.failed_attempts
  locked,      \* whether user_credentials.locked_until is in the future
  generation,  \* passwords set so far
  session,     \* user_sessions by id: status, and the password it was opened with
  token,       \* recovery:<hash> keys in Redis
  request,     \* what a request in flight has read
  guesses,     \* history: wrong passwords since the last pardon (success, reset, end of a lock)
  revoked      \* history: the password in force when sessions were last revoked

credential == <<failed, locked, generation>>
vars == <<credential, session, token, request, guesses, revoked>>

Row == [status : {"NONE", "LIVE", "ENDED"}, password : Nat, late : BOOLEAN]
NoRow == [status |-> "NONE", password |-> 0, late |-> FALSE]

Idle == [op |-> "none"]
RequestState ==
  {Idle}
  \cup [op : {"login"}, failed : Nat, password : Nat]
  \cup [op : {"reset", "revoke"}]
  \cup [op : {"logout"}, id : Sessions]

TypeOK ==
  /\ failed \in Nat
  /\ locked \in BOOLEAN
  /\ generation \in Nat
  /\ session \in [Sessions -> Row]
  /\ token \in [Tokens -> {"UNSET", "SET", "GONE"}]
  /\ request \in [Requests -> RequestState]
  /\ guesses \in Nat
  /\ revoked \in Nat

\* As register leaves the account, but for the session it opens.
Init ==
  /\ failed = 0
  /\ locked = FALSE
  /\ generation = 0
  /\ session = [s \in Sessions |-> NoRow]
  /\ token = [t \in Tokens |-> "UNSET"]
  /\ request = [r \in Requests |-> Idle]
  /\ guesses = 0
  /\ revoked = 0

Becomes(r, state) == request' = [request EXCEPT ![r] = state]
Live(s) == session[s].status = "LIVE"

-----------------------------------------------------------------------------
(***************************************************************************)
(* login.                                                                   *)
(***************************************************************************)

\* A locked account goes no further.
ReadCredential(r) ==
  /\ request[r] = Idle
  /\ ~locked
  /\ Becomes(r, [op |-> "login", failed |-> failed, password |-> generation])
  /\ UNCHANGED <<credential, session, token, guesses, revoked>>

CountFailure(r, count) ==
  /\ request[r].op = "login"
  /\ count <= MaxCount
  /\ failed' = count
  /\ locked' = (count >= MaxFailures)
  /\ guesses' = guesses + 1
  /\ Becomes(r, Idle)
  /\ UNCHANGED <<generation, session, token, revoked>>

WrongUncounted(r) == CountFailure(r, request[r].failed)  \* defect for the checks: no increment

\* The count is of the row read, and below the limit the lock is taken away.
WrongPassword(r) == CountFailure(r, request[r].failed + 1)

PardonOne ==  \* defect for the checks: one failure is forgiven
  /\ failed' = failed - 1
  /\ locked' = FALSE
  /\ guesses' = 0

Pardon ==
  /\ failed' = 0
  /\ locked' = FALSE
  /\ guesses' = 0

Insert(s, password) ==
  session' = [session EXCEPT
    ![s] = [status |-> "LIVE", password |-> password, late |-> password < revoked]]

\* One transaction: the failures are forgotten, and the session is opened, with
\* the password the hash that was read belongs to.
RightPassword(r, s) ==
  /\ request[r].op = "login"
  /\ session[s] = NoRow
  /\ Pardon
  /\ Insert(s, request[r].password)
  /\ Becomes(r, Idle)
  /\ UNCHANGED <<generation, token, revoked>>

-----------------------------------------------------------------------------
(***************************************************************************)
(* resetPassword.                                                           *)
(***************************************************************************)

TakeTokenLate(r, t) ==  \* defect for the checks: the key is read, and deleted later
  /\ request[r] = Idle
  /\ token[t] = "SET"
  /\ Becomes(r, [op |-> "reset"])
  /\ UNCHANGED <<credential, session, token, guesses, revoked>>

\* getdel gives a token to one request.
TakeToken(r, t) ==
  /\ request[r] = Idle
  /\ token[t] = "SET"
  /\ token' = [token EXCEPT ![t] = "GONE"]
  /\ Becomes(r, [op |-> "reset"])
  /\ UNCHANGED <<credential, session, guesses, revoked>>

SetPassword(r) ==
  /\ request[r].op = "reset"
  /\ Pardon
  /\ generation' = generation + 1
  /\ Becomes(r, [op |-> "revoke"])
  /\ UNCHANGED <<session, token, revoked>>

RevokeOne(r) ==  \* defect for the checks: one session only, as logout does
  /\ request[r].op = "revoke"
  /\ IF \E s \in Sessions : Live(s)
     THEN \E s \in Sessions : Live(s) /\ session' = [session EXCEPT ![s].status = "ENDED"]
     ELSE UNCHANGED session
  /\ revoked' = generation
  /\ Becomes(r, Idle)
  /\ UNCHANGED <<credential, token, guesses>>

\* A statement of its own, after the new password is in force.
RevokeSessions(r) ==
  /\ request[r].op = "revoke"
  /\ session' = [s \in Sessions |->
                   IF Live(s) THEN [session[s] EXCEPT !.status = "ENDED"] ELSE session[s]]
  /\ revoked' = generation
  /\ Becomes(r, Idle)
  /\ UNCHANGED <<credential, token, guesses>>

-----------------------------------------------------------------------------
(***************************************************************************)
(* logout, and what time and Redis do.                                      *)
(***************************************************************************)
SessionFrom(r, s) ==
  /\ request[r] = Idle
  /\ Live(s)
  /\ Becomes(r, [op |-> "logout", id |-> s])
  /\ UNCHANGED <<credential, session, token, guesses, revoked>>

RevokeSession(r) ==
  /\ request[r].op = "logout"
  /\ session' = [session EXCEPT ![request[r].id].status = "ENDED"]
  /\ Becomes(r, Idle)
  /\ UNCHANGED <<credential, token, guesses, revoked>>

SessionExpires(s) ==
  /\ Live(s)
  /\ session' = [session EXCEPT ![s].status = "ENDED"]
  /\ UNCHANGED <<credential, token, request, guesses, revoked>>

\* Fifteen minutes pass; the count stays.
LockEnds ==
  /\ locked
  /\ locked' = FALSE
  /\ guesses' = 0
  /\ UNCHANGED <<failed, generation, session, token, request, revoked>>

\* verifyOtp sets a key, for ten minutes.
TokenSet(t) ==
  /\ token[t] = "UNSET"
  /\ token' = [token EXCEPT ![t] = "SET"]
  /\ UNCHANGED <<credential, session, request, guesses, revoked>>

TokenExpires(t) ==
  /\ token[t] = "SET"
  /\ token' = [token EXCEPT ![t] = "GONE"]
  /\ UNCHANGED <<credential, session, request, guesses, revoked>>

Crash(r) ==
  /\ request[r] # Idle
  /\ Becomes(r, Idle)
  /\ UNCHANGED <<credential, session, token, guesses, revoked>>

Next ==
  \/ LockEnds
  \/ \E s \in Sessions : SessionExpires(s)
  \/ \E t \in Tokens : TokenSet(t) \/ TokenExpires(t)
  \/ \E r \in Requests :
       \/ ReadCredential(r) \/ WrongPassword(r)
       \/ SetPassword(r) \/ RevokeSessions(r) \/ RevokeSession(r) \/ Crash(r)
       \/ \E s \in Sessions : RightPassword(r, s) \/ SessionFrom(r, s)
       \/ \E t \in Tokens : TakeToken(r, t)

Spec == Init /\ [][Next]_vars

-----------------------------------------------------------------------------
(***************************************************************************)
(* Properties.                                                              *)
(***************************************************************************)

\* Failures counted from stale rows are lost, and a late one takes the lock away
\* again, but not for ever: R requests at a time get at most C(MaxFailures+R, R)-1
\* wrong passwords looked at before the account stays locked (login).  For one
\* request that is MaxFailures; for two and five failures it is 20.
GuessesAreBounded ==
  LET atOnce == Cardinality(Requests)
  IN guesses < choose(MaxFailures + atOnce, atOnce)

\* The strengthening behind it: how many failures of its own a request is from the
\* lock, by the count it has read or may read now.
Remaining(count) == IF count < MaxFailures THEN MaxFailures - count ELSE 1
Now == IF locked THEN 0 ELSE Remaining(failed)
Left == [r \in Requests |->
           IF request[r].op = "login" /\ Remaining(request[r].failed) > Now
           THEN Remaining(request[r].failed) ELSE Now]
GuessesArePassed == guesses <= Cardinality(Passed(Left, MaxFailures))

\* A session opened with a password that was replaced, and whose sessions were
\* revoked, was opened after that, by a login that had read the old hash before
\* (resetPassword, login): no older session outlives the revocation.
OldSessionsAreLate ==
  \A s \in Sessions : Live(s) /\ session[s].password < revoked => session[s].late

\* Every password set was paid for with a recovery token of its own, whoever
\* presents one twice at the same time (resetPassword).
Spent == {t \in Tokens : token[t] = "GONE"}
Resetting == {r \in Requests : request[r].op = "reset"}
TokenResetsOnce == generation + Cardinality(Resetting) <= Cardinality(Spent)
(***************************************************************************)
(* Where requests do not overlap, no login has read a hash that is replaced *)
(* meanwhile, and what OldSessionsAreLate allows does not happen.            *)
(***************************************************************************)
OneAtATime == \A r, q \in Requests : r = q

\* A session that is live when the sessions of its password have been revoked.
NoOldSession == \A s \in Sessions : Live(s) => session[s].password >= revoked

AloneInv ==
  /\ revoked <= generation
  /\ \A r \in Requests : request[r].op = "login" => request[r].password = generation
  /\ NoOldSession
=============================================================================
