---------------------------- MODULE OneTimeCodes ----------------------------
(***************************************************************************)
(* One-time codes of the service stack: requestOtp and verifyOtp of         *)
(* apps/api/src/modules/auth.ts over the rate limiter's two Redis counters, *)
(* for one identifier, address, channel and purpose.                        *)
(*                                                                          *)
(* A request in flight is at an await; every call to Redis, Postgres and    *)
(* the queue is a step of its own, and the process may die at any of them.  *)
(* What a verified code is good for - a recovery token, or a verified       *)
(* contact - is one more call, Grant, whatever the purpose.                 *)
(***************************************************************************)
EXTENDS Integers, FiniteSets

CONSTANTS Requests,     \* requests in flight at a time
          MaxCodes,     \* bound: otp_requests rows explored
          MaxAttempts,  \* OTP_MAX_ATTEMPTS (5 unless it is set)
          HourLimit,    \* codes an hour (5 in the code)
          MaxCount      \* bound: counts of the limiter explored

ASSUME CodesAssumption ==
  /\ IsFiniteSet(Requests)
  /\ MaxCodes \in Nat
  /\ MaxAttempts \in Nat \ {0}
  /\ HourLimit \in Nat
  /\ MaxCount \in Nat

Codes == 1 .. MaxCodes  \* in the order of created_at

VARIABLES
  hour,      \* rate:otp:<identifier>:<address>
  cooldown,  \* rate:otp-cooldown:<identifier>:<purpose>
  created,   \* codes inserted so far
  code,      \* otp_requests by code: status and wrong attempts
  message,   \* codes whose job notification.send-otp was added
  reported,  \* codes whose OTP_BRUTE_FORCE risk event was added
  granted,   \* times a code was good for something
  request,   \* what a request in flight has read
  cutShort   \* history: a request died between a counter's increment and its expiry

limiter == <<hour, cooldown>>
rows == <<created, code>>
outcomes == <<message, reported, granted>>
vars == <<limiter, rows, outcomes, request, cutShort>>

Counter == [count : Nat, expires : BOOLEAN]
NoKey == [count |-> 0, expires |-> FALSE]
CodeRow == [status : {"NONE", "OPEN", "EXPIRED", "CONSUMED", "DELETED"}, attempts : Nat]

Idle == [op |-> "none"]
RequestState ==
  {Idle}
  \cup [op : {"expireHour", "cool", "expireCooldown", "insert"}]
  \cup [op : {"add", "report", "grant"}, id : Codes]
  \cup [op : {"undo"}, id : Codes, left : SUBSET {"row", "counters"}]
  \cup [op : {"verify"}, id : Codes, attempts : Nat]

TypeOK ==
  /\ hour \in Counter /\ cooldown \in Counter
  /\ created \in 0 .. MaxCodes
  /\ code \in [Codes -> CodeRow]
  /\ message \in SUBSET Codes
  /\ reported \in SUBSET Codes
  /\ granted \in [Codes -> Nat]
  /\ request \in [Requests -> RequestState]
  /\ cutShort \in BOOLEAN

Init ==
  /\ hour = NoKey /\ cooldown = NoKey
  /\ created = 0
  /\ code = [c \in Codes |-> [status |-> "NONE", attempts |-> 0]]
  /\ message = {}
  /\ reported = {}
  /\ granted = [c \in Codes |-> 0]
  /\ request = [r \in Requests |-> Idle]
  /\ cutShort = FALSE

Becomes(r, state) == request' = [request EXCEPT ![r] = state]

-----------------------------------------------------------------------------
(***************************************************************************)
(* requestOtp: the limiter (consume), the row, the job.                     *)
(***************************************************************************)
Incremented(key) == [key EXCEPT !.count = @ + 1]

\* EXPIRE finds no key if the window ended, or an undo deleted it, meanwhile.
Armed(key) == IF key.count = 0 THEN key ELSE [key EXCEPT !.expires = TRUE]

ConsumeHourLate(r) ==  \* defect for the checks: the expiry is set at the limit
  /\ request[r] = Idle
  /\ hour.count < MaxCount
  /\ hour' = Incremented(hour)
  /\ Becomes(r, IF hour.count + 1 = HourLimit THEN [op |-> "expireHour"]
                ELSE IF hour.count + 1 < HourLimit THEN [op |-> "cool"]
                ELSE Idle)
  /\ UNCHANGED <<cooldown, rows, outcomes, cutShort>>

\* INCR; the first one sets the expiry next; beyond the limit it stops here.
ConsumeHour(r) ==
  /\ request[r] = Idle
  /\ hour.count < MaxCount
  /\ hour' = Incremented(hour)
  /\ Becomes(r, IF hour.count = 0 THEN [op |-> "expireHour"]
                ELSE IF hour.count < HourLimit THEN [op |-> "cool"]
                ELSE Idle)
  /\ UNCHANGED <<cooldown, rows, outcomes, cutShort>>

ExpireHour(r) ==
  /\ request[r].op = "expireHour"
  /\ hour' = Armed(hour)
  /\ Becomes(r, IF HourLimit > 0 THEN [op |-> "cool"] ELSE Idle)
  /\ UNCHANGED <<cooldown, rows, outcomes, cutShort>>

\* The limit of the cooldown is one.
ConsumeCooldown(r) ==
  /\ request[r].op = "cool"
  /\ cooldown.count < MaxCount
  /\ cooldown' = Incremented(cooldown)
  /\ Becomes(r, IF cooldown.count = 0 THEN [op |-> "expireCooldown"] ELSE Idle)
  /\ UNCHANGED <<hour, rows, outcomes, cutShort>>

ExpireCooldown(r) ==
  /\ request[r].op = "expireCooldown"
  /\ cooldown' = Armed(cooldown)
  /\ Becomes(r, [op |-> "insert"])
  /\ UNCHANGED <<hour, rows, outcomes, cutShort>>

InsertCode(r) ==
  /\ request[r].op = "insert"
  /\ created < MaxCodes
  /\ created' = created + 1
  /\ code' = [code EXCEPT ![created + 1] = [status |-> "OPEN", attempts |-> 0]]
  /\ Becomes(r, [op |-> "add", id |-> created + 1])
  /\ UNCHANGED <<limiter, outcomes, cutShort>>

AddJob(r) ==
  /\ request[r].op = "add"
  /\ message' = message \cup {request[r].id}
  /\ Becomes(r, Idle)
  /\ UNCHANGED <<limiter, rows, reported, granted, cutShort>>

\* The job may be in the queue although the call throws.
AddFails(r) ==
  /\ request[r].op = "add"
  /\ message' \in {message, message \cup {request[r].id}}
  /\ Becomes(r, [op |-> "undo", id |-> request[r].id, left |-> {"row", "counters"}])
  /\ UNCHANGED <<limiter, rows, reported, granted, cutShort>>

\* The two calls of Promise.all, in either order.
Undone(r, part) ==
  LET left == request[r].left \ {part}
  IN /\ request[r].op = "undo"
     /\ part \in request[r].left
     /\ Becomes(r, IF left = {} THEN Idle ELSE [request[r] EXCEPT !.left = left])

DeleteCode(r) ==
  /\ Undone(r, "row")
  /\ code' = [code EXCEPT ![request[r].id] = [status |-> "DELETED", attempts |-> 0]]
  /\ UNCHANGED <<limiter, created, outcomes, cutShort>>

ClearOne(r) ==  \* defect for the checks: one count is given back
  /\ Undone(r, "counters")
  /\ hour' = [hour EXCEPT !.count = @ - 1]
  /\ cooldown' = NoKey
  /\ UNCHANGED <<rows, outcomes, cutShort>>

ClearCounters(r) ==
  /\ Undone(r, "counters")
  /\ hour' = NoKey /\ cooldown' = NoKey
  /\ UNCHANGED <<rows, outcomes, cutShort>>

-----------------------------------------------------------------------------
(***************************************************************************)
(* verifyOtp.                                                               *)
(***************************************************************************)
Present == {c \in Codes : code[c].status \notin {"NONE", "DELETED"}}
IsLatest(c) == c \in Present /\ \A d \in Present : d <= c

\* Only the newest row is looked at: neither consumed, expired nor used up.
ReadCode(r, c) ==
  /\ request[r] = Idle
  /\ IsLatest(c)
  /\ code[c].status = "OPEN"
  /\ code[c].attempts < MaxAttempts
  /\ Becomes(r, [op |-> "verify", id |-> c, attempts |-> code[c].attempts])
  /\ UNCHANGED <<limiter, rows, outcomes, cutShort>>

WrongCodeLost(r) ==  \* defect for the checks: attempts are written from the row read
  LET c == request[r].id
  IN /\ request[r].op = "verify"
     /\ code' = [code EXCEPT ![c].attempts = request[r].attempts]
     /\ Becomes(r, [op |-> "report", id |-> c])
     /\ UNCHANGED <<limiter, created, outcomes, cutShort>>

\* The increment is of the row, the report of what was read.
WrongCode(r) ==
  LET c == request[r].id
  IN /\ request[r].op = "verify"
     /\ code' = [code EXCEPT ![c].attempts = IF code[c].status = "DELETED" THEN @ ELSE @ + 1]
     /\ Becomes(r, IF request[r].attempts + 1 >= MaxAttempts
                   THEN [op |-> "report", id |-> c] ELSE Idle)
     /\ UNCHANGED <<limiter, created, outcomes, cutShort>>

ReportBruteForce(r) ==
  /\ request[r].op = "report"
  /\ reported' = reported \cup {request[r].id}
  /\ Becomes(r, Idle)
  /\ UNCHANGED <<limiter, rows, message, granted, cutShort>>

RightCodeKept(r) ==  \* defect for the checks: the code is not consumed
  /\ request[r].op = "verify"
  /\ Becomes(r, [op |-> "grant", id |-> request[r].id])
  /\ UNCHANGED <<limiter, rows, outcomes, cutShort>>

\* WHERE consumed_at IS NULL, and whether a row was updated is not looked at.
RightCode(r) ==
  LET c == request[r].id
  IN /\ request[r].op = "verify"
     /\ code' = [code EXCEPT ![c].status = IF @ = "DELETED" THEN @ ELSE "CONSUMED"]
     /\ Becomes(r, [op |-> "grant", id |-> c])
     /\ UNCHANGED <<limiter, created, outcomes, cutShort>>

\* A key recovery:<token>, or users.email_verified_at or phone_verified_at.
Grant(r) ==
  LET c == request[r].id
  IN /\ request[r].op = "grant"
     /\ granted' = [granted EXCEPT ![c] = @ + 1]
     /\ Becomes(r, Idle)
     /\ UNCHANGED <<limiter, rows, message, reported, cutShort>>

-----------------------------------------------------------------------------
(***************************************************************************)
(* Time, and crashes.                                                       *)
(***************************************************************************)
HourEnds ==
  /\ hour.expires
  /\ hour' = NoKey
  /\ UNCHANGED <<cooldown, rows, outcomes, request, cutShort>>

CooldownEnds ==
  /\ cooldown.expires
  /\ cooldown' = NoKey
  /\ UNCHANGED <<hour, rows, outcomes, request, cutShort>>

CodeExpires(c) ==
  /\ code[c].status = "OPEN"
  /\ code' = [code EXCEPT ![c].status = "EXPIRED"]
  /\ UNCHANGED <<limiter, created, outcomes, request, cutShort>>

Crash(r) ==
  /\ request[r] # Idle
  /\ Becomes(r, Idle)
  /\ cutShort' = (cutShort \/ request[r].op \in {"expireHour", "expireCooldown"})
  /\ UNCHANGED <<limiter, rows, outcomes>>

Next ==
  \/ HourEnds \/ CooldownEnds
  \/ \E c \in Codes : CodeExpires(c)
  \/ \E r \in Requests :
       \/ ConsumeHour(r) \/ ExpireHour(r) \/ ConsumeCooldown(r) \/ ExpireCooldown(r)
       \/ InsertCode(r) \/ AddJob(r) \/ AddFails(r) \/ DeleteCode(r) \/ ClearCounters(r)
       \/ WrongCode(r) \/ ReportBruteForce(r) \/ RightCode(r) \/ Grant(r) \/ Crash(r)
       \/ \E c \in Codes : ReadCode(r, c)

Spec == Init /\ [][Next]_vars

-----------------------------------------------------------------------------
(***************************************************************************)
(* Properties.                                                              *)
(***************************************************************************)

\* Guesses at one code end at the limit, but for those in flight when it is
\* reached, since the attempts of parallel requests are all counted; and a brute
\* force is reported only of a code that is used up (verifyOtp).
AttemptsAreBounded ==
  \A c \in Codes :
    /\ code[c].attempts < MaxAttempts + Cardinality(Requests)
    /\ c \in reported => code[c].attempts >= MaxAttempts \/ code[c].status = "DELETED"

\* A code that was good for something is good for nothing more, except for the
\* requests that had read it by then: no more than run at the same time (verifyOtp).
GrantsAreConcurrent ==
  \A c \in Codes :
    /\ granted[c] <= Cardinality(Requests)
    /\ granted[c] > 0 => code[c].status \in {"CONSUMED", "DELETED"}

\* A counter without an expiry, which would lock the identifier out for good, is
\* about to get one, unless a process died between the two calls of consume; the
\* undo of a request and the ends of windows leave none behind.
CountersEnd ==
  cutShort \/
    /\ hour.count > 0 /\ ~hour.expires => \E r \in Requests : request[r].op = "expireHour"
    /\ cooldown.count > 0 /\ ~cooldown.expires =>
         \E r \in Requests : request[r].op = "expireCooldown"

(***************************************************************************)
(* The inductive invariant behind them.                                     *)
(***************************************************************************)
RowsInOrder ==
  \A c \in Codes :
    /\ code[c].status = "NONE" <=> c > created
    /\ c > created => granted[c] = 0 /\ c \notin reported

RequestsAreOfRows ==
  \A r \in Requests :
    request[r].op \in {"add", "undo", "verify", "report", "grant"} => request[r].id <= created

Verifying(c) == {r \in Requests : request[r].op = "verify" /\ request[r].id = c}
Granting(c) == {r \in Requests : request[r].op = "grant" /\ request[r].id = c}

\* A wrong code trades a request in flight for an attempt.
AttemptsInFlight ==
  \A c \in Codes :
    code[c].attempts + Cardinality(Verifying(c)) < MaxAttempts + Cardinality(Requests)

ReportsAreRight ==
  \A r \in Requests :
    LET c == request[r].id
    IN /\ request[r].op = "verify" =>
            request[r].attempts <= code[c].attempts \/ code[c].status = "DELETED"
       /\ request[r].op = "report" =>
            code[c].attempts >= MaxAttempts \/ code[c].status = "DELETED"

\* A grant trades a request in flight for what it grants.
GrantsInFlight ==
  \A c \in Codes :
    /\ granted[c] + Cardinality(Verifying(c) \cup Granting(c)) <= Cardinality(Requests)
    /\ granted[c] > 0 \/ Granting(c) # {} => code[c].status \in {"CONSUMED", "DELETED"}

IInv ==
  /\ TypeOK
  /\ RowsInOrder
  /\ RequestsAreOfRows
  /\ AttemptsInFlight
  /\ ReportsAreRight
  /\ GrantsInFlight
  /\ AttemptsAreBounded
  /\ CountersEnd
\* What the two bounds say of requests that come one after the other: a code is good
\* for one thing, and for as many guesses as the limit allows.
OneUse == \A c \in Codes : granted[c] <= 1 /\ code[c].attempts <= MaxAttempts
=============================================================================
