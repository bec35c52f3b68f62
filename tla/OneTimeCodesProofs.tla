------------------------- MODULE OneTimeCodesProofs -------------------------
(***************************************************************************)
(* Proofs about OneTimeCodes for every number of requests and codes, and     *)
(* every limit.                                                              *)
(***************************************************************************)
EXTENDS OneTimeCodes, FiniteSetTheorems, TLAPS

-----------------------------------------------------------------------------
(***************************************************************************)
(* Type correctness.                                                        *)
(***************************************************************************)

\* What a request holds tells from its operation.
LEMMA RequestFields ==
  ASSUME NEW q \in RequestState
  PROVE  /\ q.op \in {"add", "report", "grant", "undo", "verify"} => q.id \in Codes
         /\ q.op = "verify" => q.attempts \in Nat
         /\ q.op = "undo" => \A part : [q EXCEPT !.left = q.left \ {part}] \in RequestState
<1>1. CASE q = Idle
  BY <1>1 DEF Idle
<1>2. CASE q \in [op : {"expireHour", "cool", "expireCooldown", "insert"}]
  BY <1>2
<1>3. CASE q \in [op : {"add", "report", "grant"}, id : Codes]
  BY <1>3
<1>4. CASE q \in [op : {"undo"}, id : Codes, left : SUBSET {"row", "counters"}]
  BY <1>4 DEF RequestState
<1>5. CASE q \in [op : {"verify"}, id : Codes, attempts : Nat]
  BY <1>5
<1>6. QED
  BY <1>1, <1>2, <1>3, <1>4, <1>5 DEF RequestState

\* The states requests go on to.
LEMMA RequestStates ==
  /\ Idle \in RequestState
  /\ \A op \in {"expireHour", "cool", "expireCooldown", "insert"} : [op |-> op] \in RequestState
  /\ \A c \in Codes :
       /\ \A op \in {"add", "report", "grant"} : [op |-> op, id |-> c] \in RequestState
       /\ [op |-> "undo", id |-> c, left |-> {"row", "counters"}] \in RequestState
       /\ \A n \in Nat : [op |-> "verify", id |-> c, attempts |-> n] \in RequestState
BY DEF RequestState

\* A request becomes one of the request states.
LEMMA BecomesType ==
  ASSUME TypeOK, NEW r \in Requests, NEW q \in RequestState, Becomes(r, q)
  PROVE  request' \in [Requests -> RequestState]
BY DEF TypeOK, Becomes

\* Counters stay counters.
LEMMA CounterTypes ==
  /\ NoKey \in Counter
  /\ \A key \in Counter : Incremented(key) \in Counter /\ Armed(key) \in Counter
<1>1. ASSUME NEW key \in Counter, NEW n \in Nat
      PROVE  [key EXCEPT !.count = n] \in Counter /\ [key EXCEPT !.expires = TRUE] \in Counter
  BY DEF Counter
<1>2. \A key \in Counter : key.count + 1 \in Nat
  BY DEF Counter
<1>3. QED
  BY <1>1, <1>2 DEF NoKey, Counter, Incremented, Armed

\* What the handlers make of a row is a row.
LEMMA RowTypes ==
  ASSUME NEW row \in CodeRow
  PROVE  /\ \A status \in {"EXPIRED", "CONSUMED"} : [row EXCEPT !.status = status] \in CodeRow
         /\ \A n \in Nat : [row EXCEPT !.attempts = n] \in CodeRow
         /\ \A status \in {"NONE", "OPEN", "DELETED"} :
              [status |-> status, attempts |-> 0] \in CodeRow
BY DEF CodeRow

\* The initial state is well typed.
LEMMA InitTypeOK == Init => TypeOK
<1> SUFFICES ASSUME Init PROVE TypeOK
  OBVIOUS
<1>1. code \in [Codes -> CodeRow]
  BY DEF Init, CodeRow
<1>2. created \in 0 .. MaxCodes
  BY CodesAssumption DEF Init
<1>3. QED
  BY <1>1, <1>2, CounterTypes, RequestStates DEF Init, TypeOK

\* Every step keeps the types.
LEMMA NextTypeOK == TypeOK /\ [Next]_vars => TypeOK'
<1> SUFFICES ASSUME TypeOK, [Next]_vars PROVE TypeOK'
  OBVIOUS
<1> USE DEF limiter, rows, outcomes
<1>0. \A r \in Requests : request[r] \in RequestState
  BY DEF TypeOK
<1>1. ASSUME NEW r \in Requests,
             ConsumeHour(r) \/ ExpireHour(r) \/ ConsumeCooldown(r) \/ ExpireCooldown(r)
      PROVE  TypeOK'
  <2>1. request' \in [Requests -> RequestState]
    BY <1>1, RequestStates, BecomesType DEF ConsumeHour, ExpireHour, ConsumeCooldown, ExpireCooldown
  <2>2. hour' \in Counter /\ cooldown' \in Counter
    BY <1>1, CounterTypes DEF TypeOK, ConsumeHour, ExpireHour, ConsumeCooldown, ExpireCooldown
  <2>3. QED
    BY <1>1, <2>1, <2>2 DEF TypeOK, ConsumeHour, ExpireHour, ConsumeCooldown, ExpireCooldown
<1>2. ASSUME NEW r \in Requests, InsertCode(r) PROVE TypeOK'
  <2>1. created + 1 \in Codes /\ created + 1 \in 0 .. MaxCodes
    BY <1>2, CodesAssumption DEF TypeOK, InsertCode, Codes
  <2>2. request' \in [Requests -> RequestState]
    BY <1>2, <2>1, RequestStates, BecomesType DEF InsertCode
  <2>3. code' \in [Codes -> CodeRow]
    BY <1>2, <2>1, RowTypes DEF TypeOK, InsertCode, CodeRow
  <2>4. QED
    BY <1>2, <2>1, <2>2, <2>3 DEF TypeOK, InsertCode
<1>3. ASSUME NEW r \in Requests, AddJob(r) \/ AddFails(r) \/ ReportBruteForce(r) PROVE TypeOK'
  <2>1. request[r].id \in Codes
    BY <1>0, <1>3, RequestFields DEF AddJob, AddFails, ReportBruteForce
  <2>2. request' \in [Requests -> RequestState]
    BY <1>3, <2>1, RequestStates, BecomesType DEF AddJob, AddFails, ReportBruteForce
  <2>3. message' \in SUBSET Codes /\ reported' \in SUBSET Codes
    BY <1>3, <2>1 DEF TypeOK, AddJob, AddFails, ReportBruteForce
  <2>4. QED
    BY <1>3, <2>2, <2>3 DEF TypeOK, AddJob, AddFails, ReportBruteForce
<1>4. ASSUME NEW r \in Requests, NEW part, Undone(r, part)
      PROVE  request[r].id \in Codes /\ request' \in [Requests -> RequestState]
  BY <1>0, <1>4, RequestFields, RequestStates, BecomesType DEF Undone
<1>5. ASSUME NEW r \in Requests, DeleteCode(r) PROVE TypeOK'
  <2>1. code' \in [Codes -> CodeRow]
    BY <1>4, <1>5, RowTypes DEF TypeOK, DeleteCode, CodeRow
  <2>2. QED
    BY <1>4, <1>5, <2>1 DEF TypeOK, DeleteCode
<1>6. ASSUME NEW r \in Requests, ClearCounters(r) PROVE TypeOK'
  BY <1>4, <1>6, CounterTypes DEF TypeOK, ClearCounters
<1>7. ASSUME NEW r \in Requests, NEW c \in Codes, ReadCode(r, c) PROVE TypeOK'
  <2>1. code[c].attempts \in Nat
    BY DEF TypeOK, CodeRow
  <2>2. request' \in [Requests -> RequestState]
    BY <1>7, <2>1, RequestStates, BecomesType DEF ReadCode
  <2>3. QED
    BY <1>7, <2>2 DEF TypeOK, ReadCode
<1>8. ASSUME NEW r \in Requests, WrongCode(r) \/ RightCode(r) PROVE TypeOK'
  <2>1. request[r].id \in Codes
    BY <1>0, <1>8, RequestFields DEF WrongCode, RightCode
  <2>2. request' \in [Requests -> RequestState]
    BY <1>8, <2>1, RequestStates, BecomesType DEF WrongCode, RightCode
  <2>3. code[request[r].id] \in CodeRow /\ code[request[r].id].attempts + 1 \in Nat
    BY <2>1 DEF TypeOK, CodeRow
  <2>4. code' \in [Codes -> CodeRow]
    <3> DEFINE row == code[request[r].id]
    <3>1. /\ [row EXCEPT !.attempts = row.attempts] \in CodeRow
          /\ [row EXCEPT !.attempts = row.attempts + 1] \in CodeRow
          /\ [row EXCEPT !.status = "CONSUMED"] \in CodeRow
          /\ [row EXCEPT !.status = row.status] \in CodeRow
      BY <2>3, RowTypes DEF CodeRow
    <3>2. CASE WrongCode(r)
      BY <2>1, <3>1, <3>2 DEF TypeOK, WrongCode
    <3>3. CASE RightCode(r)
      BY <2>1, <3>1, <3>3 DEF TypeOK, RightCode
    <3>4. QED
      BY <1>8, <3>2, <3>3
  <2>5. QED
    BY <1>8, <2>2, <2>4 DEF TypeOK, WrongCode, RightCode
<1>9. ASSUME NEW r \in Requests, Grant(r) PROVE TypeOK'
  <2>1. request' \in [Requests -> RequestState]
    BY <1>9, RequestStates, BecomesType DEF Grant
  <2>2. granted' \in [Codes -> Nat]
    <3>1. request[r].id \in Codes
      BY <1>0, <1>9, RequestFields DEF Grant
    <3>2. granted[request[r].id] + 1 \in Nat
      BY <3>1 DEF TypeOK
    <3>3. QED
      BY <1>9, <3>1, <3>2 DEF TypeOK, Grant
  <2>3. QED
    BY <1>9, <2>1, <2>2 DEF TypeOK, Grant
<1>10. CASE HourEnds \/ CooldownEnds
  BY <1>10, CounterTypes DEF TypeOK, HourEnds, CooldownEnds
<1>11. ASSUME NEW c \in Codes, CodeExpires(c) PROVE TypeOK'
  BY <1>11, RowTypes DEF TypeOK, CodeExpires
<1>12. ASSUME NEW r \in Requests, Crash(r) PROVE TypeOK'
  <2>1. request' \in [Requests -> RequestState]
    BY <1>12, RequestStates, BecomesType DEF Crash
  <2>2. QED
    BY <1>12, <2>1 DEF TypeOK, Crash
<1>13. CASE UNCHANGED vars
  BY <1>13 DEF TypeOK, vars
<1>14. QED
  BY <1>1, <1>2, <1>3, <1>5, <1>6, <1>7, <1>8, <1>9, <1>10, <1>11, <1>12, <1>13 DEF Next

\* The rows, the counters and the requests in flight keep their types.
THEOREM TypeCorrect == Spec => []TypeOK
BY InitTypeOK, NextTypeOK, PTL DEF Spec

-----------------------------------------------------------------------------
(***************************************************************************)
(* The limiter.                                                             *)
(***************************************************************************)

\* No step leaves a counter without an expiry, on it or on its way.
LEMMA CountersKept ==
  ASSUME TypeOK, TypeOK', CountersEnd, [Next]_vars
  PROVE  CountersEnd'
<1> USE DEF limiter, rows, outcomes
<1>0. /\ request \in [Requests -> RequestState]
      /\ hour.count \in Nat /\ cooldown.count \in Nat
      /\ NoKey.count = 0
  BY DEF TypeOK, Counter, NoKey
<1>1. ASSUME NEW r \in Requests, NEW q, Becomes(r, q)
      PROVE  request'[r] = q /\ \A s \in Requests : s # r => request'[s] = request[s]
  BY <1>0, <1>1 DEF Becomes
<1>2. ASSUME UNCHANGED <<hour, cooldown, cutShort>>,
             \A s \in Requests : request[s].op \in {"expireHour", "expireCooldown"} =>
               request'[s] = request[s]
      PROVE  CountersEnd'
  BY <1>2 DEF CountersEnd
<1>3. ASSUME NEW r \in Requests, ConsumeHour(r) PROVE CountersEnd'
  <2>1. /\ hour'.expires = hour.expires /\ UNCHANGED <<cooldown, cutShort>>
        /\ hour.count = 0 => request'[r].op = "expireHour"
    BY <1>1, <1>3 DEF TypeOK, Counter, ConsumeHour, Incremented
  <2>2. \A s \in Requests : s # r => request'[s] = request[s]
    BY <1>1, <1>3 DEF ConsumeHour
  <2>3. request[r].op = "none"
    BY <1>3 DEF ConsumeHour, Idle
  <2>4. QED
    BY <1>0, <2>1, <2>2, <2>3 DEF CountersEnd
<1>4. ASSUME NEW r \in Requests, ExpireHour(r) PROVE CountersEnd'
  <2>1. UNCHANGED <<cooldown, cutShort>> /\ (hour'.count = 0 \/ hour'.expires)
    BY <1>4 DEF TypeOK, Counter, ExpireHour, Armed
  <2>2. request[r].op = "expireHour" /\ \A s \in Requests : s # r => request'[s] = request[s]
    BY <1>1, <1>4 DEF ExpireHour
  <2>3. QED
    BY <2>1, <2>2 DEF CountersEnd
<1>5. ASSUME NEW r \in Requests, ConsumeCooldown(r) PROVE CountersEnd'
  <2>1. /\ cooldown'.expires = cooldown.expires /\ UNCHANGED <<hour, cutShort>>
        /\ cooldown.count = 0 => request'[r].op = "expireCooldown"
    BY <1>1, <1>5 DEF TypeOK, Counter, ConsumeCooldown, Incremented
  <2>2. request[r].op = "cool" /\ \A s \in Requests : s # r => request'[s] = request[s]
    BY <1>1, <1>5 DEF ConsumeCooldown
  <2>3. QED
    BY <1>0, <2>1, <2>2 DEF CountersEnd
<1>6. ASSUME NEW r \in Requests, ExpireCooldown(r) PROVE CountersEnd'
  <2>1. UNCHANGED <<hour, cutShort>> /\ (cooldown'.count = 0 \/ cooldown'.expires)
    BY <1>6 DEF TypeOK, Counter, ExpireCooldown, Armed
  <2>2. request[r].op = "expireCooldown" /\ \A s \in Requests : s # r => request'[s] = request[s]
    BY <1>1, <1>6 DEF ExpireCooldown
  <2>3. QED
    BY <2>1, <2>2 DEF CountersEnd
<1>7. ASSUME NEW r \in Requests,
             \/ InsertCode(r) \/ AddJob(r) \/ AddFails(r) \/ DeleteCode(r)
             \/ WrongCode(r) \/ ReportBruteForce(r) \/ RightCode(r) \/ Grant(r)
             \/ \E c \in Codes : ReadCode(r, c)
      PROVE  CountersEnd'
  <2>1. request[r].op \notin {"expireHour", "expireCooldown"}
    <3>1. CASE \E c \in Codes : ReadCode(r, c)
      BY <3>1 DEF ReadCode, Idle
    <3>2. CASE InsertCode(r) \/ AddJob(r) \/ AddFails(r) \/ DeleteCode(r)
      BY <3>2 DEF InsertCode, AddJob, AddFails, DeleteCode, Undone
    <3>3. CASE WrongCode(r) \/ ReportBruteForce(r) \/ RightCode(r) \/ Grant(r)
      BY <3>3 DEF WrongCode, ReportBruteForce, RightCode, Grant
    <3>4. QED
      BY <1>7, <3>1, <3>2, <3>3
  <2>2. \A s \in Requests : s # r => request'[s] = request[s]
    BY <1>1, <1>7 DEF InsertCode, AddJob, AddFails, DeleteCode, WrongCode, ReportBruteForce,
                      RightCode, Grant, ReadCode, Undone
  <2>3. UNCHANGED <<hour, cooldown, cutShort>>
    BY <1>7 DEF InsertCode, AddJob, AddFails, DeleteCode, WrongCode, ReportBruteForce,
                RightCode, Grant, ReadCode
  <2>4. QED
    BY <1>2, <2>1, <2>2, <2>3
<1>8. ASSUME NEW r \in Requests, ClearCounters(r) PROVE CountersEnd'
  BY <1>0, <1>8 DEF ClearCounters, CountersEnd
<1>9. ASSUME NEW r \in Requests, Crash(r) PROVE CountersEnd'
  <2>1. CASE request[r].op \in {"expireHour", "expireCooldown"}
    BY <1>9, <2>1 DEF Crash, CountersEnd
  <2>2. CASE request[r].op \notin {"expireHour", "expireCooldown"}
    <3>1. cutShort' = cutShort \/ (cutShort' <=> cutShort)
      BY <1>9, <2>2 DEF Crash
    <3>2. \A s \in Requests : s # r => request'[s] = request[s]
      BY <1>1, <1>9 DEF Crash
    <3>3. QED
      BY <1>9, <2>2, <3>1, <3>2 DEF Crash, CountersEnd
  <2>3. QED
    BY <2>1, <2>2
<1>10. CASE HourEnds \/ CooldownEnds
  BY <1>0, <1>10 DEF HourEnds, CooldownEnds, CountersEnd
<1>11. CASE (\E c \in Codes : CodeExpires(c)) \/ UNCHANGED vars
  BY <1>2, <1>11 DEF CodeExpires, vars
<1>12. QED
  BY <1>3, <1>4, <1>5, <1>6, <1>7, <1>8, <1>9, <1>10, <1>11 DEF Next

-----------------------------------------------------------------------------
(***************************************************************************)
(* Codes.                                                                   *)
(***************************************************************************)

\* Who holds a code, after one request has gone on.
LEMMA HoldersAfter ==
  ASSUME TypeOK, NEW r \in Requests, NEW q, Becomes(r, q), NEW c \in Codes
  PROVE  /\ Verifying(c)' = IF q.op = "verify" /\ q.id = c
                            THEN Verifying(c) \cup {r} ELSE Verifying(c) \ {r}
         /\ Granting(c)' = IF q.op = "grant" /\ q.id = c
                           THEN Granting(c) \cup {r} ELSE Granting(c) \ {r}
<1>1. \A s \in Requests : request'[s] = IF s = r THEN q ELSE request[s]
  BY DEF TypeOK, Becomes
<1>2. QED
  BY <1>1 DEF Verifying, Granting

\* Sets of requests are counted, and a smaller one counts less.
LEMMA Counting ==
  /\ \A S \in SUBSET Requests : Cardinality(S) \in Nat /\ Cardinality(S) <= Cardinality(Requests)
  /\ \A S \in SUBSET Requests : \A T \in SUBSET S : Cardinality(T) <= Cardinality(S)
  /\ \A S \in SUBSET Requests : \A r \in S : Cardinality(S \ {r}) = Cardinality(S) - 1
<1>1. \A S \in SUBSET Requests : IsFiniteSet(S)
  BY CodesAssumption, FS_Subset
<1>2. QED
  BY <1>1, CodesAssumption, FS_Subset, FS_CardinalityType, FS_RemoveElement

\* Attempts stay below the bound if a step starts below the limit, adds nothing,
\* or trades a request for an attempt.
LEMMA AttemptsKept ==
  ASSUME TypeOK, TypeOK', AttemptsInFlight,
         \A c \in Codes :
           \/ code'[c].attempts < MaxAttempts
           \/ code'[c].attempts <= code[c].attempts /\ Verifying(c)' \subseteq Verifying(c)
           \/ /\ code'[c].attempts = code[c].attempts + 1
              /\ \E r \in Verifying(c) : Verifying(c)' = Verifying(c) \ {r}
  PROVE  AttemptsInFlight'
<1> SUFFICES ASSUME NEW c \in Codes
             PROVE  code'[c].attempts + Cardinality(Verifying(c)') < MaxAttempts + Cardinality(Requests)
  BY DEF AttemptsInFlight
<1>1. /\ Verifying(c) \in SUBSET Requests /\ Verifying(c)' \in SUBSET Requests
      /\ code[c].attempts \in Nat /\ code'[c].attempts \in Nat
      /\ MaxAttempts \in Nat
      /\ code[c].attempts + Cardinality(Verifying(c)) < MaxAttempts + Cardinality(Requests)
  BY CodesAssumption DEF Verifying, TypeOK, CodeRow, AttemptsInFlight
<1> DEFINE v == Cardinality(Verifying(c))
           w == Cardinality(Verifying(c)')
           n == Cardinality(Requests)
<1>2. v \in Nat /\ w \in Nat /\ n \in Nat /\ w <= n
  BY <1>1, Counting
<1>3. CASE code'[c].attempts < MaxAttempts
  BY <1>1, <1>2, <1>3
<1>4. CASE code'[c].attempts <= code[c].attempts /\ Verifying(c)' \subseteq Verifying(c)
  <2>1. w <= v
    BY <1>1, <1>4, Counting
  <2>2. QED
    BY <1>1, <1>2, <1>4, <2>1
<1>5. CASE /\ code'[c].attempts = code[c].attempts + 1
           /\ \E r \in Verifying(c) : Verifying(c)' = Verifying(c) \ {r}
  <2>1. w = v - 1
    BY <1>1, <1>5, Counting
  <2>2. QED
    BY <1>1, <1>2, <1>5, <2>1
<1>6. QED
  BY <1>3, <1>4, <1>5

Holding(c) == Verifying(c) \cup Granting(c)

\* Grants stay below the bound if a code was good for nothing yet, a step adds
\* nothing, or trades a request for a grant.
LEMMA GrantsKept ==
  ASSUME TypeOK, TypeOK', GrantsInFlight,
         \A c \in Codes :
           \/ granted'[c] = 0
           \/ granted'[c] = granted[c] /\ Holding(c)' \subseteq Holding(c)
           \/ /\ granted'[c] = granted[c] + 1
              /\ \E r \in Holding(c) : Holding(c)' = Holding(c) \ {r},
         \A c \in Codes :
           granted'[c] > 0 \/ Granting(c)' # {} => code'[c].status \in {"CONSUMED", "DELETED"}
  PROVE  GrantsInFlight'
<1> SUFFICES ASSUME NEW c \in Codes
             PROVE  granted'[c] + Cardinality(Holding(c)') <= Cardinality(Requests)
  BY DEF GrantsInFlight, Holding
<1>1. /\ Holding(c) \in SUBSET Requests /\ Holding(c)' \in SUBSET Requests
      /\ granted[c] \in Nat
      /\ granted[c] + Cardinality(Holding(c)) <= Cardinality(Requests)
  BY DEF Holding, Verifying, Granting, TypeOK, GrantsInFlight
<1> DEFINE h == Cardinality(Holding(c))
           k == Cardinality(Holding(c)')
           n == Cardinality(Requests)
<1>2. h \in Nat /\ k \in Nat /\ n \in Nat /\ k <= n
  BY <1>1, Counting
<1>3. CASE granted'[c] = 0
  BY <1>2, <1>3
<1>4. CASE granted'[c] = granted[c] /\ Holding(c)' \subseteq Holding(c)
  <2>1. k <= h
    BY <1>1, <1>4, Counting
  <2>2. QED
    BY <1>1, <1>2, <1>4, <2>1
<1>5. CASE /\ granted'[c] = granted[c] + 1
           /\ \E r \in Holding(c) : Holding(c)' = Holding(c) \ {r}
  <2>1. k = h - 1
    BY <1>1, <1>5, Counting
  <2>2. QED
    BY <1>1, <1>2, <1>5, <2>1
<1>6. QED
  BY <1>3, <1>4, <1>5

\* The part of the invariant that is about codes.
CodesInv ==
  RowsInOrder /\ RequestsAreOfRows /\ AttemptsInFlight /\ ReportsAreRight /\ GrantsInFlight
    /\ (\A c \in reported : code[c].attempts >= MaxAttempts \/ code[c].status = "DELETED")

\* Attempts end at the limit but for the trials in flight.
LEMMA AttemptsBound == TypeOK /\ CodesInv => AttemptsAreBounded
<1> SUFFICES ASSUME TypeOK, CodesInv, NEW c \in Codes
             PROVE  code[c].attempts < MaxAttempts + Cardinality(Requests)
  BY DEF AttemptsAreBounded, CodesInv
<1>1. /\ code[c].attempts \in Nat /\ MaxAttempts \in Nat
      /\ Verifying(c) \in SUBSET Requests /\ Requests \in SUBSET Requests
      /\ code[c].attempts + Cardinality(Verifying(c)) < MaxAttempts + Cardinality(Requests)
  BY CodesAssumption DEF TypeOK, CodeRow, Verifying, CodesInv, AttemptsInFlight
<1>2. Cardinality(Verifying(c)) \in Nat /\ Cardinality(Requests) \in Nat
  BY <1>1, Counting
<1>3. QED
  BY <1>1, <1>2

\* The invariant holds at the start.
LEMMA InitIInv == Init => IInv
<1> SUFFICES ASSUME Init PROVE IInv
  OBVIOUS
<1>1. TypeOK
  BY InitTypeOK
<1>2. \A r \in Requests : request[r].op = "none"
  BY DEF Init, Idle
<1>3. RowsInOrder /\ RequestsAreOfRows /\ ReportsAreRight /\ CountersEnd
  BY <1>2 DEF Init, RowsInOrder, RequestsAreOfRows, ReportsAreRight, CountersEnd, NoKey, Codes
<1>4. \A c \in Codes : Verifying(c) = {} /\ Granting(c) = {}
  BY <1>2 DEF Verifying, Granting
<1>5. /\ Cardinality({}) = 0 /\ Cardinality(Requests) \in Nat
      /\ MaxAttempts \in Nat \ {0}
  BY CodesAssumption, FS_EmptySet, FS_CardinalityType
<1>6. AttemptsInFlight
  BY <1>4, <1>5 DEF Init, AttemptsInFlight
<1>7. GrantsInFlight
  <2>1. \A c \in Codes : Verifying(c) \cup Granting(c) = {}
    BY <1>4
  <2>2. QED
    BY <1>4, <1>5, <2>1 DEF Init, GrantsInFlight
<1>8. CodesInv
  BY <1>3, <1>6, <1>7 DEF Init, CodesInv
<1>9. QED
  BY <1>1, <1>3, <1>8, AttemptsBound DEF IInv, CodesInv

\* Steps of a request that neither verify a code nor change a row or a grant.
LEMMA QuietKeepsCodes ==
  ASSUME TypeOK, TypeOK', CodesInv, NEW r \in Requests, NEW q, Becomes(r, q),
         UNCHANGED <<created, code, granted>>,
         q.op \notin {"verify", "grant", "report"},
         q.op \in {"add", "undo"} => q.id <= created,
         \A c \in reported' :
           c \in reported \/ (request[r].op = "report" /\ request[r].id = c)
  PROVE  CodesInv'
<1>1. \A s \in Requests : request'[s] = IF s = r THEN q ELSE request[s]
  BY DEF TypeOK, Becomes
<1>2. \A c \in Codes : Verifying(c)' = Verifying(c) \ {r} /\ Granting(c)' = Granting(c) \ {r}
  BY HoldersAfter
<1>3. AttemptsInFlight'
  <2>1. \A c \in Codes : code'[c].attempts <= code[c].attempts /\ Verifying(c)' \subseteq Verifying(c)
    BY <1>2 DEF TypeOK, CodeRow
  <2>2. QED
    BY <2>1, AttemptsKept DEF CodesInv
<1>4. GrantsInFlight'
  <2>1. \A c \in Codes : granted'[c] = granted[c] /\ Holding(c)' \subseteq Holding(c)
    BY <1>2 DEF Holding
  <2>2. \A c \in Codes :
          granted'[c] > 0 \/ Granting(c)' # {} => code'[c].status \in {"CONSUMED", "DELETED"}
    BY <1>2 DEF CodesInv, GrantsInFlight
  <2>3. QED
    BY <2>1, <2>2, GrantsKept DEF CodesInv
<1>5. RequestsAreOfRows' /\ ReportsAreRight'
  BY <1>1 DEF CodesInv, RequestsAreOfRows, ReportsAreRight
<1>6. \A c \in reported' : code'[c].attempts >= MaxAttempts \/ code'[c].status = "DELETED"
  BY DEF CodesInv, ReportsAreRight
<1>7. RowsInOrder'
  <2>1. request[r].op = "report" => request[r].id <= created
    BY DEF CodesInv, RequestsAreOfRows
  <2>2. created \in Nat
    BY CodesAssumption DEF TypeOK
  <2>3. QED
    BY <2>1, <2>2 DEF CodesInv, RowsInOrder, Codes
<1>8. QED
  BY <1>3, <1>4, <1>5, <1>6, <1>7 DEF CodesInv

\* Steps of verifyOtp, and of the rows.
LEMMA VerifyKeepsCodes ==
  ASSUME TypeOK, TypeOK', CodesInv, NEW r \in Requests
  PROVE  /\ \A c \in Codes : ReadCode(r, c) => CodesInv'
         /\ WrongCode(r) => CodesInv'
         /\ RightCode(r) => CodesInv'
         /\ Grant(r) => CodesInv'
<1> USE DEF limiter, rows, outcomes
<1>0. /\ request \in [Requests -> RequestState]
      /\ code \in [Codes -> CodeRow] /\ granted \in [Codes -> Nat]
      /\ created \in Nat
      /\ RowsInOrder /\ RequestsAreOfRows /\ ReportsAreRight
      /\ \A c \in Codes : granted[c] > 0 \/ Granting(c) # {} =>
                            code[c].status \in {"CONSUMED", "DELETED"}
      /\ \A c \in reported : c \in Codes /\ (code[c].attempts >= MaxAttempts \/ code[c].status = "DELETED")
      /\ \A s \in Requests : request[s].op \in {"verify", "report", "grant"} => request[s].id \in Codes
      /\ \A c \in Codes : code[c].attempts \in Nat
      /\ MaxAttempts \in Nat
  <2>1. \A s \in Requests : request[s] \in RequestState
    BY DEF TypeOK
  <2>2. \A s \in Requests : request[s].op \in {"verify", "report", "grant"} => request[s].id \in Codes
    BY <2>1, RequestFields
  <2>3. \A c \in Codes : code[c].attempts \in Nat
    BY DEF TypeOK, CodeRow
  <2>4. created \in Nat /\ MaxAttempts \in Nat
    BY CodesAssumption DEF TypeOK
  <2>5. QED
    BY <2>2, <2>3, <2>4 DEF TypeOK, CodesInv, GrantsInFlight
<1>1. ASSUME NEW q, Becomes(r, q)
      PROVE  \A s \in Requests : request'[s] = IF s = r THEN q ELSE request[s]
  BY <1>0, <1>1 DEF Becomes
<1>2. ASSUME NEW c \in Codes, ReadCode(r, c) PROVE CodesInv'
  <2> DEFINE q == [op |-> "verify", id |-> c, attempts |-> code[c].attempts]
  <2>1. /\ Becomes(r, q) /\ UNCHANGED <<created, code, granted, reported>>
        /\ code[c].status = "OPEN" /\ code[c].attempts < MaxAttempts /\ request[r] = Idle
    BY <1>2 DEF ReadCode
  <2>2. \A d \in Codes : /\ Granting(d)' = Granting(d) \ {r}
                         /\ d # c => Verifying(d)' = Verifying(d) \ {r}
    BY <2>1, HoldersAfter
  <2>3. AttemptsInFlight'
    <3>1. \A d \in Codes :
            \/ code'[d].attempts < MaxAttempts
            \/ code'[d].attempts <= code[d].attempts /\ Verifying(d)' \subseteq Verifying(d)
      BY <1>0, <2>1, <2>2
    <3>2. QED
      BY <3>1, AttemptsKept DEF CodesInv
  <2>4. GrantsInFlight'
    <3>1. granted[c] = 0
      BY <1>0, <2>1
    <3>2. \A d \in Codes :
            \/ granted'[d] = 0
            \/ granted'[d] = granted[d] /\ Holding(d)' \subseteq Holding(d)
      BY <2>1, <2>2, <3>1 DEF Holding
    <3>3. \A d \in Codes :
            granted'[d] > 0 \/ Granting(d)' # {} => code'[d].status \in {"CONSUMED", "DELETED"}
      BY <1>0, <2>1, <2>2
    <3>4. QED
      BY <3>2, <3>3, GrantsKept DEF CodesInv
  <2>5. c <= created
    BY <1>0, <2>1 DEF RowsInOrder, Codes
  <2>6. RequestsAreOfRows' /\ ReportsAreRight'
    BY <1>0, <1>1, <2>1, <2>5 DEF RequestsAreOfRows, ReportsAreRight
  <2>7. QED
    BY <1>0, <2>1, <2>3, <2>4, <2>6 DEF CodesInv, RowsInOrder
<1>3. ASSUME WrongCode(r) PROVE CodesInv'
  <2> DEFINE c == request[r].id
  <2>1. PICK q \in {Idle, [op |-> "report", id |-> c]} : Becomes(r, q)
    BY <1>3 DEF WrongCode
  <2>2. /\ c \in Codes /\ r \in Verifying(c) /\ c <= created
        /\ UNCHANGED <<created, granted, reported>>
    BY <1>0, <1>3 DEF WrongCode, Verifying, RequestsAreOfRows
  <2>3. /\ \A d \in Codes : d # c => code'[d] = code[d]
        /\ code'[c].status = code[c].status
        /\ code'[c].attempts = IF code[c].status = "DELETED" THEN code[c].attempts
                               ELSE code[c].attempts + 1
    BY <1>0, <1>3, <2>2 DEF WrongCode, CodeRow
  <2>4. \A d \in Codes : Verifying(d)' = Verifying(d) \ {r} /\ Granting(d)' = Granting(d) \ {r}
    BY <2>1, HoldersAfter DEF Idle
  <2>5. AttemptsInFlight'
    <3>1. \A d \in Codes :
            \/ code'[d].attempts <= code[d].attempts /\ Verifying(d)' \subseteq Verifying(d)
            \/ /\ code'[d].attempts = code[d].attempts + 1
               /\ \E s \in Verifying(d) : Verifying(d)' = Verifying(d) \ {s}
      BY <1>0, <2>2, <2>3, <2>4
    <3>2. QED
      BY <3>1, AttemptsKept DEF CodesInv
  <2>6. \A d \in Codes : code'[d].status = code[d].status
    BY <2>3
  <2>7. GrantsInFlight'
    <3>1. \A d \in Codes : granted'[d] = granted[d] /\ Holding(d)' \subseteq Holding(d)
      BY <2>2, <2>4 DEF Holding
    <3>2. \A d \in Codes :
            granted'[d] > 0 \/ Granting(d)' # {} => code'[d].status \in {"CONSUMED", "DELETED"}
      BY <1>0, <2>2, <2>4, <2>6
    <3>3. QED
      BY <3>1, <3>2, GrantsKept DEF CodesInv
  <2>8. RequestsAreOfRows'
    BY <1>0, <1>1, <2>1, <2>2 DEF RequestsAreOfRows, Idle
  <2>9. \A d \in Codes : code'[d].attempts >= code[d].attempts
    BY <1>0, <2>3
  <2>10. ReportsAreRight'
    <3>1. ASSUME NEW s \in Requests, request'[s].op = "report"
          PROVE  \/ code'[request'[s].id].attempts >= MaxAttempts
                 \/ code'[request'[s].id].status = "DELETED"
      <4>1. CASE s # r
        <5>1. request'[s] = request[s] /\ request[s].id \in Codes
          BY <1>0, <1>1, <2>1, <3>1, <4>1
        <5>2. code[request[s].id].attempts >= MaxAttempts \/ code[request[s].id].status = "DELETED"
          BY <1>0, <3>1, <5>1 DEF ReportsAreRight
        <5>3. code'[request[s].id].attempts \in Nat
          BY <5>1 DEF TypeOK, CodeRow
        <5>4. QED
          BY <1>0, <2>6, <2>9, <5>1, <5>2, <5>3
      <4>2. CASE s = r
        <5>1. /\ request[r].attempts + 1 >= MaxAttempts /\ request'[r].id = c
              /\ request[r].op = "verify" /\ request[r].attempts \in Nat
          BY <1>0, <1>1, <1>3, <3>1, <4>2, RequestFields DEF WrongCode, Idle
        <5>2. request[r].attempts <= code[c].attempts \/ code[c].status = "DELETED"
          BY <1>0, <5>1 DEF ReportsAreRight
        <5>3. QED
          BY <1>0, <2>2, <2>3, <4>2, <5>1, <5>2
      <4>3. QED
        BY <4>1, <4>2
    <3>2. ASSUME NEW s \in Requests, request'[s].op = "verify"
          PROVE  \/ request'[s].attempts <= code'[request'[s].id].attempts
                 \/ code'[request'[s].id].status = "DELETED"
      <4>1. s # r /\ request'[s] = request[s]
        BY <1>1, <2>1, <3>2 DEF Idle
      <4>2. /\ request[s].id \in Codes /\ request[s].attempts \in Nat
            /\ request[s].attempts <= code[request[s].id].attempts
                 \/ code[request[s].id].status = "DELETED"
        BY <1>0, <3>2, <4>1, RequestFields DEF ReportsAreRight
      <4>3. code'[request[s].id].attempts \in Nat
        BY <4>2 DEF TypeOK, CodeRow
      <4>4. QED
        BY <1>0, <2>6, <2>9, <4>1, <4>2, <4>3
    <3>3. QED
      BY <3>1, <3>2 DEF ReportsAreRight
  <2>11. \A d \in reported' : code'[d].attempts >= MaxAttempts \/ code'[d].status = "DELETED"
    <3>1. \A d \in Codes : code'[d].attempts \in Nat
      BY DEF TypeOK, CodeRow
    <3>2. QED
      BY <1>0, <2>2, <2>6, <2>9, <3>1
  <2>12. QED
    BY <1>0, <2>2, <2>5, <2>6, <2>7, <2>8, <2>10, <2>11 DEF CodesInv, RowsInOrder
<1>4. ASSUME RightCode(r) PROVE CodesInv'
  <2> DEFINE c == request[r].id
  <2>1. PICK q : Becomes(r, q) /\ q.op = "grant" /\ q.id = c
    BY <1>4 DEF RightCode
  <2>2. /\ c \in Codes /\ r \in Verifying(c) /\ c <= created
        /\ UNCHANGED <<created, granted, reported>>
    BY <1>0, <1>4 DEF RightCode, Verifying, RequestsAreOfRows
  <2>3. /\ \A d \in Codes : d # c => code'[d] = code[d]
        /\ code'[c].attempts = code[c].attempts
        /\ code'[c].status = IF code[c].status = "DELETED" THEN "DELETED" ELSE "CONSUMED"
    BY <1>0, <1>4, <2>2 DEF RightCode, CodeRow
  <2>4. /\ \A d \in Codes : Verifying(d)' = Verifying(d) \ {r}
        /\ \A d \in Codes :
             Granting(d)' = IF d = c THEN Granting(d) \cup {r} ELSE Granting(d) \ {r}
    BY <2>1, <2>2, HoldersAfter
  <2>5. AttemptsInFlight'
    <3>1. \A d \in Codes : code'[d].attempts = code[d].attempts /\ code[d].attempts \in Nat
      BY <1>0, <2>3
    <3>2. \A d \in Codes :
            code'[d].attempts <= code[d].attempts /\ Verifying(d)' \subseteq Verifying(d)
      BY <2>4, <3>1
    <3>3. QED
      BY <3>2, AttemptsKept DEF CodesInv
  <2>6. GrantsInFlight'
    <3>1. \A d \in Codes : granted'[d] = granted[d] /\ Holding(d)' \subseteq Holding(d)
      BY <2>2, <2>4 DEF Holding
    <3>2. \A d \in Codes :
            granted'[d] > 0 \/ Granting(d)' # {} => code'[d].status \in {"CONSUMED", "DELETED"}
      BY <1>0, <2>2, <2>3, <2>4
    <3>3. QED
      BY <3>1, <3>2, GrantsKept DEF CodesInv
  <2>7. RequestsAreOfRows'
    BY <1>0, <1>1, <2>1, <2>2 DEF RequestsAreOfRows
  <2>8. \A d \in Codes : /\ code'[d].attempts = code[d].attempts
                         /\ code[d].status = "DELETED" <=> code'[d].status = "DELETED"
                         /\ code[d].status = "NONE" => d # c
                         /\ code'[d].status = "NONE" <=> code[d].status = "NONE"
    BY <1>0, <2>2, <2>3 DEF RowsInOrder, Codes
  <2>9. ReportsAreRight'
    <3>1. \A s \in Requests : request'[s].op \in {"verify", "report"} =>
                                request'[s] = request[s] /\ request[s].id \in Codes
      BY <1>0, <1>1, <2>1
    <3>2. QED
      BY <1>0, <2>8, <3>1 DEF ReportsAreRight
  <2>10. QED
    BY <1>0, <2>2, <2>5, <2>6, <2>7, <2>8, <2>9 DEF CodesInv, RowsInOrder
<1>5. ASSUME Grant(r) PROVE CodesInv'
  <2> DEFINE c == request[r].id
  <2>1. Becomes(r, Idle) /\ UNCHANGED <<created, code, reported>>
    BY <1>5 DEF Grant
  <2>2. c \in Codes /\ r \in Granting(c) /\ r \notin Verifying(c) /\ c <= created
    BY <1>0, <1>5 DEF Grant, Granting, Verifying, RequestsAreOfRows
  <2>3. granted'[c] = granted[c] + 1 /\ \A d \in Codes : d # c => granted'[d] = granted[d]
    BY <1>0, <1>5, <2>2 DEF Grant
  <2>4. \A d \in Codes : Verifying(d)' = Verifying(d) \ {r} /\ Granting(d)' = Granting(d) \ {r}
    BY <2>1, HoldersAfter DEF Idle
  <2>5. AttemptsInFlight'
    <3>1. \A d \in Codes :
            code'[d].attempts <= code[d].attempts /\ Verifying(d)' \subseteq Verifying(d)
      BY <1>0, <2>1, <2>4
    <3>2. QED
      BY <3>1, AttemptsKept DEF CodesInv
  <2>6. GrantsInFlight'
    <3>1. \A d \in Codes :
            \/ granted'[d] = granted[d] /\ Holding(d)' \subseteq Holding(d)
            \/ /\ granted'[d] = granted[d] + 1
               /\ \E s \in Holding(d) : Holding(d)' = Holding(d) \ {s}
      BY <2>2, <2>3, <2>4 DEF Holding
    <3>2. \A d \in Codes :
            granted'[d] > 0 \/ Granting(d)' # {} => code'[d].status \in {"CONSUMED", "DELETED"}
      BY <1>0, <2>1, <2>2, <2>3, <2>4
    <3>3. QED
      BY <3>1, <3>2, GrantsKept DEF CodesInv
  <2>7. RequestsAreOfRows' /\ ReportsAreRight'
    BY <1>0, <1>1, <2>1 DEF RequestsAreOfRows, ReportsAreRight, Idle
  <2>8. RowsInOrder'
    BY <1>0, <2>1, <2>2, <2>3 DEF RowsInOrder, Codes
  <2>9. QED
    BY <1>0, <2>1, <2>5, <2>6, <2>7, <2>8 DEF CodesInv
<1>6. QED
  BY <1>2, <1>3, <1>4, <1>5

\* Steps that insert, delete or age a row.
LEMMA RowStepKeepsCodes ==
  ASSUME TypeOK, TypeOK', CodesInv
  PROVE  /\ \A r \in Requests : InsertCode(r) => CodesInv'
         /\ \A r \in Requests : DeleteCode(r) => CodesInv'
         /\ \A c \in Codes : CodeExpires(c) => CodesInv'
<1> USE DEF limiter, rows, outcomes
<1>0. /\ request \in [Requests -> RequestState]
      /\ code \in [Codes -> CodeRow]
      /\ created \in Nat /\ MaxAttempts \in Nat \ {0} /\ MaxCodes \in Nat
      /\ RowsInOrder /\ RequestsAreOfRows /\ ReportsAreRight
      /\ \A c \in Codes : granted[c] > 0 \/ Granting(c) # {} =>
                            code[c].status \in {"CONSUMED", "DELETED"}
      /\ \A c \in reported : c \in Codes /\ (code[c].attempts >= MaxAttempts \/ code[c].status = "DELETED")
      /\ \A s \in Requests : request[s].op \in {"verify", "report", "grant", "undo"} => request[s].id \in Codes
      /\ \A c \in Codes : code[c].attempts \in Nat
  <2>1. \A s \in Requests : request[s] \in RequestState
    BY DEF TypeOK
  <2>2. \A s \in Requests :
          request[s].op \in {"verify", "report", "grant", "undo"} => request[s].id \in Codes
    BY <2>1, RequestFields
  <2>3. \A c \in Codes : code[c].attempts \in Nat
    BY DEF TypeOK, CodeRow
  <2>4. created \in Nat /\ MaxAttempts \in Nat \ {0} /\ MaxCodes \in Nat
    BY CodesAssumption DEF TypeOK
  <2>5. QED
    BY <2>2, <2>3, <2>4 DEF TypeOK, CodesInv, GrantsInFlight
<1>1. ASSUME NEW r \in Requests, InsertCode(r) PROVE CodesInv'
  <2> DEFINE new == created + 1
             q == [op |-> "add", id |-> new]
  <2>1. Becomes(r, q) /\ created' = new /\ UNCHANGED <<granted, reported>> /\ new \in Codes
    BY <1>0, <1>1 DEF InsertCode, Codes
  <2>2. \A d \in Codes : code'[d] = IF d = new THEN [status |-> "OPEN", attempts |-> 0] ELSE code[d]
    BY <1>0, <1>1 DEF InsertCode
  <2>3. \A d \in Codes : Verifying(d)' = Verifying(d) \ {r} /\ Granting(d)' = Granting(d) \ {r}
    BY <2>1, HoldersAfter
  <2>4. \A s \in Requests : request'[s] = IF s = r THEN q ELSE request[s]
    BY <1>0, <2>1 DEF Becomes
  <2>5. AttemptsInFlight'
    <3>1. \A d \in Codes :
            \/ code'[d].attempts < MaxAttempts
            \/ code'[d].attempts <= code[d].attempts /\ Verifying(d)' \subseteq Verifying(d)
      BY <1>0, <2>2, <2>3
    <3>2. QED
      BY <3>1, AttemptsKept DEF CodesInv
  <2>6. GrantsInFlight'
    <3>1. \A d \in Codes : granted'[d] = granted[d] /\ Holding(d)' \subseteq Holding(d)
      BY <2>1, <2>3 DEF Holding
    <3>2. ASSUME NEW d \in Codes, granted'[d] > 0 \/ Granting(d)' # {}
          PROVE  code'[d].status \in {"CONSUMED", "DELETED"}
      <4>1. code[d].status \in {"CONSUMED", "DELETED"}
        BY <1>0, <2>1, <2>3, <3>2
      <4>2. d # new
        BY <1>0, <4>1 DEF RowsInOrder
      <4>3. QED
        BY <2>2, <4>1, <4>2
    <3>3. QED
      BY <3>1, <3>2, GrantsKept DEF CodesInv
  <2>7. RequestsAreOfRows'
    <3>1. q.id = new /\ created' = created + 1 /\ created \in Nat
      BY <1>0, <2>1
    <3>2. \A s \in Requests :
            request[s].op \in {"add", "undo", "verify", "report", "grant"} => request[s].id \in Nat
      BY RequestFields DEF TypeOK, Codes
    <3>3. QED
      BY <1>0, <2>4, <3>1, <3>2 DEF RequestsAreOfRows
  <2>8. ReportsAreRight'
    <3>1. \A s \in Requests : request'[s].op \in {"verify", "report"} =>
            /\ request'[s] = request[s]
            /\ request[s].id \in Codes /\ request[s].id # new
      BY <1>0, <2>4 DEF RequestsAreOfRows
    <3>2. QED
      BY <1>0, <2>2, <3>1 DEF ReportsAreRight
  <2>9. \A d \in reported : d # new /\ code'[d] = code[d]
    BY <1>0, <2>1, <2>2 DEF RowsInOrder
  <2>10. RowsInOrder'
    BY <1>0, <2>1, <2>2 DEF RowsInOrder, Codes
  <2>11. QED
    BY <1>0, <2>1, <2>5, <2>6, <2>7, <2>8, <2>9, <2>10 DEF CodesInv
<1>2. ASSUME NEW r \in Requests, DeleteCode(r) PROVE CodesInv'
  <2> DEFINE c == request[r].id
  <2>1. PICK q : Becomes(r, q) /\ q.op \in {"none", "undo"} /\ (q.op = "undo" => q.id = c)
    <3>1. CASE request[r].left \ {"row"} = {}
      BY <1>2, <3>1 DEF DeleteCode, Undone, Idle
    <3>2. CASE request[r].left \ {"row"} # {}
      <4> DEFINE p == [request[r] EXCEPT !.left = request[r].left \ {"row"}]
      <4>1. Becomes(r, p)
        BY <1>2, <3>2 DEF DeleteCode, Undone
      <4>2. request[r].op = "undo" /\ request[r] \in RequestState
        BY <1>0, <1>2 DEF DeleteCode, Undone
      <4>3. request[r] \in [op : {"undo"}, id : Codes, left : SUBSET {"row", "counters"}]
        BY <4>2 DEF RequestState, Idle
      <4>4. p.op = "undo" /\ p.id = request[r].id
        BY <4>3
      <4>5. QED
        BY <4>1, <4>4
    <3>3. QED
      BY <3>1, <3>2
  <2>2. /\ c \in Codes /\ c <= created /\ request[r].op = "undo"
        /\ UNCHANGED <<created, granted, reported>>
    BY <1>0, <1>2 DEF DeleteCode, Undone, RequestsAreOfRows
  <2>3. \A d \in Codes : code'[d] = IF d = c THEN [status |-> "DELETED", attempts |-> 0] ELSE code[d]
    BY <1>0, <1>2 DEF DeleteCode
  <2>4. \A d \in Codes : Verifying(d)' = Verifying(d) \ {r} /\ Granting(d)' = Granting(d) \ {r}
    BY <2>1, HoldersAfter
  <2>5. \A s \in Requests : request'[s] = IF s = r THEN q ELSE request[s]
    BY <1>0, <2>1 DEF Becomes
  <2>6. AttemptsInFlight'
    <3>1. \A d \in Codes :
            code'[d].attempts <= code[d].attempts /\ Verifying(d)' \subseteq Verifying(d)
      BY <1>0, <2>3, <2>4
    <3>2. QED
      BY <3>1, AttemptsKept DEF CodesInv
  <2>7. GrantsInFlight'
    <3>1. \A d \in Codes : granted'[d] = granted[d] /\ Holding(d)' \subseteq Holding(d)
      BY <2>2, <2>4 DEF Holding
    <3>2. \A d \in Codes :
            granted'[d] > 0 \/ Granting(d)' # {} => code'[d].status \in {"CONSUMED", "DELETED"}
      BY <1>0, <2>2, <2>3, <2>4
    <3>3. QED
      BY <3>1, <3>2, GrantsKept DEF CodesInv
  <2>8. RequestsAreOfRows'
    BY <1>0, <2>1, <2>2, <2>5 DEF RequestsAreOfRows
  <2>9. ReportsAreRight'
    <3>1. \A s \in Requests : request'[s].op \in {"verify", "report"} =>
            request'[s] = request[s] /\ request[s].id \in Codes
      BY <1>0, <2>1, <2>5
    <3>2. QED
      BY <1>0, <2>3, <3>1 DEF ReportsAreRight
  <2>10. RowsInOrder'
    BY <1>0, <2>2, <2>3 DEF RowsInOrder, Codes
  <2>11. QED
    BY <1>0, <2>2, <2>3, <2>6, <2>7, <2>8, <2>9, <2>10 DEF CodesInv
<1>3. ASSUME NEW c \in Codes, CodeExpires(c) PROVE CodesInv'
  <2>1. UNCHANGED <<created, granted, reported, request>> /\ code[c].status = "OPEN"
    BY <1>3 DEF CodeExpires
  <2>2. /\ \A d \in Codes : d # c => code'[d] = code[d]
        /\ code'[c].status = "EXPIRED" /\ code'[c].attempts = code[c].attempts
    BY <1>0, <1>3 DEF CodeExpires, CodeRow
  <2>3. \A d \in Codes : Verifying(d)' = Verifying(d) /\ Granting(d)' = Granting(d)
    BY <2>1 DEF Verifying, Granting
  <2>4. AttemptsInFlight'
    <3>1. \A d \in Codes : code'[d].attempts = code[d].attempts
      BY <2>2
    <3>2. QED
      BY <2>3, <3>1 DEF CodesInv, AttemptsInFlight
  <2>5. GrantsInFlight'
    <3>1. \A d \in Codes : granted'[d] = granted[d] /\ Holding(d)' \subseteq Holding(d)
      BY <2>1, <2>3 DEF Holding
    <3>2. \A d \in Codes :
            granted'[d] > 0 \/ Granting(d)' # {} => code'[d].status \in {"CONSUMED", "DELETED"}
      BY <1>0, <2>1, <2>2, <2>3
    <3>3. QED
      BY <3>1, <3>2, GrantsKept DEF CodesInv
  <2>6. RequestsAreOfRows' /\ ReportsAreRight'
    BY <1>0, <2>1, <2>2 DEF RequestsAreOfRows, ReportsAreRight
  <2>7. RowsInOrder'
    BY <1>0, <2>1, <2>2 DEF RowsInOrder, Codes
  <2>8. QED
    BY <1>0, <2>1, <2>2, <2>4, <2>5, <2>6, <2>7 DEF CodesInv
<1>4. QED
  BY <1>1, <1>2, <1>3

\* Every step keeps what is true of codes.
LEMMA CodesKept ==
  ASSUME TypeOK, TypeOK', CodesInv, [Next]_vars
  PROVE  CodesInv'
<1> USE DEF limiter, rows, outcomes
<1>1. ASSUME NEW r \in Requests,
             ConsumeHour(r) \/ ExpireHour(r) \/ ConsumeCooldown(r) \/ ExpireCooldown(r) \/ Crash(r)
      PROVE  CodesInv'
  <2>1. PICK q : Becomes(r, q) /\ q.op \in {"none", "expireHour", "cool", "expireCooldown", "insert"}
    <3>1. Idle.op = "none"
      BY DEF Idle
    <3>2. QED
      BY <1>1, <3>1 DEF ConsumeHour, ExpireHour, ConsumeCooldown, ExpireCooldown, Crash
  <2>2. UNCHANGED <<created, code, granted, reported>>
    BY <1>1 DEF ConsumeHour, ExpireHour, ConsumeCooldown, ExpireCooldown, Crash
  <2>3. QED
    BY <2>1, <2>2, QuietKeepsCodes
<1>2. ASSUME NEW r \in Requests, AddJob(r) \/ AddFails(r) \/ ReportBruteForce(r)
      PROVE  CodesInv'
  <2>1. request[r].op = "add" => request[r].id <= created
    BY DEF CodesInv, RequestsAreOfRows
  <2>2. PICK q : /\ Becomes(r, q) /\ q.op \in {"none", "undo"}
                 /\ q.op = "undo" => q.id <= created
    <3>1. Idle.op = "none"
      BY DEF Idle
    <3>2. QED
      BY <1>2, <2>1, <3>1 DEF AddJob, AddFails, ReportBruteForce
  <2>3. UNCHANGED <<created, code, granted>>
    BY <1>2 DEF AddJob, AddFails, ReportBruteForce
  <2>4. \A c \in reported' : c \in reported \/ (request[r].op = "report" /\ request[r].id = c)
    BY <1>2 DEF AddJob, AddFails, ReportBruteForce
  <2>5. QED
    BY <2>2, <2>3, <2>4, QuietKeepsCodes
<1>3. ASSUME NEW r \in Requests, ClearCounters(r) PROVE CodesInv'
  <2>1. request[r].op = "undo" /\ request[r].id <= created
    BY <1>3 DEF ClearCounters, Undone, CodesInv, RequestsAreOfRows
  <2>2. PICK q : /\ Becomes(r, q) /\ q.op \in {"none", "undo"}
                 /\ q.op = "undo" => q.id <= created
    <3>1. CASE request[r].left \ {"counters"} = {}
      BY <1>3, <3>1 DEF ClearCounters, Undone, Idle
    <3>2. CASE request[r].left \ {"counters"} # {}
      <4> DEFINE p == [request[r] EXCEPT !.left = request[r].left \ {"counters"}]
      <4>1. Becomes(r, p)
        BY <1>3, <3>2 DEF ClearCounters, Undone
      <4>2. request[r] \in [op : {"undo"}, id : Codes, left : SUBSET {"row", "counters"}]
        BY <2>1 DEF TypeOK, RequestState, Idle
      <4>3. p.op = "undo" /\ p.id = request[r].id
        BY <4>2
      <4>4. QED
        BY <2>1, <4>1, <4>3
    <3>3. QED
      BY <3>1, <3>2
  <2>3. UNCHANGED <<created, code, granted, reported>>
    BY <1>3 DEF ClearCounters
  <2>4. QED
    BY <2>2, <2>3, QuietKeepsCodes
<1>4. CASE HourEnds \/ CooldownEnds \/ UNCHANGED vars
  <2>1. UNCHANGED <<created, code, granted, reported, request>>
    BY <1>4 DEF HourEnds, CooldownEnds, vars
  <2>2. QED
    BY <2>1 DEF CodesInv, RowsInOrder, RequestsAreOfRows, AttemptsInFlight, ReportsAreRight,
                GrantsInFlight, Verifying, Granting
<1>5. QED
  BY <1>1, <1>2, <1>3, <1>4, VerifyKeepsCodes, RowStepKeepsCodes DEF Next

\* Every step keeps the invariant.
LEMMA NextIInv == IInv /\ [Next]_vars => IInv'
<1> SUFFICES ASSUME IInv, [Next]_vars PROVE IInv'
  OBVIOUS
<1>1. TypeOK /\ TypeOK'
  BY NextTypeOK DEF IInv
<1>2. CodesInv
  <2>1. \A c \in reported : c \in Codes
    BY <1>1 DEF TypeOK
  <2>2. QED
    BY <2>1 DEF IInv, CodesInv, AttemptsAreBounded
<1>3. CodesInv' /\ CountersEnd'
  BY <1>1, <1>2, CodesKept, CountersKept DEF IInv
<1>4. AttemptsAreBounded'
  <2>1. ASSUME NEW c \in Codes
        PROVE  code'[c].attempts < MaxAttempts + Cardinality(Requests)
    <3>1. /\ code'[c].attempts \in Nat /\ MaxAttempts \in Nat
          /\ Verifying(c)' \in SUBSET Requests /\ Requests \in SUBSET Requests
          /\ code'[c].attempts + Cardinality(Verifying(c)') < MaxAttempts + Cardinality(Requests)
      BY <1>1, <1>3, CodesAssumption DEF TypeOK, CodeRow, Verifying, CodesInv, AttemptsInFlight
    <3>2. Cardinality(Verifying(c)') \in Nat /\ Cardinality(Requests) \in Nat
      BY <3>1, Counting
    <3>3. QED
      BY <3>1, <3>2
  <2>2. QED
    BY <1>3, <2>1 DEF AttemptsAreBounded, CodesInv
<1>5. QED
  BY <1>1, <1>3, <1>4 DEF IInv, CodesInv

\* The inductive invariant: what is in flight counts against the limits.
THEOREM CodesInvariant == Spec => []IInv
BY InitIInv, NextIInv, PTL DEF Spec

-----------------------------------------------------------------------------
(***************************************************************************)
(* Properties.                                                              *)
(***************************************************************************)

\* Wrong codes end at the limit but for those in flight, and what is reported is
\* used up, for every limit and number of parallel requests (verifyOtp).
THEOREM AttemptsBounded == Spec => []AttemptsAreBounded
<1>1. IInv => AttemptsAreBounded
  BY DEF IInv
<1>2. QED
  BY <1>1, CodesInvariant, PTL

\* A code is good for no more than the requests that run at the same time, and
\* for nothing before it is consumed (verifyOtp).
THEOREM GrantsConcurrent == Spec => []GrantsAreConcurrent
<1>1. IInv => GrantsAreConcurrent
  <2> SUFFICES ASSUME IInv, NEW c \in Codes PROVE granted[c] <= Cardinality(Requests)
    BY DEF IInv, GrantsInFlight, GrantsAreConcurrent
  <2>1. /\ Holding(c) \in SUBSET Requests /\ Requests \in SUBSET Requests
        /\ granted[c] \in Nat
        /\ granted[c] + Cardinality(Holding(c)) <= Cardinality(Requests)
    BY DEF IInv, TypeOK, GrantsInFlight, Holding, Verifying, Granting
  <2>2. Cardinality(Holding(c)) \in Nat /\ Cardinality(Requests) \in Nat
    BY <2>1, Counting
  <2>3. QED
    BY <2>1, <2>2
<1>2. QED
  BY <1>1, CodesInvariant, PTL

\* No counter stays without an expiry unless a process dies between the two calls
\* of consume, whatever windows end and undos clear meanwhile.
THEOREM CountersExpire == Spec => []CountersEnd
<1>1. IInv => CountersEnd
  BY DEF IInv
<1>2. QED
  BY <1>1, CodesInvariant, PTL

\* To requests that come one after the other, a code is good for one thing only and
\* for no more guesses than the limit says (verifyOtp).
THEOREM OneUseOfOne == ASSUME Cardinality(Requests) = 1 PROVE Spec => []OneUse
<1>1. TypeOK /\ AttemptsAreBounded /\ GrantsAreConcurrent => OneUse
  <2> SUFFICES ASSUME TypeOK, AttemptsAreBounded, GrantsAreConcurrent, NEW c \in Codes
               PROVE  granted[c] <= 1 /\ code[c].attempts <= MaxAttempts
    BY DEF OneUse
  <2>1. granted[c] <= 1 /\ code[c].attempts < MaxAttempts + 1
    BY DEF AttemptsAreBounded, GrantsAreConcurrent
  <2>2. code[c].attempts \in Nat /\ MaxAttempts \in Nat
    BY CodesAssumption DEF TypeOK, CodeRow
  <2>3. QED
    BY <2>1, <2>2
<1>2. QED
  BY <1>1, TypeCorrect, AttemptsBounded, GrantsConcurrent, PTL
=============================================================================
