---------------------------- MODULE SignInProofs ----------------------------
(***************************************************************************)
(* Proofs about SignIn, and at the end about HostedAccounts, whose limiter   *)
(* loses counts the same way, for every number of requests, sessions and     *)
(* tokens, and every limit.                                                  *)
(***************************************************************************)
EXTENDS SignIn, FiniteSetTheorems, TLAPS

CONSTANTS LoginLimit, RegisterLimit
VARIABLES registered, limit, admitted

\* The hosted accounts, in these parameters and in those of SignIn of the same name.
Hosted == INSTANCE HostedAccounts

-----------------------------------------------------------------------------
(***************************************************************************)
(* Type correctness.                                                        *)
(***************************************************************************)

\* What a request holds tells from its operation.
LEMMA RequestFields ==
  ASSUME NEW q \in RequestState
  PROVE  /\ q.op = "login" => q.failed \in Nat /\ q.password \in Nat
         /\ q.op = "logout" => q.id \in Sessions
<1>1. CASE q = Idle
  BY <1>1 DEF Idle
<1>2. CASE q \in [op : {"login"}, failed : Nat, password : Nat]
  BY <1>2
<1>3. CASE q \in [op : {"reset", "revoke"}]
  BY <1>3
<1>4. CASE q \in [op : {"logout"}, id : Sessions]
  BY <1>4
<1>5. QED
  BY <1>1, <1>2, <1>3, <1>4 DEF RequestState

\* A request that goes on to a state of a request is well typed.
LEMMA BecomesType ==
  ASSUME TypeOK, NEW r \in Requests, NEW q \in RequestState, Becomes(r, q)
  PROVE  request' \in [Requests -> RequestState]
BY DEF TypeOK, Becomes

\* The states of a request that hold no row.
LEMMA PlainStates ==
  Idle \in RequestState /\ [op |-> "reset"] \in RequestState /\ [op |-> "revoke"] \in RequestState
BY DEF RequestState

\* A session that ends is a session's row.
LEMMA EndedIsRow == \A row \in Row : [row EXCEPT !.status = "ENDED"] \in Row
BY DEF Row

\* The initial state is well typed.
LEMMA InitTypeOK == Init => TypeOK
<1> SUFFICES ASSUME Init PROVE TypeOK
  OBVIOUS
<1>1. NoRow \in Row
  BY DEF NoRow, Row
<1>2. QED
  BY <1>1, PlainStates DEF Init, TypeOK

\* Every step keeps the types.
LEMMA NextTypeOK == TypeOK /\ [Next]_vars => TypeOK'
<1> SUFFICES ASSUME TypeOK, [Next]_vars PROVE TypeOK'
  OBVIOUS
<1> USE DEF credential
<1>0. \A r \in Requests : request[r] \in RequestState
  BY DEF TypeOK
<1>1. ASSUME NEW r \in Requests, ReadCredential(r) PROVE TypeOK'
  <2>1. [op |-> "login", failed |-> failed, password |-> generation] \in RequestState
    BY DEF TypeOK, RequestState
  <2>2. QED
    BY <1>1, <2>1, BecomesType DEF TypeOK, ReadCredential
<1>2. ASSUME NEW r \in Requests, WrongPassword(r) PROVE TypeOK'
  <2>1. request[r].failed + 1 \in Nat
    BY <1>0, <1>2, RequestFields DEF WrongPassword, CountFailure
  <2>2. request' \in [Requests -> RequestState]
    BY <1>2, PlainStates, BecomesType DEF WrongPassword, CountFailure
  <2>3. QED
    BY <1>2, <2>1, <2>2 DEF TypeOK, WrongPassword, CountFailure
<1>3. ASSUME NEW r \in Requests, NEW s \in Sessions, RightPassword(r, s) PROVE TypeOK'
  <2>1. request[r].password \in Nat
    BY <1>0, <1>3, RequestFields DEF RightPassword
  <2>2. [status |-> "LIVE", password |-> request[r].password,
         late |-> request[r].password < revoked] \in Row
    BY <2>1 DEF Row
  <2>3. request' \in [Requests -> RequestState]
    BY <1>3, PlainStates, BecomesType DEF RightPassword
  <2>4. QED
    BY <1>3, <2>2, <2>3 DEF TypeOK, RightPassword, Pardon, Insert
<1>4. ASSUME NEW r \in Requests, NEW t \in Tokens, TakeToken(r, t) PROVE TypeOK'
  <2>1. request' \in [Requests -> RequestState]
    BY <1>4, PlainStates, BecomesType DEF TakeToken
  <2>2. QED
    BY <1>4, <2>1 DEF TypeOK, TakeToken
<1>5. ASSUME NEW r \in Requests, SetPassword(r) PROVE TypeOK'
  <2>1. request' \in [Requests -> RequestState]
    BY <1>5, PlainStates, BecomesType DEF SetPassword
  <2>2. failed' \in Nat /\ generation' \in Nat /\ guesses' \in Nat
    BY <1>5 DEF TypeOK, SetPassword, Pardon
  <2>3. UNCHANGED <<session, token, revoked>>
    BY <1>5 DEF SetPassword
  <2>4. locked' \in BOOLEAN
    BY <1>5 DEF SetPassword, Pardon
  <2>5. QED
    BY <2>1, <2>2, <2>3, <2>4 DEF TypeOK
<1>6. ASSUME NEW r \in Requests, RevokeSessions(r) \/ RevokeSession(r) \/ Crash(r) PROVE TypeOK'
  <2>1. request' \in [Requests -> RequestState]
    BY <1>6, PlainStates, BecomesType DEF RevokeSessions, RevokeSession, Crash
  <2>2. session' \in [Sessions -> Row]
    BY <1>6, EndedIsRow DEF TypeOK, RevokeSessions, RevokeSession, Crash
  <2>3. QED
    BY <1>6, <2>1, <2>2 DEF TypeOK, RevokeSessions, RevokeSession, Crash
<1>7. ASSUME NEW r \in Requests, NEW s \in Sessions, SessionFrom(r, s) PROVE TypeOK'
  <2>1. [op |-> "logout", id |-> s] \in RequestState
    BY DEF RequestState
  <2>2. QED
    BY <1>7, <2>1, BecomesType DEF TypeOK, SessionFrom
<1>8. ASSUME NEW s \in Sessions, SessionExpires(s) PROVE TypeOK'
  BY <1>8, EndedIsRow DEF TypeOK, SessionExpires
<1>9. ASSUME NEW t \in Tokens, TokenSet(t) \/ TokenExpires(t) PROVE TypeOK'
  BY <1>9 DEF TypeOK, TokenSet, TokenExpires
<1>10. CASE LockEnds
  <2>1. locked' \in BOOLEAN /\ guesses' \in Nat
    BY <1>10 DEF LockEnds
  <2>2. UNCHANGED <<failed, generation, session, token, request, revoked>>
    BY <1>10 DEF LockEnds
  <2>3. QED
    BY <2>1, <2>2 DEF TypeOK
<1>11. CASE UNCHANGED vars
  BY <1>11 DEF TypeOK, vars
<1>12. QED
  BY <1>1, <1>2, <1>3, <1>4, <1>5, <1>6, <1>7, <1>8, <1>9, <1>10, <1>11 DEF Next

\* The account, its sessions and the requests in flight keep their types.
THEOREM TypeCorrect == Spec => []TypeOK
BY InitTypeOK, NextTypeOK, PTL DEF Spec

-----------------------------------------------------------------------------
(***************************************************************************)
(* Sessions.                                                                *)
(***************************************************************************)

\* A step opens a session late if it opens it with a replaced password, ends some,
\* or leaves none when it revokes them.
LEMMA SessionsKept ==
  ASSUME TypeOK, TypeOK', OldSessionsAreLate, [Next]_vars
  PROVE  OldSessionsAreLate'
<1> USE DEF credential
<1>0. session \in [Sessions -> Row]
  BY DEF TypeOK
<1>1. ASSUME revoked' = revoked,
             \A s \in Sessions : session'[s] = session[s] \/ session'[s].status = "ENDED"
      PROVE  OldSessionsAreLate'
  BY <1>1 DEF OldSessionsAreLate, Live
<1>2. ASSUME NEW r \in Requests, NEW s \in Sessions, RightPassword(r, s)
      PROVE  OldSessionsAreLate'
  <2>1. /\ revoked' = revoked
        /\ \A x \in Sessions : x # s => session'[x] = session[x]
        /\ session'[s].late = (session'[s].password < revoked)
    BY <1>0, <1>2 DEF RightPassword, Insert
  <2>2. QED
    BY <2>1 DEF OldSessionsAreLate, Live
<1>3. ASSUME NEW r \in Requests, RevokeSessions(r) PROVE OldSessionsAreLate'
  <2>1. \A s \in Sessions : session'[s].status # "LIVE"
    BY <1>0, <1>3 DEF RevokeSessions, Live, Row
  <2>2. QED
    BY <2>1 DEF OldSessionsAreLate, Live
<1>4. ASSUME NEW r \in Requests, RevokeSession(r) PROVE OldSessionsAreLate'
  <2>1. \A s \in Sessions : session'[s] = session[s] \/ session'[s].status = "ENDED"
    BY <1>0, <1>4 DEF RevokeSession, Row
  <2>2. QED
    BY <1>1, <1>4, <2>1 DEF RevokeSession
<1>5. ASSUME NEW s \in Sessions, SessionExpires(s) PROVE OldSessionsAreLate'
  <2>1. \A x \in Sessions : session'[x] = session[x] \/ session'[x].status = "ENDED"
    BY <1>0, <1>5 DEF SessionExpires, Row
  <2>2. QED
    BY <1>1, <1>5, <2>1 DEF SessionExpires
<1>6. CASE UNCHANGED <<session, revoked>>
  BY <1>1, <1>6
<1>7. QED
  BY <1>2, <1>3, <1>4, <1>5, <1>6
     DEF Next, LockEnds, TokenSet, TokenExpires, ReadCredential, WrongPassword, CountFailure,
         SetPassword, Crash, SessionFrom, TakeToken, vars

\* A session of a replaced password is of a login that overlapped the reset,
\* whatever else resets, logs in or dies (resetPassword, login).
THEOREM OldSessionsLate == Spec => []OldSessionsAreLate
<1>1. Init => OldSessionsAreLate
  BY DEF Init, OldSessionsAreLate, Live, NoRow
<1>2. TypeOK /\ OldSessionsAreLate /\ [Next]_vars => OldSessionsAreLate'
  BY SessionsKept, NextTypeOK
<1>3. QED
  BY <1>1, <1>2, TypeCorrect, PTL DEF Spec

-----------------------------------------------------------------------------
(***************************************************************************)
(* Recovery tokens.                                                         *)
(***************************************************************************)

\* A reset in flight has spent a token, a password set has spent that.
LEMMA ResetsKept ==
  ASSUME TypeOK, TypeOK', TokenResetsOnce, [Next]_vars
  PROVE  TokenResetsOnce'
<1> USE DEF credential
<1> DEFINE n == Cardinality(Resetting)
           m == Cardinality(Spent)
<1>0. /\ IsFiniteSet(Resetting) /\ IsFiniteSet(Spent) /\ IsFiniteSet(Resetting') /\ IsFiniteSet(Spent')
      /\ request \in [Requests -> RequestState]
      /\ token \in [Tokens -> {"UNSET", "SET", "GONE"}]
      /\ generation \in Nat
  <2>1. /\ Resetting \in SUBSET Requests /\ Resetting' \in SUBSET Requests
        /\ Spent \in SUBSET Tokens /\ Spent' \in SUBSET Tokens
    BY DEF Resetting, Spent
  <2>2. QED
    BY <2>1, SignInAssumption, FS_Subset DEF TypeOK
<1>1. n \in Nat /\ m \in Nat /\ n' \in Nat /\ m' \in Nat /\ generation + n <= m
  BY <1>0, FS_CardinalityType DEF TokenResetsOnce
<1>2. ASSUME Resetting' \subseteq Resetting, Spent \subseteq Spent', generation' = generation
      PROVE  TokenResetsOnce'
  <2>1. n' <= n /\ m <= m'
    BY <1>0, <1>2, FS_Subset
  <2>2. QED
    BY <1>0, <1>1, <1>2, <2>1 DEF TokenResetsOnce
<1>3. ASSUME NEW r \in Requests, NEW q, Becomes(r, q)
      PROVE  Resetting' = IF q.op = "reset" THEN Resetting \cup {r} ELSE Resetting \ {r}
  BY <1>0, <1>3 DEF Becomes, Resetting
<1>4. ASSUME NEW r \in Requests, NEW t \in Tokens, TakeToken(r, t) PROVE TokenResetsOnce'
  <2>1. Resetting' = Resetting \cup {r} /\ Spent' = Spent \cup {t} /\ t \notin Spent
    BY <1>0, <1>3, <1>4 DEF TakeToken, Spent
  <2>2. n' <= n + 1 /\ m' = m + 1
    BY <1>0, <1>1, <2>1, FS_AddElement
  <2>3. generation' = generation
    BY <1>4 DEF TakeToken
  <2>4. QED
    BY <1>0, <1>1, <2>2, <2>3 DEF TokenResetsOnce
<1>5. ASSUME NEW r \in Requests, SetPassword(r) PROVE TokenResetsOnce'
  <2>1. Resetting' = Resetting \ {r} /\ r \in Resetting
    BY <1>3, <1>5 DEF SetPassword, Resetting
  <2>2. n' = n - 1
    BY <1>0, <2>1, FS_RemoveElement
  <2>3. Spent' = Spent /\ generation' = generation + 1
    BY <1>5 DEF SetPassword, Spent
  <2>4. QED
    BY <1>0, <1>1, <2>2, <2>3 DEF TokenResetsOnce
<1>6. ASSUME NEW r \in Requests,
             \/ ReadCredential(r) \/ WrongPassword(r) \/ RevokeSessions(r) \/ RevokeSession(r)
             \/ Crash(r) \/ \E s \in Sessions : RightPassword(r, s) \/ SessionFrom(r, s)
      PROVE  TokenResetsOnce'
  <2>1. Idle.op # "reset"
    BY DEF Idle
  <2>2. PICK q : Becomes(r, q) /\ q.op # "reset"
    <3>1. CASE ReadCredential(r)
      BY <3>1 DEF ReadCredential
    <3>2. CASE \E s \in Sessions : SessionFrom(r, s)
      BY <3>2 DEF SessionFrom
    <3>3. CASE \/ WrongPassword(r) \/ RevokeSessions(r) \/ RevokeSession(r) \/ Crash(r)
               \/ \E s \in Sessions : RightPassword(r, s)
      <4>1. Becomes(r, Idle)
        BY <3>3 DEF WrongPassword, CountFailure, RevokeSessions, RevokeSession, Crash, RightPassword
      <4>2. QED
        BY <2>1, <4>1
    <3>4. QED
      BY <1>6, <3>1, <3>2, <3>3
  <2>3. UNCHANGED <<token, generation>>
    BY <1>6 DEF ReadCredential, WrongPassword, CountFailure, RevokeSessions, RevokeSession,
                Crash, RightPassword, SessionFrom
  <2>4. Spent' = Spent
    BY <2>3 DEF Spent
  <2>5. Resetting' = Resetting \ {r}
    BY <1>3, <2>2
  <2>6. QED
    BY <1>2, <2>3, <2>4, <2>5
<1>7. ASSUME NEW t \in Tokens, TokenSet(t) \/ TokenExpires(t) PROVE TokenResetsOnce'
  <2>1. UNCHANGED <<request, generation>>
    BY <1>7 DEF TokenSet, TokenExpires
  <2>2. Resetting' = Resetting /\ Spent \subseteq Spent'
    BY <1>0, <1>7, <2>1 DEF TokenSet, TokenExpires, Resetting, Spent
  <2>3. QED
    BY <1>2, <2>1, <2>2
<1>8. CASE LockEnds \/ (\E s \in Sessions : SessionExpires(s)) \/ UNCHANGED vars
  <2>1. UNCHANGED <<request, token, generation>>
    BY <1>8 DEF LockEnds, SessionExpires, vars
  <2>2. QED
    BY <2>1 DEF TokenResetsOnce, Resetting, Spent
<1>9. QED
  BY <1>4, <1>5, <1>6, <1>7, <1>8 DEF Next

\* No recovery token sets two passwords, however many requests present it at once
\* (resetPassword).
THEOREM TokenOnce == Spec => []TokenResetsOnce
<1>1. Init => TokenResetsOnce
  <2> SUFFICES ASSUME Init PROVE TokenResetsOnce
    OBVIOUS
  <2>1. Resetting = {} /\ Spent = {}
    BY DEF Init, Resetting, Spent, Idle
  <2>2. QED
    BY <2>1, FS_EmptySet DEF Init, TokenResetsOnce
<1>2. TypeOK /\ TokenResetsOnce /\ [Next]_vars => TokenResetsOnce'
  BY ResetsKept, NextTypeOK
<1>3. QED
  BY <1>1, <1>2, TypeCorrect, PTL DEF Spec

-----------------------------------------------------------------------------
(***************************************************************************)
(* How many tallies there are (StaleCounts).  The induction over numbers is  *)
(* the pigeonhole principle: a set of counterexamples could be moved one     *)
(* down, into itself, and would miss its greatest.                           *)
(***************************************************************************)

\* What holds of 0, and of n + 1 if of n, holds of every number.
LEMMA NatInd ==
  ASSUME NEW S, 0 \in S, \A n \in Nat : n \in S => n + 1 \in S
  PROVE  \A n \in Nat : n \in S
<1> SUFFICES ASSUME NEW n \in Nat, n \notin S PROVE FALSE
  OBVIOUS
<1> DEFINE T == {k \in 0..n : k \notin S}
           down == [k \in T |-> k - 1]
<1>1. IsFiniteSet(T)
  <2>1. IsFiniteSet(0..n) /\ T \in SUBSET (0..n)
    BY FS_Interval
  <2> HIDE DEF T
  <2>2. QED
    BY <2>1, FS_Subset
<1>2. \A k \in T : k - 1 \in T
  <2> SUFFICES ASSUME NEW k \in T PROVE k - 1 \in T
    OBVIOUS
  <2>1. k # 0 /\ k - 1 \in Nat /\ k - 1 \in 0..n /\ (k - 1) + 1 = k
    OBVIOUS
  <2>2. k - 1 \notin S
    BY <2>1
  <2>3. QED
    BY <2>1, <2>2
<1>3. down \in Injection(T, T)
  <2>1. T \subseteq Int
    OBVIOUS
  <2> HIDE DEF T
  <2>2. QED
    BY <1>2, <2>1 DEF Injection, IsInjective
<1>4. down \in Surjection(T, T)
  <2> HIDE DEF T, down
  <2>1. QED
    BY <1>1, <1>3, FS_Injection
<1>5. n \in T
  OBVIOUS
<1>6. PICK k \in T : down[k] = n
  BY <1>4, <1>5 DEF Surjection
<1>7. QED
  BY <1>6

\* The recursive function of the library is one.
LEMMA FactorialDef ==
  /\ factorial[0] = 1
  /\ \A n \in Nat : factorial[n + 1] = (n + 1) * factorial[n]
<1> DEFINE Upto(n) == {g \in [0..n -> Nat] :
                         g[0] = 1 /\ \A i \in 0..n : i # 0 => g[i] = i * g[i - 1]}
\* Two of them agree where both are defined.
<1>1. ASSUME NEW n \in Nat, NEW m \in Nat, NEW g \in Upto(n), NEW h \in Upto(m)
      PROVE  \A i \in Nat : i <= n /\ i <= m => g[i] = h[i]
  <2> DEFINE Agree == {i \in Nat : i <= n /\ i <= m => g[i] = h[i]}
  <2>1. 0 \in Agree
    OBVIOUS
  <2>2. ASSUME NEW i \in Nat, i \in Agree PROVE i + 1 \in Agree
    <3> SUFFICES ASSUME i + 1 <= n, i + 1 <= m PROVE g[i + 1] = h[i + 1]
      OBVIOUS
    <3>1. g[i] = h[i]
      BY <2>2
    <3>2. i + 1 \in 0..n /\ i + 1 \in 0..m /\ i + 1 # 0 /\ (i + 1) - 1 = i
      OBVIOUS
    <3>3. g[i + 1] = (i + 1) * g[i] /\ h[i + 1] = (i + 1) * h[i]
      BY <3>2
    <3>4. QED
      BY <3>1, <3>3
  <2>3. \A i \in Nat : i \in Agree
    <3> HIDE DEF Agree
    <3>1. QED
      BY <2>1, <2>2, NatInd
  <2>4. QED
    BY <2>3
<1>2. \A n \in Nat : Upto(n) # {}
  <2> DEFINE Some == {n \in Nat : Upto(n) # {}}
  <2>1. 0 \in Some
    <3>1. [i \in 0..0 |-> 1] \in Upto(0)
      OBVIOUS
    <3>2. QED
      BY <3>1
  <2>2. ASSUME NEW n \in Nat, n \in Some PROVE n + 1 \in Some
    <3>1. PICK g \in Upto(n) : TRUE
      BY <2>2
    <3> DEFINE h == [i \in 0..(n + 1) |-> IF i = n + 1 THEN (n + 1) * g[n] ELSE g[i]]
    <3>2. n \in 0..n /\ g[n] \in Nat /\ (n + 1) * g[n] \in Nat
      OBVIOUS
    <3>3. h \in [0..(n + 1) -> Nat] /\ h[0] = 1
      BY <3>2
    <3>4. ASSUME NEW i \in 0..(n + 1), i # 0 PROVE h[i] = i * h[i - 1]
      <4>1. CASE i = n + 1
        <5>1. i - 1 = n /\ h[i - 1] = g[n]
          BY <4>1
        <5>2. QED
          BY <4>1, <5>1
      <4>2. CASE i # n + 1
        <5>1. i \in 0..n /\ i - 1 \in 0..n /\ i - 1 # n + 1
          BY <3>4, <4>2
        <5>2. h[i] = g[i] /\ h[i - 1] = g[i - 1]
          BY <4>2, <5>1
        <5>3. QED
          BY <3>4, <5>1, <5>2
      <4>3. QED
        BY <4>1, <4>2
    <3>5. h \in Upto(n + 1)
      BY <3>3, <3>4
    <3>6. n + 1 \in Nat
      OBVIOUS
    <3> HIDE DEF Upto, h
    <3>7. QED
      BY <3>5, <3>6
  <2>3. QED
    <3> HIDE DEF Some
    <3>1. \A n \in Nat : n \in Some
      BY <2>1, <2>2, NatInd
    <3>2. QED
      BY <3>1 DEF Some
<1> DEFINE at == [n \in Nat |-> CHOOSE g \in Upto(n) : TRUE]
           f == [n \in Nat |-> at[n][n]]
<1>3. \A n \in Nat : at[n] \in Upto(n)
  BY <1>2
<1> HIDE DEF at, Upto
<1>4. \A n \in Nat : at[n + 1][n] = at[n][n]
  BY <1>1, <1>3
<1>5. f = [n \in Nat |-> IF n = 0 THEN 1 ELSE n * f[n - 1]]
  <2> SUFFICES ASSUME NEW n \in Nat PROVE f[n] = IF n = 0 THEN 1 ELSE n * f[n - 1]
    BY DEF f
  <2>1. CASE n = 0
    BY <1>3, <2>1 DEF Upto
  <2>2. CASE n # 0
    <3>1. n - 1 \in Nat /\ (n - 1) + 1 = n /\ n \in 0..n
      BY <2>2
    <3>2. at[n][n] = n * at[n][n - 1]
      BY <1>3, <2>2, <3>1 DEF Upto
    <3>3. at[n][n - 1] = at[n - 1][n - 1]
      BY <1>4, <3>1
    <3>4. f[n] = at[n][n] /\ f[n - 1] = at[n - 1][n - 1]
      BY <3>1
    <3>5. QED
      BY <2>2, <3>2, <3>3, <3>4
  <2>3. QED
    BY <2>1, <2>2
<1>6. factorial = [n \in Nat |-> IF n = 0 THEN 1 ELSE n * factorial[n - 1]]
  <2> HIDE DEF f
  <2>1. QED
    BY <1>5 DEF factorial
<1>7. ASSUME NEW n \in Nat PROVE factorial[n + 1] = (n + 1) * factorial[n]
  <2>1. n + 1 \in Nat /\ n + 1 # 0 /\ (n + 1) - 1 = n
    OBVIOUS
  <2>2. QED
    BY <1>6, <2>1
<1>8. QED
  BY <1>6, <1>7

\* Factorials are positive.
LEMMA FactorialType == \A n \in Nat : factorial[n] \in Nat \ {0}
<1> DEFINE Positive == {n \in Nat : factorial[n] \in Nat \ {0}}
<1>1. 0 \in Positive
  BY FactorialDef
<1>2. ASSUME NEW n \in Nat, n \in Positive PROVE n + 1 \in Positive
  <2>1. factorial[n + 1] = (n + 1) * factorial[n] /\ factorial[n] \in Nat /\ factorial[n] > 0
    BY <1>2, FactorialDef
  <2>2. \A i, j \in Nat : i > 0 /\ j > 0 => i * j \in Nat /\ i * j > 0
    OBVIOUS
  <2>3. QED
    BY <2>1, <2>2
<1>3. QED
  <2> HIDE DEF Positive
  <2>1. \A n \in Nat : n \in Positive
    BY <1>1, <1>2, NatInd
  <2>2. QED
    BY <2>1 DEF Positive

\* With no value to tally, or no actor, there is one tally.
LEMMA OneTally ==
  ASSUME NEW n \in Nat, NEW m \in Nat, n = 0 \/ m = 0
  PROVE  IsFiniteSet(Tallies(n, m)) /\ Cardinality(Tallies(n, m)) = 1
<1>1. Tallies(n, m) = {[k \in 1..n |-> 0]}
  <2>1. [k \in 1..n |-> 0] \in Tallies(n, m)
    BY DEF Tallies
  <2>2. ASSUME NEW t \in Tallies(n, m) PROVE t = [k \in 1..n |-> 0]
    <3>1. t \in [1..n -> 0..m] /\ \A k \in 1..n : t[k] = 0
      BY DEF Tallies
    <3>2. QED
      BY <3>1
  <2>3. QED
    BY <2>1, <2>2
<1>2. QED
  BY <1>1, FS_Singleton

\* A tally of one value more is one that ends with nobody, or one in which everyone
\* but one actor is counted on top.
LEMMA TalliesAdd ==
  ASSUME NEW n \in Nat, NEW m \in Nat,
         IsFiniteSet(Tallies(n, m + 1)), IsFiniteSet(Tallies(n + 1, m))
  PROVE  /\ IsFiniteSet(Tallies(n + 1, m + 1))
         /\ Cardinality(Tallies(n + 1, m + 1))
              = Cardinality(Tallies(n, m + 1)) + Cardinality(Tallies(n + 1, m))
<1> DEFINE Ends == {t \in Tallies(n + 1, m + 1) : t[n + 1] = 0}
           Goes == {t \in Tallies(n + 1, m + 1) : t[n + 1] # 0}
<1>0. /\ 1..n \subseteq 1..(n + 1) /\ n + 1 \in 1..(n + 1)
      /\ \A k \in 1..(n + 1) : k \in 1..n \/ k = n + 1
      /\ n + 1 \notin 1..n
      /\ \A k \in 1..n : k <= n + 1 /\ k # n + 1
      /\ \A k \in 1..(n + 1) : k <= n + 1 /\ k \in Nat
  OBVIOUS
<1>1. IsFiniteSet(Ends) /\ Cardinality(Ends) = Cardinality(Tallies(n, m + 1))
  <2> DEFINE longer == [t \in Tallies(n, m + 1) |->
                          [k \in 1..(n + 1) |-> IF k = n + 1 THEN 0 ELSE t[k]]]
  <2>1. ASSUME NEW t \in Tallies(n, m + 1) PROVE longer[t] \in Ends
    <3>1. t \in [1..n -> 0..(m + 1)] /\ \A i, j \in 1..n : i <= j => t[j] <= t[i]
      BY DEF Tallies
    <3>2. /\ longer[t] \in [1..(n + 1) -> 0..(m + 1)]
          /\ longer[t][n + 1] = 0
          /\ \A k \in 1..n : longer[t][k] = t[k]
      BY <1>0, <3>1
    <3>3. \A i, j \in 1..(n + 1) : i <= j => longer[t][j] <= longer[t][i]
      <4> SUFFICES ASSUME NEW i \in 1..(n + 1), NEW j \in 1..(n + 1), i <= j
                   PROVE  longer[t][j] <= longer[t][i]
        OBVIOUS
      <4> HIDE DEF longer
      <4>1. CASE j = n + 1
        <5>1. longer[t][j] = 0 /\ longer[t][i] \in 0..(m + 1)
          BY <3>2, <4>1
        <5>2. QED
          BY <5>1
      <4>2. CASE j # n + 1
        <5>1. i \in 1..n /\ j \in 1..n
          BY <4>2
        <5>2. QED
          BY <3>1, <3>2, <5>1
      <4>3. QED
        BY <4>1, <4>2
    <3>4. QED
      BY <3>2, <3>3 DEF Tallies
  <2>2. ASSUME NEW t \in Tallies(n, m + 1), NEW u \in Tallies(n, m + 1), longer[t] = longer[u]
        PROVE  t = u
    <3>1. t \in [1..n -> 0..(m + 1)] /\ u \in [1..n -> 0..(m + 1)]
      BY DEF Tallies
    <3>2. \A k \in 1..n : longer[t][k] = t[k] /\ longer[u][k] = u[k]
      BY <1>0
    <3>3. \A k \in 1..n : t[k] = u[k]
      BY <2>2, <3>2
    <3>4. QED
      BY <3>1, <3>3
  <2>3. ASSUME NEW t \in Ends PROVE \E u \in Tallies(n, m + 1) : longer[u] = t
    <3> DEFINE u == [k \in 1..n |-> t[k]]
    <3>1. /\ t \in [1..(n + 1) -> 0..(m + 1)] /\ t[n + 1] = 0
          /\ \A i, j \in 1..(n + 1) : i <= j => t[j] <= t[i]
      BY DEF Tallies
    <3>2. u \in Tallies(n, m + 1)
      BY <1>0, <3>1 DEF Tallies
    <3>3. \A k \in 1..(n + 1) : (IF k = n + 1 THEN 0 ELSE u[k]) = t[k]
      BY <1>0, <3>1
    <3>4. longer[u] = [k \in 1..(n + 1) |-> IF k = n + 1 THEN 0 ELSE u[k]]
      BY <3>2
    <3>5. longer[u] = t
      BY <3>1, <3>3, <3>4
    <3>6. QED
      BY <3>2, <3>5
  <2>4. ExistsBijection(Tallies(n, m + 1), Ends)
    <3>1. longer \in [Tallies(n, m + 1) -> Ends]
      BY <2>1
    <3> HIDE DEF longer, Ends
    <3>2. longer \in Bijection(Tallies(n, m + 1), Ends)
      BY <2>2, <2>3, <3>1 DEF Bijection, Injection, Surjection, IsInjective
    <3>3. QED
      BY <3>2 DEF ExistsBijection
  <2> HIDE DEF longer, Ends
  <2>5. QED
    BY <2>4, FS_Bijection
<1>2. IsFiniteSet(Goes) /\ Cardinality(Goes) = Cardinality(Tallies(n + 1, m))
  <2> DEFINE more == [t \in Tallies(n + 1, m) |-> [k \in 1..(n + 1) |-> t[k] + 1]]
  <2>1. ASSUME NEW t \in Tallies(n + 1, m) PROVE more[t] \in Goes
    <3>1. t \in [1..(n + 1) -> 0..m] /\ \A i, j \in 1..(n + 1) : i <= j => t[j] <= t[i]
      BY DEF Tallies
    <3>2. more[t] = [k \in 1..(n + 1) |-> t[k] + 1]
      OBVIOUS
    <3> HIDE DEF more
    <3>3. more[t] \in [1..(n + 1) -> 0..(m + 1)] /\ more[t][n + 1] # 0
      BY <1>0, <3>1, <3>2
    <3>4. \A i, j \in 1..(n + 1) : i <= j => more[t][j] <= more[t][i]
      BY <3>1, <3>2
    <3>5. QED
      BY <3>3, <3>4 DEF Tallies
  <2>2. ASSUME NEW t \in Tallies(n + 1, m), NEW u \in Tallies(n + 1, m), more[t] = more[u]
        PROVE  t = u
    <3>1. t \in [1..(n + 1) -> 0..m] /\ u \in [1..(n + 1) -> 0..m]
      BY DEF Tallies
    <3>2. \A k \in 1..(n + 1) : more[t][k] = t[k] + 1 /\ more[u][k] = u[k] + 1
      OBVIOUS
    <3>3. \A k \in 1..(n + 1) : t[k] = u[k]
      <4> SUFFICES ASSUME NEW k \in 1..(n + 1) PROVE t[k] = u[k]
        OBVIOUS
      <4> HIDE DEF more
      <4>1. t[k] + 1 = u[k] + 1 /\ t[k] \in Int /\ u[k] \in Int
        BY <2>2, <3>1, <3>2
      <4>2. QED
        BY <4>1
    <3>4. QED
      BY <3>1, <3>3
  <2>3. ASSUME NEW t \in Goes PROVE \E u \in Tallies(n + 1, m) : more[u] = t
    <3> DEFINE u == [k \in 1..(n + 1) |-> t[k] - 1]
    <3>1. /\ t \in [1..(n + 1) -> 0..(m + 1)] /\ t[n + 1] # 0
          /\ \A i, j \in 1..(n + 1) : i <= j => t[j] <= t[i]
      BY DEF Tallies
    <3>2. \A k \in 1..(n + 1) : t[k] - 1 \in 0..m
      <4> SUFFICES ASSUME NEW k \in 1..(n + 1) PROVE t[k] - 1 \in 0..m
        OBVIOUS
      <4>1. t[n + 1] <= t[k] /\ t[k] \in 0..(m + 1) /\ t[n + 1] \in 0..(m + 1)
        BY <1>0, <3>1
      <4>2. QED
        BY <3>1, <4>1
    <3>3. \A i, j \in 1..(n + 1) : i <= j => t[j] - 1 <= t[i] - 1
      <4> SUFFICES ASSUME NEW i \in 1..(n + 1), NEW j \in 1..(n + 1), i <= j
                   PROVE  t[j] - 1 <= t[i] - 1
        OBVIOUS
      <4>1. t[j] <= t[i] /\ t[i] \in Int /\ t[j] \in Int
        BY <3>1
      <4>2. QED
        BY <4>1
    <3>4. u \in Tallies(n + 1, m)
      BY <3>2, <3>3 DEF Tallies
    <3>5. \A k \in 1..(n + 1) : (t[k] - 1) + 1 = t[k]
      BY <3>1
    <3>6. more[u] = [k \in 1..(n + 1) |-> (t[k] - 1) + 1]
      BY <3>4
    <3>7. more[u] = t
      BY <3>1, <3>5, <3>6
    <3>8. QED
      BY <3>4, <3>7
  <2>4. ExistsBijection(Tallies(n + 1, m), Goes)
    <3>1. more \in [Tallies(n + 1, m) -> Goes]
      BY <2>1
    <3> HIDE DEF more, Goes
    <3>2. more \in Bijection(Tallies(n + 1, m), Goes)
      BY <2>2, <2>3, <3>1 DEF Bijection, Injection, Surjection, IsInjective
    <3>3. QED
      BY <3>2 DEF ExistsBijection
  <2> HIDE DEF more, Goes
  <2>5. QED
    BY <2>4, FS_Bijection
<1>3. Tallies(n + 1, m + 1) = Ends \cup Goes /\ Ends \cap Goes = {}
  OBVIOUS
<1> HIDE DEF Ends, Goes
<1>4. /\ IsFiniteSet(Ends \cup Goes)
      /\ Cardinality(Ends \cup Goes)
           = Cardinality(Ends) + Cardinality(Goes) - Cardinality(Ends \cap Goes)
  BY <1>1, <1>2, FS_Union
<1>5. Cardinality(Ends \cap Goes) = 0
  BY <1>3, FS_EmptySet
<1>6. Cardinality(Ends) \in Nat /\ Cardinality(Goes) \in Nat
  BY <1>1, <1>2, FS_CardinalityType
<1>7. Cardinality(Ends \cup Goes) = Cardinality(Ends) + Cardinality(Goes)
  BY <1>4, <1>5, <1>6
<1>8. QED
  BY <1>1, <1>2, <1>3, <1>4, <1>7

\* There are as many tallies as ways to choose the actors among values and actors.
LEMMA CountTallies ==
  ASSUME NEW n \in Nat, NEW m \in Nat
  PROVE  /\ IsFiniteSet(Tallies(n, m))
         /\ Cardinality(Tallies(n, m)) * (factorial[m] * factorial[n]) = factorial[n + m]
<1> DEFINE C(i, j) == /\ IsFiniteSet(Tallies(i, j))
                      /\ Cardinality(Tallies(i, j)) * (factorial[j] * factorial[i]) = factorial[i + j]
           Rows == {i \in Nat : \A j \in Nat : C(i, j)}
<1>1. ASSUME NEW i \in Nat, NEW j \in Nat, i = 0 \/ j = 0 PROVE C(i, j)
  <2>1. IsFiniteSet(Tallies(i, j)) /\ Cardinality(Tallies(i, j)) = 1
    BY <1>1, OneTally
  <2>2. factorial[i] \in Nat /\ factorial[j] \in Nat /\ factorial[0] = 1
    BY FactorialDef, FactorialType
  <2>3. CASE i = 0
    BY <2>1, <2>2, <2>3
  <2>4. CASE j = 0
    BY <2>1, <2>2, <2>4
  <2>5. QED
    BY <1>1, <2>3, <2>4
<1>2. ASSUME NEW i \in Nat, NEW j \in Nat, C(i, j + 1), C(i + 1, j) PROVE C(i + 1, j + 1)
  <2> DEFINE p == Cardinality(Tallies(i, j + 1))
             q == Cardinality(Tallies(i + 1, j))
             a == factorial[i]
             b == factorial[j]
             c == factorial[i + j + 1]
  <2>1. /\ IsFiniteSet(Tallies(i + 1, j + 1))
        /\ Cardinality(Tallies(i + 1, j + 1)) = p + q
    BY <1>2, TalliesAdd
  <2>2. p \in Nat /\ q \in Nat /\ a \in Nat /\ b \in Nat /\ c \in Nat
    BY <1>2, FS_CardinalityType, FactorialType
  <2>3. factorial[i + 1] = (i + 1) * a /\ factorial[j + 1] = (j + 1) * b
    BY FactorialDef
  <2>4. i + (j + 1) = i + j + 1 /\ (i + 1) + j = i + j + 1 /\ i + j + 1 \in Nat
        /\ (i + 1) + (j + 1) = (i + j + 1) + 1
    OBVIOUS
  <2>5. factorial[(i + 1) + (j + 1)] = ((i + j + 1) + 1) * c
    BY <2>4, FactorialDef
  <2>6. p * (((j + 1) * b) * a) = c /\ q * (b * ((i + 1) * a)) = c
    BY <1>2, <2>3, <2>4
  <2> HIDE DEF p, q, a, b, c
  <2>7. (p + q) * (((j + 1) * b) * ((i + 1) * a)) = ((i + j + 1) + 1) * c
    <3>1. p * (((j + 1) * b) * ((i + 1) * a)) = (i + 1) * (p * (((j + 1) * b) * a))
      BY <2>2
    <3>2. q * (((j + 1) * b) * ((i + 1) * a)) = (j + 1) * (q * (b * ((i + 1) * a)))
      BY <2>2
    <3>3. (p + q) * (((j + 1) * b) * ((i + 1) * a))
            = p * (((j + 1) * b) * ((i + 1) * a)) + q * (((j + 1) * b) * ((i + 1) * a))
      BY <2>2
    <3>4. (i + 1) * c + (j + 1) * c = ((i + j + 1) + 1) * c
      BY <2>2
    <3>5. QED
      BY <2>6, <3>1, <3>2, <3>3, <3>4
  <2>8. QED
    BY <2>1, <2>3, <2>5, <2>7
<1> HIDE DEF C
<1>3. 0 \in Rows
  BY <1>1
<1>4. ASSUME NEW i \in Nat, i \in Rows PROVE i + 1 \in Rows
  <2> DEFINE Columns == {j \in Nat : C(i + 1, j)}
  <2>1. 0 \in Columns
    BY <1>1
  <2>2. ASSUME NEW j \in Nat, j \in Columns PROVE j + 1 \in Columns
    BY <1>2, <1>4, <2>2
  <2> HIDE DEF Columns
  <2>3. \A j \in Nat : j \in Columns
    BY <2>1, <2>2, NatInd
  <2>4. QED
    BY <2>3 DEF Columns
<1> HIDE DEF Rows
<1>5. \A i \in Nat : i \in Rows
  BY <1>3, <1>4, NatInd
<1>6. C(n, m)
  BY <1>5 DEF Rows
<1>7. QED
  BY <1>6 DEF C

\* So many that the number is the library's binomial coefficient.
LEMMA TalliesChosen ==
  ASSUME NEW n \in Nat, NEW m \in Nat
  PROVE  /\ IsFiniteSet(Tallies(n, m))
         /\ Cardinality(Tallies(n, m)) = choose(n + m, m)
<1> DEFINE t == Cardinality(Tallies(n, m))
           d == factorial[m] * factorial[n]
<1>1. IsFiniteSet(Tallies(n, m)) /\ t * d = factorial[n + m]
  BY CountTallies
<1>2. t \in Nat
  BY <1>1, FS_CardinalityType
<1>3. d \in Nat /\ d > 0
  <2>1. \A i, j \in Nat : i > 0 /\ j > 0 => i * j \in Nat /\ i * j > 0
    OBVIOUS
  <2>2. factorial[n] \in Nat /\ factorial[n] > 0 /\ factorial[m] \in Nat /\ factorial[m] > 0
    BY FactorialType
  <2>3. QED
    BY <2>1, <2>2
<1>4. (n + m) - m = n
  OBVIOUS
<1>5. choose(n + m, m) = (t * d) \div d
  BY <1>1, <1>4 DEF choose
<1> HIDE DEF t, d
<1>6. (t * d) \div d = t
  BY <1>2, <1>3
<1>7. QED
  BY <1>1, <1>5, <1>6 DEF t

-----------------------------------------------------------------------------
(***************************************************************************)
(* How tallies move.                                                        *)
(***************************************************************************)

\* The tally of finitely many actors is one.
LEMMA TallyType ==
  ASSUME NEW R, IsFiniteSet(R), NEW n \in Nat, NEW left \in [R -> 0..n]
  PROVE  Tally(left, n) \in Tallies(n, Cardinality(R))
<1> DEFINE Having(k) == {r \in R : left[r] >= k}
<1>1. \A k : Having(k) \in SUBSET R
  OBVIOUS
<1>2. \A k : IsFiniteSet(Having(k)) /\ Cardinality(Having(k)) \in 0..Cardinality(R)
  <2> HIDE DEF Having
  <2>1. \A k : IsFiniteSet(Having(k)) /\ Cardinality(Having(k)) <= Cardinality(R)
    BY <1>1, FS_Subset
  <2>2. Cardinality(R) \in Nat /\ \A k : Cardinality(Having(k)) \in Nat
    BY <2>1, FS_CardinalityType
  <2>3. QED
    BY <2>1, <2>2
<1>3. Tally(left, n) = [k \in 1..n |-> Cardinality(Having(k))]
  BY DEF Tally
<1>4. \A i, j \in 1..n : i <= j => Cardinality(Having(j)) <= Cardinality(Having(i))
  <2> SUFFICES ASSUME NEW i \in 1..n, NEW j \in 1..n, i <= j
               PROVE  Cardinality(Having(j)) <= Cardinality(Having(i))
    OBVIOUS
  <2>1. Having(j) \in SUBSET Having(i)
    OBVIOUS
  <2> HIDE DEF Having
  <2>2. QED
    BY <1>2, <2>1, FS_Subset
<1> HIDE DEF Having
<1>5. QED
  BY <1>2, <1>3, <1>4 DEF Tallies

\* Where nobody has more left, no value of the tally rises.
LEMMA TallySinks ==
  ASSUME NEW R, IsFiniteSet(R), NEW n \in Nat,
         NEW left \in [R -> 0..n], NEW now \in [R -> 0..n], NEW k \in 1..n,
         \A r \in R : now[r] >= k => now[r] <= left[r]
  PROVE  /\ \A j \in 1..n : j >= k => Tally(now, n)[j] <= Tally(left, n)[j]
         /\ (\E r \in R : left[r] >= k /\ now[r] < k) => Tally(now, n)[k] < Tally(left, n)[k]
<1> DEFINE Having(j) == {r \in R : left[r] >= j}
           Has(j) == {r \in R : now[r] >= j}
<1>1. \A j \in 1..n : j >= k => Has(j) \in SUBSET Having(j)
  OBVIOUS
<1>2. (\E r \in R : left[r] >= k /\ now[r] < k) => Has(k) # Having(k)
  OBVIOUS
<1>3. \A j : Having(j) \in SUBSET R /\ Has(j) \in SUBSET R
  OBVIOUS
<1>4. \A j \in 1..n : /\ Tally(left, n)[j] = Cardinality(Having(j))
                          /\ Tally(now, n)[j] = Cardinality(Has(j))
  BY DEF Tally
<1> HIDE DEF Having, Has
<1>5. \A j : IsFiniteSet(Having(j)) /\ IsFiniteSet(Has(j))
  BY <1>3, FS_Subset
<1>6. \A j : Cardinality(Having(j)) \in Nat /\ Cardinality(Has(j)) \in Nat
  BY <1>5, FS_CardinalityType
<1>7. ASSUME NEW j \in 1..n, j >= k PROVE Cardinality(Has(j)) <= Cardinality(Having(j))
  BY <1>1, <1>5, <1>7, FS_Subset
<1>8. Has(k) # Having(k) => Cardinality(Has(k)) # Cardinality(Having(k))
  BY <1>1, <1>5, FS_Subset
<1>9. QED
  BY <1>2, <1>4, <1>6, <1>7, <1>8

\* No tally is above itself.
LEMMA NotAboveItself ==
  ASSUME NEW n \in Nat, NEW m \in Nat, NEW t \in Tallies(n, m)
  PROVE  ~ Above(t, t)
<1>1. t \in [1..n -> 0..m]
  BY DEF Tallies
<1>2. QED
  BY <1>1 DEF Above

\* What an actor gives up by counting is passed: all it had behind it, and where it was.
LEMMA CountingPasses ==
  ASSUME NEW R, IsFiniteSet(R), NEW n \in Nat,
         NEW left \in [R -> 0..n], NEW now \in [R -> 0..n],
         NEW k \in 1..n, NEW q \in R, left[q] >= k, now[q] < k,
         \A r \in R : now[r] >= k => now[r] <= left[r]
  PROVE  Cardinality(Passed(left, n)) + 1 <= Cardinality(Passed(now, n))
<1> DEFINE m == Cardinality(R)
           t == Tally(left, n)
           u == Tally(now, n)
<1>1. m \in Nat /\ DOMAIN left = R /\ DOMAIN now = R
  BY FS_CardinalityType
<1>2. t \in Tallies(n, m) /\ u \in Tallies(n, m)
  BY TallyType
<1>3. /\ \A j \in 1..n : j >= k => u[j] <= t[j]
      /\ u[k] < t[k]
  BY TallySinks
<1> HIDE DEF m, t, u
<1>4. t \in [1..n -> 0..m] /\ u \in [1..n -> 0..m]
  BY <1>2 DEF Tallies
<1>5. Above(t, u)
  BY <1>3, <1>4 DEF Above
<1>6. ASSUME NEW s \in Tallies(n, m), Above(s, t) PROVE Above(s, u)
  <2>1. \A j \in 1..n : s[j] \in Int /\ t[j] \in Int /\ u[j] \in Int /\ j \in Int
    BY <1>1, <1>4 DEF Tallies
  <2>2. PICK i \in 1..n : s[i] > t[i] /\ \A j \in 1..n : j > i => s[j] >= t[j]
    BY <1>4, <1>6 DEF Above
  <2>3. CASE i >= k
    <3>1. s[i] > u[i]
      BY <1>3, <2>1, <2>2, <2>3
    <3>2. \A j \in 1..n : j > i => s[j] >= t[j] /\ u[j] <= t[j]
      BY <1>3, <2>1, <2>2, <2>3
    <3>3. \A j \in 1..n : j > i => s[j] >= u[j]
      BY <2>1, <3>2
    <3>4. QED
      BY <1>4, <3>1, <3>3 DEF Above
  <2>4. CASE i < k
    <3>1. s[k] > u[k]
      BY <1>3, <2>1, <2>2, <2>4
    <3>2. \A j \in 1..n : j > k => s[j] >= t[j] /\ u[j] <= t[j]
      BY <1>3, <2>1, <2>2, <2>4
    <3>3. \A j \in 1..n : j > k => s[j] >= u[j]
      BY <2>1, <3>2
    <3>4. QED
      BY <1>4, <3>1, <3>3 DEF Above
  <2>5. QED
    BY <2>3, <2>4
<1>7. /\ Passed(left, n) = {s \in Tallies(n, m) : Above(s, t)}
      /\ Passed(now, n) = {s \in Tallies(n, m) : Above(s, u)}
  BY <1>1 DEF Passed, m, t, u
<1>8. IsFiniteSet(Tallies(n, m))
  BY <1>1, TalliesChosen
<1>9. t \notin Passed(left, n)
  BY <1>1, <1>2, <1>7, NotAboveItself
<1>10. Passed(left, n) \cup {t} \in SUBSET Passed(now, n)
  BY <1>2, <1>5, <1>6, <1>7
<1>11. IsFiniteSet(Passed(left, n)) /\ IsFiniteSet(Passed(now, n))
  <2>1. /\ Passed(left, n) \in SUBSET Tallies(n, m)
        /\ Passed(now, n) \in SUBSET Tallies(n, m)
    BY <1>7
  <2>2. QED
    BY <1>8, <2>1, FS_Subset
<1>12. Cardinality(Passed(left, n) \cup {t}) = Cardinality(Passed(left, n)) + 1
  BY <1>9, <1>11, FS_AddElement
<1>13. QED
  BY <1>10, <1>11, <1>12, FS_Subset

\* Where nobody has more left, nothing comes back.
LEMMA PassedStays ==
  ASSUME NEW R, IsFiniteSet(R), NEW n \in Nat,
         NEW left \in [R -> 0..n], NEW now \in [R -> 0..n],
         \A r \in R : now[r] <= left[r]
  PROVE  Cardinality(Passed(left, n)) <= Cardinality(Passed(now, n))
<1> DEFINE m == Cardinality(R)
           t == Tally(left, n)
           u == Tally(now, n)
<1>1. m \in Nat /\ DOMAIN left = R /\ DOMAIN now = R
  BY FS_CardinalityType
<1>2. t \in Tallies(n, m) /\ u \in Tallies(n, m)
  BY TallyType
<1>3. \A j \in 1..n : u[j] <= t[j]
  <2> SUFFICES ASSUME NEW j \in 1..n PROVE u[j] <= t[j]
    OBVIOUS
  <2>1. j >= j
    OBVIOUS
  <2> HIDE DEF t, u
  <2>2. QED
    BY <2>1, TallySinks DEF t, u
<1>4. /\ Passed(left, n) = {s \in Tallies(n, m) : Above(s, t)}
      /\ Passed(now, n) = {s \in Tallies(n, m) : Above(s, u)}
  BY <1>1 DEF Passed
<1> HIDE DEF m, t, u
<1>5. t \in [1..n -> 0..m] /\ u \in [1..n -> 0..m]
  BY <1>2 DEF Tallies
<1>6. ASSUME NEW s \in Tallies(n, m), Above(s, t) PROVE Above(s, u)
  <2>1. s \in [1..n -> 0..m]
    BY DEF Tallies
  <2>2. PICK i \in 1..n : s[i] > t[i] /\ \A j \in 1..n : j > i => s[j] >= t[j]
    BY <1>5, <1>6 DEF Above
  <2>3. s[i] > u[i] /\ \A j \in 1..n : j > i => s[j] >= u[j]
    BY <1>1, <1>3, <1>5, <2>1, <2>2
  <2>4. QED
    BY <1>5, <2>3 DEF Above
<1>7. Passed(left, n) \in SUBSET Passed(now, n)
  BY <1>4, <1>6
<1>8. IsFiniteSet(Passed(now, n))
  <2>1. Passed(now, n) \in SUBSET Tallies(n, m) /\ IsFiniteSet(Tallies(n, m))
    BY <1>1, <1>4, TalliesChosen
  <2>2. QED
    BY <2>1, FS_Subset
<1>9. QED
  BY <1>7, <1>8, FS_Subset

\* What is passed is not everything: where the actors are is not behind them.
LEMMA PassedBounded ==
  ASSUME NEW R, IsFiniteSet(R), NEW n \in Nat, NEW left \in [R -> 0..n]
  PROVE  /\ Cardinality(Passed(left, n)) \in Nat
         /\ choose(n + Cardinality(R), Cardinality(R)) \in Nat
         /\ Cardinality(Passed(left, n)) < choose(n + Cardinality(R), Cardinality(R))
<1> DEFINE m == Cardinality(R)
           t == Tally(left, n)
           All == Tallies(n, m)
<1>1. m \in Nat /\ DOMAIN left = R
  BY FS_CardinalityType
<1>2. t \in All
  BY TallyType
<1>3. IsFiniteSet(All) /\ Cardinality(All) = choose(n + m, m)
  BY <1>1, TalliesChosen
<1>4. Passed(left, n) \in SUBSET All /\ t \notin Passed(left, n)
  <2>1. Passed(left, n) = {s \in All : Above(s, t)}
    BY <1>1 DEF Passed
  <2>2. ~ Above(t, t)
    BY <1>1, <1>2, NotAboveItself
  <2>3. QED
    BY <2>1, <2>2
<1> HIDE DEF m, t, All
<1>5. IsFiniteSet(Passed(left, n)) /\ Cardinality(Passed(left, n)) <= Cardinality(All)
  BY <1>3, <1>4, FS_Subset
<1>6. Cardinality(Passed(left, n)) # Cardinality(All)
  BY <1>2, <1>3, <1>4, FS_Subset
<1>7. Cardinality(Passed(left, n)) \in Nat /\ Cardinality(All) \in Nat
  BY <1>3, <1>5, FS_CardinalityType
<1>8. QED
  BY <1>3, <1>5, <1>6, <1>7 DEF m

-----------------------------------------------------------------------------
(***************************************************************************)
(* Wrong passwords.                                                         *)
(***************************************************************************)

\* A request is at most MaxFailures failures of its own from the lock.
LEMMA RemainingType == \A count \in Nat : Remaining(count) \in 1..MaxFailures
BY SignInAssumption DEF Remaining

LEMMA LeftType ==
  TypeOK => Now \in 0..MaxFailures /\ Left \in [Requests -> 0..MaxFailures]
<1> SUFFICES ASSUME TypeOK
             PROVE  Now \in 0..MaxFailures /\ Left \in [Requests -> 0..MaxFailures]
  OBVIOUS
<1>1. Now \in 0..MaxFailures
  BY RemainingType, SignInAssumption DEF TypeOK, Now
<1>2. ASSUME NEW r \in Requests, request[r].op = "login"
      PROVE  Remaining(request[r].failed) \in 0..MaxFailures
  <2>1. request[r].failed \in Nat
    BY <1>2, RequestFields DEF TypeOK
  <2>2. QED
    BY <2>1, RemainingType
<1>3. QED
  BY <1>1, <1>2 DEF Left

LEMMA LeftTypeNext ==
  TypeOK' => Now' \in 0..MaxFailures /\ Left' \in [Requests -> 0..MaxFailures]
<1>1. (TypeOK => Now \in 0..MaxFailures /\ Left \in [Requests -> 0..MaxFailures])'
  BY LeftType, PTL
<1>2. QED
  BY <1>1

\* A step that forgives, or that lets no request count further than before.
LEMMA GuessesUnchanged ==
  ASSUME TypeOK, TypeOK', GuessesArePassed,
         \/ guesses' = 0
         \/ guesses' = guesses /\ \A x \in Requests : Left'[x] <= Left[x]
  PROVE  GuessesArePassed'
<1>1. Left \in [Requests -> 0..MaxFailures] /\ Left' \in [Requests -> 0..MaxFailures]
  BY LeftType, LeftTypeNext
<1>2. /\ Cardinality(Passed(Left, MaxFailures)) \in Nat
      /\ Cardinality(Passed(Left', MaxFailures)) \in Nat
  BY <1>1, SignInAssumption, PassedBounded
<1>3. CASE guesses' = 0
  BY <1>2, <1>3 DEF GuessesArePassed
<1>4. CASE guesses' = guesses /\ \A x \in Requests : Left'[x] <= Left[x]
  <2>1. Cardinality(Passed(Left, MaxFailures)) <= Cardinality(Passed(Left', MaxFailures))
    BY <1>1, <1>4, SignInAssumption, PassedStays
  <2>2. QED
    BY <1>2, <1>4, <2>1 DEF GuessesArePassed, TypeOK
<1>5. QED
  BY <1>3, <1>4

\* A request that takes no count, or the one in the row, has no more left than before.
LEMMA LeftKept ==
  ASSUME TypeOK, UNCHANGED <<failed, locked>>, NEW r \in Requests, NEW q, Becomes(r, q),
         q.op = "login" => q.failed = failed /\ ~locked
  PROVE  \A x \in Requests : Left'[x] <= Left[x]
<1>1. Now' = Now
  BY DEF Now, Remaining
<1>2. /\ request'[r] = q
      /\ \A x \in Requests : x # r => request'[x] = request[x]
  BY DEF TypeOK, Becomes
<1>3. Left'[r] = Now
  BY <1>1, <1>2 DEF Left, Now, Remaining
<1>4. \A x \in Requests : x # r => Left'[x] = Left[x]
  BY <1>1, <1>2 DEF Left, Remaining
<1>5. Now \in 0..MaxFailures /\ Left \in [Requests -> 0..MaxFailures]
  BY LeftType
<1>6. Left[r] >= Now
  BY <1>5 DEF Left
<1>7. QED
  BY <1>3, <1>4, <1>5, <1>6

\* A wrong password passes a tally.
LEMMA GuessPasses ==
  ASSUME TypeOK, TypeOK', GuessesArePassed, NEW r \in Requests, WrongPassword(r)
  PROVE  GuessesArePassed'
<1> DEFINE count == request[r].failed
           k == Remaining(count)
<1>1. /\ request[r].op = "login" /\ count \in Nat
      /\ locked' = (count + 1 >= MaxFailures) /\ failed' = count + 1 /\ guesses' = guesses + 1
      /\ Becomes(r, Idle)
  BY RequestFields DEF TypeOK, WrongPassword, CountFailure
<1>2. k \in 1..MaxFailures /\ MaxFailures \in Nat
  BY <1>1, RemainingType, SignInAssumption
<1>3. Now' < k
  <2>1. CASE locked'
    <3>1. Now' = 0
      BY <2>1 DEF Now
    <3>2. QED
      BY <1>2, <3>1
  <2>2. CASE ~ locked'
    <3> HIDE DEF count
    <3>1. ~ (count + 1 >= MaxFailures) /\ failed' = count + 1
      BY <1>1, <2>2, Zenon
    <3>2. count + 1 < MaxFailures /\ count < MaxFailures
      BY <1>1, <1>2, <3>1
    <3>3. Now' = Remaining(count + 1)
      BY <2>2, <3>1 DEF Now, Remaining
    <3>4. Now' = MaxFailures - (count + 1) /\ k = MaxFailures - count
      BY <3>2, <3>3 DEF Remaining
    <3>5. QED
      BY <1>1, <1>2, <3>4
  <2>3. QED
    BY <2>1, <2>2
<1>4. /\ request'[r] = Idle
      /\ \A x \in Requests : x # r => request'[x] = request[x]
  BY <1>1 DEF TypeOK, Becomes
<1>5. /\ Left \in [Requests -> 0..MaxFailures] /\ Left' \in [Requests -> 0..MaxFailures]
      /\ Now \in 0..MaxFailures /\ Now' \in 0..MaxFailures
  BY LeftType, LeftTypeNext
<1>6. Left[r] >= k
  BY <1>1, <1>2, <1>5 DEF Left
<1>7. Left'[r] = Now'
  BY <1>4 DEF Left, Idle
<1>8. ASSUME NEW x \in Requests, Left'[x] >= k PROVE Left'[x] <= Left[x]
  <2>1. x # r
    BY <1>2, <1>3, <1>5, <1>7, <1>8
  <2>2. Left'[x] # Now'
    BY <1>2, <1>3, <1>5, <1>8
  <2>3. request[x].op = "login" /\ Left'[x] = Remaining(request[x].failed)
    BY <1>4, <2>1, <2>2 DEF Left, Remaining
  <2>4. Remaining(request[x].failed) \in 0..MaxFailures
    BY <1>5, <2>3
  <2>5. QED
    BY <1>5, <2>3, <2>4 DEF Left
<1> HIDE DEF k, count
<1>9. Cardinality(Passed(Left, MaxFailures)) + 1 <= Cardinality(Passed(Left', MaxFailures))
  BY <1>2, <1>3, <1>5, <1>6, <1>7, <1>8, SignInAssumption, CountingPasses
<1>10. /\ Cardinality(Passed(Left, MaxFailures)) \in Nat
       /\ Cardinality(Passed(Left', MaxFailures)) \in Nat
  BY <1>5, SignInAssumption, PassedBounded
<1>11. QED
  BY <1>1, <1>9, <1>10 DEF GuessesArePassed, TypeOK

\* Every step keeps the guesses below the tallies passed.
LEMMA GuessesKept ==
  ASSUME TypeOK, TypeOK', GuessesArePassed, [Next]_vars
  PROVE  GuessesArePassed'
<1> USE DEF credential
<1>1. ASSUME NEW r \in Requests, WrongPassword(r) PROVE GuessesArePassed'
  BY <1>1, GuessPasses
<1>2. ASSUME NEW r \in Requests,
             SetPassword(r) \/ \E s \in Sessions : RightPassword(r, s)
      PROVE  GuessesArePassed'
  BY <1>2, GuessesUnchanged DEF SetPassword, RightPassword, Pardon
<1>3. CASE LockEnds
  BY <1>3, GuessesUnchanged DEF LockEnds
<1>4. ASSUME NEW r \in Requests,
             \/ ReadCredential(r) \/ RevokeSessions(r) \/ RevokeSession(r) \/ Crash(r)
             \/ \E s \in Sessions : SessionFrom(r, s)
             \/ \E t \in Tokens : TakeToken(r, t)
      PROVE  GuessesArePassed'
  <2>1. UNCHANGED <<failed, locked, guesses>>
    BY <1>4 DEF ReadCredential, RevokeSessions, RevokeSession, Crash, SessionFrom, TakeToken
  <2>2. \A x \in Requests : Left'[x] <= Left[x]
    <3>1. CASE ReadCredential(r)
      <4> DEFINE q == [op |-> "login", failed |-> failed, password |-> generation]
      <4>1. Becomes(r, q) /\ q.failed = failed /\ ~locked
        BY <3>1 DEF ReadCredential
      <4>2. QED
        BY <2>1, <4>1, LeftKept
    <3>2. CASE RevokeSessions(r) \/ RevokeSession(r) \/ Crash(r)
      <4>1. Becomes(r, Idle) /\ Idle.op # "login"
        BY <3>2 DEF RevokeSessions, RevokeSession, Crash, Idle
      <4>2. QED
        BY <2>1, <4>1, LeftKept
    <3>3. CASE \E s \in Sessions : SessionFrom(r, s)
      <4>1. PICK s \in Sessions : Becomes(r, [op |-> "logout", id |-> s])
        BY <3>3 DEF SessionFrom
      <4>2. QED
        BY <2>1, <4>1, LeftKept
    <3>4. CASE \E t \in Tokens : TakeToken(r, t)
      <4>1. Becomes(r, [op |-> "reset"])
        BY <3>4 DEF TakeToken
      <4>2. QED
        BY <2>1, <4>1, LeftKept
    <3>5. QED
      BY <1>4, <3>1, <3>2, <3>3, <3>4
  <2>3. QED
    BY <2>1, <2>2, GuessesUnchanged
<1>5. CASE UNCHANGED <<failed, locked, request, guesses>>
  <2>1. Left' = Left
    BY <1>5 DEF Left, Now, Remaining
  <2>2. QED
    BY <1>5, <2>1 DEF GuessesArePassed
<1>6. QED
  BY <1>1, <1>2, <1>3, <1>4, <1>5 DEF Next, SessionExpires, TokenSet, TokenExpires, vars

\* With R requests at a time at most C(MaxFailures + R, R) - 1 wrong passwords are
\* looked at between two pardons, whatever is read late, lost or reset (login).
THEOREM GuessesBounded == Spec => []GuessesAreBounded
<1>1. Init => GuessesArePassed
  <2> SUFFICES ASSUME Init PROVE GuessesArePassed
    OBVIOUS
  <2>1. TypeOK
    BY InitTypeOK
  <2>2. Cardinality(Passed(Left, MaxFailures)) \in Nat
    BY <2>1, LeftType, SignInAssumption, PassedBounded
  <2>3. QED
    BY <2>2 DEF Init, GuessesArePassed
<1>2. TypeOK /\ GuessesArePassed /\ [Next]_vars => GuessesArePassed'
  BY GuessesKept, NextTypeOK
<1>3. TypeOK /\ GuessesArePassed => GuessesAreBounded
  <2> SUFFICES ASSUME TypeOK, GuessesArePassed PROVE GuessesAreBounded
    OBVIOUS
  <2> DEFINE atOnce == Cardinality(Requests)
             passed == Cardinality(Passed(Left, MaxFailures))
             bound == choose(MaxFailures + atOnce, atOnce)
  <2>1. passed \in Nat /\ passed < bound /\ bound \in Int
    BY LeftType, SignInAssumption, PassedBounded
  <2>2. guesses \in Nat /\ guesses <= passed
    BY DEF GuessesArePassed, TypeOK
  <2> HIDE DEF passed, bound
  <2>3. guesses < bound
    BY <2>1, <2>2
  <2>4. QED
    BY <2>3 DEF GuessesAreBounded, bound
<1>4. QED
  BY <1>1, <1>2, <1>3, TypeCorrect, PTL DEF Spec

\* One of n + 1 can be chosen in as many ways.
LEMMA ChooseOne == \A n \in Nat : choose(n + 1, 1) = n + 1
<1> SUFFICES ASSUME NEW n \in Nat PROVE choose(n + 1, 1) = n + 1
  OBVIOUS
<1> DEFINE d == factorial[n]
<1>1. d \in Nat /\ d > 0
  BY FactorialType
<1>2. factorial[1] = 1
  <2>1. factorial[0 + 1] = (0 + 1) * factorial[0]
    BY FactorialDef
  <2>2. QED
    BY <2>1, FactorialDef
<1>3. (n + 1) - 1 = n /\ 1 * d = d
  BY <1>1
<1>4. choose(n + 1, 1) = ((n + 1) * d) \div d
  BY <1>2, <1>3, FactorialDef DEF choose
<1> HIDE DEF d
<1>5. ((n + 1) * d) \div d = n + 1
  BY <1>1
<1>6. QED
  BY <1>4, <1>5

\* Requests that come one at a time get no more guesses than the limit says (login).
THEOREM GuessesOfOne ==
  ASSUME Cardinality(Requests) = 1 PROVE Spec => [](guesses <= MaxFailures)
<1>1. TypeOK /\ GuessesAreBounded => guesses <= MaxFailures
  <2>1. MaxFailures \in Nat /\ choose(MaxFailures + 1, 1) = MaxFailures + 1
    BY SignInAssumption, ChooseOne
  <2>2. QED
    BY <2>1 DEF TypeOK, GuessesAreBounded
<1>2. QED
  BY <1>1, TypeCorrect, GuessesBounded, PTL

-----------------------------------------------------------------------------
(***************************************************************************)
(* Requests that do not overlap.                                            *)
(***************************************************************************)

\* Every step of requests that do not overlap keeps logins current and ends the
\* sessions of replaced passwords.
LEMMA NextAlone ==
  ASSUME OneAtATime, TypeOK, AloneInv, [Next]_vars
  PROVE  AloneInv'
<1> USE DEF credential
<1>0. /\ session \in [Sessions -> Row] /\ request \in [Requests -> RequestState]
      /\ generation \in Nat /\ revoked \in Nat /\ revoked <= generation
      /\ \A s \in Sessions : session[s].password \in Nat
  BY DEF TypeOK, AloneInv, Row
<1>1. ASSUME UNCHANGED <<generation, revoked>>,
             \A s \in Sessions : session'[s].status = "LIVE" => session'[s] = session[s],
             \A r \in Requests : request'[r].op = "login" =>
               request'[r].password = generation \/ request'[r] = request[r]
      PROVE  AloneInv'
  BY <1>1 DEF AloneInv, NoOldSession, Live
<1>2. ASSUME NEW r \in Requests, Becomes(r, Idle)
      PROVE  \A q \in Requests : request'[q].op # "login"
  BY <1>0, <1>2 DEF Becomes, OneAtATime, Idle
<1>3. ASSUME NEW r \in Requests, ReadCredential(r) PROVE AloneInv'
  <2>1. request'[r].password = generation /\ \A q \in Requests : q = r
    BY <1>0, <1>3 DEF ReadCredential, Becomes, OneAtATime
  <2>2. UNCHANGED <<generation, revoked, session>>
    BY <1>3 DEF ReadCredential
  <2>3. QED
    BY <1>1, <2>1, <2>2
<1>4. ASSUME NEW r \in Requests, NEW s \in Sessions, RightPassword(r, s) PROVE AloneInv'
  <2>1. request[r].password = generation
    BY <1>4 DEF RightPassword, AloneInv
  <2>2. /\ session'[s].password = generation
        /\ \A x \in Sessions : x # s => session'[x] = session[x]
        /\ UNCHANGED <<generation, revoked>>
    BY <1>0, <1>4, <2>1 DEF RightPassword, Insert
  <2>3. NoOldSession'
    BY <1>0, <2>2 DEF AloneInv, NoOldSession, Live
  <2>4. \A q \in Requests : request'[q].op # "login"
    BY <1>2, <1>4 DEF RightPassword
  <2>5. QED
    BY <1>0, <2>2, <2>3, <2>4 DEF AloneInv
<1>5. ASSUME NEW r \in Requests, SetPassword(r) PROVE AloneInv'
  <2>1. \A q \in Requests : request'[q].op # "login"
    BY <1>0, <1>5 DEF SetPassword, Becomes, OneAtATime
  <2>2. generation' = generation + 1 /\ UNCHANGED <<session, revoked>>
    BY <1>5 DEF SetPassword
  <2>3. QED
    BY <1>0, <2>1, <2>2 DEF AloneInv, NoOldSession, Live
<1>6. ASSUME NEW r \in Requests, RevokeSessions(r) PROVE AloneInv'
  <2>1. \A s \in Sessions : session'[s].status # "LIVE"
    BY <1>0, <1>6 DEF RevokeSessions, Live, Row
  <2>2. revoked' = generation /\ generation' = generation
    BY <1>6 DEF RevokeSessions
  <2>3. \A q \in Requests : request'[q].op # "login"
    BY <1>2, <1>6 DEF RevokeSessions
  <2>4. QED
    BY <1>0, <2>1, <2>2, <2>3 DEF AloneInv, NoOldSession, Live
<1>7. ASSUME NEW r \in Requests, WrongPassword(r) \/ RevokeSession(r) \/ Crash(r)
      PROVE  AloneInv'
  <2>1. \A q \in Requests : request'[q].op # "login"
    BY <1>2, <1>7 DEF WrongPassword, CountFailure, RevokeSession, Crash
  <2>2. /\ UNCHANGED <<generation, revoked>>
        /\ \A s \in Sessions : session'[s].status = "LIVE" => session'[s] = session[s]
    BY <1>0, <1>7 DEF WrongPassword, CountFailure, RevokeSession, Crash, Row
  <2>3. QED
    BY <1>1, <2>1, <2>2
<1>8. ASSUME NEW r \in Requests,
             (\E s \in Sessions : SessionFrom(r, s)) \/ (\E t \in Tokens : TakeToken(r, t))
      PROVE  AloneInv'
  <2>1. \A q \in Requests : request'[q].op # "login"
    BY <1>0, <1>8 DEF SessionFrom, TakeToken, Becomes, OneAtATime
  <2>2. UNCHANGED <<generation, revoked, session>>
    BY <1>8 DEF SessionFrom, TakeToken
  <2>3. QED
    BY <1>1, <2>1, <2>2
<1>9. ASSUME NEW s \in Sessions, SessionExpires(s) PROVE AloneInv'
  <2>1. \A x \in Sessions : session'[x].status = "LIVE" => session'[x] = session[x]
    BY <1>0, <1>9 DEF SessionExpires, Row
  <2>2. QED
    BY <1>1, <1>9, <2>1 DEF SessionExpires
<1>10. CASE UNCHANGED <<generation, revoked, session, request>>
  BY <1>1, <1>10
<1>11. QED
  BY <1>3, <1>4, <1>5, <1>6, <1>7, <1>8, <1>9, <1>10
     DEF Next, LockEnds, TokenSet, TokenExpires, vars

\* A session with a replaced password is a race: where requests do not overlap, none
\* is live once the sessions of that password were revoked, and no later login, reset
\* or crash brings one back (login, resetPassword).
THEOREM NoOldSessionAlone == ASSUME OneAtATime PROVE Spec => []NoOldSession
<1>1. Init => AloneInv
  <2> SUFFICES ASSUME Init PROVE AloneInv
    OBVIOUS
  <2>1. \A r \in Requests : request[r].op = "none"
    BY DEF Init, Idle
  <2>2. QED
    BY <2>1 DEF Init, AloneInv, NoOldSession, NoRow
<1>2. TypeOK /\ AloneInv /\ [Next]_vars => AloneInv'
  BY NextAlone
<1>3. AloneInv => NoOldSession
  BY DEF AloneInv
<1>4. QED
  BY <1>1, <1>2, <1>3, TypeCorrect, PTL DEF Spec

-----------------------------------------------------------------------------
(***************************************************************************)
(* HostedAccounts: type correctness.                                        *)
(***************************************************************************)

\* What a request of the hosted stack holds tells from its operation.
LEMMA HostedFields ==
  ASSUME NEW q \in Hosted!RequestState
  PROVE  /\ q.op = "limit" => q.action \in Hosted!Action /\ q.row \in Hosted!LimitRow
         /\ q.op = "password" => q.failed \in Nat
<1>1. CASE q = Hosted!Idle
  BY <1>1 DEF Hosted!Idle
<1>2. CASE q \in [op : {"limit"}, action : Hosted!Action, row : Hosted!LimitRow]
  BY <1>2
<1>3. CASE q \in [op : Hosted!Action \cup {"create", "open", "revoke"}]
  BY <1>3 DEF Hosted!Action
<1>4. CASE q \in [op : {"password"}, failed : Nat]
  BY <1>4
<1>5. QED
  BY <1>1, <1>2, <1>3, <1>4 DEF Hosted!RequestState

\* The states of a request that hold nothing, and the rows the limiter writes.
LEMMA HostedStates ==
  /\ Hosted!Idle \in Hosted!RequestState
  /\ \A op \in Hosted!Action \cup {"create", "open", "revoke"} :
       [op |-> op] \in Hosted!RequestState
  /\ Hosted!NoRow \in Hosted!LimitRow /\ Hosted!FirstRow \in Hosted!LimitRow
BY DEF Hosted!RequestState, Hosted!NoRow, Hosted!FirstRow, Hosted!LimitRow

\* The initial state is well typed.
LEMMA HostedInitTypeOK == Hosted!Init => Hosted!TypeOK
<1> SUFFICES ASSUME Hosted!Init PROVE Hosted!TypeOK
  OBVIOUS
<1>1. /\ registered \in BOOLEAN /\ failed \in Nat /\ locked \in BOOLEAN
      /\ session \in [Sessions -> {"NONE", "LIVE", "ENDED"}]
      /\ admitted \in [Hosted!Action -> Nat]
  BY DEF Hosted!Init
<1>2. /\ limit \in [Hosted!Action -> Hosted!LimitRow]
      /\ request \in [Requests -> Hosted!RequestState]
  BY HostedStates DEF Hosted!Init
<1>3. QED
  BY <1>1, <1>2 DEF Hosted!TypeOK

\* A step of the limiter keeps the types.
LEMMA LimiterTypeOK ==
  ASSUME Hosted!TypeOK, NEW r \in Requests,
         \/ Hosted!StartRow(r) \/ Hosted!StartWindow(r) \/ Hosted!CountAttempt(r)
         \/ \E a \in Hosted!Action : Hosted!ReadLimit(r, a)
  PROVE  Hosted!TypeOK'
<1> USE DEF Hosted!account
<1>1. /\ registered' \in BOOLEAN /\ failed' \in Nat /\ locked' \in BOOLEAN
      /\ session' \in [Sessions -> {"NONE", "LIVE", "ENDED"}]
  BY DEF Hosted!TypeOK, Hosted!StartRow, Hosted!StartWindow, Hosted!CountAttempt,
         Hosted!Counted, Hosted!ReadLimit
<1>2. CASE \E a \in Hosted!Action : Hosted!ReadLimit(r, a)
  <2>1. PICK a \in Hosted!Action : Hosted!ReadLimit(r, a)
    BY <1>2
  <2>2. [op |-> "limit", action |-> a, row |-> limit[a]] \in Hosted!RequestState
    BY DEF Hosted!TypeOK, Hosted!RequestState
  <2>3. request' \in [Requests -> Hosted!RequestState] /\ UNCHANGED <<limit, admitted>>
    BY <2>1, <2>2 DEF Hosted!TypeOK, Hosted!ReadLimit, Hosted!Becomes
  <2>4. QED
    BY <1>1, <2>3 DEF Hosted!TypeOK
<1>3. CASE Hosted!StartRow(r) \/ Hosted!StartWindow(r) \/ Hosted!CountAttempt(r)
  <2> DEFINE a == request[r].action
             row == request[r].row
             counted == [attempts |-> row.attempts + 1, over |-> limit[a].over,
                         blocked |-> row.attempts + 1 > Hosted!Limit(a)]
  <2>1. a \in Hosted!Action /\ row \in Hosted!LimitRow
    BY <1>3, HostedFields
    DEF Hosted!TypeOK, Hosted!StartRow, Hosted!StartWindow, Hosted!CountAttempt,
        Hosted!Counted
  <2>2. counted \in Hosted!LimitRow
    BY <2>1 DEF Hosted!TypeOK, Hosted!LimitRow
  <2>3. \/ UNCHANGED limit
        \/ limit' = [limit EXCEPT ![a] = Hosted!FirstRow]
        \/ limit' = [limit EXCEPT ![a] = counted]
    BY <1>3 DEF Hosted!StartRow, Hosted!StartWindow, Hosted!CountAttempt, Hosted!Counted
  <2>4. Hosted!Refuse(r) \/ Hosted!Admit(r, a)
    BY <1>3 DEF Hosted!StartRow, Hosted!StartWindow, Hosted!CountAttempt, Hosted!Counted
  <2> HIDE DEF a, row, counted
  <2>5. limit' \in [Hosted!Action -> Hosted!LimitRow]
    BY <2>1, <2>2, <2>3, HostedStates DEF Hosted!TypeOK
  <2>6. [op |-> a] \in Hosted!RequestState /\ Hosted!Idle \in Hosted!RequestState
    BY <2>1, HostedStates
  <2>7. /\ admitted' \in [Hosted!Action -> Nat]
        /\ request' \in [Requests -> Hosted!RequestState]
    BY <2>1, <2>4, <2>6 DEF Hosted!TypeOK, Hosted!Refuse, Hosted!Admit, Hosted!Becomes
  <2>8. QED
    BY <1>1, <2>5, <2>7 DEF Hosted!TypeOK
<1>4. QED
  BY <1>2, <1>3

\* A step of the other handlers, and of time, keeps the types.
LEMMA HandlersTypeOK ==
  ASSUME Hosted!TypeOK, NEW r \in Requests,
         \/ Hosted!ReadUsers(r) \/ Hosted!CreateAccount(r)
         \/ Hosted!ReadCredential(r) \/ Hosted!WrongPassword(r) \/ Hosted!RightPassword(r)
         \/ Hosted!ReadTestUser(r) \/ Hosted!ReadIdentity(r) \/ Hosted!RevokeAll(r)
         \/ Hosted!Crash(r) \/ \E s \in Sessions : Hosted!OpenSession(r, s)
  PROVE  /\ Hosted!TypeOK'
         /\ UNCHANGED <<limit, admitted>>
         /\ \E q : Hosted!Becomes(r, q) /\ q.op # "limit"
<1> USE DEF Hosted!account
<1>1. UNCHANGED <<limit, admitted>>
  BY DEF Hosted!ReadUsers, Hosted!CreateAccount, Hosted!ReadCredential, Hosted!WrongPassword,
         Hosted!RightPassword, Hosted!ReadTestUser, Hosted!ReadIdentity, Hosted!RevokeAll,
         Hosted!Crash, Hosted!OpenSession
<1>2. \E q \in Hosted!RequestState : Hosted!Becomes(r, q) /\ q.op # "limit"
  <2> DEFINE Goes(q) == Hosted!Becomes(r, q)
  <2>1. CASE Hosted!ReadUsers(r) \/ Hosted!CreateAccount(r) \/ Hosted!RevokeAll(r)
             \/ Hosted!Crash(r) \/ Hosted!ReadTestUser(r) \/ Hosted!ReadIdentity(r)
             \/ Hosted!WrongPassword(r) \/ Hosted!RightPassword(r)
             \/ \E s \in Sessions : Hosted!OpenSession(r, s)
    <3>1. \/ Goes(Hosted!Idle) \/ Goes([op |-> "create"])
          \/ Goes([op |-> "open"]) \/ Goes([op |-> "revoke"])
      BY <2>1 DEF Hosted!ReadUsers, Hosted!CreateAccount, Hosted!WrongPassword,
         Hosted!RightPassword, Hosted!ReadTestUser, Hosted!ReadIdentity, Hosted!RevokeAll,
         Hosted!Crash, Hosted!OpenSession
    <3>2. QED
      BY <3>1, HostedStates DEF Hosted!Idle
  <2>2. CASE Hosted!ReadCredential(r)
    <3>1. Goes([op |-> "password", failed |-> failed]) \/ Goes(Hosted!Idle)
      BY <2>2 DEF Hosted!ReadCredential
    <3>2. [op |-> "password", failed |-> failed] \in Hosted!RequestState
      BY DEF Hosted!TypeOK, Hosted!RequestState
    <3>3. QED
      BY <3>1, <3>2, HostedStates DEF Hosted!Idle
  <2>3. QED
    BY <2>1, <2>2
<1>3. request' \in [Requests -> Hosted!RequestState]
  BY <1>2 DEF Hosted!TypeOK, Hosted!Becomes
<1>4. registered' \in BOOLEAN /\ failed' \in Nat /\ locked' \in BOOLEAN
  <2>1. CASE Hosted!WrongPassword(r)
    <3>1. request[r].failed \in Nat
      BY <2>1, HostedFields DEF Hosted!TypeOK, Hosted!WrongPassword
    <3>2. failed' \in Nat
      BY <2>1, <3>1 DEF Hosted!WrongPassword
    <3>3. locked' \in BOOLEAN /\ UNCHANGED registered
      BY <2>1 DEF Hosted!WrongPassword
    <3>4. QED
      BY <3>2, <3>3 DEF Hosted!TypeOK
  <2>2. CASE ~ Hosted!WrongPassword(r)
    <3>1. /\ UNCHANGED registered \/ registered' = TRUE
          /\ UNCHANGED failed \/ failed' = 0
          /\ UNCHANGED locked \/ locked' = FALSE
      BY <2>2
      DEF Hosted!ReadUsers, Hosted!CreateAccount, Hosted!ReadCredential,
          Hosted!RightPassword, Hosted!ReadTestUser, Hosted!ReadIdentity,
          Hosted!RevokeAll, Hosted!Crash, Hosted!OpenSession
    <3>2. registered \in BOOLEAN /\ failed \in Nat /\ locked \in BOOLEAN
      BY DEF Hosted!TypeOK
    <3>3. failed' \in Nat
      BY <3>1, <3>2
    <3>4. registered' \in BOOLEAN /\ locked' \in BOOLEAN
      BY <3>1, <3>2, Zenon
    <3>5. QED
      BY <3>3, <3>4
  <2>3. QED
    BY <2>1, <2>2
<1>5. session' \in [Sessions -> {"NONE", "LIVE", "ENDED"}]
  BY DEF Hosted!TypeOK, Hosted!ReadUsers, Hosted!CreateAccount, Hosted!ReadCredential,
         Hosted!WrongPassword, Hosted!RightPassword, Hosted!ReadTestUser,
         Hosted!ReadIdentity, Hosted!RevokeAll, Hosted!Crash, Hosted!OpenSession
<1>6. QED
  BY <1>1, <1>2, <1>3, <1>4, <1>5 DEF Hosted!TypeOK

\* A step that is no request's keeps the types.
LEMMA TimeTypeOK ==
  ASSUME Hosted!TypeOK,
         \/ Hosted!LockEnds
         \/ \E a \in Hosted!Action : Hosted!WindowEnds(a) \/ Hosted!BlockEnds(a)
         \/ \E s \in Sessions : Hosted!Logout(s) \/ Hosted!SessionExpires(s)
         \/ UNCHANGED Hosted!vars
  PROVE  Hosted!TypeOK'
<1> USE DEF Hosted!account
<1>1. CASE Hosted!LockEnds
  <2>1. locked' \in BOOLEAN /\ UNCHANGED <<registered, failed, session, limit, request, admitted>>
    BY <1>1 DEF Hosted!LockEnds
  <2>2. QED
    BY <2>1 DEF Hosted!TypeOK
<1>2. ASSUME NEW a \in Hosted!Action, Hosted!WindowEnds(a) \/ Hosted!BlockEnds(a)
      PROVE  Hosted!TypeOK'
  <2>1. \A row \in Hosted!LimitRow : /\ [row EXCEPT !.over = TRUE] \in Hosted!LimitRow
                                     /\ [row EXCEPT !.blocked = FALSE] \in Hosted!LimitRow
    BY DEF Hosted!LimitRow
  <2>2. PICK row \in Hosted!LimitRow : limit' = [limit EXCEPT ![a] = row]
    BY <1>2, <2>1 DEF Hosted!TypeOK, Hosted!WindowEnds, Hosted!BlockEnds
  <2>3. /\ admitted' \in [Hosted!Action -> Nat]
        /\ UNCHANGED <<registered, failed, locked, session, request>>
    BY <1>2 DEF Hosted!TypeOK, Hosted!WindowEnds, Hosted!BlockEnds
  <2>4. QED
    BY <2>2, <2>3 DEF Hosted!TypeOK
<1>3. ASSUME NEW s \in Sessions, Hosted!Logout(s) \/ Hosted!SessionExpires(s)
      PROVE  Hosted!TypeOK'
  BY <1>3 DEF Hosted!TypeOK, Hosted!Logout, Hosted!SessionExpires
<1>4. CASE UNCHANGED Hosted!vars
  BY <1>4 DEF Hosted!TypeOK, Hosted!vars
<1>5. QED
  BY <1>1, <1>2, <1>3, <1>4

\* Every step keeps the types.
LEMMA HostedNextTypeOK == Hosted!TypeOK /\ [Hosted!Next]_(Hosted!vars) => Hosted!TypeOK'
BY LimiterTypeOK, HandlersTypeOK, TimeTypeOK DEF Hosted!Next

\* The hosted account, its limiter's rows and the requests in flight keep their types.
THEOREM HostedTypeCorrect == Hosted!Spec => []Hosted!TypeOK
BY HostedInitTypeOK, HostedNextTypeOK, PTL DEF Hosted!Spec

-----------------------------------------------------------------------------
(***************************************************************************)
(* HostedAccounts: what the limiter lets through.                           *)
(***************************************************************************)

\* The operators of the instance are those of the modules it extends.
LEMMA SameFiniteness == \A S : Hosted!IsFiniteSet(S) <=> IsFiniteSet(S)
BY DEF Hosted!IsFiniteSet, IsFiniteSet

LEMMA SameCardinality == \A S : Hosted!Cardinality(S) = Cardinality(S)
BY DEF Hosted!Cardinality, Cardinality, Hosted!IsFiniteSet, IsFiniteSet

LEMMA SameChoose == \A n, m : Hosted!choose(n, m) = choose(n, m)
BY DEF Hosted!choose, choose, Hosted!factorial, factorial

LEMMA SamePassed ==
  ASSUME NEW left, NEW n PROVE Hosted!Passed(left, n) = Passed(left, n)
BY SameCardinality
DEF Hosted!Passed, Passed, Hosted!Tallies, Tallies, Hosted!Tally, Tally, Hosted!Above, Above

LEMMA PassingIs ==
  \A a : Hosted!Passing(a) <=>
    IF limit[a].over
    THEN admitted[a] + Cardinality(Hosted!Late(a)) <= Cardinality(Requests)
    ELSE admitted[a] <= Cardinality(Requests)
                          + Cardinality(Passed(Hosted!Left(a), Hosted!Limit(a)))
BY SameCardinality, SamePassed DEF Hosted!Passing

LEMMA PassingIsNext ==
  \A a : Hosted!Passing(a)' <=>
    IF limit'[a].over
    THEN admitted'[a] + Cardinality(Hosted!Late(a)') <= Cardinality(Requests)
    ELSE admitted'[a] <= Cardinality(Requests)
                           + Cardinality(Passed(Hosted!Left(a)', Hosted!Limit(a)))
BY SameCardinality, SamePassed DEF Hosted!Passing, Hosted!Limit

\* A request is at most the limit's counts of its own from it.
LEMMA LimitType ==
  ASSUME Hosted!AccountsAssumption, NEW a \in Hosted!Action
  PROVE  /\ Hosted!Limit(a) \in Nat \ {0}
         /\ \A row \in Hosted!LimitRow : Hosted!Remaining(a, row) \in 0..Hosted!Limit(a)
BY DEF Hosted!AccountsAssumption, Hosted!Limit, Hosted!LimitRow, Hosted!Remaining

\* A row read is a row.
LEMMA ReadingRow ==
  ASSUME Hosted!TypeOK, NEW a, NEW r \in Hosted!Reading(a)
  PROVE  r \in Requests /\ request[r].row \in Hosted!LimitRow
BY HostedFields DEF Hosted!TypeOK, Hosted!Reading

LEMMA HostedLeftType ==
  ASSUME Hosted!AccountsAssumption
  PROVE  Hosted!TypeOK => \A a \in Hosted!Action :
           /\ Hosted!Left(a) \in [Requests -> 0..Hosted!Limit(a)]
           /\ Hosted!Remaining(a, limit[a]) \in 0..Hosted!Limit(a)
<1> SUFFICES ASSUME Hosted!TypeOK, NEW a \in Hosted!Action
             PROVE  /\ Hosted!Left(a) \in [Requests -> 0..Hosted!Limit(a)]
                    /\ Hosted!Remaining(a, limit[a]) \in 0..Hosted!Limit(a)
  OBVIOUS
<1>1. Hosted!Remaining(a, limit[a]) \in 0..Hosted!Limit(a)
  BY LimitType DEF Hosted!TypeOK
<1>2. \A r \in Hosted!Reading(a) :
        Hosted!Remaining(a, request[r].row) \in 0..Hosted!Limit(a)
  BY LimitType, ReadingRow
<1>3. QED
  BY <1>1, <1>2 DEF Hosted!Left

LEMMA HostedLeftTypeNext ==
  ASSUME Hosted!AccountsAssumption
  PROVE  Hosted!TypeOK' => \A a \in Hosted!Action :
           /\ Hosted!Left(a)' \in [Requests -> 0..Hosted!Limit(a)]
           /\ Hosted!Remaining(a, limit'[a]) \in 0..Hosted!Limit(a)
<1> DEFINE Typed == \A a \in Hosted!Action :
             /\ Hosted!Left(a) \in [Requests -> 0..Hosted!Limit(a)]
             /\ Hosted!Remaining(a, limit[a]) \in 0..Hosted!Limit(a)
<1>1. Hosted!TypeOK => Typed
  BY HostedLeftType
<1> HIDE DEF Typed
<1>2. (Hosted!TypeOK => Typed)'
  BY <1>1, PTL
<1>3. QED
  BY <1>2 DEF Typed, Hosted!Remaining, Hosted!Limit, Hosted!Action

\* Some requests are finitely many, and no more than all.
LEMMA SomeRequests ==
  ASSUME Hosted!AccountsAssumption, NEW S \in SUBSET Requests
  PROVE  /\ IsFiniteSet(S) /\ Cardinality(S) \in Nat
         /\ Cardinality(Requests) \in Nat /\ Cardinality(S) <= Cardinality(Requests)
BY FS_Subset, FS_CardinalityType, SameFiniteness DEF Hosted!AccountsAssumption

\* A step that lets nobody through keeps what was let through below the tallies
\* passed: the row has no more left than before, and a request reads it or stays.
LEMMA NobodyAdmitted ==
  ASSUME Hosted!AccountsAssumption, Hosted!TypeOK, Hosted!TypeOK',
         NEW a \in Hosted!Action, Hosted!Passing(a),
         limit'[a].over = limit[a].over,
         Hosted!Remaining(a, limit'[a]) <= Hosted!Remaining(a, limit[a]),
         admitted'[a] = admitted[a],
         \A x \in Requests :
           \/ request'[x] = request[x]
           \/ request'[x].op = "limit" /\ request'[x].action = a =>
                request'[x].row = limit[a]
  PROVE  Hosted!Passing(a)'
<1>1. /\ Hosted!Left(a) \in [Requests -> 0..Hosted!Limit(a)]
      /\ Hosted!Left(a)' \in [Requests -> 0..Hosted!Limit(a)]
      /\ Hosted!Limit(a) \in Nat /\ IsFiniteSet(Requests)
  BY HostedLeftType, HostedLeftTypeNext, LimitType, SameFiniteness
  DEF Hosted!AccountsAssumption
<1>2. admitted[a] \in Nat /\ admitted'[a] \in Nat
  BY DEF Hosted!TypeOK
<1>3. CASE limit[a].over
  <2>1. Hosted!Late(a)' \in SUBSET Hosted!Late(a) /\ Hosted!Late(a) \in SUBSET Requests
    BY <1>3 DEF Hosted!Late, Hosted!Reading
  <2>2. /\ Cardinality(Hosted!Late(a)') <= Cardinality(Hosted!Late(a))
        /\ Cardinality(Hosted!Late(a)') \in Nat /\ Cardinality(Hosted!Late(a)) \in Nat
        /\ Cardinality(Requests) \in Nat
    BY <2>1, SomeRequests, FS_Subset
  <2>3. QED
    <3>1. admitted[a] + Cardinality(Hosted!Late(a)) <= Cardinality(Requests)
      BY <1>3, PassingIs
    <3>2. admitted'[a] + Cardinality(Hosted!Late(a)') <= Cardinality(Requests)
      BY <1>2, <2>2, <3>1
    <3>3. QED
      BY <1>3, <3>2, PassingIsNext
<1>4. CASE ~ limit[a].over
  <2>1. ASSUME NEW x \in Requests PROVE (Hosted!Left(a)')[x] <= Hosted!Left(a)[x]
    <3> DEFINE rest == Hosted!Remaining(a, limit[a])
    <3>1. /\ rest \in 0..Hosted!Limit(a)
          /\ Hosted!Remaining(a, limit'[a]) \in 0..Hosted!Limit(a)
          /\ \A r \in Hosted!Reading(a) :
               Hosted!Remaining(a, request[r].row) \in 0..Hosted!Limit(a)
      BY LimitType, ReadingRow, HostedLeftType, HostedLeftTypeNext
    <3>2. /\ Hosted!Left(a)[x] >= rest
          /\ x \in Hosted!Reading(a) =>
               Hosted!Left(a)[x] >= Hosted!Remaining(a, request[x].row)
      BY <3>1 DEF Hosted!Left
    <3>3. \/ (Hosted!Left(a)')[x] = Hosted!Remaining(a, limit'[a])
          \/ /\ request'[x].op = "limit" /\ request'[x].action = a
             /\ (Hosted!Left(a)')[x] = Hosted!Remaining(a, request'[x].row)
      BY DEF Hosted!Left, Hosted!Reading, Hosted!Remaining, Hosted!Limit
    <3>4. \/ (Hosted!Left(a)')[x] = Hosted!Remaining(a, limit'[a])
          \/ (Hosted!Left(a)')[x] = rest
          \/ /\ x \in Hosted!Reading(a)
             /\ (Hosted!Left(a)')[x] = Hosted!Remaining(a, request[x].row)
      BY <3>3 DEF Hosted!Reading
    <3> HIDE DEF rest
    <3>5. QED
      BY <1>1, <3>1, <3>2, <3>4 DEF rest
  <2>2. /\ Cardinality(Passed(Hosted!Left(a), Hosted!Limit(a)))
             <= Cardinality(Passed(Hosted!Left(a)', Hosted!Limit(a)))
        /\ Cardinality(Passed(Hosted!Left(a), Hosted!Limit(a))) \in Nat
        /\ Cardinality(Passed(Hosted!Left(a)', Hosted!Limit(a))) \in Nat
        /\ Cardinality(Requests) \in Nat
    BY <1>1, <2>1, PassedStays, PassedBounded, FS_CardinalityType
  <2>3. QED
    BY <1>1, <1>2, <1>4, <2>2, PassingIs, PassingIsNext
<1>5. QED
  BY <1>3, <1>4

\* A request that is let through passes a tally, when the window lasts: it gives up
\* what it had left, and leaves less than that to be read.
LEMMA AdmittedPasses ==
  ASSUME Hosted!AccountsAssumption, Hosted!TypeOK, Hosted!TypeOK',
         NEW a \in Hosted!Action, NEW r \in Requests, NEW k \in 1..Hosted!Limit(a),
         Hosted!Left(a)[r] >= k,
         Hosted!Remaining(a, limit'[a]) < k,
         request'[r].op # "limit",
         \A x \in Requests : x # r => request'[x] = request[x]
  PROVE  /\ Cardinality(Passed(Hosted!Left(a), Hosted!Limit(a))) \in Nat
         /\ Cardinality(Passed(Hosted!Left(a)', Hosted!Limit(a))) \in Nat
         /\ Cardinality(Passed(Hosted!Left(a), Hosted!Limit(a))) + 1
              <= Cardinality(Passed(Hosted!Left(a)', Hosted!Limit(a)))
<1> DEFINE rest == Hosted!Remaining(a, limit'[a])
<1>1. /\ Hosted!Left(a) \in [Requests -> 0..Hosted!Limit(a)]
      /\ Hosted!Left(a)' \in [Requests -> 0..Hosted!Limit(a)]
      /\ rest \in 0..Hosted!Limit(a)
      /\ Hosted!Limit(a) \in Nat /\ IsFiniteSet(Requests)
  BY HostedLeftType, HostedLeftTypeNext, LimitType, SameFiniteness
  DEF Hosted!AccountsAssumption
<1>2. (Hosted!Left(a)')[r] = rest
  BY DEF Hosted!Left, Hosted!Reading, Hosted!Remaining, Hosted!Limit
<1>3. ASSUME NEW x \in Requests, (Hosted!Left(a)')[x] >= k
      PROVE  (Hosted!Left(a)')[x] <= Hosted!Left(a)[x]
  <2>1. (Hosted!Left(a)')[x] # rest
    BY <1>1, <1>3
  <2>2. x # r
    BY <1>2, <2>1
  <2>3. /\ x \in Hosted!Reading(a)
        /\ (Hosted!Left(a)')[x] = Hosted!Remaining(a, request[x].row)
    BY <2>1, <2>2 DEF Hosted!Left, Hosted!Reading, Hosted!Remaining, Hosted!Limit
  <2>4. /\ Hosted!Remaining(a, request[x].row) \in 0..Hosted!Limit(a)
        /\ Hosted!Remaining(a, limit[a]) \in 0..Hosted!Limit(a)
    BY <2>3, LimitType, ReadingRow, HostedLeftType
  <2>5. QED
    BY <2>3, <2>4 DEF Hosted!Left
<1>4. (Hosted!Left(a)')[r] < k
  BY <1>2
<1>5. QED
  BY <1>1, <1>3, <1>4, CountingPasses, PassedBounded

\* A request that is let through, in a window that lasts or one that it starts, passes
\* a tally; in a window that is over it is one of those that have not seen its end.
LEMMA SomebodyAdmitted ==
  ASSUME Hosted!AccountsAssumption, Hosted!TypeOK, Hosted!TypeOK',
         NEW a \in Hosted!Action, Hosted!Passing(a),
         NEW r \in Hosted!Reading(a),
         request'[r].op # "limit",
         \A x \in Requests : x # r => request'[x] = request[x],
         admitted'[a] = admitted[a] + 1,
         limit'[a].over => limit[a].over /\ ~ request[r].row.over,
         ~ limit'[a].over =>
           /\ Hosted!Remaining(a, request[r].row) # 0
           /\ Hosted!Remaining(a, limit'[a]) < Hosted!Remaining(a, request[r].row)
  PROVE  Hosted!Passing(a)'
<1>1. r \in Requests /\ request[r].row \in Hosted!LimitRow
  BY ReadingRow
<1>2. admitted[a] \in Nat /\ admitted'[a] \in Nat
  BY DEF Hosted!TypeOK
<1>3. CASE limit'[a].over
  <2>1. /\ r \in Hosted!Late(a) /\ r \notin Hosted!Late(a)'
        /\ Hosted!Late(a)' \cup {r} \in SUBSET Hosted!Late(a)
        /\ Hosted!Late(a) \in SUBSET Requests /\ Hosted!Late(a)' \in SUBSET Requests
    BY <1>1, <1>3 DEF Hosted!Late, Hosted!Reading
  <2>2. IsFiniteSet(Hosted!Late(a)) /\ IsFiniteSet(Hosted!Late(a)')
    BY <2>1, SomeRequests
  <2>3. Cardinality(Hosted!Late(a)' \cup {r}) = Cardinality(Hosted!Late(a)') + 1
    BY <2>1, <2>2, FS_AddElement
  <2>4. Cardinality(Hosted!Late(a)' \cup {r}) <= Cardinality(Hosted!Late(a))
    BY <2>1, <2>2, FS_Subset
  <2>5. /\ Cardinality(Hosted!Late(a)) \in Nat /\ Cardinality(Hosted!Late(a)') \in Nat
        /\ Cardinality(Requests) \in Nat
    BY <2>1, SomeRequests
  <2>6. admitted[a] + Cardinality(Hosted!Late(a)) <= Cardinality(Requests)
    BY <1>3, PassingIs
  <2>7. admitted'[a] + Cardinality(Hosted!Late(a)') <= Cardinality(Requests)
    BY <1>2, <2>3, <2>4, <2>5, <2>6
  <2>8. QED
    BY <1>3, <2>7, PassingIsNext
<1>4. CASE ~ limit'[a].over
  <2> DEFINE k == Hosted!Remaining(a, request[r].row)
             passed == Cardinality(Passed(Hosted!Left(a), Hosted!Limit(a)))
             now == Cardinality(Passed(Hosted!Left(a)', Hosted!Limit(a)))
  <2>1. k \in 1..Hosted!Limit(a)
    BY <1>1, <1>4, LimitType
  <2>2. Hosted!Left(a)[r] >= k
    <3>1. Hosted!Remaining(a, limit[a]) \in 0..Hosted!Limit(a) /\ Hosted!Limit(a) \in Nat
      BY HostedLeftType, LimitType
    <3>2. QED
      BY <1>1, <2>1, <3>1 DEF Hosted!Left
  <2>3. passed \in Nat /\ now \in Nat /\ passed + 1 <= now
    BY <1>1, <1>4, <2>1, <2>2, AdmittedPasses
  <2>4. admitted[a] <= Cardinality(Requests) + passed
    <3>1. CASE limit[a].over
      <4>1. admitted[a] + Cardinality(Hosted!Late(a)) <= Cardinality(Requests)
        BY <3>1, PassingIs
      <4>2. Hosted!Late(a) \in SUBSET Requests
        BY DEF Hosted!Late, Hosted!Reading
      <4>3. Cardinality(Hosted!Late(a)) \in Nat /\ Cardinality(Requests) \in Nat
        BY <4>2, SomeRequests
      <4> HIDE DEF passed
      <4>4. QED
        BY <1>2, <2>3, <4>1, <4>3
    <3>2. CASE ~ limit[a].over
      BY <3>2, PassingIs
    <3>3. QED
      BY <3>1, <3>2
  <2>5. Cardinality(Requests) \in Nat
    BY SomeRequests
  <2>6. admitted'[a] <= Cardinality(Requests) + now
    <3> HIDE DEF passed, now
    <3>1. QED
      BY <1>2, <2>3, <2>4, <2>5
  <2>7. QED
    BY <1>4, <2>6, PassingIsNext
<1>5. QED
  BY <1>3, <1>4

\* The three statements that end consumeAuthRateLimit.
LEMMA LimiterPasses ==
  ASSUME Hosted!AccountsAssumption, Hosted!TypeOK, Hosted!TypeOK',
         NEW a \in Hosted!Action, Hosted!Passing(a), NEW r \in Requests,
         Hosted!StartRow(r) \/ Hosted!StartWindow(r) \/ Hosted!CountAttempt(r)
  PROVE  Hosted!Passing(a)'
<1> DEFINE b == request[r].action
           row == request[r].row
<1>1. r \in Hosted!Reading(b) /\ b \in Hosted!Action
  BY HostedFields
  DEF Hosted!TypeOK, Hosted!Reading, Hosted!StartRow, Hosted!StartWindow,
      Hosted!CountAttempt, Hosted!Counted
<1>2. row \in Hosted!LimitRow /\ limit[a] \in Hosted!LimitRow /\ admitted[a] \in Nat
  BY <1>1, ReadingRow DEF Hosted!TypeOK
<1>3. Hosted!Admit(r, b) \/ Hosted!Refuse(r)
  BY DEF Hosted!StartRow, Hosted!StartWindow, Hosted!CountAttempt, Hosted!Counted
<1>4. /\ request'[r].op # "limit"
      /\ \A x \in Requests : x # r => request'[x] = request[x]
  BY <1>1, <1>3
  DEF Hosted!TypeOK, Hosted!Admit, Hosted!Refuse, Hosted!Becomes, Hosted!Idle, Hosted!Action
<1>5. /\ Hosted!Admit(r, b) => admitted'[a] = IF a = b THEN admitted[a] + 1 ELSE admitted[a]
      /\ Hosted!Refuse(r) => admitted'[a] = admitted[a]
  BY DEF Hosted!TypeOK, Hosted!Admit, Hosted!Refuse
<1>6. Hosted!Limit(a) \in Nat \ {0} /\ Hosted!Remaining(a, limit[a]) \in 0..Hosted!Limit(a)
  BY <1>2, LimitType
<1>7. CASE a # b
  <2>1. limit'[a] = limit[a]
    BY <1>7 DEF Hosted!TypeOK, Hosted!StartRow, Hosted!StartWindow, Hosted!CountAttempt,
                Hosted!Counted
  <2>2. admitted'[a] = admitted[a]
    BY <1>3, <1>5, <1>7
  <2>3. Hosted!Remaining(a, limit'[a]) <= Hosted!Remaining(a, limit[a])
    BY <1>6, <2>1
  <2>4. QED
    BY <1>4, <2>1, <2>2, <2>3, NobodyAdmitted
<1>8. CASE a = b /\ Hosted!StartRow(r)
  <2>1. CASE limit[a] = Hosted!NoRow
    <3>1. /\ limit'[a] = Hosted!FirstRow /\ row = Hosted!NoRow /\ Hosted!Admit(r, b)
      BY <1>8, <2>1 DEF Hosted!TypeOK, Hosted!StartRow
    <3>2. /\ ~ limit'[a].over
          /\ Hosted!Remaining(a, row) = Hosted!Limit(a)
          /\ Hosted!Remaining(a, limit'[a]) < Hosted!Limit(a)
      BY <1>6, <3>1 DEF Hosted!Remaining, Hosted!NoRow, Hosted!FirstRow
    <3>3. QED
      BY <1>1, <1>4, <1>5, <1>6, <1>8, <3>1, <3>2, SomebodyAdmitted
  <2>2. CASE limit[a] # Hosted!NoRow
    <3>1. limit'[a] = limit[a] /\ Hosted!Refuse(r)
      BY <1>8, <2>2 DEF Hosted!StartRow
    <3>2. Hosted!Remaining(a, limit'[a]) <= Hosted!Remaining(a, limit[a])
      BY <1>6, <3>1
    <3>3. QED
      BY <1>4, <1>5, <3>1, <3>2, NobodyAdmitted
  <2>3. QED
    BY <2>1, <2>2
<1>9. CASE a = b /\ Hosted!StartWindow(r)
  <2>1. limit'[a] = Hosted!FirstRow /\ row.over /\ Hosted!Admit(r, b)
    BY <1>9 DEF Hosted!TypeOK, Hosted!StartWindow
  <2>2. /\ ~ limit'[a].over
        /\ Hosted!Remaining(a, row) = Hosted!Limit(a)
        /\ Hosted!Remaining(a, limit'[a]) < Hosted!Limit(a)
    BY <1>6, <2>1 DEF Hosted!Remaining, Hosted!NoRow, Hosted!FirstRow
  <2>3. QED
    BY <1>1, <1>4, <1>5, <1>6, <1>9, <2>1, <2>2, SomebodyAdmitted
<1>10. CASE a = b /\ Hosted!CountAttempt(r)
  <2> DEFINE attempts == row.attempts + 1
  <2>1. /\ attempts \in Nat /\ limit'[a].attempts = attempts
        /\ limit'[a].over = limit[a].over /\ ~ row.over
    BY <1>2, <1>10
    DEF Hosted!TypeOK, Hosted!LimitRow, Hosted!CountAttempt, Hosted!Counted
  <2>2. CASE attempts <= Hosted!Limit(a)
    <3>1. Hosted!Admit(r, b)
      BY <1>10, <2>2 DEF Hosted!CountAttempt, Hosted!Counted
    <3>2. row.attempts \in Nat /\ row.attempts < Hosted!Limit(a)
      BY <1>2, <1>6, <2>2 DEF Hosted!LimitRow
    <3>3. Hosted!Remaining(a, row) = Hosted!Limit(a) - row.attempts
      BY <2>1, <3>2 DEF Hosted!Remaining
    <3>4. ~ limit'[a].over =>
            Hosted!Remaining(a, limit'[a]) < Hosted!Limit(a) - row.attempts
      BY <1>6, <2>1, <3>2 DEF Hosted!Remaining
    <3>5. QED
      BY <1>1, <1>4, <1>5, <1>6, <1>10, <2>1, <3>1, <3>2, <3>3, <3>4, SomebodyAdmitted
  <2>3. CASE ~ (attempts <= Hosted!Limit(a))
    <3>1. Hosted!Refuse(r)
      BY <1>10, <2>3 DEF Hosted!CountAttempt, Hosted!Counted
    <3>2. Hosted!Remaining(a, limit'[a]) <= Hosted!Remaining(a, limit[a])
      BY <1>6, <2>1, <2>3 DEF Hosted!Remaining
    <3>3. QED
      BY <1>4, <1>5, <2>1, <3>1, <3>2, NobodyAdmitted
  <2>4. QED
    BY <2>2, <2>3
<1>11. QED
  BY <1>7, <1>8, <1>9, <1>10

\* Every step keeps what was let through below the tallies passed.
LEMMA AdmissionsKept ==
  ASSUME Hosted!AccountsAssumption, Hosted!TypeOK, Hosted!TypeOK',
         Hosted!AdmissionsArePassed, [Hosted!Next]_(Hosted!vars)
  PROVE  Hosted!AdmissionsArePassed'
<1> SUFFICES ASSUME NEW a \in Hosted!Action PROVE Hosted!Passing(a)'
  BY DEF Hosted!AdmissionsArePassed, Hosted!Action
<1>1. Hosted!Passing(a)
  BY DEF Hosted!AdmissionsArePassed
<1>2. limit[a] \in Hosted!LimitRow /\ Hosted!Limit(a) \in Nat
      /\ Hosted!Remaining(a, limit[a]) \in 0..Hosted!Limit(a)
  BY LimitType DEF Hosted!TypeOK
<1>3. ASSUME NEW r \in Requests,
             Hosted!StartRow(r) \/ Hosted!StartWindow(r) \/ Hosted!CountAttempt(r)
      PROVE  Hosted!Passing(a)'
  BY <1>1, <1>3, LimiterPasses
<1>4. ASSUME NEW r \in Requests, NEW b \in Hosted!Action, Hosted!ReadLimit(r, b)
      PROVE  Hosted!Passing(a)'
  <2>1. UNCHANGED <<limit, admitted>>
    BY <1>4 DEF Hosted!ReadLimit
  <2>2. \A x \in Requests :
          \/ request'[x] = request[x]
          \/ request'[x] = [op |-> "limit", action |-> b, row |-> limit[b]]
    BY <1>4 DEF Hosted!TypeOK, Hosted!ReadLimit, Hosted!Becomes
  <2>3. Hosted!Remaining(a, limit'[a]) <= Hosted!Remaining(a, limit[a])
    BY <1>2, <2>1
  <2>4. QED
    BY <1>1, <2>1, <2>2, <2>3, NobodyAdmitted
<1>5. ASSUME NEW r \in Requests, UNCHANGED <<limit, admitted>>,
             NEW q, Hosted!Becomes(r, q), q.op # "limit"
      PROVE  Hosted!Passing(a)'
  <2>1. \A x \in Requests : request'[x] = request[x] \/ request'[x].op # "limit"
    BY <1>5 DEF Hosted!TypeOK, Hosted!Becomes
  <2>2. Hosted!Remaining(a, limit'[a]) <= Hosted!Remaining(a, limit[a])
    BY <1>2, <1>5
  <2>3. QED
    BY <1>1, <1>5, <2>1, <2>2, NobodyAdmitted
<1>6. ASSUME NEW b \in Hosted!Action, Hosted!WindowEnds(b) PROVE Hosted!Passing(a)'
  <2>1. CASE a = b
    <3>1. limit'[a].over /\ admitted'[a] = 0
      BY <1>2, <1>6, <2>1 DEF Hosted!TypeOK, Hosted!WindowEnds, Hosted!LimitRow
    <3>2. Hosted!Late(a)' \in SUBSET Requests
      BY DEF Hosted!Late, Hosted!Reading
    <3>3. /\ Cardinality(Hosted!Late(a)') \in Nat
          /\ Cardinality(Hosted!Late(a)') <= Cardinality(Requests)
      BY <3>2, SomeRequests
    <3>4. QED
      BY <3>1, <3>3, PassingIsNext
  <2>2. CASE a # b
    <3>1. limit'[a] = limit[a] /\ admitted'[a] = admitted[a] /\ request' = request
      BY <1>6, <2>2 DEF Hosted!TypeOK, Hosted!WindowEnds
    <3>2. Hosted!Remaining(a, limit'[a]) <= Hosted!Remaining(a, limit[a])
      BY <1>2, <3>1
    <3>3. QED
      BY <1>1, <3>1, <3>2, NobodyAdmitted
  <2>3. QED
    BY <2>1, <2>2
<1>7. ASSUME NEW b \in Hosted!Action, Hosted!BlockEnds(b) PROVE Hosted!Passing(a)'
  <2>1. /\ limit'[a] = limit[a] \/ limit'[a] = [limit[a] EXCEPT !.blocked = FALSE]
        /\ UNCHANGED <<admitted, request>>
    BY <1>7 DEF Hosted!TypeOK, Hosted!BlockEnds
  <2>2. limit'[a].over = limit[a].over /\ limit'[a].attempts = limit[a].attempts
    BY <1>2, <2>1 DEF Hosted!LimitRow
  <2>3. Hosted!Remaining(a, limit'[a]) = Hosted!Remaining(a, limit[a])
    BY <2>2 DEF Hosted!Remaining
  <2>4. Hosted!Remaining(a, limit'[a]) <= Hosted!Remaining(a, limit[a])
    BY <1>2, <2>3
  <2>5. QED
    BY <1>1, <2>1, <2>2, <2>4, NobodyAdmitted
<1>8. CASE UNCHANGED <<limit, request, admitted>>
  <2>1. Hosted!Remaining(a, limit'[a]) <= Hosted!Remaining(a, limit[a])
    BY <1>2, <1>8
  <2>2. QED
    BY <1>1, <1>8, <2>1, NobodyAdmitted
<1>9. CASE Hosted!LockEnds \/ \E s \in Sessions : Hosted!Logout(s) \/ Hosted!SessionExpires(s)
  BY <1>8, <1>9 DEF Hosted!LockEnds, Hosted!Logout, Hosted!SessionExpires
<1>10. CASE UNCHANGED Hosted!vars
  BY <1>8, <1>10 DEF Hosted!vars
<1>11. ASSUME NEW r \in Requests,
             \/ Hosted!ReadUsers(r) \/ Hosted!CreateAccount(r)
             \/ Hosted!ReadCredential(r) \/ Hosted!WrongPassword(r) \/ Hosted!RightPassword(r)
             \/ Hosted!ReadTestUser(r) \/ Hosted!ReadIdentity(r) \/ Hosted!RevokeAll(r)
             \/ Hosted!Crash(r) \/ \E s \in Sessions : Hosted!OpenSession(r, s)
      PROVE  Hosted!Passing(a)'
  BY <1>5, <1>11, HandlersTypeOK
<1>12. QED
  BY <1>3, <1>4, <1>6, <1>7, <1>9, <1>10, <1>11 DEF Hosted!Next

\* However many requests read the limiter's row before they write it, at most
\* C(limit + R, R) - 1 + R are let through in a window (consumeAuthRateLimit).
THEOREM AdmissionsBounded ==
  ASSUME Hosted!AccountsAssumption PROVE Hosted!Spec => []Hosted!AdmissionsAreBounded
<1>1. Hosted!Init => Hosted!AdmissionsArePassed
  <2> SUFFICES ASSUME Hosted!Init, NEW a \in Hosted!Action PROVE Hosted!Passing(a)
    BY DEF Hosted!AdmissionsArePassed
  <2>1. Hosted!TypeOK
    BY HostedInitTypeOK
  <2>2. ~ limit[a].over /\ admitted[a] = 0
    BY DEF Hosted!Init, Hosted!NoRow
  <2>3. IsFiniteSet(Requests) /\ Cardinality(Requests) \in Nat
    BY SameFiniteness, FS_CardinalityType DEF Hosted!AccountsAssumption
  <2>4. Cardinality(Passed(Hosted!Left(a), Hosted!Limit(a))) \in Nat
    BY <2>1, <2>3, HostedLeftType, LimitType, PassedBounded
  <2>5. QED
    BY <2>2, <2>3, <2>4, PassingIs
<1>2. Hosted!TypeOK /\ Hosted!AdmissionsArePassed /\ [Hosted!Next]_(Hosted!vars)
        => Hosted!AdmissionsArePassed'
  BY AdmissionsKept, HostedNextTypeOK
<1>3. Hosted!TypeOK /\ Hosted!AdmissionsArePassed => Hosted!AdmissionsAreBounded
  <2> SUFFICES ASSUME Hosted!TypeOK, Hosted!AdmissionsArePassed, NEW a \in Hosted!Action
               PROVE  admitted[a] < choose(Hosted!Limit(a) + Cardinality(Requests),
                                           Cardinality(Requests)) + Cardinality(Requests)
    BY SameCardinality, SameChoose DEF Hosted!AdmissionsAreBounded
  <2> DEFINE atOnce == Cardinality(Requests)
             passed == Cardinality(Passed(Hosted!Left(a), Hosted!Limit(a)))
             bound == choose(Hosted!Limit(a) + atOnce, atOnce)
  <2>1. IsFiniteSet(Requests) /\ atOnce \in Nat
    BY SameFiniteness, FS_CardinalityType DEF Hosted!AccountsAssumption
  <2>2. passed \in Nat /\ bound \in Nat /\ passed < bound
    BY <2>1, HostedLeftType, LimitType, PassedBounded
  <2>3. admitted[a] \in Nat /\ Hosted!Passing(a)
    BY DEF Hosted!TypeOK, Hosted!AdmissionsArePassed
  <2>4. admitted[a] <= atOnce + passed
    <3>1. CASE limit[a].over
      <4>1. admitted[a] + Cardinality(Hosted!Late(a)) <= atOnce
        BY <2>3, <3>1, PassingIs
      <4>2. Hosted!Late(a) \in SUBSET Requests
        BY DEF Hosted!Late, Hosted!Reading
      <4>3. Cardinality(Hosted!Late(a)) \in Nat
        BY <4>2, SomeRequests
      <4> HIDE DEF passed
      <4>4. QED
        BY <2>1, <2>2, <2>3, <4>1, <4>3
    <3>2. CASE ~ limit[a].over
      BY <2>3, <3>2, PassingIs
    <3>3. QED
      BY <3>1, <3>2
  <2> HIDE DEF atOnce, passed, bound
  <2>5. admitted[a] < bound + atOnce
    BY <2>1, <2>2, <2>3, <2>4
  <2>6. QED
    BY <2>5 DEF atOnce, bound
<1>4. QED
  BY <1>1, <1>2, <1>3, HostedTypeCorrect, PTL DEF Hosted!Spec

\* Requests that come one at a time are let through as often as the limit says, and
\* once more if the window ends between the read and the write (consumeAuthRateLimit).
THEOREM AdmissionsOfOne ==
  ASSUME Hosted!AccountsAssumption, Cardinality(Requests) = 1
  PROVE  Hosted!Spec => [](\A a \in Hosted!Action : admitted[a] <= Hosted!Limit(a) + 1)
<1>1. Hosted!TypeOK /\ Hosted!AdmissionsAreBounded
        => \A a \in Hosted!Action : admitted[a] <= Hosted!Limit(a) + 1
  <2> SUFFICES ASSUME Hosted!TypeOK, Hosted!AdmissionsAreBounded, NEW a \in Hosted!Action
               PROVE  admitted[a] <= Hosted!Limit(a) + 1
    OBVIOUS
  <2>1. Hosted!Limit(a) \in Nat /\ choose(Hosted!Limit(a) + 1, 1) = Hosted!Limit(a) + 1
    BY LimitType, ChooseOne
  <2>2. admitted[a] < choose(Hosted!Limit(a) + 1, 1) + 1
    BY SameCardinality, SameChoose DEF Hosted!AdmissionsAreBounded
  <2>3. admitted[a] \in Nat
    BY DEF Hosted!TypeOK
  <2>4. QED
    BY <2>1, <2>2, <2>3
<1>2. QED
  BY <1>1, HostedTypeCorrect, AdmissionsBounded, PTL
=============================================================================
