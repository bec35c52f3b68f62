------------------------ MODULE HostedMessagesProofs ------------------------
(***************************************************************************)
(* Proofs about HostedMessages for every number of requests, members, keys   *)
(* and risk cases, and every limit of a poll.                                *)
(***************************************************************************)
EXTENDS HostedMessages, TLAPS

USE DEF MemberRows

-----------------------------------------------------------------------------
(***************************************************************************)
(* Type correctness.                                                        *)
(***************************************************************************)

\* What a request holds tells from its operation.
LEMMA RequestFields ==
  ASSUME NEW q \in RequestState
  PROVE  /\ q.op = "create" => q.members \in SUBSET Members
         /\ q.op = "insert" => /\ q.key \in Keys
                               /\ q.at \in 0 .. MaxTime
                               /\ q.moderation \in Moderation
         /\ q.op = "signal" => q.key \in Keys
<1>1. CASE q = Idle
  BY <1>1 DEF Idle
<1>2. CASE q \in [op : {"talk"}] \cup [op : {"look", "openCase"}]
  BY <1>2
<1>3. CASE q \in [op : {"create"}, members : SUBSET Members]
  BY <1>3
<1>4. CASE q \in [op : {"insert"}, key : Keys, at : 0 .. MaxTime, moderation : Moderation]
  BY <1>4
<1>5. CASE q \in [op : {"signal"}, key : Keys]
  BY <1>5
<1>6. QED
  BY <1>1, <1>2, <1>3, <1>4, <1>5 DEF RequestState

\* A request that goes on to a state of a request is well typed.
LEMMA BecomesType ==
  ASSUME TypeOK, NEW r \in Requests, NEW q \in RequestState, Becomes(r, q)
  PROVE  request' \in [Requests -> RequestState]
BY DEF TypeOK, Becomes

\* The states of a request that hold no row.
LEMMA PlainStates ==
  /\ Idle \in RequestState
  /\ [op |-> "talk"] \in RequestState
  /\ [op |-> "look"] \in RequestState
  /\ [op |-> "openCase"] \in RequestState
  /\ \A k \in Keys : [op |-> "signal", key |-> k] \in RequestState
BY DEF RequestState

\* The initial state is well typed.
LEMMA InitTypeOK == Init => TypeOK
BY PlainStates, MessagesAssumption DEF Init, TypeOK, MessageRow, NoMessage, People

\* Every step keeps the types.
LEMMA NextTypeOK == TypeOK /\ [Next]_vars => TypeOK'
<1> SUFFICES ASSUME TypeOK, [Next]_vars PROVE TypeOK'
  OBVIOUS
<1> USE DEF conversation, risk, stream
<1>1. CASE Tick
  BY <1>1, MessagesAssumption DEF TypeOK, Tick
<1>2. ASSUME NEW m \in Members, MemberJoins(m) PROVE TypeOK'
  BY <1>2 DEF TypeOK, MemberJoins
<1>3. ASSUME NEW rows \in SUBSET Keys, Poll(rows) PROVE TypeOK'
  BY <1>3 DEF TypeOK, Poll, PollFrom, MessageRow
<1>4. ASSUME NEW c \in Cases, ResolveCase(c) PROVE TypeOK'
  BY <1>4 DEF TypeOK, ResolveCase
<1>5. ASSUME NEW r \in Requests, FindNone(r) \/ FindCase(r) \/ RecordEvent(r) \/ Crash(r)
      PROVE  TypeOK'
  <2>1. request' \in [Requests -> RequestState]
    BY <1>5, PlainStates, BecomesType DEF FindNone, FindCase, RecordEvent, Crash
  <2>2. request[r].op = "signal" => request[r].key \in Keys
    BY RequestFields DEF TypeOK
  <2>3. QED
    BY <1>5, <2>1, <2>2 DEF TypeOK, FindNone, FindCase, RecordEvent, Crash
<1>6. ASSUME NEW r \in Requests, ReadMembers(r) PROVE TypeOK'
  <2>1. [op |-> "create", members |-> members] \in RequestState
    BY DEF TypeOK, RequestState
  <2>2. QED
    BY <1>6, <2>1, BecomesType DEF TypeOK, ReadMembers
<1>7. ASSUME NEW r \in Requests, CreateConversation(r) PROVE TypeOK'
  <2>1. request[r].members \in SUBSET Members
    BY <1>7, RequestFields DEF TypeOK, CreateConversation
  <2>2. QED
    BY <1>7, <2>1, PlainStates, BecomesType DEF TypeOK, CreateConversation, People
<1>8. ASSUME NEW r \in Requests, NEW k \in Keys, NEW moderation \in Moderation,
             ReceiveMessage(r, k, moderation)
      PROVE  TypeOK'
  <2>1. [op |-> "insert", key |-> k, at |-> now, moderation |-> moderation] \in RequestState
    BY DEF TypeOK, RequestState
  <2>2. QED
    BY <1>8, <2>1, BecomesType DEF TypeOK, ReceiveMessage
<1>9. ASSUME NEW r \in Requests, InsertMessage(r) PROVE TypeOK'
  <2>1. /\ request[r].key \in Keys
        /\ [at |-> request[r].at, moderation |-> request[r].moderation] \in MessageRow
    BY <1>9, RequestFields DEF TypeOK, InsertMessage, MessageRow
  <2>2. request' \in [Requests -> RequestState]
    BY <1>9, <2>1, PlainStates, BecomesType DEF InsertMessage
  <2>3. QED
    BY <1>9, <2>1, <2>2 DEF TypeOK, InsertMessage
<1>10. ASSUME NEW r \in Requests, NEW c \in Cases, OpenCase(r, c) PROVE TypeOK'
  BY <1>10, PlainStates, BecomesType DEF TypeOK, OpenCase
<1>11. CASE UNCHANGED vars
  BY <1>11 DEF TypeOK, vars
<1>12. QED
  BY <1>1, <1>2, <1>3, <1>4, <1>5, <1>6, <1>7, <1>8, <1>9, <1>10, <1>11 DEF Next

\* The rows, the requests in flight and the stream keep their types.
THEOREM TypeCorrect == Spec => []TypeOK
BY InitTypeOK, NextTypeOK, PTL DEF Spec

-----------------------------------------------------------------------------
(***************************************************************************)
(* The stream.                                                              *)
(***************************************************************************)

\* Nothing is stored or sent at the start.
LEMMA InitIInv == Init => IInv
BY InitTypeOK DEF Init, IInv, SentAreStored, PassedAreLateOrTied, Stored

\* A poll passes only rows it sends and rows as old as its last one.
LEMMA PollKeepsIInv ==
  ASSUME IInv, TypeOK', NEW rows \in SUBSET Keys, Poll(rows)
  PROVE  IInv'
<1>1. PICK last \in rows : /\ \A j \in rows : message[j].at <= message[last].at
                           /\ cursor' = message[last].at
  BY DEF Poll, PollFrom
<1>2. message' = message /\ late' = late /\ sent' = sent \cup rows
  BY DEF Poll, PollFrom
<1>3. SentAreStored'
  BY <1>2 DEF IInv, SentAreStored, Poll, Ahead, Stored
<1>4. ASSUME NEW k \in Keys, Stored(k), k \notin sent', message[k].at <= cursor'
      PROVE  k \in late \/ \E j \in sent' : message[j].at = message[k].at
  <2>1. message[k].at \in Int /\ message[last].at \in Int /\ cursor \in Int
    BY DEF IInv, TypeOK, MessageRow
  <2>2. CASE message[k].at <= cursor
    BY <1>2, <1>4, <2>2 DEF IInv, PassedAreLateOrTied
  <2>3. CASE message[k].at > cursor
    <3>1. k \in Ahead \ rows
      BY <1>2, <1>4, <2>3 DEF Ahead
    <3>2. message[last].at <= message[k].at
      BY <3>1 DEF Poll
    <3>3. message[last].at = message[k].at
      BY <1>1, <1>4, <2>1, <3>2
    <3>4. QED
      BY <1>2, <3>3
  <2>4. QED
    BY <2>1, <2>2, <2>3
<1>5. PassedAreLateOrTied'
  BY <1>2, <1>4 DEF PassedAreLateOrTied, Stored
<1>6. QED
  BY <1>3, <1>5 DEF IInv

\* A message inserted behind the cursor is late.
LEMMA InsertKeepsIInv ==
  ASSUME IInv, TypeOK', NEW r \in Requests, InsertMessage(r)
  PROVE  IInv'
<1> DEFINE k == request[r].key
           row == [at |-> request[r].at, moderation |-> request[r].moderation]
<1>1. cursor' = cursor /\ sent' = sent
  BY DEF InsertMessage, stream
<1>2. CASE Stored(k)
  <2>1. UNCHANGED <<message, late>>
    BY <1>2 DEF InsertMessage
  <2>2. QED
    BY <1>1, <2>1 DEF IInv, SentAreStored, PassedAreLateOrTied, Stored
<1>3. CASE ~Stored(k)
  <2>1. k \in Keys /\ k \notin sent
    BY <1>3, RequestFields DEF IInv, TypeOK, InsertMessage, SentAreStored
  <2>2. row # NoMessage
    BY RequestFields DEF IInv, TypeOK, InsertMessage, NoMessage, Moderation
  <2>3. /\ message' = [message EXCEPT ![k] = row]
        /\ late' = IF row.at <= cursor THEN late \cup {k} ELSE late
    BY <1>3 DEF InsertMessage
  <2>4. message'[k] = row /\ \A j \in Keys : j # k => message'[j] = message[j]
    BY <2>1, <2>3 DEF IInv, TypeOK
  <2>5. SentAreStored'
    BY <1>1, <2>1, <2>4 DEF IInv, TypeOK, SentAreStored, Stored
  <2>6. PassedAreLateOrTied'
    BY <1>1, <2>1, <2>3, <2>4 DEF IInv, TypeOK, PassedAreLateOrTied, Stored
  <2>7. QED
    BY <2>5, <2>6 DEF IInv
<1>4. QED
  BY <1>2, <1>3

\* Every step keeps the invariant.
LEMMA NextIInv == IInv /\ [Next]_vars => IInv'
<1> SUFFICES ASSUME IInv, [Next]_vars PROVE IInv'
  OBVIOUS
<1>1. TypeOK'
  BY NextTypeOK DEF IInv
<1>2. ASSUME NEW rows \in SUBSET Keys, Poll(rows) PROVE IInv'
  BY <1>1, <1>2, PollKeepsIInv
<1>3. ASSUME NEW r \in Requests, InsertMessage(r) PROVE IInv'
  BY <1>1, <1>3, InsertKeepsIInv
<1>4. CASE UNCHANGED <<message, stream, late>>
  BY <1>1, <1>4 DEF IInv, SentAreStored, PassedAreLateOrTied, Stored, stream
<1>5. QED
  BY <1>2, <1>3, <1>4
     DEF Next, Tick, MemberJoins, ResolveCase, FindNone, ReadMembers, CreateConversation,
         RecordEvent, FindCase, Crash, ReceiveMessage, OpenCase, vars

\* The inductive invariant: types, and what the stream sent and passed.
THEOREM MessagesInvariant == Spec => []IInv
BY InitIInv, NextIInv, PTL DEF Spec

\* However requests, ticks, polls and crashes interleave, the stream passes over a
\* stored message only if it came late or shares its millisecond with a sent one.
THEOREM PassedLateOrTied == Spec => []PassedAreLateOrTied
<1>1. IInv => PassedAreLateOrTied
  BY DEF IInv
<1>2. QED
  BY <1>1, MessagesInvariant, PTL

-----------------------------------------------------------------------------
(***************************************************************************)
(* Requests that do not overlap.                                            *)
(***************************************************************************)

\* A poll moves the cursor to a message it sends.
LEMMA PollAlone ==
  ASSUME AloneInv, NEW rows \in SUBSET Keys, Poll(rows)
  PROVE  CursorIsSent' /\ LateAreTied'
<1>1. /\ UNCHANGED <<message, late>> /\ sent' = sent \cup rows
      /\ \E k \in rows : cursor' = message[k].at
  BY DEF Poll, PollFrom
<1>2. CursorIsSent'
  BY <1>1 DEF CursorIsSent
<1>3. LateAreTied'
  BY <1>1 DEF AloneInv, LateAreTied, Stored
<1>4. QED
  BY <1>2, <1>3

\* A message comes no earlier than any that is stored, so that one behind the cursor
\* is at the cursor.
LEMMA InsertAlone ==
  ASSUME OneAtATime, AloneInv, IInv', NEW r \in Requests, InsertMessage(r)
  PROVE  AloneInv'
<1> DEFINE k == request[r].key
           row == [at |-> request[r].at, moderation |-> request[r].moderation]
<1>1. /\ UNCHANGED <<now, riskCase, cursor, sent>>
      /\ k \in Keys /\ row.at \in 1 .. now /\ \A j \in Keys : message[j].at <= row.at
      /\ message \in [Keys -> MessageRow] /\ request \in [Requests -> RequestState]
      /\ now \in Nat /\ cursor \in Nat /\ sent \subseteq Keys
      /\ \A j \in Keys : message[j].at \in Nat
  BY RequestFields, MessagesAssumption
  DEF AloneInv, IInv, TypeOK, MessageRow, InsertsAreNewest, InsertMessage, risk, stream
<1>2. \A q \in Requests : request'[q].op \in {"none", "signal"}
  BY <1>1 DEF InsertMessage, Becomes, OneAtATime, Idle
<1>3. CASE Stored(k)
  <2>1. UNCHANGED <<message, late>>
    BY <1>3 DEF InsertMessage
  <2>2. CursorIsSent' /\ LateAreTied'
    BY <1>1, <2>1 DEF AloneInv, CursorIsSent, LateAreTied, Stored
  <2>3. InsertsAreNewest'
    BY <1>1, <1>2, <2>1 DEF AloneInv, InsertsAreNewest
  <2>4. CasesAreNeeded' /\ OneOpenCase'
    BY <1>1, <1>2 DEF AloneInv, CasesAreNeeded, OneOpenCase, OpenCases
  <2>5. QED
    BY <2>2, <2>3, <2>4 DEF AloneInv
<1>4. CASE ~Stored(k)
  <2>1. k \notin sent
    BY <1>4 DEF AloneInv, IInv, SentAreStored
  <2>2. /\ message' = [message EXCEPT ![k] = row]
        /\ late' = IF row.at <= cursor THEN late \cup {k} ELSE late
    BY <1>4 DEF InsertMessage
  <2>3. message'[k] = row /\ \A j \in Keys : j # k => message'[j] = message[j]
    BY <1>1, <2>2
  <2>4. \A j \in sent : message'[j] = message[j]
    BY <1>1, <2>1, <2>3
  <2>5. CursorIsSent'
    BY <1>1, <2>4 DEF AloneInv, CursorIsSent
  <2>6. row.at <= cursor => \E j \in sent : message'[j].at = row.at
    <3>1. SUFFICES ASSUME row.at <= cursor PROVE \E j \in sent : message'[j].at = row.at
      OBVIOUS
    <3>2. PICK j \in sent : message[j].at = cursor
      BY <1>1, <3>1 DEF AloneInv, CursorIsSent
    <3>3. message[j].at = row.at
      BY <1>1, <3>1, <3>2
    <3>4. QED
      BY <2>4, <3>3
  <2>7. LateAreTied'
    <3>1. ASSUME NEW l \in late'
          PROVE  message'[l] # NoMessage /\ \E j \in sent : message'[j].at = message'[l].at
      <4>1. CASE l = k /\ row.at <= cursor
        <5>1. row # NoMessage
          BY <1>1 DEF NoMessage
        <5>2. QED
          BY <2>3, <2>6, <4>1, <5>1
      <4>2. CASE l \in late /\ l # k
        <5>1. l \in Keys
          BY <4>2 DEF AloneInv, IInv, TypeOK
        <5>2. QED
          BY <2>3, <2>4, <4>2, <5>1 DEF AloneInv, LateAreTied, Stored
      <4>3. CASE l \in late /\ l = k
        BY <1>4, <4>3 DEF AloneInv, LateAreTied
      <4>4. QED
        BY <2>2, <4>1, <4>2, <4>3
    <3>2. QED
      BY <1>1, <3>1 DEF LateAreTied, Stored
  <2>8. InsertsAreNewest'
    BY <1>1, <1>2, <2>3 DEF AloneInv, InsertsAreNewest
  <2>9. CasesAreNeeded' /\ OneOpenCase'
    BY <1>1, <1>2 DEF AloneInv, CasesAreNeeded, OneOpenCase, OpenCases
  <2>10. QED
    BY <2>5, <2>7, <2>8, <2>9 DEF AloneInv
<1>5. QED
  BY <1>3, <1>4

\* What every other step leaves: the messages, the stream, and all reads but a new one.
LEMMA NextAlone ==
  ASSUME OneAtATime, AloneInv, [Next]_vars
  PROVE  AloneInv'
<1> USE DEF conversation, risk, stream
<1>0. /\ IInv' /\ TypeOK /\ CursorIsSent /\ LateAreTied /\ InsertsAreNewest /\ CasesAreNeeded
      /\ OneOpenCase
  BY NextIInv DEF AloneInv, IInv
<1>1. /\ request \in [Requests -> RequestState] /\ now \in Nat \ {0} /\ now \in 1 .. MaxTime
      /\ \A k \in Keys : message[k].at \in Nat
  BY <1>0, MessagesAssumption DEF TypeOK, MessageRow
<1>2. ASSUME UNCHANGED <<message, stream, late, riskCase, now>>,
             NEW r \in Requests, NEW q, Becomes(r, q),
             q.op = "insert" => q.at = now, q.op = "openCase" => OpenCases = {}
      PROVE  AloneInv'
  <2>1. \A x \in Requests : request'[x] = q
    BY <1>1, <1>2 DEF Becomes, OneAtATime
  <2>2. CursorIsSent' /\ LateAreTied'
    BY <1>0, <1>2 DEF CursorIsSent, LateAreTied, Stored
  <2>3. InsertsAreNewest'
    BY <1>0, <1>1, <1>2, <2>1 DEF InsertsAreNewest
  <2>4. CasesAreNeeded' /\ OneOpenCase'
    BY <1>0, <1>2, <2>1 DEF CasesAreNeeded, OneOpenCase, OpenCases
  <2>5. QED
    BY <1>0, <2>2, <2>3, <2>4 DEF AloneInv
<1>3. ASSUME UNCHANGED <<message, stream, late, request>>, now' \in Nat, now <= now',
             OpenCases' \subseteq OpenCases
      PROVE  AloneInv'
  <2>1. CursorIsSent' /\ LateAreTied'
    BY <1>0, <1>3 DEF CursorIsSent, LateAreTied, Stored
  <2>2. InsertsAreNewest'
    BY <1>0, <1>1, <1>3 DEF InsertsAreNewest
  <2>3. CasesAreNeeded' /\ OneOpenCase'
    BY <1>0, <1>3 DEF CasesAreNeeded, OneOpenCase
  <2>4. QED
    BY <1>0, <2>1, <2>2, <2>3 DEF AloneInv
<1>4. CASE Tick
  BY <1>1, <1>3, <1>4 DEF Tick, OpenCases
<1>5. CASE (\E m \in Members : MemberJoins(m)) \/ UNCHANGED vars
  <2>1. OpenCases' \subseteq OpenCases /\ UNCHANGED <<message, stream, late, request, now>>
    BY <1>5 DEF MemberJoins, OpenCases, vars
  <2>2. QED
    BY <1>1, <1>3, <2>1
<1>6. ASSUME NEW rows \in SUBSET Keys, Poll(rows) PROVE AloneInv'
  <2>1. CursorIsSent' /\ LateAreTied'
    BY <1>6, PollAlone
  <2>2. UNCHANGED <<now, message, request, riskCase>>
    BY <1>6 DEF Poll, PollFrom
  <2>3. InsertsAreNewest' /\ CasesAreNeeded' /\ OneOpenCase'
    BY <1>0, <2>2 DEF InsertsAreNewest, CasesAreNeeded, OneOpenCase, OpenCases
  <2>4. QED
    BY <1>0, <2>1, <2>3 DEF AloneInv
<1>7. ASSUME NEW c \in Cases, ResolveCase(c) PROVE AloneInv'
  <2>1. OpenCases' \subseteq OpenCases
    BY <1>0, <1>7 DEF ResolveCase, OpenCases, TypeOK
  <2>2. QED
    BY <1>1, <1>3, <1>7, <2>1 DEF ResolveCase
<1>8. ASSUME NEW r \in Requests,
             \/ FindNone(r) \/ ReadMembers(r) \/ CreateConversation(r) \/ RecordEvent(r)
             \/ FindCase(r) \/ Crash(r)
      PROVE  AloneInv'
  <2>1. UNCHANGED <<message, stream, late, riskCase, now>>
    BY <1>8 DEF FindNone, ReadMembers, CreateConversation, RecordEvent, FindCase, Crash
  <2>2. PICK q : /\ Becomes(r, q) /\ q.op # "insert"
                 /\ q.op = "openCase" => OpenCases = {}
    BY <1>8 DEF FindNone, ReadMembers, CreateConversation, RecordEvent, FindCase, Crash, Idle
  <2>3. QED
    BY <1>2, <2>1, <2>2
<1>9. ASSUME NEW r \in Requests, NEW k \in Keys, NEW moderation \in Moderation,
             ReceiveMessage(r, k, moderation)
      PROVE  AloneInv'
  BY <1>2, <1>9 DEF ReceiveMessage
<1>10. ASSUME NEW r \in Requests, InsertMessage(r) PROVE AloneInv'
  BY <1>0, <1>10, InsertAlone
<1>11. ASSUME NEW r \in Requests, NEW c \in Cases, OpenCase(r, c) PROVE AloneInv'
  <2>1. \A x \in Requests : request'[x] = Idle
    BY <1>1, <1>11 DEF OpenCase, Becomes, OneAtATime
  <2>2. OpenCases = {} /\ OpenCases' = {c}
    BY <1>0, <1>11 DEF OpenCase, CasesAreNeeded, OpenCases, TypeOK
  <2>3. UNCHANGED <<message, stream, late, now>>
    BY <1>11 DEF OpenCase
  <2>4. Idle.op = "none"
    BY DEF Idle
  <2>5. CursorIsSent' /\ LateAreTied'
    BY <1>0, <2>3 DEF CursorIsSent, LateAreTied, Stored
  <2>6. InsertsAreNewest' /\ CasesAreNeeded'
    BY <1>0, <2>1, <2>3, <2>4 DEF InsertsAreNewest, CasesAreNeeded
  <2>7. OneOpenCase'
    BY <2>2 DEF OneOpenCase
  <2>8. QED
    BY <1>0, <2>5, <2>6, <2>7 DEF AloneInv
<1>12. QED
  BY <1>4, <1>5, <1>6, <1>7, <1>8, <1>9, <1>10, <1>11 DEF Next

\* Nothing is sent, asked for or opened at the start.
LEMMA InitAlone == Init => AloneInv
<1> SUFFICES ASSUME Init PROVE AloneInv
  OBVIOUS
<1>1. \A r \in Requests : request[r].op = "none"
  BY DEF Init, Idle
<1>2. CursorIsSent /\ LateAreTied /\ InsertsAreNewest
  BY <1>1 DEF Init, CursorIsSent, LateAreTied, InsertsAreNewest, NoMessage
<1>3. CasesAreNeeded /\ OneOpenCase
  BY <1>1 DEF Init, CasesAreNeeded, OneOpenCase, OpenCases
<1>4. QED
  BY <1>2, <1>3, InitIInv DEF AloneInv

\* Late messages are a race: where requests do not overlap, a reader of the stream
\* misses only messages that share a millisecond with one that was sent, where the
\* limit cut a poll or the message came after it (POST messages, GET events).
THEOREM MissedTiedAlone == ASSUME OneAtATime PROVE Spec => []MissedAreTied
<1>1. AloneInv /\ [Next]_vars => AloneInv'
  BY NextAlone
<1>2. AloneInv => MissedAreTied
  BY DEF AloneInv, IInv, PassedAreLateOrTied, LateAreTied, MissedAreTied
<1>3. QED
  BY <1>1, <1>2, InitAlone, PTL DEF Spec

\* A second open case of an account is a race too: no index keeps it out, and where
\* requests do not overlap the query does (POST messages, PATCH risk-cases).
THEOREM OneOpenCaseAlone == ASSUME OneAtATime PROVE Spec => []OneOpenCase
<1>1. AloneInv /\ [Next]_vars => AloneInv'
  BY NextAlone
<1>2. AloneInv => OneOpenCase
  BY DEF AloneInv
<1>3. QED
  BY <1>1, <1>2, InitAlone, PTL DEF Spec
=============================================================================
