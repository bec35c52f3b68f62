--------------------------- MODULE HostedMessages ---------------------------
(***************************************************************************)
(* The conversation of one assignment of the hosted stack                   *)
(* (app/api/v1/conversations): its creation, messages under idempotency     *)
(* keys, what moderation makes of them, and the event stream of one reader, *)
(* which reconnects after the last created_at it was sent.                  *)
(*                                                                          *)
(* A request in flight is at an await; it takes its time stamp, Date.now(), *)
(* before its insert, and may die, or see a statement throw, in between.    *)
(* The messages are those of one sender, whose risk case is followed.       *)
(* last_message_at and last_read_at only order and count what is listed.    *)
(***************************************************************************)
EXTENDS Integers, FiniteSets

CONSTANTS Requests,   \* requests in flight at a time
          Members,    \* people who may be members of the business
          Keys,       \* bound: idempotency keys the sender uses
          Cases,      \* bound: risk_cases rows explored
          PollLimit,  \* rows of one poll of the stream (50 in the code)
          MaxTime     \* bound: milliseconds explored

ASSUME MessagesAssumption ==
  /\ IsFiniteSet(Requests)
  /\ "worker" \notin Members
  /\ PollLimit \in Nat \ {0}
  /\ MaxTime \in Nat \ {0}

VARIABLES
  now,          \* Date.now()
  members,      \* ACTIVE business_members
  participants, \* conversation_participants; none while there is no conversation
  message,      \* messages by key: created_at and moderation_status
  signalled,    \* keys with a risk_events row
  riskCase,     \* risk_cases by id
  request,      \* what a request in flight has read
  cursor,       \* the stream's: the last created_at it sent
  sent,         \* messages the stream sent
  late          \* history: messages inserted behind the cursor

conversation == <<members, participants>>
risk == <<signalled, riskCase>>
stream == <<cursor, sent>>
vars == <<now, conversation, message, risk, request, stream, late>>

MemberRows == SUBSET Members
People == Members \cup {"worker"}
\* A message under REVIEW and a BLOCKED one are stored, listed and streamed alike.
Moderation == {"ALLOWED", "SUSPICIOUS"}
MessageRow == [at : 0 .. MaxTime, moderation : Moderation \cup {"NONE"}]
NoMessage == [at |-> 0, moderation |-> "NONE"]

Idle == [op |-> "none"]
RequestState ==
  {Idle}
  \cup [op : {"talk"}]
  \cup [op : {"create"}, members : SUBSET Members]
  \cup [op : {"insert"}, key : Keys, at : 0 .. MaxTime, moderation : Moderation]
  \cup [op : {"signal"}, key : Keys]
  \cup [op : {"look", "openCase"}]

TypeOK ==
  /\ now \in 1 .. MaxTime
  /\ members \in MemberRows
  /\ participants \in SUBSET People
  /\ message \in [Keys -> MessageRow]
  /\ signalled \in SUBSET Keys
  /\ riskCase \in [Cases -> {"NONE", "OPEN", "RESOLVED"}]
  /\ request \in [Requests -> RequestState]
  /\ cursor \in 0 .. MaxTime
  /\ sent \in SUBSET Keys
  /\ late \in SUBSET Keys

Init ==
  /\ now = 1
  /\ members \in SUBSET Members
  /\ participants = {}
  /\ message = [k \in Keys |-> NoMessage]
  /\ signalled = {}
  /\ riskCase = [c \in Cases |-> "NONE"]
  /\ request = [r \in Requests |-> Idle]
  /\ cursor = 0
  /\ sent = {}
  /\ late = {}

Becomes(r, state) == request' = [request EXCEPT ![r] = state]
Stored(k) == message[k] # NoMessage
OpenCases == {c \in Cases : riskCase[c] = "OPEN"}

-----------------------------------------------------------------------------
(***************************************************************************)
(* POST /conversations.                                                     *)
(***************************************************************************)
FindNone(r) ==
  /\ request[r] = Idle
  /\ participants = {}
  /\ Becomes(r, [op |-> "talk"])
  /\ UNCHANGED <<now, conversation, message, risk, stream, late>>

ReadMembers(r) ==
  /\ request[r].op = "talk"
  /\ Becomes(r, [op |-> "create", members |-> members])
  /\ UNCHANGED <<now, conversation, message, risk, stream, late>>

\* One conversation an assignment: the second batch throws.  Who joins the business
\* later does not take part.
CreateConversation(r) ==
  /\ request[r].op = "create"
  /\ participants' = IF participants = {} THEN {"worker"} \cup request[r].members ELSE participants
  /\ Becomes(r, Idle)
  /\ UNCHANGED <<now, members, message, risk, stream, late>>

-----------------------------------------------------------------------------
(***************************************************************************)
(* POST /conversations/:id/messages.                                        *)
(***************************************************************************)
ReceiveMessage(r, k, moderation) ==
  /\ request[r] = Idle
  /\ participants # {}
  /\ Becomes(r, [op |-> "insert", key |-> k, at |-> now, moderation |-> moderation])
  /\ UNCHANGED <<now, conversation, message, risk, stream, late>>

\* A key that is there ends the request: its message is answered again.
InsertMessage(r) ==
  LET k == request[r].key
      row == [at |-> request[r].at, moderation |-> request[r].moderation]
  IN /\ request[r].op = "insert"
     /\ IF Stored(k)
        THEN UNCHANGED <<message, late>> /\ Becomes(r, Idle)
        ELSE /\ message' = [message EXCEPT ![k] = row]
             /\ late' = IF row.at <= cursor THEN late \cup {k} ELSE late
             /\ Becomes(r, IF row.moderation = "SUSPICIOUS" THEN [op |-> "signal", key |-> k] ELSE Idle)
     /\ UNCHANGED <<now, conversation, risk, stream>>

RecordEvent(r) ==
  /\ request[r].op = "signal"
  /\ signalled' = signalled \cup {request[r].key}
  /\ Becomes(r, [op |-> "look"])
  /\ UNCHANGED <<now, conversation, message, riskCase, stream, late>>

FindCase(r) ==
  /\ request[r].op = "look"
  /\ Becomes(r, IF OpenCases = {} THEN [op |-> "openCase"] ELSE Idle)
  /\ UNCHANGED <<now, conversation, message, risk, stream, late>>

OpenCase(r, c) ==
  /\ request[r].op = "openCase"
  /\ riskCase[c] = "NONE"
  /\ riskCase' = [riskCase EXCEPT ![c] = "OPEN"]
  /\ Becomes(r, Idle)
  /\ UNCHANGED <<now, conversation, message, signalled, stream, late>>

ResolveCaseAs(c) ==  \* defect for the checks: the resolution is written into status
  /\ riskCase[c] = "OPEN"
  /\ riskCase' = [riskCase EXCEPT ![c] = "DISMISSED"]
  /\ UNCHANGED <<now, conversation, message, signalled, request, stream, late>>

\* PATCH /admin/risk-cases/:id, one guarded statement.
ResolveCase(c) ==
  /\ riskCase[c] = "OPEN"
  /\ riskCase' = [riskCase EXCEPT ![c] = "RESOLVED"]
  /\ UNCHANGED <<now, conversation, message, signalled, request, stream, late>>

-----------------------------------------------------------------------------
(***************************************************************************)
(* GET /conversations/:id/events.                                           *)
(***************************************************************************)
Ahead == {k \in Keys : Stored(k) /\ message[k].at > cursor}

PollFrom(rows) ==
  /\ participants # {}
  /\ rows # {}
  /\ sent' = sent \cup rows
  /\ \E k \in rows :
       /\ \A j \in rows : message[j].at <= message[k].at
       /\ cursor' = message[k].at
  /\ UNCHANGED <<now, conversation, message, risk, request, late>>

PollUnordered(rows) ==  \* defect for the checks: no ORDER BY
  /\ rows \subseteq Ahead
  /\ Cardinality(rows) <= PollLimit
  /\ PollFrom(rows)

\* The oldest rows ahead, in any order among equals, and no more than the limit.
Poll(rows) ==
  /\ rows \subseteq Ahead
  /\ \A j \in rows, k \in Ahead \ rows : message[j].at <= message[k].at
  /\ IF Cardinality(Ahead) <= PollLimit THEN rows = Ahead ELSE Cardinality(rows) = PollLimit
  /\ PollFrom(rows)

-----------------------------------------------------------------------------
Tick ==
  /\ now < MaxTime
  /\ now' = now + 1
  /\ UNCHANGED <<conversation, message, risk, request, stream, late>>

MemberJoins(m) ==
  /\ m \notin members
  /\ members' = members \cup {m}
  /\ UNCHANGED <<now, participants, message, risk, request, stream, late>>

Crash(r) ==
  /\ request[r] # Idle
  /\ Becomes(r, Idle)
  /\ UNCHANGED <<now, conversation, message, risk, stream, late>>

Next ==
  \/ Tick
  \/ \E m \in Members : MemberJoins(m)
  \/ \E rows \in SUBSET Keys : Poll(rows)
  \/ \E c \in Cases : ResolveCase(c)
  \/ \E r \in Requests :
       \/ FindNone(r) \/ ReadMembers(r) \/ CreateConversation(r)
       \/ InsertMessage(r) \/ RecordEvent(r) \/ FindCase(r) \/ Crash(r)
       \/ \E k \in Keys, moderation \in Moderation : ReceiveMessage(r, k, moderation)
       \/ \E c \in Cases : OpenCase(r, c)

Spec == Init /\ [][Next]_vars

-----------------------------------------------------------------------------
(***************************************************************************)
(* Properties.                                                              *)
(***************************************************************************)

\* A message the stream has passed without sending it was inserted behind the
\* cursor, by a request slower than a later one, or shares its millisecond with a
\* message sent, where the limit cut a poll: no other is lost to a reader who
\* follows the stream, or reconnects (GET events, POST messages).
PassedAreLateOrTied ==
  \A k \in Keys :
    Stored(k) /\ k \notin sent /\ message[k].at <= cursor =>
      k \in late \/ \E j \in sent : message[j].at = message[k].at

\* Behind it: the stream sends rows of the table only.
SentAreStored == \A k \in sent : Stored(k)

IInv ==
  /\ TypeOK
  /\ SentAreStored
  /\ PassedAreLateOrTied
-----------------------------------------------------------------------------
(***************************************************************************)
(* Where requests do not overlap, a message is inserted before the next one *)
(* gets its time, and a case is opened before the next one is looked for.   *)
(***************************************************************************)
OneAtATime == \A r, q \in Requests : r = q

\* All that a reader of the stream can miss is a message of the same millisecond as
\* one that was sent.
MissedAreTied ==
  \A k \in Keys :
    Stored(k) /\ k \notin sent /\ message[k].at <= cursor =>
      \E j \in sent : message[j].at = message[k].at

\* One open case of the account at a time.
OneOpenCase == \A c, d \in OpenCases : c = d

CursorIsSent == cursor > 0 => \E j \in sent : message[j].at = cursor
LateAreTied ==
  \A k \in late : Stored(k) /\ \E j \in sent : message[j].at = message[k].at
InsertsAreNewest ==
  /\ \A k \in Keys : message[k].at <= now
  /\ \A r \in Requests : request[r].op = "insert" =>
       /\ request[r].at \in 1 .. now
       /\ \A k \in Keys : message[k].at <= request[r].at
CasesAreNeeded == \A r \in Requests : request[r].op = "openCase" => OpenCases = {}

AloneInv ==
  /\ IInv
  /\ CursorIsSent
  /\ LateAreTied
  /\ InsertsAreNewest
  /\ CasesAreNeeded
  /\ OneOpenCase
=============================================================================
