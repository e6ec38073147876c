------------------------------ MODULE LobbyChat ------------------------------
(***************************************************************************)
(* Room chat, reports and hiding on top of the directory of LobbyStore:    *)
(* send_message, messages and report of services/lobby/server.py.          *)
(*                                                                         *)
(* send_message reads the clock before it waits for the store lock, and    *)
(* limits and stamps the message by that reading.                          *)
(***************************************************************************)
EXTENDS LobbyStore, Sequences

CONSTANTS
    ChatLimit,       \* CHAT_MESSAGE_LIMIT
    ChatWindow,      \* CHAT_MESSAGE_WINDOW_SECONDS
    ReportLimit,     \* REPORT_LIMIT
    ReportWindow,    \* REPORT_WINDOW_SECONDS
    LimiterKeys,     \* MAX_RATE_LIMIT_KEYS
    MaxMessages,     \* MAX_MESSAGES_PER_ROOM
    MaxReports,      \* the reports kept: maxlen of _reports
    Reason,          \* REPORT_REASONS
    LastMessageId    \* bound: the highest message id a room reaches

ASSUME ChatAssumption ==
    /\ ChatLimit \in Nat /\ ChatWindow \in Nat /\ MaxDelay < ChatWindow
    /\ ReportLimit \in Nat /\ ReportWindow \in Nat /\ LimiterKeys \in Nat
    /\ MaxMessages \in Nat \ {0} /\ MaxReports \in Nat \ {0} /\ LastMessageId \in Nat

VARIABLES
    chat,        \* next_message_id and messages of each room
    chatEvents,  \* _chat_message_limits
    reports,     \* _reports
    reportEvents \* _report_limits

talk == <<chat, chatEvents, reports, reportEvents>>
chatVars == <<vars, talk>>

ChatLimiter == INSTANCE SlidingWindow WITH
                 Limit <- ChatLimit, Window <- ChatWindow, MaxKeys <- LimiterKeys
ReportLimiter == INSTANCE SlidingWindow WITH
                 Limit <- ReportLimit, Window <- ReportWindow, MaxKeys <- LimiterKeys

EmptyChat == [next |-> 1, log |-> << >>]

\* A room's messages go with the room.
OfOpenRooms(c) == [r \in RoomId |-> IF r \in DOMAIN rooms' THEN c[r] ELSE EmptyChat]

AppendUnbounded(q, x, maxlen) == Append(q, x)  \* mutant: no maxlen

AppendOverLatest(q, x, maxlen) ==  \* mutant: the wrong end makes room
    IF Len(q) < maxlen THEN Append(q, x) ELSE [q EXCEPT ![Len(q)] = x]

\* deque.append with a maxlen
AppendBounded(q, x, maxlen) ==
    IF Len(q) < maxlen THEN Append(q, x) ELSE Append(Tail(q), x)

Entries(q) == {q[i] : i \in DOMAIN q}

-----------------------------------------------------------------------------
IsMemberUnpurged(s, r) ==  \* mutant: no purge before the test
    r \in LiveRooms /\ (rooms[r].owner = s \/ s \in DOMAIN rooms[r].reservations)

\* _require_membership, after a purge
IsMember(s, r) == r \in LiveRooms /\ (rooms[r].owner = s \/ s \in KeptSeats(r))

\* send_message up to the lock.  The bound leaves room for every message on
\* its way.
ReadClockForMessage(w) ==
    /\ worker[w].pc = "authed"
    /\ \A r \in RoomId :
          chat[r].next + Cardinality({x \in Worker : worker[x].pc = "sending"})
             <= LastMessageId
    /\ Hold(w, "sending", worker[w].session, NoRoom)
    /\ UNCHANGED <<sessions, profile, blocked, rooms>>
    /\ UNCHANGED talk

\* send_message under the lock: membership, then the sender's chat limit.
SendMessage(w, r) ==
    LET s == worker[w].session
        age == worker[w].age
        accepted == IsMember(s, r) /\ ChatLimiter!Admits(chatEvents, s, age)
    IN
    /\ worker[w].pc = "sending"
    /\ sessions' = PurgedSessions
    /\ rooms' = PurgedRooms
    /\ chatEvents' = IF IsMember(s, r) THEN ChatLimiter!After(chatEvents, s, age)
                                       ELSE chatEvents
    /\ chat' = OfOpenRooms(
                 IF ~accepted THEN chat
                 ELSE [chat EXCEPT ![r] =
                         [next |-> @.next + 1,
                          log |-> AppendBounded(@.log, [id |-> @.next, sender |-> s],
                                                MaxMessages)]])
    /\ Finish(w)
    /\ UNCHANGED <<profile, blocked, reports, reportEvents>>

ReadableAll(s, r, after) ==  \* mutant: hidden senders are not filtered
    {m \in Entries(chat[r].log) : m.id > after}

\* messages: what a member is shown of a room after a cursor.
Readable(s, r, after) ==
    {m \in Entries(chat[r].log) : m.id > after /\ m.sender \notin blocked[s]}

\* report: the target must be in the room.  A report already on record only
\* hides the target; a new one is limited, recorded, and hides the target.
ReportAccepted(s, target, r) ==
    r \in LiveRooms /\ (target = rooms[r].owner \/ target \in KeptSeats(r))

OnRecord(report) == report \in Entries(reports)

HidesOutsider(report) ==  \* mutant: the target is hidden before the room is asked for it
    OnRecord(report) \/ ReportLimiter!Admits(reportEvents, report.reporter, 0)

HidesTarget(report) ==
    /\ ReportAccepted(report.reporter, report.target, report.room)
    /\ OnRecord(report) \/ ReportLimiter!Admits(reportEvents, report.reporter, 0)

Report(w, target, r, reason) ==
    LET s == worker[w].session
        report == [reporter |-> s, target |-> target, room |-> r, reason |-> reason]
        recorded == /\ ReportAccepted(s, target, r)
                    /\ ~OnRecord(report)
                    /\ ReportLimiter!Admits(reportEvents, s, 0)
    IN
    /\ worker[w].pc = "authed"
    /\ target # s
    /\ sessions' = PurgedSessions
    /\ rooms' = PurgedRooms
    /\ reportEvents' = IF ReportAccepted(s, target, r) /\ ~OnRecord(report)
                         THEN ReportLimiter!After(reportEvents, s, 0)
                         ELSE reportEvents
    /\ reports' = IF recorded THEN AppendBounded(reports, report, MaxReports) ELSE reports
    /\ blocked' = IF HidesTarget(report)
                    THEN [blocked EXCEPT ![s] = @ \cup {target}] ELSE blocked
    /\ chat' = OfOpenRooms(chat)
    /\ Finish(w)
    /\ UNCHANGED <<profile, chatEvents>>

-----------------------------------------------------------------------------
\* A session id that chat, reports or a limiter still mention is not drawn
\* again, nor a room id that a report mentions: a new uuid4 is none of them.
Mentioned ==
    (UNION {{m.sender : m \in Entries(chat[r].log)} : r \in RoomId})
    \cup {p.reporter : p \in Entries(reports)} \cup {p.target : p \in Entries(reports)}
    \cup DOMAIN chatEvents \cup DOMAIN reportEvents

\* The directory's own operations, which lose the chat of rooms they close.
DirectoryRequest(w) ==
    /\ ClientRequest(w)
    /\ worker'[w].pc = "registering" => worker'[w].session \notin Mentioned
    /\ worker'[w].pc = "publishing" =>
          \A p \in Entries(reports) : p.room # worker'[w].room
    /\ chat' = OfOpenRooms(chat)
    /\ UNCHANGED <<chatEvents, reports, reportEvents>>

\* An entry older than this is expired for every later request: the clock of
\* a message may be MaxDelay old, that of a report is read under the lock.
OldestPost == ChatWindow + MaxDelay
OldestReport == ReportWindow

ChatTick ==
    /\ Tick
    /\ chatEvents' = ChatLimiter!Aged(chatEvents, OldestPost)
    /\ reportEvents' = ReportLimiter!Aged(reportEvents, OldestReport)
    /\ UNCHANGED <<chat, reports>>

ChatInit ==
    /\ Init
    /\ chat = [r \in RoomId |-> EmptyChat]
    /\ chatEvents = [s \in {} |-> << >>]
    /\ reports = << >>
    /\ reportEvents = [s \in {} |-> << >>]

ChatNext ==
    \/ ChatTick
    \/ \E w \in Worker :
         \/ DirectoryRequest(w)
         \/ ReadClockForMessage(w)
         \/ \E r \in RoomId : SendMessage(w, r)
         \/ \E t \in Session, r \in RoomId, reason \in Reason : Report(w, t, r, reason)

ChatSpec == ChatInit /\ [][ChatNext]_chatVars

-----------------------------------------------------------------------------
(* Properties.                                                             *)

\* The variables of this module keep their types.
ChatTypeOK ==
    /\ \A r \in RoomId :
         /\ chat[r].next \in Nat \ {0}
         /\ chat[r].log \in Seq([id : Nat \ {0}, sender : Session])
    /\ DOMAIN chatEvents \cup DOMAIN reportEvents \subseteq Session
    /\ \A s \in DOMAIN chatEvents : chatEvents[s] \in Seq(0..OldestPost)
    /\ \A s \in DOMAIN reportEvents : reportEvents[s] \in Seq(0..OldestReport)
    /\ reports \in Seq([reporter : Session, target : Session,
                        room : RoomId, reason : Reason])
    /\ Len(reports) <= MaxReports

\* A room keeps an unbroken tail of its messages, whoever posts them and in
\* whatever order their threads read the clock: a reader that polls with the
\* last id it saw gets every message still kept that it has not seen.
MessageIdsUnbroken ==
    \A r \in RoomId :
        /\ Len(chat[r].log) <= MaxMessages
        /\ \A i \in DOMAIN chat[r].log :
              chat[r].log[i].id = chat[r].next - 1 - Len(chat[r].log) + i

\* A message only enters a room by a request of a session that is a member of
\* it when the message is stored, not merely when the request authenticated.
OnlyMembersPost ==
    [][\A r \in RoomId :
         chat'[r].next > chat[r].next =>
            LET s == chat'[r].log[Len(chat'[r].log)].sender IN
              /\ ActsAs(s)
              /\ r \in DOMAIN rooms
              /\ rooms[r].left > 0
              /\ s = rooms[r].owner \/ SeatTime(r, s) > 0]_chatVars

\* A recorded report hides its target from the reporter: the reporter neither
\* finds the target's rooms nor reads the target's messages while its session
\* lasts.
ReportHides ==
    \A p \in Entries(reports) :
        p.reporter \in DOMAIN sessions =>
            /\ \A r \in {x \in DOMAIN rooms : rooms[x].owner = p.target} :
                  ~Listed(p.reporter, r) /\ ~JoinGranted(p.reporter, r)
            /\ \A r \in RoomId : \A m \in Readable(p.reporter, r, 0) :
                  m.sender # p.target

\* A report that is refused hides nobody: whoever is hidden from a session in
\* a step, other than by its own block, is on record as reported by it then,
\* in whatever order the reports of its threads use up its limit.
HiddenOnlyOnRecord ==
    [][\A s \in Session : \A t \in (blocked'[s] \ blocked[s]) \ Blockable :
         \E p \in Entries(reports') : p.reporter = s /\ p.target = t]_chatVars
=============================================================================
