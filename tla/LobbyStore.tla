----------------------------- MODULE LobbyStore -----------------------------
(***************************************************************************)
(* The public-lobby directory of services/lobby/server.py: sessions, the   *)
(* rooms they host, and the seats other sessions reserve in those rooms.   *)
(*                                                                         *)
(* Every request runs in a thread of its own.  It first authenticates      *)
(* under the store lock, gives the lock up, and takes it again for the     *)
(* operation, so other requests and the clock may move in between; an      *)
(* operation acts on the Session object it got from authentication, which  *)
(* may have been purged since.  create_session and create_room also read   *)
(* the clock before they wait for the lock.  Each action below is one      *)
(* stretch of code under one acquisition of the lock.                      *)
(*                                                                         *)
(* A deadline of the code is kept as the time left until it: expires_at,   *)
(* last_heartbeat + ROOM_TTL_SECONDS and a reservation's expiry, all minus *)
(* now, and 0 once they are reached.  The code compares deadlines only     *)
(* with the clock, so this loses nothing, and no clock has to be bounded.  *)
(***************************************************************************)
EXTENDS Naturals, FiniteSets

CONSTANTS
    Session,         \* session ids (uuid4); an id is used again only once nothing refers to it
    NoSession,       \* the session of a worker that has none
    RoomId,          \* room ids (uuid4), likewise
    NoRoom,          \* the room of a worker that has drawn none
    Worker,          \* request threads: MAX_CONCURRENT_REQUESTS worker slots
    Product,         \* product ids
    Release,         \* the other five compatibility fields, taken together
    SessionTTL,      \* SESSION_TTL_SECONDS
    RoomTTL,         \* ROOM_TTL_SECONDS
    ReservationTTL,  \* RESERVATION_TTL_SECONDS
    MaxSessions,     \* MAX_SESSIONS
    MaxRooms,        \* MAX_ROOMS
    Capacity,        \* MIN_ROOM_CAPACITY .. MAX_ROOM_CAPACITY
    Blockable,       \* bound: the sessions that clients hide
    MaxDelay         \* bound: how old a clock reading may be when its request gets the lock

ASSUME StoreAssumption ==
    /\ IsFiniteSet(Session)
    /\ NoSession \notin Session /\ NoRoom \notin RoomId
    /\ SessionTTL \in Nat /\ RoomTTL \in Nat /\ ReservationTTL \in Nat
    /\ MaxSessions \in Nat /\ MaxRooms \in Nat
    /\ Blockable \subseteq Session
    /\ Capacity \subseteq Nat /\ \A c \in Capacity : c >= 2
    /\ MaxDelay \in Nat /\ MaxDelay <= SessionTTL /\ MaxDelay <= RoomTTL

VARIABLES
    sessions,  \* _sessions: live session id |-> time left
    profile,   \* the compatibility fields of each Session object
    blocked,   \* Session.blocked_sessions of each Session object
    rooms,     \* _rooms: room id |-> Room
    worker     \* what each request thread is about to do

vars == <<sessions, profile, blocked, rooms, worker>>

RoomState == {"waiting", "in_game"}
Profile == [product : Product, release : Release]

\* A dict of the code: a function on some of the ids.
IsDict(f, Id, Value) == DOMAIN f \subseteq Id /\ f \in [DOMAIN f -> Value]

IsRoom(x) ==
    /\ x \in [owner : Session, capacity : Capacity, state : RoomState, left : Nat,
             reservations : {x.reservations}]
    /\ IsDict(x.reservations, Session, Nat)

\* A request thread is idle (no request), has read the clock for a new
\* session, is authenticated and about to run its operation, or has read the
\* clock for a new room or a chat message.
Stamped == {"registering", "publishing", "sending"}
WorkerState == [pc : {"idle", "authed"} \cup Stamped,
                session : Session \cup {NoSession},
                room : RoomId \cup {NoRoom},
                age : 0..MaxDelay]

-----------------------------------------------------------------------------
(* Expiry: what _purge leaves of the store at this moment.                 *)

LiveSessions == {s \in DOMAIN sessions : sessions[s] > 0}

PurgedSessions == [s \in LiveSessions |-> sessions[s]]

KeptSeatsOffByOne(r) ==  \* mutant: a lease ends one tick early
    {s \in DOMAIN rooms[r].reservations :
        rooms[r].reservations[s] > 1 /\ s \in LiveSessions}

KeptSeatsForever(r) ==  \* mutant: the reservation's own expiry is not tested
    DOMAIN rooms[r].reservations \cap LiveSessions

KeptSeats(r) ==
    {s \in DOMAIN rooms[r].reservations :
        rooms[r].reservations[s] > 0 /\ s \in LiveSessions}

LiveRooms ==
    {r \in DOMAIN rooms : rooms[r].owner \in LiveSessions /\ rooms[r].left > 0}

PurgedRoom(r) ==
    [rooms[r] EXCEPT !.reservations = [s \in KeptSeats(r) |-> @[s]]]

PurgedRooms == [r \in LiveRooms |-> PurgedRoom(r)]

Players(r) == 1 + Cardinality(KeptSeats(r))

Compatible(host, guest) == profile[host] = profile[guest]

-----------------------------------------------------------------------------
(* The views the store serves: room_list for a guest, one room at a time.  *)

Listed(guest, r) ==
    /\ r \in LiveRooms
    /\ rooms[r].owner \notin blocked[guest]
    /\ profile[rooms[r].owner].product = profile[guest].product

JoinableFull(guest, r) ==  \* mutant: a full room is shown as joinable
    /\ Listed(guest, r)
    /\ Compatible(rooms[r].owner, guest)
    /\ rooms[r].state = "waiting"

Joinable(guest, r) ==
    /\ Listed(guest, r)
    /\ Compatible(rooms[r].owner, guest)
    /\ rooms[r].state = "waiting"
    /\ rooms[r].capacity > Players(r)

-----------------------------------------------------------------------------
(* Request threads.                                                        *)

Hold(w, pc, s, r) ==
    worker' = [worker EXCEPT ![w] = [pc |-> pc, session |-> s, room |-> r, age |-> 0]]

Finish(w) == Hold(w, "idle", NoSession, NoRoom)

\* dict[s] = ttl: a deadline set, or set again.
Lease(dict, s, ttl) ==
    [x \in DOMAIN dict \cup {s} |-> IF x = s THEN ttl ELSE dict[x]]

\* A session id nothing refers to, as a new uuid4 is.  Only blocked_sessions
\* may still hold it, from a session long gone that had the same id here.
FreshSession(s) ==
    /\ s \notin DOMAIN sessions
    /\ \A r \in DOMAIN rooms : /\ rooms[r].owner # s
                               /\ s \notin DOMAIN rooms[r].reservations
    /\ \A w \in Worker : worker[w].session # s

AuthenticateUnpurged(w, s) ==  \* mutant: no purge
    /\ worker[w].pc = "idle"
    /\ IF s \in LiveSessions THEN Hold(w, "authed", s, NoRoom) ELSE UNCHANGED worker
    /\ UNCHANGED <<sessions, profile, blocked, rooms>>

\* authenticate: a token of a live session is accepted; any other answers 401.
\* Both purge first.
Authenticate(w, s) ==
    /\ worker[w].pc = "idle"
    /\ sessions' = PurgedSessions
    /\ rooms' = PurgedRooms
    /\ IF s \in LiveSessions THEN Hold(w, "authed", s, NoRoom) ELSE UNCHANGED worker
    /\ UNCHANGED <<profile, blocked>>

\* create_session up to the lock: the id is drawn, and expires_at computed
\* from this clock.
ReadClockForSession(w, s) ==
    /\ worker[w].pc = "idle"
    /\ FreshSession(s)
    /\ Hold(w, "registering", s, NoRoom)
    /\ UNCHANGED <<sessions, profile, blocked, rooms>>

\* create_session under the lock; SESSION_CAPACITY when the store is full.
CreateSession(w, p) ==
    LET s == worker[w].session IN
    /\ worker[w].pc = "registering"
    /\ IF Cardinality(LiveSessions) < MaxSessions
         THEN /\ sessions' = Lease(PurgedSessions, s, SessionTTL - worker[w].age)
              /\ profile' = [profile EXCEPT ![s] = p]
              /\ blocked' = [x \in Session |-> IF x = s THEN {} ELSE blocked[x] \ {s}]
         ELSE /\ sessions' = PurgedSessions
              /\ UNCHANGED <<profile, blocked>>
    /\ rooms' = PurgedRooms
    /\ Finish(w)

-----------------------------------------------------------------------------
(* Operations on rooms.                                                    *)

\* A room id no room has, as a new uuid4 is.
FreshRoom(r) == r \notin DOMAIN rooms /\ \A w \in Worker : worker[w].room # r

\* create_room up to the lock: the id is drawn, and created_at and
\* last_heartbeat are this clock.
ReadClockForRoom(w, r) ==
    /\ worker[w].pc = "authed"
    /\ FreshRoom(r)
    /\ Hold(w, "publishing", worker[w].session, r)
    /\ UNCHANGED <<sessions, profile, blocked, rooms>>

NewRoom(s, c, age) ==
    [owner |-> s, capacity |-> c, state |-> "waiting", left |-> RoomTTL - age,
     reservations |-> [x \in {} |-> 0]]

NoRoomsOf(s) == {}  \* mutant: the owner's former room is not looked for

RoomsOf(s) == {r \in LiveRooms : rooms[r].owner = s}

CreateRoomEvictsFirst(w, c) ==  \* mutant: the former room goes also when LOBBY_FULL is answered
    LET s == worker[w].session
        r == worker[w].room
    IN
    /\ worker[w].pc = "publishing"
    /\ sessions' = PurgedSessions
    /\ rooms' = [x \in (LiveRooms \ RoomsOf(s))
                       \cup IF Cardinality(LiveRooms) < MaxRooms THEN {r} ELSE {} |->
                   IF x = r THEN NewRoom(s, c, worker[w].age) ELSE PurgedRoom(x)]
    /\ Finish(w)
    /\ UNCHANGED <<profile, blocked>>

\* create_room under the lock.  LOBBY_FULL counts the rooms before the
\* owner's former room is removed; the session is not looked up again.
CreateRoom(w, c) ==
    LET s == worker[w].session
        r == worker[w].room
    IN
    /\ worker[w].pc = "publishing"
    /\ sessions' = PurgedSessions
    /\ rooms' = IF Cardinality(LiveRooms) < MaxRooms
                  THEN [x \in (LiveRooms \ RoomsOf(s)) \cup {r} |->
                          IF x = r THEN NewRoom(s, c, worker[w].age)
                                   ELSE PurgedRoom(x)]
                  ELSE PurgedRooms
    /\ Finish(w)
    /\ UNCHANGED <<profile, blocked>>

Exists(s, r) == r \in DOMAIN rooms  \* mutant: _room where _owned_room is needed

\* _owned_room
Owned(s, r) == r \in DOMAIN rooms /\ rooms[r].owner = s

\* heartbeat: the owner renews the room and declares its state.
Heartbeat(w, r, state) ==
    /\ worker[w].pc = "authed"
    /\ sessions' = PurgedSessions
    /\ rooms' = IF r \in LiveRooms /\ Owned(worker[w].session, r)
                  THEN [PurgedRooms EXCEPT ![r].left = RoomTTL, ![r].state = state]
                  ELSE PurgedRooms
    /\ Finish(w)
    /\ UNCHANGED <<profile, blocked>>

JoinGrantedOverfull(s, r) ==  \* mutant: <= where the code has <
    /\ r \in LiveRooms
    /\ rooms[r].owner \notin blocked[s]
    /\ Compatible(rooms[r].owner, s)
    /\ rooms[r].state = "waiting"
    /\ s = rooms[r].owner \/ s \in KeptSeats(r) \/ Players(r) <= rooms[r].capacity

JoinGrantedInGame(s, r) ==  \* mutant: the room's state is not tested
    /\ r \in LiveRooms
    /\ rooms[r].owner \notin blocked[s]
    /\ Compatible(rooms[r].owner, s)
    /\ s = rooms[r].owner \/ s \in KeptSeats(r) \/ Players(r) < rooms[r].capacity

JoinGranted(s, r) ==
    /\ r \in LiveRooms
    /\ rooms[r].owner \notin blocked[s]
    /\ Compatible(rooms[r].owner, s)
    /\ rooms[r].state = "waiting"
    /\ \/ s = rooms[r].owner
       \/ s \in KeptSeats(r)
       \/ Players(r) < rooms[r].capacity

TakesSeat(s, r) == JoinGranted(s, r) /\ s # rooms[r].owner

\* join_room: the owner only gets the code back; anyone else gets a seat, or
\* the seat they have for ReservationTTL from now, even if it had longer.
JoinRoom(w, r) ==
    LET s == worker[w].session IN
    /\ worker[w].pc = "authed"
    /\ sessions' = PurgedSessions
    /\ rooms' = IF TakesSeat(s, r)
                  THEN [PurgedRooms EXCEPT
                          ![r].reservations = Lease(@, s, ReservationTTL)]
                  ELSE PurgedRooms
    /\ Finish(w)
    /\ UNCHANGED <<profile, blocked>>

HoldsSeatUnpurged(s, r) ==  \* mutant: tested without a purge before it
    r \in LiveRooms /\ s \in DOMAIN rooms[r].reservations

\* Membership after the purge, as the operations reserved to members test it.
HoldsSeat(s, r) == r \in LiveRooms /\ s \in KeptSeats(r)

\* heartbeat_member: a seated member renews the seat.
HeartbeatMember(w, r) ==
    LET s == worker[w].session IN
    /\ worker[w].pc = "authed"
    /\ sessions' = PurgedSessions
    /\ rooms' = IF HoldsSeat(s, r) /\ s # rooms[r].owner
                  THEN [PurgedRooms EXCEPT ![r].reservations = Lease(@, s, RoomTTL)]
                  ELSE PurgedRooms
    /\ Finish(w)
    /\ UNCHANGED <<profile, blocked>>

\* leave_room: no purge.
LeaveRoom(w, r) ==
    LET s == worker[w].session IN
    /\ worker[w].pc = "authed"
    /\ rooms' = IF r \in DOMAIN rooms
                  THEN [rooms EXCEPT ![r].reservations =
                          [x \in DOMAIN @ \ {s} |-> @[x]]]
                  ELSE rooms
    /\ Finish(w)
    /\ UNCHANGED <<sessions, profile, blocked>>

\* delete_room: no purge.
DeleteRoom(w, r) ==
    /\ worker[w].pc = "authed"
    /\ rooms' = IF Owned(worker[w].session, r)
                  THEN [x \in DOMAIN rooms \ {r} |-> rooms[x]]
                  ELSE rooms
    /\ Finish(w)
    /\ UNCHANGED <<sessions, profile, blocked>>

\* block: no purge, no lookup of the target.
Block(w, target) ==
    LET s == worker[w].session IN
    /\ worker[w].pc = "authed"
    /\ target \in Blockable \ {s}
    /\ blocked' = [blocked EXCEPT ![s] = @ \cup {target}]
    /\ Finish(w)
    /\ UNCHANGED <<sessions, profile, rooms>>

\* activity, room_list, and messages of a room: a purge and an answer.
Browse(w) ==
    /\ worker[w].pc = "authed"
    /\ sessions' = PurgedSessions
    /\ rooms' = PurgedRooms
    /\ Finish(w)
    /\ UNCHANGED <<profile, blocked>>

-----------------------------------------------------------------------------
(* The clock.                                                              *)

SoonerUnclipped(t) == t - 1  \* mutant: a deadline reached goes on

Sooner(t) == IF t > 0 THEN t - 1 ELSE 0

Tick ==
    /\ \A w \in Worker : worker[w].pc \in Stamped => worker[w].age < MaxDelay
    /\ sessions' = [s \in DOMAIN sessions |-> Sooner(sessions[s])]
    /\ rooms' = [r \in DOMAIN rooms |->
                   [rooms[r] EXCEPT
                      !.left = Sooner(@),
                      !.reservations = [s \in DOMAIN @ |-> Sooner(@[s])]]]
    /\ worker' = [w \in Worker |->
                    IF worker[w].pc \in Stamped
                      THEN [worker[w] EXCEPT !.age = @ + 1]
                      ELSE worker[w]]
    /\ UNCHANGED <<profile, blocked>>

-----------------------------------------------------------------------------

Init ==
    /\ sessions = [s \in {} |-> 0]
    /\ \E p \in Profile : profile = [s \in Session |-> p]
    /\ blocked = [s \in Session |-> {}]
    /\ rooms = [r \in {} |-> 0]
    /\ worker = [w \in Worker |-> [pc |-> "idle", session |-> NoSession,
                              room |-> NoRoom, age |-> 0]]

ClientRequest(w) ==
    \/ \E s \in Session : ReadClockForSession(w, s)
    \/ \E p \in Profile : CreateSession(w, p)
    \/ \E s \in Session : Authenticate(w, s)
    \/ \E r \in RoomId : ReadClockForRoom(w, r)
    \/ \E c \in Capacity : CreateRoom(w, c)
    \/ \E r \in RoomId, state \in RoomState : Heartbeat(w, r, state)
    \/ \E r \in RoomId : JoinRoom(w, r)
    \/ \E r \in RoomId : HeartbeatMember(w, r)
    \/ \E r \in RoomId : LeaveRoom(w, r)
    \/ \E r \in RoomId : DeleteRoom(w, r)
    \/ \E t \in Session : Block(w, t)
    \/ Browse(w)

Next == Tick \/ \E w \in Worker : ClientRequest(w)

Spec == Init /\ [][Next]_vars
-----------------------------------------------------------------------------
(* Properties.                                                             *)

\* Every variable keeps its type: the dicts map ids the store knows to
\* values of the fields' types, and a worker holds at most one session.
TypeOK ==
    /\ IsDict(sessions, Session, Nat)
    /\ profile \in [Session -> Profile]
    /\ blocked \in [Session -> SUBSET Session]
    /\ DOMAIN rooms \subseteq RoomId
    /\ \A r \in DOMAIN rooms : IsRoom(rooms[r])
    /\ worker \in [Worker -> WorkerState]
    /\ \A w \in Worker :
         /\ worker[w].pc # "idle" => worker[w].session \in Session
         /\ worker[w].pc = "publishing" => worker[w].room \in RoomId

\* A room never has more people than its capacity, however joins, expiries
\* and renewals of several guests interleave: join_room's test and its
\* reservation are under one acquisition of the lock, and no other operation
\* adds a reservation.
SeatsWithinCapacity ==
    \A r \in DOMAIN rooms :
        Cardinality(DOMAIN rooms[r].reservations) < rooms[r].capacity

\* A session hosts at most one room, even when its requests to publish run in
\* several threads with clocks read earlier: create_room removes the former.
OneRoomPerOwner ==
    \A r1, r2 \in DOMAIN rooms : rooms[r1].owner = rooms[r2].owner => r1 = r2

\* The owner is counted once: it never also takes a seat of its own room.
OwnerHoldsNoSeat ==
    \A r \in DOMAIN rooms : rooms[r].owner \notin DOMAIN rooms[r].reservations

\* What room_list advertises is what join_room grants at that moment: a room
\* shown as joinable admits the guest, and a guest without a seat who would be
\* admitted to another's room sees it as joinable.
ListingAgreesWithJoin ==
    \A s \in LiveSessions, r \in DOMAIN rooms :
        /\ Joinable(s, r) => JoinGranted(s, r)
        /\ JoinGranted(s, r) /\ s # rooms[r].owner /\ ~HoldsSeat(s, r) =>
              Joinable(s, r)

\* Some request thread authenticated as s finishes its operation in this step.
ActsAs(s) ==
    \E w \in Worker : /\ worker[w].session = s
                      /\ worker[w].pc # "idle"
                      /\ worker'[w].pc = "idle"

\* A room leaves the directory only when its lease or its owner's session has
\* run out, or by a request of its owner (delete_room, or create_room which
\* replaces it): no other session can close it.
RoomLossJustified ==
    [][\A r \in DOMAIN rooms :
         r \notin DOMAIN rooms' =>
            r \notin LiveRooms \/ ActsAs(rooms[r].owner)]_vars

\* The owner of room r has another one now; a request of the owner that was
\* authenticated, and had no new room under way, is done.
Replaced(r) == \E x \in DOMAIN rooms' : rooms'[x].owner = rooms[r].owner
OwnerRequestDone(r) ==
    \E w \in Worker : /\ worker[w].session = rooms[r].owner
                      /\ worker[w].pc = "authed"
                      /\ worker'[w].pc = "idle"

\* A publish that is refused costs its owner nothing: create_room tests
\* LOBBY_FULL before it removes the former room, and removes it in the step
\* that puts the new one in its place.  So a live room goes only when the
\* owner deletes it or has the next one in the directory, whatever filled the
\* directory while the request waited for the lock.
RefusalKeepsRoom ==
    [][\A r \in LiveRooms :
         r \notin DOMAIN rooms' => Replaced(r) \/ OwnerRequestDone(r)]_vars

\* A member loses a seat only when the seat's lease or the member's session
\* has run out, by a request of its own, or with the room: the host and other
\* guests cannot take the seat, and a full room does not push anyone out.
SeatLossJustified ==
    [][\A r \in DOMAIN rooms \cap DOMAIN rooms' :
         \A s \in DOMAIN rooms[r].reservations \ DOMAIN rooms'[r].reservations :
            \/ rooms[r].reservations[s] = 0
            \/ s \notin LiveSessions
            \/ ActsAs(s)]_vars

\* Only the owner's requests change a room's state or prolong its lease.
OwnerControlsRoom ==
    [][\A r \in DOMAIN rooms \cap DOMAIN rooms' :
         \/ rooms'[r].state # rooms[r].state
         \/ rooms'[r].left > rooms[r].left
         => ActsAs(rooms[r].owner)]_vars

\* The time a session has left in its seat of a room.
SeatTime(r, s) ==
    IF r \in DOMAIN rooms /\ s \in DOMAIN rooms[r].reservations
      THEN rooms[r].reservations[s] ELSE 0

\* A lease that has run out is never renewed, not even by a heartbeat that
\* arrives before anything purged it: a room's lease grows only while the room
\* and its owner's session are alive, a seat's only in such a room, and in one
\* that is in a game only while the seat and its holder's session are alive.
LapsedStaysLapsed ==
    [][/\ \A r \in DOMAIN rooms \cap DOMAIN rooms' :
            rooms'[r].left > rooms[r].left => r \in LiveRooms
       /\ \A r \in RoomId, s \in Session :
            SeatTime(r, s)' > SeatTime(r, s) =>
               /\ r \in LiveRooms
               /\ \/ rooms[r].state = "waiting"
                  \/ SeatTime(r, s) > 0 /\ s \in LiveSessions]_vars
=============================================================================
