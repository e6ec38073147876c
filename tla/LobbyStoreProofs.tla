-------------------------- MODULE LobbyStoreProofs --------------------------
(***************************************************************************)
(* Theorems of LobbyStore, for any number of sessions, rooms and request   *)
(* threads, and any lengths of the leases: what every state of the store   *)
(* keeps, and, step by step, who can close a room, empty a seat or prolong *)
(* a lease.                                                                *)
(***************************************************************************)
EXTENDS LobbyStore, FiniteSetTheorems, TLAPS

-----------------------------------------------------------------------------
(* Dictionaries and rooms.                                                 *)

\* Setting one deadline of a dict of leases leaves a dict of leases.
LEMMA LeaseType ==
    ASSUME NEW d, IsDict(d, Session, Nat), NEW s \in Session, NEW ttl \in Nat
    PROVE  /\ IsDict(Lease(d, s, ttl), Session, Nat)
           /\ DOMAIN Lease(d, s, ttl) = DOMAIN d \cup {s}
  BY DEF IsDict, Lease

\* So does dropping entries.
LEMMA PartType ==
    ASSUME NEW d, IsDict(d, Session, Nat), NEW S \in SUBSET DOMAIN d
    PROVE  IsDict([s \in S |-> d[s]], Session, Nat)
  BY DEF IsDict

Reseated(x, d) == [x EXCEPT !.reservations = d]
Renewed(x, t, state) == [x EXCEPT !.left = t, !.state = state]

\* A room with other reservations is a room, and its other fields are kept.
LEMMA ReseatedRoom ==
    ASSUME NEW x, IsRoom(x), NEW d, IsDict(d, Session, Nat)
    PROVE  LET y == Reseated(x, d) IN
           /\ IsRoom(y)
           /\ y.reservations = d
           /\ y.owner = x.owner /\ y.capacity = x.capacity
           /\ y.state = x.state /\ y.left = x.left
  <1> DEFINE y == [x EXCEPT !.reservations = d]
  <1>1. x \in [owner : Session, capacity : Capacity, state : RoomState, left : Nat,
               reservations : {x.reservations}]
    BY DEF IsRoom
  <1>2. y = [owner |-> x.owner, capacity |-> x.capacity, state |-> x.state,
             left |-> x.left, reservations |-> d]
    BY <1>1
  <1>3. y \in [owner : Session, capacity : Capacity, state : RoomState, left : Nat,
               reservations : {y.reservations}]
    BY <1>1, <1>2
  <1>. QED
    BY <1>2, <1>3 DEF IsRoom, Reseated

\* So is a room whose owner renewed it.
LEMMA RenewedRoom ==
    ASSUME NEW x, IsRoom(x), NEW t \in Nat, NEW state \in RoomState
    PROVE  LET y == Renewed(x, t, state) IN
           /\ IsRoom(y)
           /\ y.reservations = x.reservations
           /\ y.owner = x.owner /\ y.capacity = x.capacity
  <1> DEFINE y == [x EXCEPT !.left = t, !.state = state]
  <1>1. x \in [owner : Session, capacity : Capacity, state : RoomState, left : Nat,
               reservations : {x.reservations}]
    BY DEF IsRoom
  <1>2. y = [owner |-> x.owner, capacity |-> x.capacity, state |-> state,
             left |-> t, reservations |-> x.reservations]
    <2>1. /\ y \in [owner : Session, capacity : Capacity, state : RoomState, left : Nat,
                    reservations : {x.reservations}]
          /\ y.left = t /\ y.state = state
          /\ y.owner = x.owner /\ y.capacity = x.capacity
          /\ y.reservations = x.reservations
      BY <1>1
    <2> HIDE DEF y
    <2>. QED
      BY <2>1
  <1>3. y \in [owner : Session, capacity : Capacity, state : RoomState, left : Nat,
               reservations : {y.reservations}]
    BY <1>1, <1>2
  <1>. QED
    BY <1>2, <1>3 DEF IsRoom, Renewed

\* A purge keeps some sessions and some rooms, and of those rooms everything
\* but reservations.
LEMMA PurgeKeepsTypes ==
    ASSUME TypeOK
    PROVE  /\ IsDict(PurgedSessions, Session, Nat)
           /\ LiveRooms \subseteq DOMAIN rooms
           /\ DOMAIN PurgedRooms = LiveRooms
           /\ \A r \in LiveRooms :
                /\ PurgedRooms[r] = PurgedRoom(r)
                /\ IsRoom(PurgedRoom(r))
                /\ PurgedRoom(r).owner = rooms[r].owner
                /\ PurgedRoom(r).capacity = rooms[r].capacity
                /\ PurgedRoom(r).state = rooms[r].state
                /\ PurgedRoom(r).left = rooms[r].left
                /\ DOMAIN PurgedRoom(r).reservations = KeptSeats(r)
                /\ KeptSeats(r) \subseteq DOMAIN rooms[r].reservations
  <1>1. IsDict(PurgedSessions, Session, Nat)
    BY DEF TypeOK, IsDict, PurgedSessions, LiveSessions
  <1>2. LiveRooms \subseteq DOMAIN rooms /\ DOMAIN PurgedRooms = LiveRooms
    BY DEF LiveRooms, PurgedRooms
  <1>3. ASSUME NEW r \in LiveRooms
        PROVE  /\ PurgedRooms[r] = PurgedRoom(r)
               /\ IsRoom(PurgedRoom(r))
               /\ PurgedRoom(r).owner = rooms[r].owner
               /\ PurgedRoom(r).capacity = rooms[r].capacity
               /\ PurgedRoom(r).state = rooms[r].state
               /\ PurgedRoom(r).left = rooms[r].left
               /\ DOMAIN PurgedRoom(r).reservations = KeptSeats(r)
               /\ KeptSeats(r) \subseteq DOMAIN rooms[r].reservations
    <2> DEFINE kept == [s \in KeptSeats(r) |-> rooms[r].reservations[s]]
    <2>1. IsRoom(rooms[r]) /\ IsDict(rooms[r].reservations, Session, Nat)
      BY <1>2 DEF TypeOK, IsRoom
    <2>2. KeptSeats(r) \subseteq DOMAIN rooms[r].reservations
      BY DEF KeptSeats
    <2>3. IsDict(kept, Session, Nat)
      BY <2>1, <2>2, PartType
    <2>4. PurgedRoom(r) = Reseated(rooms[r], kept)
      BY DEF PurgedRoom, Reseated
    <2>5. PurgedRooms[r] = PurgedRoom(r)
      BY DEF PurgedRooms
    <2> HIDE DEF kept
    <2>6. DOMAIN kept = KeptSeats(r)
      BY DEF kept
    <2>. QED
      BY <2>1, <2>2, <2>3, <2>4, <2>5, <2>6, ReseatedRoom
  <1>. QED
    BY <1>1, <1>2, <1>3

-----------------------------------------------------------------------------
(* What a step does to the rooms: each room after it is one of before that *)
(* has at most lost seats, or has just been joined, or is newly published. *)

KeptRoom(x) ==
    /\ x \in DOMAIN rooms
    /\ rooms'[x].owner = rooms[x].owner
    /\ rooms'[x].capacity = rooms[x].capacity
    /\ DOMAIN rooms'[x].reservations \subseteq DOMAIN rooms[x].reservations

JoinedRoom(x) ==
    /\ x \in DOMAIN rooms
    /\ rooms'[x].owner = rooms[x].owner
    /\ rooms'[x].capacity = rooms[x].capacity
    /\ \E s \in Session : /\ TakesSeat(s, x)
                          /\ DOMAIN rooms'[x].reservations = KeptSeats(x) \cup {s}

PublishedRoom(x) ==
    /\ DOMAIN rooms'[x].reservations = {}
    /\ \A y \in DOMAIN rooms' \ {x} :
          rooms'[y].owner # rooms'[x].owner

RoomsMove ==
    /\ DOMAIN rooms' \subseteq RoomId
    /\ \A x \in DOMAIN rooms' :
         /\ IsRoom(rooms'[x])
         /\ KeptRoom(x) \/ JoinedRoom(x) \/ PublishedRoom(x)

\* A step that leaves the rooms alone, or only purges them.
LEMMA IdleRooms ==
    ASSUME TypeOK, rooms' = rooms \/ rooms' = PurgedRooms
    PROVE  RoomsMove
  <1>1. CASE rooms' = rooms
    BY <1>1 DEF TypeOK, RoomsMove, KeptRoom
  <1>2. CASE rooms' = PurgedRooms
    <2>1. ASSUME NEW x \in DOMAIN rooms'
          PROVE  IsRoom(rooms'[x]) /\ KeptRoom(x)
      BY <1>2, <2>1, PurgeKeepsTypes DEF KeptRoom
    <2>2. DOMAIN rooms' \subseteq RoomId
      BY <1>2, PurgeKeepsTypes DEF TypeOK
    <2>. QED
      BY <2>1, <2>2 DEF RoomsMove
  <1>. QED
    BY <1>1, <1>2

\* create_room
LEMMA CreateRoomMoves ==
    ASSUME TypeOK, NEW w \in Worker, NEW c \in Capacity, CreateRoom(w, c)
    PROVE  RoomsMove
  <1> DEFINE s == worker[w].session
             r == worker[w].room
             new == NewRoom(s, c, worker[w].age)
  <1>1. /\ s \in Session /\ r \in RoomId
        /\ worker[w].age \in Nat /\ worker[w].age <= MaxDelay
    BY DEF CreateRoom, TypeOK, WorkerState, StoreAssumption
  <1>2. IsRoom(new) /\ new.owner = s /\ DOMAIN new.reservations = {}
    BY <1>1, StoreAssumption DEF NewRoom, IsRoom, IsDict, RoomState
  <1>3. CASE Cardinality(LiveRooms) < MaxRooms
    <2>1. rooms' = [x \in (LiveRooms \ RoomsOf(s)) \cup {r} |->
                      IF x = r THEN new ELSE PurgedRoom(x)]
      BY <1>3 DEF CreateRoom
    <2> HIDE DEF new, r, s
    <2>2. rooms'[r] = new /\ r \in DOMAIN rooms'
      BY <2>1
    <2>3. ASSUME NEW x \in DOMAIN rooms', x # r
          PROVE  /\ rooms'[x] = PurgedRoom(x)
                 /\ x \in LiveRooms /\ rooms[x].owner # s
      BY <2>1, <2>3 DEF RoomsOf
    <2>4. ASSUME NEW x \in DOMAIN rooms', x # r
          PROVE  IsRoom(rooms'[x]) /\ KeptRoom(x) /\ rooms'[x].owner # s
      BY <2>3, <2>4, PurgeKeepsTypes DEF KeptRoom
    <2>5. PublishedRoom(r)
      BY <1>2, <2>2, <2>4 DEF PublishedRoom
    <2>6. DOMAIN rooms' \subseteq RoomId
      BY <1>1, <2>1, PurgeKeepsTypes DEF TypeOK
    <2>. QED
      BY <1>2, <2>2, <2>4, <2>5, <2>6 DEF RoomsMove
  <1>4. CASE ~(Cardinality(LiveRooms) < MaxRooms)
    BY <1>4, IdleRooms DEF CreateRoom
  <1>. QED
    BY <1>3, <1>4

\* An operation that purges, then changes one live room into y.
LEMMA OneRoomMoves ==
    ASSUME TypeOK, NEW r \in LiveRooms, NEW y,
           rooms' = [PurgedRooms EXCEPT ![r] = y],
           IsRoom(y), y.owner = rooms[r].owner, y.capacity = rooms[r].capacity,
           \/ DOMAIN y.reservations = KeptSeats(r)
           \/ \E s \in Session : /\ TakesSeat(s, r)
                                 /\ DOMAIN y.reservations = KeptSeats(r) \cup {s}
    PROVE  RoomsMove
  <1>1. /\ DOMAIN rooms' = LiveRooms
        /\ rooms'[r] = y
        /\ \A x \in LiveRooms \ {r} : rooms'[x] = PurgedRoom(x)
    BY PurgeKeepsTypes
  <1>2. ASSUME NEW x \in LiveRooms, x # r
        PROVE  IsRoom(rooms'[x]) /\ KeptRoom(x)
    BY <1>1, <1>2, PurgeKeepsTypes DEF KeptRoom
  <1>3. KeptRoom(r) \/ JoinedRoom(r)
    BY <1>1, PurgeKeepsTypes DEF KeptRoom, JoinedRoom
  <1>4. LiveRooms \subseteq RoomId
    BY PurgeKeepsTypes DEF TypeOK
  <1>. QED
    BY <1>1, <1>2, <1>3, <1>4 DEF RoomsMove

\* heartbeat
LEMMA HeartbeatMoves ==
    ASSUME TypeOK, NEW w \in Worker, NEW r \in RoomId, NEW state \in RoomState,
           Heartbeat(w, r, state)
    PROVE  RoomsMove
  <1>1. CASE r \in LiveRooms /\ Owned(worker[w].session, r)
    <2> DEFINE y == Renewed(PurgedRoom(r), RoomTTL, state)
    <2>1. rooms' = [PurgedRooms EXCEPT ![r] = y]
      <3>1. PurgedRooms[r] = PurgedRoom(r)
        BY <1>1, PurgeKeepsTypes
      <3>. QED
        BY <1>1, <3>1 DEF Heartbeat, Renewed
    <2>2. /\ IsRoom(y)
          /\ y.owner = rooms[r].owner /\ y.capacity = rooms[r].capacity
          /\ DOMAIN y.reservations = KeptSeats(r)
      <3>1. /\ IsRoom(PurgedRoom(r))
            /\ PurgedRoom(r).owner = rooms[r].owner
            /\ PurgedRoom(r).capacity = rooms[r].capacity
            /\ DOMAIN PurgedRoom(r).reservations = KeptSeats(r)
        BY <1>1, PurgeKeepsTypes
      <3>2. /\ IsRoom(y)
            /\ y.reservations = PurgedRoom(r).reservations
            /\ y.owner = PurgedRoom(r).owner /\ y.capacity = PurgedRoom(r).capacity
        BY <3>1, RenewedRoom, StoreAssumption
      <3> HIDE DEF y
      <3>. QED
        BY <3>1, <3>2
    <2> HIDE DEF y
    <2>. QED
      BY <1>1, <2>1, <2>2, OneRoomMoves
  <1>2. CASE ~(r \in LiveRooms /\ Owned(worker[w].session, r))
    BY <1>2, IdleRooms DEF Heartbeat
  <1>. QED
    BY <1>1, <1>2

\* A seat of a live room is set to ttl: by join_room or heartbeat_member.
LEMMA LeasedSeat ==
    ASSUME TypeOK, NEW r \in LiveRooms, NEW s \in Session, NEW ttl \in Nat,
           TakesSeat(s, r) \/ s \in KeptSeats(r),
           rooms' = [PurgedRooms EXCEPT ![r].reservations = Lease(@, s, ttl)]
    PROVE  RoomsMove
  <1> DEFINE d == Lease(PurgedRoom(r).reservations, s, ttl)
             y == Reseated(PurgedRoom(r), d)
  <1>1. rooms' = [PurgedRooms EXCEPT ![r] = y]
    <2>1. PurgedRooms[r] = PurgedRoom(r)
      BY PurgeKeepsTypes
    <2>. QED
      BY <2>1 DEF Reseated
  <1>2. IsDict(PurgedRoom(r).reservations, Session, Nat) /\ IsRoom(PurgedRoom(r))
    BY PurgeKeepsTypes DEF IsRoom
  <1>3. IsDict(d, Session, Nat) /\ DOMAIN d = KeptSeats(r) \cup {s}
    <2>1. DOMAIN PurgedRoom(r).reservations = KeptSeats(r)
      BY PurgeKeepsTypes
    <2>2. /\ IsDict(d, Session, Nat)
          /\ DOMAIN d = DOMAIN PurgedRoom(r).reservations \cup {s}
      BY <1>2, LeaseType
    <2>. QED
      BY <2>1, <2>2
  <1> HIDE DEF d
  <1>4. /\ IsRoom(y)
        /\ y.owner = rooms[r].owner /\ y.capacity = rooms[r].capacity
        /\ DOMAIN y.reservations = KeptSeats(r) \cup {s}
    BY <1>2, <1>3, ReseatedRoom, PurgeKeepsTypes
  <1>5. DOMAIN y.reservations = KeptSeats(r) \/ TakesSeat(s, r)
    BY <1>4
  <1> HIDE DEF y
  <1>. QED
    BY <1>1, <1>4, <1>5, OneRoomMoves

\* join_room moves rooms: it purges, or gives the joiner a seat that fits.
LEMMA JoinRoomMoves ==
    ASSUME TypeOK, NEW w \in Worker, NEW r \in RoomId, JoinRoom(w, r)
    PROVE  RoomsMove
  <1> DEFINE s == worker[w].session
  <1>1. s \in Session
    BY DEF JoinRoom, TypeOK
  <1>2. CASE TakesSeat(s, r)
    <2>1. r \in LiveRooms
      BY <1>2 DEF TakesSeat, JoinGranted
    <2>. QED
      BY <1>1, <1>2, <2>1, LeasedSeat, StoreAssumption DEF JoinRoom
  <1>3. CASE ~TakesSeat(s, r)
    BY <1>3, IdleRooms DEF JoinRoom
  <1>. QED
    BY <1>2, <1>3

\* heartbeat_member moves rooms: it purges, or renews a seat held.
LEMMA HeartbeatMemberMoves ==
    ASSUME TypeOK, NEW w \in Worker, NEW r \in RoomId, HeartbeatMember(w, r)
    PROVE  RoomsMove
  <1> DEFINE s == worker[w].session
  <1>1. s \in Session
    BY DEF HeartbeatMember, TypeOK
  <1>2. CASE HoldsSeat(s, r) /\ s # rooms[r].owner
    <2>1. r \in LiveRooms /\ s \in KeptSeats(r)
      BY <1>2 DEF HoldsSeat
    <2>. QED
      BY <1>1, <1>2, <2>1, LeasedSeat, StoreAssumption DEF HeartbeatMember
  <1>3. CASE ~(HoldsSeat(s, r) /\ s # rooms[r].owner)
    BY <1>3, IdleRooms DEF HeartbeatMember
  <1>. QED
    BY <1>2, <1>3

\* leave_room moves rooms: it only takes a reservation away.
LEMMA LeaveRoomMoves ==
    ASSUME TypeOK, NEW w \in Worker, NEW r \in RoomId, LeaveRoom(w, r)
    PROVE  RoomsMove
  <1> DEFINE s == worker[w].session
  <1>1. CASE r \in DOMAIN rooms
    <2> DEFINE d == [x \in DOMAIN rooms[r].reservations \ {s} |->
                       rooms[r].reservations[x]]
               y == Reseated(rooms[r], d)
    <2>1. rooms' = [rooms EXCEPT ![r] = y]
      BY <1>1 DEF LeaveRoom, Reseated
    <2>2. IsRoom(rooms[r]) /\ IsDict(rooms[r].reservations, Session, Nat)
      BY <1>1 DEF TypeOK, IsRoom
    <2>3. /\ IsDict(d, Session, Nat)
          /\ DOMAIN d \subseteq DOMAIN rooms[r].reservations
      BY <2>2, PartType
    <2> HIDE DEF d
    <2>4. /\ IsRoom(y)
          /\ y.owner = rooms[r].owner /\ y.capacity = rooms[r].capacity
          /\ DOMAIN y.reservations \subseteq DOMAIN rooms[r].reservations
      BY <2>2, <2>3, ReseatedRoom
    <2> HIDE DEF y
    <2>5. /\ DOMAIN rooms' = DOMAIN rooms
          /\ rooms'[r] = y
          /\ \A x \in DOMAIN rooms \ {r} : rooms'[x] = rooms[x]
      BY <1>1, <2>1
    <2>. QED
      BY <2>4, <2>5 DEF TypeOK, RoomsMove, KeptRoom
  <1>2. CASE r \notin DOMAIN rooms
    BY <1>2, IdleRooms DEF LeaveRoom
  <1>. QED
    BY <1>1, <1>2

\* delete_room moves rooms: it only takes a room away.
LEMMA DeleteRoomMoves ==
    ASSUME TypeOK, NEW w \in Worker, NEW r \in RoomId, DeleteRoom(w, r)
    PROVE  RoomsMove
  <1>1. CASE Owned(worker[w].session, r)
    BY <1>1 DEF DeleteRoom, TypeOK, RoomsMove, KeptRoom
  <1>2. CASE ~Owned(worker[w].session, r)
    BY <1>2, IdleRooms DEF DeleteRoom
  <1>. QED
    BY <1>1, <1>2

\* The clock moves rooms: it only shortens leases.
LEMMA TickMoves ==
    ASSUME TypeOK, Tick
    PROVE  RoomsMove
  <1>1. DOMAIN rooms' = DOMAIN rooms
    BY DEF Tick
  <1>2. ASSUME NEW x \in DOMAIN rooms
        PROVE  IsRoom(rooms'[x]) /\ KeptRoom(x)
    <2> DEFINE d == [s \in DOMAIN rooms[x].reservations |->
                       Sooner(rooms[x].reservations[s])]
               y == [owner |-> rooms[x].owner, capacity |-> rooms[x].capacity,
                     state |-> rooms[x].state, left |-> Sooner(rooms[x].left),
                     reservations |-> d]
    <2>1. /\ IsDict(rooms[x].reservations, Session, Nat)
          /\ rooms[x] \in [owner : Session, capacity : Capacity, state : RoomState,
                           left : Nat, reservations : {rooms[x].reservations}]
      BY DEF TypeOK, IsRoom
    <2>2. IsDict(d, Session, Nat) /\ DOMAIN d = DOMAIN rooms[x].reservations
      BY <2>1 DEF IsDict, Sooner
    <2>3. rooms'[x] = [rooms[x] EXCEPT !.left = Sooner(@), !.reservations = d]
      BY DEF Tick
    <2> HIDE DEF d
    <2>4. rooms'[x] = y
      BY <2>1, <2>3
    <2>5. Sooner(rooms[x].left) \in Nat
      BY <2>1 DEF Sooner
    <2>6. IsRoom(y)
      BY <2>1, <2>2, <2>5 DEF IsRoom
    <2>. QED
      BY <2>2, <2>4, <2>6 DEF KeptRoom
  <1>. QED
    BY <1>1, <1>2 DEF TypeOK, RoomsMove

\* Every step moves rooms, or leaves them alone.
LEMMA NextMovesRooms ==
    ASSUME TypeOK, [Next]_vars
    PROVE  RoomsMove
  <1>1. CASE Tick
    BY <1>1, TickMoves
  <1>2. ASSUME NEW w \in Worker, ClientRequest(w)
        PROVE  RoomsMove
    <2>1. CASE \E s \in Session : ReadClockForSession(w, s)
      BY <2>1, IdleRooms DEF ReadClockForSession
    <2>2. CASE \E p \in Profile : CreateSession(w, p)
      BY <2>2, IdleRooms DEF CreateSession
    <2>3. CASE \E s \in Session : Authenticate(w, s)
      BY <2>3, IdleRooms DEF Authenticate
    <2>4. CASE \E r \in RoomId : ReadClockForRoom(w, r)
      BY <2>4, IdleRooms DEF ReadClockForRoom
    <2>5. CASE \E c \in Capacity : CreateRoom(w, c)
      BY <2>5, CreateRoomMoves
    <2>6. CASE \E r \in RoomId, state \in RoomState : Heartbeat(w, r, state)
      BY <2>6, HeartbeatMoves
    <2>7. CASE \E r \in RoomId : JoinRoom(w, r)
      BY <2>7, JoinRoomMoves
    <2>8. CASE \E r \in RoomId : HeartbeatMember(w, r)
      BY <2>8, HeartbeatMemberMoves
    <2>9. CASE \E r \in RoomId : LeaveRoom(w, r)
      BY <2>9, LeaveRoomMoves
    <2>10. CASE \E r \in RoomId : DeleteRoom(w, r)
      BY <2>10, DeleteRoomMoves
    <2>11. CASE \E target \in Session : Block(w, target)
      BY <2>11, IdleRooms DEF Block
    <2>12. CASE Browse(w)
      BY <2>12, IdleRooms DEF Browse
    <2>. QED
      BY <1>2, <2>1, <2>2, <2>3, <2>4, <2>5, <2>6, <2>7, <2>8, <2>9, <2>10,
         <2>11, <2>12 DEF ClientRequest
  <1>3. CASE UNCHANGED vars
    BY <1>3, IdleRooms DEF vars
  <1>. QED
    BY <1>1, <1>2, <1>3 DEF Next

-----------------------------------------------------------------------------
(* Type correctness.                                                       *)

WorkersOK ==
    /\ worker \in [Worker -> WorkerState]
    /\ \A w \in Worker :
         /\ worker[w].pc # "idle" => worker[w].session \in Session
         /\ worker[w].pc = "publishing" => worker[w].room \in RoomId

\* A request thread moves on with values of the right types.
LEMMA HoldType ==
    ASSUME WorkersOK, NEW w \in Worker, NEW pc \in {"idle", "authed"} \cup Stamped,
           NEW s \in Session \cup {NoSession}, NEW r \in RoomId \cup {NoRoom},
           pc # "idle" => s \in Session,
           pc = "publishing" => r \in RoomId,
           Hold(w, pc, s, r)
    PROVE  WorkersOK'
  <1> DEFINE new == [pc |-> pc, session |-> s, room |-> r, age |-> 0]
  <1>1. worker' = [worker EXCEPT ![w] = new]
    BY DEF Hold
  <1>2. new \in WorkerState
    BY StoreAssumption DEF WorkerState
  <1>3. new.pc = pc /\ new.session = s /\ new.room = r
    OBVIOUS
  <1> HIDE DEF new
  <1>4. worker' \in [Worker -> WorkerState]
    BY <1>1, <1>2 DEF WorkersOK
  <1>5. ASSUME NEW v \in Worker
        PROVE  /\ worker'[v].pc # "idle" => worker'[v].session \in Session
               /\ worker'[v].pc = "publishing" => worker'[v].room \in RoomId
    BY <1>1, <1>3 DEF WorkersOK
  <1>. QED
    BY <1>4, <1>5 DEF WorkersOK

\* A request thread that finishes is idle, with no session and no room.
LEMMA FinishType ==
    ASSUME WorkersOK, NEW w \in Worker, Finish(w)
    PROVE  WorkersOK'
  BY HoldType DEF Finish

\* The clock keeps the request threads well typed.
LEMMA TickWorkers ==
    ASSUME WorkersOK, Tick
    PROVE  WorkersOK'
  <1>1. ASSUME NEW v \in Worker
        PROVE  /\ worker'[v] \in WorkerState
               /\ worker'[v].pc # "idle" => worker'[v].session \in Session
               /\ worker'[v].pc = "publishing" => worker'[v].room \in RoomId
    <2>1. worker[v] \in WorkerState
      BY DEF WorkersOK
    <2>2. CASE worker[v].pc \in Stamped
      <3>1. worker[v].age + 1 \in 0..MaxDelay
        <4>1. worker[v].age \in 0..MaxDelay
          BY <2>1 DEF WorkerState
        <4>2. worker[v].age < MaxDelay
          BY <2>2 DEF Tick
        <4>. QED
          BY <4>1, <4>2, StoreAssumption
      <3>2. worker'[v] = [worker[v] EXCEPT !.age = worker[v].age + 1]
        BY <2>2 DEF Tick
      <3>3. /\ worker'[v] \in WorkerState
            /\ worker'[v].pc = worker[v].pc /\ worker'[v].session = worker[v].session
            /\ worker'[v].room = worker[v].room
        BY <2>1, <3>1, <3>2 DEF WorkerState
      <3>. QED
        BY <3>3 DEF WorkersOK
    <2>3. CASE worker[v].pc \notin Stamped
      BY <2>1, <2>3 DEF Tick, WorkersOK
    <2>. QED
      BY <2>2, <2>3
  <1>2. worker' \in [Worker -> WorkerState]
    BY <1>1 DEF Tick
  <1>. QED
    BY <1>1, <1>2 DEF WorkersOK

\* Every step keeps the request threads well typed.
LEMMA NextMovesWorkers ==
    ASSUME TypeOK, [Next]_vars
    PROVE  WorkersOK'
  <1>. WorkersOK
    BY DEF TypeOK, WorkersOK
  <1>1. CASE Tick
    BY <1>1, TickWorkers
  <1>2. ASSUME NEW w \in Worker, ClientRequest(w)
        PROVE  WorkersOK'
    <2>1. CASE Finish(w)
      BY <2>1, FinishType
    <2>2. ASSUME NEW s \in Session, ReadClockForSession(w, s)
          PROVE  WorkersOK'
      BY <2>2, HoldType DEF ReadClockForSession, Stamped
    <2>3. ASSUME NEW s \in Session, Authenticate(w, s)
          PROVE  WorkersOK'
      <3>1. CASE s \in LiveSessions
        BY <2>3, <3>1, HoldType DEF Authenticate
      <3>2. CASE s \notin LiveSessions
        BY <2>3, <3>2 DEF Authenticate, WorkersOK
      <3>. QED
        BY <3>1, <3>2
    <2>4. ASSUME NEW r \in RoomId, ReadClockForRoom(w, r)
          PROVE  WorkersOK'
      <3>1. worker[w].session \in Session
        BY <2>4 DEF ReadClockForRoom, WorkersOK
      <3>. QED
        BY <2>4, <3>1, HoldType DEF ReadClockForRoom, Stamped
    <2>. QED
      BY <1>2, <2>1, <2>2, <2>3, <2>4
      DEF ClientRequest, CreateSession, CreateRoom, Heartbeat, JoinRoom,
          HeartbeatMember, LeaveRoom, DeleteRoom, Block, Browse
  <1>3. CASE UNCHANGED vars
    BY <1>3 DEF vars, WorkersOK
  <1>. QED
    BY <1>1, <1>2, <1>3 DEF Next

\* The sessions, their profiles and what they hide.
SessionsOK ==
    /\ IsDict(sessions, Session, Nat)
    /\ profile \in [Session -> Profile]
    /\ blocked \in [Session -> SUBSET Session]

\* create_session keeps sessions, profiles and hidden sets well typed.
LEMMA CreateSessionType ==
    ASSUME TypeOK, NEW w \in Worker, NEW p \in Profile, CreateSession(w, p)
    PROVE  SessionsOK'
  <1> DEFINE s == worker[w].session
             ttl == SessionTTL - worker[w].age
  <1>1. s \in Session /\ worker[w].age \in 0..MaxDelay
    BY DEF TypeOK, WorkerState, CreateSession
  <1>2. ttl \in Nat
    BY <1>1, StoreAssumption
  <1>3. /\ IsDict(PurgedSessions, Session, Nat)
        /\ profile \in [Session -> Profile]
        /\ blocked \in [Session -> SUBSET Session]
    BY PurgeKeepsTypes DEF TypeOK
  <1>4. CASE Cardinality(LiveSessions) < MaxSessions
    <2>1. /\ sessions' = Lease(PurgedSessions, s, ttl)
          /\ profile' = [profile EXCEPT ![s] = p]
          /\ blocked' = [x \in Session |-> IF x = s THEN {} ELSE blocked[x] \ {s}]
      BY <1>4 DEF CreateSession
    <2> HIDE DEF ttl, s
    <2>2. IsDict(sessions', Session, Nat)
      BY <1>1, <1>2, <1>3, <2>1, LeaseType
    <2>. QED
      BY <1>1, <1>3, <2>1, <2>2 DEF SessionsOK
  <1>5. CASE ~(Cardinality(LiveSessions) < MaxSessions)
    BY <1>3, <1>5 DEF CreateSession, SessionsOK
  <1>. QED
    BY <1>4, <1>5

\* Every step keeps sessions, profiles and hidden sets well typed.
LEMMA NextMovesSessions ==
    ASSUME TypeOK, [Next]_vars
    PROVE  SessionsOK'
  <1>. SessionsOK /\ IsDict(PurgedSessions, Session, Nat)
    BY PurgeKeepsTypes DEF TypeOK, SessionsOK
  <1>1. CASE Tick
    <2>1. sessions' = [s \in DOMAIN sessions |-> Sooner(sessions[s])]
      BY <1>1 DEF Tick
    <2>2. \A n \in Nat : Sooner(n) \in Nat
      BY DEF Sooner
    <2>3. IsDict(sessions', Session, Nat)
      BY <2>1, <2>2 DEF SessionsOK, IsDict
    <2>4. UNCHANGED <<profile, blocked>>
      BY <1>1 DEF Tick
    <2>. QED
      BY <2>3, <2>4 DEF SessionsOK
  <1>2. ASSUME NEW w \in Worker, ClientRequest(w)
        PROVE  SessionsOK'
    <2>1. CASE /\ sessions' = sessions \/ sessions' = PurgedSessions
               /\ UNCHANGED <<profile, blocked>>
      BY <2>1 DEF SessionsOK
    <2>2. ASSUME NEW p \in Profile, CreateSession(w, p)
          PROVE  SessionsOK'
      BY <2>2, CreateSessionType
    <2>3. ASSUME NEW target \in Session, Block(w, target)
          PROVE  SessionsOK'
      BY <2>3 DEF Block, SessionsOK
    <2>. QED
      BY <1>2, <2>1, <2>2, <2>3
      DEF ClientRequest, ReadClockForSession, Authenticate, ReadClockForRoom,
          CreateRoom, Heartbeat, JoinRoom, HeartbeatMember, LeaveRoom,
          DeleteRoom, Browse
  <1>3. CASE UNCHANGED vars
    BY <1>3 DEF vars, SessionsOK
  <1>. QED
    BY <1>1, <1>2, <1>3 DEF Next

\* A new store is well typed.
LEMMA InitTypeOK == Init => TypeOK
  <1> SUFFICES ASSUME Init PROVE TypeOK
    OBVIOUS
  <1>1. SessionsOK
    BY DEF Init, SessionsOK, IsDict
  <1>2. DOMAIN rooms = {}
    BY DEF Init
  <1>3. WorkersOK
    BY StoreAssumption DEF Init, WorkersOK, WorkerState
  <1>. QED
    BY <1>1, <1>2, <1>3 DEF TypeOK, SessionsOK, WorkersOK

\* Every step keeps the store well typed.
LEMMA NextTypeOK == TypeOK /\ [Next]_vars => TypeOK'
  BY NextMovesRooms, NextMovesSessions, NextMovesWorkers
  DEF TypeOK, RoomsMove, SessionsOK, WorkersOK

\* The tables of the store keep their types, whatever the request threads and
\* the clock do: in particular no deadline is ever set below now.
THEOREM TypeCorrect == Spec => []TypeOK
  <1>1. Init => TypeOK
    BY InitTypeOK
  <1>2. TypeOK /\ [Next]_vars => TypeOK'
    BY NextTypeOK
  <1>. QED
    BY <1>1, <1>2, PTL DEF Spec

-----------------------------------------------------------------------------
(* Seats.                                                                  *)

\* Capacity is at least two (MIN_ROOM_CAPACITY), and a room's seats are finitely
\* many, so that they can be counted.
LEMMA SeatsFinite ==
    ASSUME TypeOK, NEW r \in DOMAIN rooms
    PROVE  /\ IsFiniteSet(DOMAIN rooms[r].reservations)
           /\ IsFiniteSet(KeptSeats(r))
           /\ Cardinality(KeptSeats(r)) \in Nat
           /\ Cardinality(KeptSeats(r)) <= Cardinality(DOMAIN rooms[r].reservations)
           /\ Cardinality(DOMAIN rooms[r].reservations) \in Nat
           /\ rooms[r].capacity \in Nat
  <1>1. DOMAIN rooms[r].reservations \subseteq Session /\ rooms[r].capacity \in Capacity
    BY DEF TypeOK, IsRoom, IsDict
  <1>2. IsFiniteSet(DOMAIN rooms[r].reservations)
    BY <1>1, FS_Subset, StoreAssumption
  <1>3. KeptSeats(r) \subseteq DOMAIN rooms[r].reservations
    BY DEF KeptSeats
  <1>. QED
    BY <1>1, <1>2, <1>3, FS_Subset, FS_CardinalityType, StoreAssumption

\* The room that a granted join enters has a seat to spare, or the guest holds
\* one of it already.
LEMMA SeatTakenFits ==
    ASSUME TypeOK, SeatsWithinCapacity, NEW r \in DOMAIN rooms, NEW s, TakesSeat(s, r)
    PROVE  Cardinality(KeptSeats(r) \cup {s}) < rooms[r].capacity
  <1>1. /\ IsFiniteSet(KeptSeats(r))
        /\ Cardinality(KeptSeats(r)) \in Nat
        /\ Cardinality(KeptSeats(r)) <= Cardinality(DOMAIN rooms[r].reservations)
        /\ Cardinality(DOMAIN rooms[r].reservations) \in Nat
        /\ rooms[r].capacity \in Nat
    BY SeatsFinite
  <1>2. CASE s \in KeptSeats(r)
    <2>1. KeptSeats(r) \cup {s} = KeptSeats(r)
      BY <1>2
    <2>2. Cardinality(DOMAIN rooms[r].reservations) < rooms[r].capacity
      BY DEF SeatsWithinCapacity
    <2>. QED
      BY <1>1, <2>1, <2>2
  <1>3. CASE s \notin KeptSeats(r)
    <2>1. 1 + Cardinality(KeptSeats(r)) < rooms[r].capacity
      BY <1>3 DEF TakesSeat, JoinGranted, Players
    <2>2. Cardinality(KeptSeats(r) \cup {s}) = Cardinality(KeptSeats(r)) + 1
      BY <1>1, <1>3, FS_AddElement
    <2>. QED
      BY <1>1, <2>1, <2>2
  <1>. QED
    BY <1>2, <1>3

\* No step overfills a room.
LEMMA MovesSeatsWithinCapacity ==
    TypeOK /\ SeatsWithinCapacity /\ RoomsMove => SeatsWithinCapacity'
  <1> SUFFICES ASSUME TypeOK, SeatsWithinCapacity, RoomsMove,
                      NEW x \in DOMAIN rooms'
               PROVE  Cardinality(DOMAIN rooms'[x].reservations) < rooms'[x].capacity
    BY DEF SeatsWithinCapacity
  <1>1. IsRoom(rooms'[x]) /\ (KeptRoom(x) \/ JoinedRoom(x) \/ PublishedRoom(x))
    BY DEF RoomsMove
  <1>2. CASE KeptRoom(x)
    <2>1. /\ IsFiniteSet(DOMAIN rooms[x].reservations)
          /\ DOMAIN rooms'[x].reservations \subseteq DOMAIN rooms[x].reservations
          /\ x \in DOMAIN rooms /\ rooms'[x].capacity = rooms[x].capacity
          /\ Cardinality(DOMAIN rooms[x].reservations) \in Nat
          /\ rooms[x].capacity \in Nat
      BY <1>2, SeatsFinite DEF KeptRoom
    <2>2. /\ Cardinality(DOMAIN rooms'[x].reservations)
               <= Cardinality(DOMAIN rooms[x].reservations)
          /\ IsFiniteSet(DOMAIN rooms'[x].reservations)
      BY <2>1, FS_Subset
    <2>3. Cardinality(DOMAIN rooms'[x].reservations) \in Nat
      BY <2>2, FS_CardinalityType
    <2>. QED
      BY <2>1, <2>2, <2>3 DEF SeatsWithinCapacity
  <1>3. CASE JoinedRoom(x)
    BY <1>3, SeatTakenFits DEF JoinedRoom
  <1>4. CASE PublishedRoom(x)
    <2>1. Cardinality(DOMAIN rooms'[x].reservations) = 0
      BY <1>4, FS_EmptySet DEF PublishedRoom
    <2>2. rooms'[x].capacity \in Capacity
      BY <1>1 DEF IsRoom
    <2>3. rooms'[x].capacity \in Nat /\ rooms'[x].capacity >= 2
      BY <2>2, StoreAssumption
    <2>. QED
      BY <2>1, <2>3
  <1>. QED
    BY <1>1, <1>2, <1>3, <1>4

\* No room is ever overfull, for any number of concurrent requests: the test in
\* join_room counts what its purge left, and no other operation adds a seat.
THEOREM CapacityKept == Spec => []SeatsWithinCapacity
  <1>1. Init => TypeOK /\ SeatsWithinCapacity
    BY InitTypeOK DEF Init, SeatsWithinCapacity
  <1>2. (TypeOK /\ SeatsWithinCapacity) /\ [Next]_vars
          => (TypeOK /\ SeatsWithinCapacity)'
    BY NextTypeOK, NextMovesRooms, MovesSeatsWithinCapacity
  <1>. QED
    BY <1>1, <1>2, PTL DEF Spec

\* No step gives an owner a second room.
LEMMA MovesOneRoomPerOwner ==
    TypeOK /\ OneRoomPerOwner /\ RoomsMove => OneRoomPerOwner'
  <1> SUFFICES ASSUME TypeOK, OneRoomPerOwner, RoomsMove,
                      NEW r1 \in DOMAIN rooms', NEW r2 \in DOMAIN rooms',
                      rooms'[r1].owner = rooms'[r2].owner, r1 # r2
               PROVE  FALSE
    BY DEF OneRoomPerOwner
  <1>1. /\ KeptRoom(r1) \/ JoinedRoom(r1) \/ PublishedRoom(r1)
        /\ KeptRoom(r2) \/ JoinedRoom(r2) \/ PublishedRoom(r2)
    BY DEF RoomsMove
  <1>2. ~PublishedRoom(r1) /\ ~PublishedRoom(r2)
    BY DEF PublishedRoom
  <1>3. /\ r1 \in DOMAIN rooms /\ rooms'[r1].owner = rooms[r1].owner
        /\ r2 \in DOMAIN rooms /\ rooms'[r2].owner = rooms[r2].owner
    BY <1>1, <1>2 DEF KeptRoom, JoinedRoom
  <1>. QED
    BY <1>3 DEF OneRoomPerOwner

\* No session ever hosts two rooms, however its requests to publish overlap.
THEOREM OneRoomKept == Spec => []OneRoomPerOwner
  <1>1. Init => TypeOK /\ OneRoomPerOwner
    BY InitTypeOK DEF Init, OneRoomPerOwner
  <1>2. (TypeOK /\ OneRoomPerOwner) /\ [Next]_vars => (TypeOK /\ OneRoomPerOwner)'
    BY NextTypeOK, NextMovesRooms, MovesOneRoomPerOwner
  <1>. QED
    BY <1>1, <1>2, PTL DEF Spec

\* No step seats an owner in its own room.
LEMMA MovesOwnerHoldsNoSeat ==
    TypeOK /\ OwnerHoldsNoSeat /\ RoomsMove => OwnerHoldsNoSeat'
  <1> SUFFICES ASSUME TypeOK, OwnerHoldsNoSeat, RoomsMove,
                      NEW x \in DOMAIN rooms'
               PROVE  rooms'[x].owner \notin DOMAIN rooms'[x].reservations
    BY DEF OwnerHoldsNoSeat
  <1>1. KeptRoom(x) \/ JoinedRoom(x) \/ PublishedRoom(x)
    BY DEF RoomsMove
  <1>. QED
    BY <1>1 DEF KeptRoom, JoinedRoom, PublishedRoom, OwnerHoldsNoSeat, TakesSeat,
                KeptSeats

\* The owner is never counted twice.
THEOREM OwnerNeverSeated == Spec => []OwnerHoldsNoSeat
  <1>1. Init => TypeOK /\ OwnerHoldsNoSeat
    BY InitTypeOK DEF Init, OwnerHoldsNoSeat
  <1>2. (TypeOK /\ OwnerHoldsNoSeat) /\ [Next]_vars => (TypeOK /\ OwnerHoldsNoSeat)'
    BY NextTypeOK, NextMovesRooms, MovesOwnerHoldsNoSeat
  <1>. QED
    BY <1>1, <1>2, PTL DEF Spec

-----------------------------------------------------------------------------
(* The listing.                                                            *)

\* room_list and join_room test a room alike, in every state and for every guest.
THEOREM ListingTellsTheJoin == Spec => []ListingAgreesWithJoin
  <1>1. ASSUME TypeOK, NEW s \in LiveSessions, NEW r \in DOMAIN rooms
        PROVE  /\ Joinable(s, r) => JoinGranted(s, r)
               /\ JoinGranted(s, r) /\ s # rooms[r].owner /\ ~HoldsSeat(s, r) => Joinable(s, r)
    <2>1. rooms[r].capacity \in Nat /\ Players(r) \in Nat
      BY <1>1, SeatsFinite DEF Players
    <2>2. rooms[r].capacity > Players(r) <=> Players(r) < rooms[r].capacity
      BY <2>1
    <2>. QED
      BY <2>2 DEF Joinable, JoinGranted, Listed, HoldsSeat, Compatible
  <1>2. TypeOK => ListingAgreesWithJoin
    BY <1>1 DEF ListingAgreesWithJoin
  <1>. QED
    BY <1>2, TypeCorrect, PTL

-----------------------------------------------------------------------------
(* Ids drawn for rooms.                                                    *)

\* The id a thread has drawn for its room is nobody else's.
DrawnFresh ==
    \A w \in Worker : worker[w].pc = "publishing" =>
        /\ worker[w].room \notin DOMAIN rooms
        /\ \A v \in Worker : worker[v].pc = "publishing" /\ worker[v].room = worker[w].room
                                => v = w

\* A thread's step leaves the other threads where they are.
LEMMA HoldIsOwn ==
    ASSUME TypeOK, NEW w \in Worker, NEW pc, NEW s, NEW r, Hold(w, pc, s, r)
    PROVE  /\ worker'[w].pc = pc /\ worker'[w].room = r
           /\ \A v \in Worker : v # w => worker'[v] = worker[v]
  BY DEF Hold, TypeOK

\* No step but create_room puts a room in the directory.
LEMMA NoOtherRooms ==
    ASSUME TypeOK, NEW w \in Worker, ClientRequest(w), \A c \in Capacity : ~CreateRoom(w, c)
    PROVE  DOMAIN rooms' \subseteq DOMAIN rooms
  <1>1. DOMAIN PurgedRooms \subseteq DOMAIN rooms
    BY PurgeKeepsTypes
  <1>2. CASE \/ \E s \in Session : ReadClockForSession(w, s) \/ Authenticate(w, s)
             \/ \E p \in Profile : CreateSession(w, p)
             \/ \E r \in RoomId : ReadClockForRoom(w, r)
             \/ \E t \in Session : Block(w, t)
             \/ Browse(w)
    BY <1>1, <1>2 DEF ReadClockForSession, Authenticate, CreateSession, ReadClockForRoom,
                      Block, Browse
  <1>3. ASSUME NEW r \in RoomId, NEW state \in RoomState, Heartbeat(w, r, state)
        PROVE  DOMAIN rooms' \subseteq DOMAIN rooms
    BY <1>1, <1>3 DEF Heartbeat
  <1>4. ASSUME NEW r \in RoomId, JoinRoom(w, r) \/ HeartbeatMember(w, r)
        PROVE  DOMAIN rooms' \subseteq DOMAIN rooms
    BY <1>1, <1>4 DEF JoinRoom, HeartbeatMember
  <1>5. ASSUME NEW r \in RoomId, LeaveRoom(w, r) \/ DeleteRoom(w, r)
        PROVE  DOMAIN rooms' \subseteq DOMAIN rooms
    BY <1>5 DEF LeaveRoom, DeleteRoom
  <1>. QED
    BY <1>2, <1>3, <1>4, <1>5 DEF ClientRequest

LEMMA NextDrawnFresh == TypeOK /\ DrawnFresh /\ [Next]_vars => DrawnFresh'
  <1> SUFFICES ASSUME TypeOK, DrawnFresh, [Next]_vars PROVE DrawnFresh'
    OBVIOUS
  <1>1. CASE Tick
    <2>1. /\ DOMAIN rooms' = DOMAIN rooms
          /\ \A v \in Worker : worker'[v].pc = worker[v].pc /\ worker'[v].room = worker[v].room
      BY <1>1 DEF Tick, TypeOK, WorkerState
    <2>. QED
      BY <2>1 DEF DrawnFresh
  <1>2. ASSUME NEW w \in Worker, NEW r \in RoomId, ReadClockForRoom(w, r)
        PROVE  DrawnFresh'
    <2>1. /\ r \notin DOMAIN rooms /\ \A v \in Worker : worker[v].room # r
          /\ rooms' = rooms
          /\ worker'[w].room = r
          /\ \A v \in Worker : v # w => worker'[v] = worker[v]
      BY <1>2, HoldIsOwn DEF ReadClockForRoom, FreshRoom
    <2>. QED
      BY <2>1 DEF DrawnFresh
  <1>3. ASSUME NEW w \in Worker, NEW c \in Capacity, CreateRoom(w, c)
        PROVE  DrawnFresh'
    <2>1. /\ worker[w].pc = "publishing"
          /\ worker'[w].pc = "idle"
          /\ \A v \in Worker : v # w => worker'[v] = worker[v]
      BY <1>3, HoldIsOwn DEF CreateRoom, Finish
    <2>2. DOMAIN rooms' \subseteq DOMAIN rooms \cup {worker[w].room}
      BY <1>3, PurgeKeepsTypes DEF CreateRoom
    <2>. QED
      BY <2>1, <2>2 DEF DrawnFresh
  <1>4. ASSUME NEW w \in Worker, ClientRequest(w), \A c \in Capacity : ~CreateRoom(w, c),
               \A r \in RoomId : ~ReadClockForRoom(w, r)
        PROVE  DrawnFresh'
    <2>1. DOMAIN rooms' \subseteq DOMAIN rooms
      BY <1>4, NoOtherRooms
    <2>2. \/ worker' = worker
          \/ \E pc \in {"idle", "authed", "registering"} : \E s, r : Hold(w, pc, s, r)
      BY <1>4 DEF ClientRequest, ReadClockForSession, CreateSession, Authenticate, Heartbeat,
                  JoinRoom, HeartbeatMember, LeaveRoom, DeleteRoom, Block, Browse, Finish
    <2>3. \A v \in Worker : worker'[v].pc = "publishing" => worker'[v] = worker[v]
      BY <2>2, HoldIsOwn
    <2>. QED
      BY <2>1, <2>3 DEF DrawnFresh
  <1>5. CASE UNCHANGED vars
    BY <1>5 DEF vars, DrawnFresh
  <1>. QED
    BY <1>1, <1>2, <1>3, <1>4, <1>5 DEF Next

LEMMA DrawnFreshAlways == Spec => [](TypeOK /\ DrawnFresh)
  <1>1. Init => TypeOK /\ DrawnFresh
    BY InitTypeOK DEF Init, DrawnFresh
  <1>. QED
    BY <1>1, NextTypeOK, NextDrawnFresh, PTL DEF Spec

-----------------------------------------------------------------------------
(* What a step makes of one room.                                          *)

SameHost(x) == rooms'[x].owner = rooms[x].owner /\ rooms'[x].capacity = rooms[x].capacity
SameLease(x) == rooms'[x].state = rooms[x].state /\ rooms'[x].left = rooms[x].left

\* Of the seats of x, exactly those in S are left, and with the same leases.
Seats(x) == rooms[x].reservations
SeatsAfter(x) == rooms'[x].reservations
Keeps(x, S) == /\ DOMAIN SeatsAfter(x) = S
               /\ \A s \in S : SeatsAfter(x)[s] = Seats(x)[s]

Same(x) == x \in DOMAIN rooms /\ rooms'[x] = rooms[x]
Trimmed(x) == x \in LiveRooms /\ SameHost(x) /\ SameLease(x) /\ Keeps(x, KeptSeats(x))
Prolonged(x) ==
    /\ x \in LiveRooms /\ SameHost(x) /\ rooms'[x].left = RoomTTL
    /\ Keeps(x, KeptSeats(x))
    /\ ActsAs(rooms[x].owner)
Leased(x) ==
    /\ x \in LiveRooms /\ SameHost(x) /\ SameLease(x)
    /\ \E s \in Session : /\ TakesSeat(s, x) \/ s \in KeptSeats(x)
                          /\ ActsAs(s)
                          /\ SeatsAfter(x)[s] \in {ReservationTTL, RoomTTL}
                          /\ DOMAIN SeatsAfter(x) = KeptSeats(x) \cup {s}
                          /\ \A y \in KeptSeats(x) \ {s} : SeatsAfter(x)[y] = Seats(x)[y]
Vacated(x) ==
    /\ x \in DOMAIN rooms /\ SameHost(x) /\ SameLease(x)
    /\ \E s : ActsAs(s) /\ Keeps(x, DOMAIN Seats(x) \ {s})
Aged(x) ==
    /\ x \in DOMAIN rooms /\ SameHost(x)
    /\ rooms'[x].state = rooms[x].state /\ rooms'[x].left = Sooner(rooms[x].left)
    /\ DOMAIN SeatsAfter(x) = DOMAIN Seats(x)
    /\ \A s \in DOMAIN Seats(x) : SeatsAfter(x)[s] = Sooner(Seats(x)[s])
New(x) ==
    /\ x \notin DOMAIN rooms /\ DOMAIN SeatsAfter(x) = {}
    /\ rooms'[x].left \in 0..RoomTTL /\ ActsAs(rooms'[x].owner)

Fate(x) == \/ Same(x) \/ Trimmed(x) \/ Prolonged(x) \/ Leased(x)
           \/ Vacated(x) \/ Aged(x) \/ New(x)

\* A room leaves only for a reason.
Loss(x) ==
    \/ x \notin LiveRooms
    \/ ActsAs(rooms[x].owner) /\ (Replaced(x) \/ OwnerRequestDone(x))

StepFates ==
    /\ \A x \in DOMAIN rooms' : Fate(x)
    /\ \A x \in DOMAIN rooms \ DOMAIN rooms' : Loss(x)

LEMMA FinishActs ==
    ASSUME TypeOK, NEW w \in Worker, worker[w].pc # "idle", Finish(w)
    PROVE  ActsAs(worker[w].session)
  BY HoldIsOwn DEF Finish, ActsAs

LEMMA RoomFields ==
    ASSUME TypeOK, NEW x \in DOMAIN rooms
    PROVE  /\ rooms[x].left \in Nat /\ rooms[x].owner \in Session
           /\ DOMAIN Seats(x) \subseteq Session
           /\ \A s \in DOMAIN Seats(x) : Seats(x)[s] \in Nat
           /\ IsDict(Seats(x), Session, Nat)
  BY DEF TypeOK, IsRoom, IsDict, Seats

\* A purge keeps the leases of the seats it keeps.
LEMMA PurgedSeats ==
    ASSUME TypeOK, NEW r \in LiveRooms
    PROVE  PurgedRoom(r).reservations = [s \in KeptSeats(r) |-> Seats(r)[s]]
  <1> DEFINE kept == [s \in KeptSeats(r) |-> rooms[r].reservations[s]]
  <1>1. IsRoom(rooms[r]) /\ IsDict(rooms[r].reservations, Session, Nat)
    BY DEF LiveRooms, TypeOK, IsRoom
  <1>2. IsDict(kept, Session, Nat)
    BY <1>1, PartType DEF KeptSeats
  <1>3. PurgedRoom(r) = Reseated(rooms[r], kept)
    BY DEF PurgedRoom, Reseated
  <1> HIDE DEF kept
  <1>4. PurgedRoom(r).reservations = kept
    BY <1>1, <1>2, <1>3, ReseatedRoom
  <1>. QED
    BY <1>4 DEF kept, Seats

LEMMA TrimmedByPurge ==
    ASSUME TypeOK, NEW x \in LiveRooms, rooms'[x] = PurgedRoom(x)
    PROVE  Trimmed(x)
  <1>1. SameHost(x) /\ SameLease(x)
    BY PurgeKeepsTypes DEF SameHost, SameLease
  <1>2. SeatsAfter(x) = [s \in KeptSeats(x) |-> Seats(x)[s]]
    BY PurgedSeats DEF SeatsAfter
  <1>3. Keeps(x, KeptSeats(x))
    BY <1>2 DEF Keeps
  <1>. QED
    BY <1>1, <1>3 DEF Trimmed

LEMMA FatesOfPurge ==
    ASSUME TypeOK, rooms' = rooms \/ rooms' = PurgedRooms
    PROVE  StepFates
  <1>1. CASE rooms' = rooms
    BY <1>1 DEF StepFates, Fate, Same
  <1>2. CASE rooms' = PurgedRooms
    BY <1>2, PurgeKeepsTypes, TrimmedByPurge DEF StepFates, Fate, Loss
  <1>. QED
    BY <1>1, <1>2

\* An operation that purges and then changes one live room.
LEMMA FatesOfOne ==
    ASSUME TypeOK, NEW r \in LiveRooms, NEW y,
           rooms' = [PurgedRooms EXCEPT ![r] = y],
           rooms'[r] = y => Fate(r)
    PROVE  StepFates
  <1>1. /\ DOMAIN rooms' = LiveRooms /\ rooms'[r] = y
        /\ \A x \in LiveRooms : x # r => rooms'[x] = PurgedRoom(x)
    BY PurgeKeepsTypes
  <1>. QED
    BY <1>1, TrimmedByPurge DEF StepFates, Fate, Loss

LEMMA FatesOfCreate ==
    ASSUME TypeOK, DrawnFresh, NEW w \in Worker, NEW c \in Capacity, CreateRoom(w, c)
    PROVE  StepFates
  <1> DEFINE s == worker[w].session
             r == worker[w].room
  <1>0. RoomTTL - worker[w].age \in 0..RoomTTL
    <2>1. worker[w].age \in 0..MaxDelay
      BY DEF TypeOK, WorkerState
    <2>. QED
      BY <2>1, StoreAssumption
  <1>1. r \notin DOMAIN rooms /\ ActsAs(s)
    BY FinishActs DEF CreateRoom, DrawnFresh
  <1>2. CASE Cardinality(LiveRooms) < MaxRooms
    <2>1. rooms' = [x \in (LiveRooms \ RoomsOf(s)) \cup {r} |->
                      IF x = r THEN NewRoom(s, c, worker[w].age) ELSE PurgedRoom(x)]
      BY <1>2 DEF CreateRoom
    <2>2. New(r)
      <3>1. rooms'[r] = NewRoom(s, c, worker[w].age)
        BY <2>1
      <3>. QED
        BY <1>1, <3>1, <1>0 DEF New, Seats, SeatsAfter, NewRoom
    <2> HIDE DEF s, r
    <2>3. DOMAIN rooms' = (LiveRooms \ RoomsOf(s)) \cup {r}
      BY <2>1
    <2>4. LiveRooms \subseteq DOMAIN rooms
      BY DEF LiveRooms
    <2>5. ASSUME NEW x \in LiveRooms \ RoomsOf(s) PROVE Trimmed(x)
      BY <1>1, <2>1, <2>4, TrimmedByPurge
    <2>6. ASSUME NEW x \in DOMAIN rooms \ DOMAIN rooms' PROVE Loss(x)
      <3>1. x \notin LiveRooms \/ rooms[x].owner = s
        BY <2>3, <2>6 DEF RoomsOf
      <3>2. r \in DOMAIN rooms' /\ rooms'[r].owner = s
        BY <2>1, <2>3 DEF NewRoom
      <3>. QED
        BY <1>1, <3>1, <3>2 DEF Loss, Replaced
    <2>. QED
      BY <2>2, <2>3, <2>5, <2>6 DEF StepFates, Fate
  <1>3. CASE ~(Cardinality(LiveRooms) < MaxRooms)
    BY <1>3, FatesOfPurge DEF CreateRoom
  <1>. QED
    BY <1>2, <1>3

LEMMA FatesOfHeartbeat ==
    ASSUME TypeOK, NEW w \in Worker, NEW r \in RoomId, NEW state \in RoomState,
           Heartbeat(w, r, state)
    PROVE  StepFates
  <1>1. CASE r \in LiveRooms /\ Owned(worker[w].session, r)
    <2> DEFINE y == Renewed(PurgedRoom(r), RoomTTL, state)
    <2>1. rooms' = [PurgedRooms EXCEPT ![r] = y]
      <3>1. PurgedRooms[r] = PurgedRoom(r)
        BY <1>1, PurgeKeepsTypes
      <3>. QED
        BY <1>1, <3>1 DEF Heartbeat, Renewed
    <2>2. ActsAs(rooms[r].owner)
      BY <1>1, FinishActs DEF Heartbeat, Owned
    <2>3. /\ y.reservations = PurgedRoom(r).reservations
          /\ y.owner = rooms[r].owner /\ y.capacity = rooms[r].capacity
          /\ y.left = RoomTTL
      <3>1. IsRoom(PurgedRoom(r))
        BY <1>1, PurgeKeepsTypes
      <3>2. y.left = RoomTTL
        BY <3>1 DEF Renewed, IsRoom
      <3>3. /\ y.reservations = PurgedRoom(r).reservations
            /\ y.owner = PurgedRoom(r).owner /\ y.capacity = PurgedRoom(r).capacity
        BY <3>1, RenewedRoom, StoreAssumption
      <3> HIDE DEF y
      <3>. QED
        BY <1>1, <3>2, <3>3, PurgeKeepsTypes
    <2> HIDE DEF y
    <2>4. ASSUME rooms'[r] = y PROVE Prolonged(r)
      <3>1. SameHost(r) /\ rooms'[r].left = RoomTTL
        BY <2>3, <2>4 DEF SameHost
      <3>2. SeatsAfter(r) = [s \in KeptSeats(r) |-> Seats(r)[s]]
        BY <1>1, <2>3, <2>4, PurgedSeats DEF SeatsAfter
      <3>3. Keeps(r, KeptSeats(r))
        BY <3>2 DEF Keeps
      <3>. QED
        BY <1>1, <2>2, <3>1, <3>3 DEF Prolonged
    <2>. QED
      BY <1>1, <2>1, <2>4, FatesOfOne DEF Fate
  <1>2. CASE ~(r \in LiveRooms /\ Owned(worker[w].session, r))
    BY <1>2, FatesOfPurge DEF Heartbeat
  <1>. QED
    BY <1>1, <1>2

LEMMA FatesOfLease ==
    ASSUME TypeOK, NEW r \in LiveRooms, NEW s \in Session, ActsAs(s),
           NEW ttl \in {ReservationTTL, RoomTTL},
           TakesSeat(s, r) \/ s \in KeptSeats(r),
           rooms' = [PurgedRooms EXCEPT ![r].reservations = Lease(@, s, ttl)]
    PROVE  StepFates
  <1> DEFINE d == Lease(PurgedRoom(r).reservations, s, ttl)
             y == Reseated(PurgedRoom(r), d)
  <1>1. rooms' = [PurgedRooms EXCEPT ![r] = y]
    <2>1. PurgedRooms[r] = PurgedRoom(r)
      BY PurgeKeepsTypes
    <2>. QED
      BY <2>1 DEF Reseated
  <1>2. IsDict(PurgedRoom(r).reservations, Session, Nat) /\ IsRoom(PurgedRoom(r))
    BY PurgeKeepsTypes DEF IsRoom
  <1>3. /\ IsDict(d, Session, Nat) /\ DOMAIN d = KeptSeats(r) \cup {s}
        /\ d[s] = ttl
        /\ \A x \in KeptSeats(r) \ {s} : d[x] = Seats(r)[x]
    <2>1. PurgedRoom(r).reservations = [x \in KeptSeats(r) |-> Seats(r)[x]]
      BY PurgedSeats
    <2>2. IsDict(d, Session, Nat)
      BY <1>2, LeaseType, StoreAssumption
    <2>. QED
      BY <2>1, <2>2 DEF Lease
  <1> HIDE DEF d
  <1>4. /\ y.reservations = d
        /\ y.owner = rooms[r].owner /\ y.capacity = rooms[r].capacity
        /\ y.state = rooms[r].state /\ y.left = rooms[r].left
    BY <1>2, <1>3, ReseatedRoom, PurgeKeepsTypes
  <1> HIDE DEF y
  <1>5. rooms'[r] = y => Leased(r)
    BY <1>3, <1>4 DEF Leased, SameHost, SameLease, Seats, SeatsAfter
  <1>. QED
    BY <1>1, <1>5, FatesOfOne DEF Fate

LEMMA LeaveVacates ==
    ASSUME TypeOK, NEW w \in Worker, NEW r \in RoomId, LeaveRoom(w, r)
    PROVE  /\ DOMAIN rooms' = DOMAIN rooms
           /\ \A x \in DOMAIN rooms' : Same(x) \/ Vacated(x)
  <1> DEFINE s == worker[w].session
  <1>1. CASE r \in DOMAIN rooms
    <2> DEFINE d == [x \in DOMAIN rooms[r].reservations \ {s} |->
                       rooms[r].reservations[x]]
               y == Reseated(rooms[r], d)
    <2>1. rooms' = [rooms EXCEPT ![r] = y]
      BY <1>1 DEF LeaveRoom, Reseated
    <2>2. IsRoom(rooms[r]) /\ IsDict(rooms[r].reservations, Session, Nat)
      BY <1>1 DEF TypeOK, IsRoom
    <2>3. /\ IsDict(d, Session, Nat)
          /\ DOMAIN d = DOMAIN Seats(r) \ {s}
          /\ \A x \in DOMAIN Seats(r) \ {s} : d[x] = Seats(r)[x]
      BY <2>2, PartType DEF Seats
    <2> HIDE DEF d
    <2>4. /\ y.owner = rooms[r].owner /\ y.capacity = rooms[r].capacity
          /\ y.state = rooms[r].state /\ y.left = rooms[r].left
          /\ y.reservations = d
      BY <2>2, <2>3, ReseatedRoom
    <2> HIDE DEF y
    <2>5. /\ DOMAIN rooms' = DOMAIN rooms /\ rooms'[r] = y
          /\ \A x \in DOMAIN rooms : x # r => rooms'[x] = rooms[x]
      BY <1>1, <2>1
    <2>6. ActsAs(s)
      BY FinishActs DEF LeaveRoom
    <2>7. Vacated(r)
      BY <1>1, <2>3, <2>4, <2>5, <2>6 DEF Vacated, SameHost, SameLease, Keeps, Seats, SeatsAfter
    <2>. QED
      BY <2>5, <2>7 DEF Same
  <1>2. CASE r \notin DOMAIN rooms
    BY <1>2 DEF LeaveRoom, Same
  <1>. QED
    BY <1>1, <1>2

LEMMA FatesOfDelete ==
    ASSUME TypeOK, NEW w \in Worker, NEW r \in RoomId, DeleteRoom(w, r)
    PROVE  StepFates
  <1>1. CASE Owned(worker[w].session, r)
    <2>1. ActsAs(rooms[r].owner) /\ OwnerRequestDone(r)
      BY <1>1, FinishActs, HoldIsOwn DEF DeleteRoom, Owned, Finish, OwnerRequestDone
    <2>2. /\ DOMAIN rooms' = DOMAIN rooms \ {r}
          /\ \A x \in DOMAIN rooms' : rooms'[x] = rooms[x]
      BY <1>1 DEF DeleteRoom
    <2>. QED
      BY <2>1, <2>2 DEF StepFates, Fate, Same, Loss
  <1>2. CASE ~Owned(worker[w].session, r)
    BY <1>2, FatesOfPurge DEF DeleteRoom
  <1>. QED
    BY <1>1, <1>2

LEMMA TickAges ==
    ASSUME TypeOK, Tick
    PROVE  DOMAIN rooms' = DOMAIN rooms /\ \A x \in DOMAIN rooms' : Aged(x)
  <1>1. DOMAIN rooms' = DOMAIN rooms
    BY DEF Tick
  <1>2. ASSUME NEW x \in DOMAIN rooms PROVE Aged(x)
    <2> DEFINE d == [s \in DOMAIN rooms[x].reservations |->
                       Sooner(rooms[x].reservations[s])]
    <2>1. rooms[x] \in [owner : Session, capacity : Capacity, state : RoomState,
                        left : Nat, reservations : {rooms[x].reservations}]
      BY DEF TypeOK, IsRoom
    <2>2. rooms'[x] = [rooms[x] EXCEPT !.left = Sooner(@), !.reservations = d]
      BY DEF Tick
    <2>3. DOMAIN d = DOMAIN Seats(x) /\ \A s \in DOMAIN Seats(x) : d[s] = Sooner(Seats(x)[s])
      BY DEF Seats
    <2> HIDE DEF d
    <2>4. rooms'[x] = [owner |-> rooms[x].owner, capacity |-> rooms[x].capacity,
                       state |-> rooms[x].state, left |-> Sooner(rooms[x].left),
                       reservations |-> d]
      BY <2>1, <2>2
    <2>. QED
      BY <2>3, <2>4 DEF Aged, SameHost, Seats, SeatsAfter
  <1>. QED
    BY <1>1, <1>2

\* The fate of every room in every step.
LEMMA NextFates == ASSUME TypeOK, DrawnFresh, [Next]_vars PROVE StepFates
  <1>1. CASE Tick
    BY <1>1, TickAges DEF StepFates, Fate
  <1>2. CASE UNCHANGED vars
    BY <1>2, FatesOfPurge DEF vars
  <1>3. ASSUME NEW w \in Worker, ClientRequest(w) PROVE StepFates
    <2>1. CASE \/ \E s \in Session : ReadClockForSession(w, s) \/ Authenticate(w, s)
               \/ \E p \in Profile : CreateSession(w, p)
               \/ \E r \in RoomId : ReadClockForRoom(w, r)
               \/ \E t \in Session : Block(w, t)
               \/ Browse(w)
      BY <2>1, FatesOfPurge
         DEF ReadClockForSession, Authenticate, CreateSession, ReadClockForRoom, Block, Browse
    <2>2. ASSUME NEW c \in Capacity, CreateRoom(w, c) PROVE StepFates
      BY <2>2, FatesOfCreate
    <2>3. ASSUME NEW r \in RoomId, NEW state \in RoomState, Heartbeat(w, r, state)
          PROVE  StepFates
      BY <2>3, FatesOfHeartbeat
    <2>4. ASSUME NEW r \in RoomId, JoinRoom(w, r) PROVE StepFates
      <3>1. worker[w].session \in Session /\ ActsAs(worker[w].session)
        BY <2>4, FinishActs DEF JoinRoom, TypeOK
      <3>2. TakesSeat(worker[w].session, r) => r \in LiveRooms
        BY DEF TakesSeat, JoinGranted
      <3>. QED
        BY <2>4, <3>1, <3>2, FatesOfPurge, FatesOfLease, StoreAssumption DEF JoinRoom
    <2>5. ASSUME NEW r \in RoomId, HeartbeatMember(w, r) PROVE StepFates
      <3>1. worker[w].session \in Session /\ ActsAs(worker[w].session)
        BY <2>5, FinishActs DEF HeartbeatMember, TypeOK
      <3>. QED
        BY <2>5, <3>1, FatesOfPurge, FatesOfLease, StoreAssumption
           DEF HeartbeatMember, HoldsSeat
    <2>6. ASSUME NEW r \in RoomId, LeaveRoom(w, r) \/ DeleteRoom(w, r) PROVE StepFates
      BY <2>6, LeaveVacates, FatesOfDelete DEF StepFates, Fate
    <2>. QED
      BY <1>3, <2>1, <2>2, <2>3, <2>4, <2>5, <2>6 DEF ClientRequest
  <1>. QED
    BY <1>1, <1>2, <1>3 DEF Next

-----------------------------------------------------------------------------
(* The theorems.                                                           *)

\* A live room and a kept seat, in terms of the store.
LEMMA Lives ==
    /\ \A r : r \in LiveRooms => r \in DOMAIN rooms /\ rooms[r].left > 0
    /\ \A r, s : s \in KeptSeats(r) =>
          s \in DOMAIN Seats(r) /\ Seats(r)[s] > 0 /\ s \in LiveSessions
  BY DEF LiveRooms, KeptSeats, Seats

\* Only a lapse or its owner takes a room out of the directory: whatever
\* create_room, delete_room and the purges of other requests do in between.
THEOREM RoomsLeaveWithCause == Spec => RoomLossJustified
  <1>1. TypeOK /\ DrawnFresh /\ [Next]_vars =>
          [\A r \in DOMAIN rooms :
             r \notin DOMAIN rooms' =>
                r \notin LiveRooms \/ ActsAs(rooms[r].owner)]_vars
    BY NextFates DEF StepFates, Loss
  <1>. QED
    BY <1>1, DrawnFreshAlways, PTL DEF Spec, RoomLossJustified

\* The owner of a live room loses it only by deleting it or with the next one in
\* its place: no request to publish that is refused, and none that still waits
\* for the lock, takes it away.
THEOREM RefusedOwnersKeepRoom == Spec => RefusalKeepsRoom
  <1>1. TypeOK /\ DrawnFresh /\ [Next]_vars =>
          [\A r \in LiveRooms :
             r \notin DOMAIN rooms' => Replaced(r) \/ OwnerRequestDone(r)]_vars
    BY NextFates DEF StepFates, Loss, LiveRooms
  <1>. QED
    BY <1>1, DrawnFreshAlways, PTL DEF Spec, RefusalKeepsRoom

\* Only a lapse, or the member itself, empties a seat of a room that stays:
\* join_room, heartbeat and the purges of others never do.
THEOREM SeatsLeaveWithCause == Spec => SeatLossJustified
  <1> DEFINE Justified(r, s) == \/ rooms[r].reservations[s] = 0
                                \/ s \notin LiveSessions
                                \/ ActsAs(s)
             A == \A r \in DOMAIN rooms \cap DOMAIN rooms' :
                    \A s \in DOMAIN rooms[r].reservations \ DOMAIN rooms'[r].reservations :
                       Justified(r, s)
  <1>1. ASSUME TypeOK, DrawnFresh, [Next]_vars PROVE A
    <2>1. SUFFICES ASSUME NEW r \in DOMAIN rooms, r \in DOMAIN rooms',
                          NEW s \in DOMAIN Seats(r), s \notin DOMAIN SeatsAfter(r)
                   PROVE  Justified(r, s)
      BY DEF Seats, SeatsAfter
    <2>2. Fate(r)
      BY <1>1, <2>1, NextFates DEF StepFates
    <2>3. Seats(r)[s] \in Nat
      BY <1>1, RoomFields
    <2>4. s \in KeptSeats(r) \/ Seats(r)[s] = 0 \/ s \notin LiveSessions
      BY <2>3 DEF KeptSeats, Seats
    <2>5. CASE Same(r)
      BY <2>1, <2>5 DEF Same, Seats, SeatsAfter
    <2>6. CASE Trimmed(r) \/ Prolonged(r) \/ Leased(r)
      <3>1. KeptSeats(r) \subseteq DOMAIN SeatsAfter(r)
        BY <2>6 DEF Trimmed, Prolonged, Leased, Keeps
      <3>. QED
        BY <2>1, <2>4, <3>1 DEF Seats
    <2>7. CASE Vacated(r)
      BY <2>1, <2>7 DEF Vacated, Keeps
    <2>8. CASE Aged(r) \/ New(r)
      BY <2>1, <2>8 DEF Aged, New
    <2>. QED
      BY <2>2, <2>5, <2>6, <2>7, <2>8 DEF Fate
  <1>2. TypeOK /\ DrawnFresh /\ [Next]_vars => [A]_vars
    BY <1>1
  <1>. QED
    BY <1>2, DrawnFreshAlways, PTL DEF Spec, SeatLossJustified

\* Whatever the other sessions do, a room's state and the end of its lease are
\* the owner's: no join or heartbeat_member of a guest moves them.
THEOREM RoomsObeyOwner == Spec => OwnerControlsRoom
  <1> DEFINE A == \A r \in DOMAIN rooms \cap DOMAIN rooms' :
                    \/ rooms'[r].state # rooms[r].state
                    \/ rooms'[r].left > rooms[r].left
                    => ActsAs(rooms[r].owner)
  <1>1. ASSUME TypeOK, DrawnFresh, [Next]_vars PROVE A
    <2>1. SUFFICES ASSUME NEW r \in DOMAIN rooms, r \in DOMAIN rooms'
                   PROVE  \/ rooms'[r].state # rooms[r].state
                          \/ rooms'[r].left > rooms[r].left
                          => ActsAs(rooms[r].owner)
      OBVIOUS
    <2>2. Fate(r)
      BY <1>1, <2>1, NextFates DEF StepFates
    <2>3. rooms[r].left \in Nat
      BY <1>1, RoomFields
    <2>. QED
      BY <2>2, <2>3 DEF Fate, Same, Trimmed, Prolonged, Leased, Vacated, Aged, New,
                        SameLease, Sooner
  <1>2. TypeOK /\ DrawnFresh /\ [Next]_vars => [A]_vars
    BY <1>1
  <1>. QED
    BY <1>2, DrawnFreshAlways, PTL DEF Spec, OwnerControlsRoom

\* A lease that has run out stays so, however late the heartbeat of its holder
\* or the purge comes: heartbeat and heartbeat_member look only at what a purge
\* of that moment would keep, and join_room at a room that is waiting.
THEOREM LapsedLeasesStay == Spec => LapsedStaysLapsed
  <1> DEFINE Renewals == \A r \in DOMAIN rooms \cap DOMAIN rooms' :
                           rooms'[r].left > rooms[r].left => r \in LiveRooms
             Sound(r, s) == /\ r \in LiveRooms
                            /\ \/ rooms[r].state = "waiting"
                               \/ SeatTime(r, s) > 0 /\ s \in LiveSessions
             Seatings == \A r \in RoomId, s \in Session :
                           SeatTime(r, s)' > SeatTime(r, s) => Sound(r, s)
  <1>1. ASSUME TypeOK, DrawnFresh, [Next]_vars PROVE Renewals
    <2>1. SUFFICES ASSUME NEW r \in DOMAIN rooms, r \in DOMAIN rooms'
                   PROVE  rooms'[r].left > rooms[r].left => r \in LiveRooms
      OBVIOUS
    <2>2. Fate(r)
      BY <1>1, <2>1, NextFates DEF StepFates
    <2>3. rooms[r].left \in Nat
      BY <1>1, RoomFields
    <2>. QED
      BY <2>2, <2>3 DEF Fate, Same, Trimmed, Prolonged, Leased, Vacated, Aged, New,
                        SameLease, Sooner
  <1>2. ASSUME TypeOK, DrawnFresh, [Next]_vars PROVE Seatings
    <2>1. SUFFICES ASSUME NEW r \in RoomId, NEW s \in Session,
                          SeatTime(r, s)' > SeatTime(r, s)
                   PROVE  Sound(r, s)
      OBVIOUS
    <2>2. SeatTime(r, s) \in Nat
      BY <1>2, RoomFields DEF SeatTime, Seats
    <2>3. SeatTime(r, s)' = IF r \in DOMAIN rooms' /\ s \in DOMAIN SeatsAfter(r)
                              THEN SeatsAfter(r)[s] ELSE 0
      BY DEF SeatTime, SeatsAfter
    <2>4. r \in DOMAIN rooms' /\ s \in DOMAIN SeatsAfter(r) /\ SeatsAfter(r)[s] > SeatTime(r, s)
      BY <2>1, <2>2, <2>3
    <2>5. Fate(r)
      BY <1>2, <2>4, NextFates DEF StepFates
    <2>6. r \in DOMAIN rooms /\ s \in DOMAIN Seats(r) => SeatTime(r, s) = Seats(r)[s]
      BY DEF SeatTime, Seats
    <2>7. ~(r \in DOMAIN rooms /\ s \in DOMAIN Seats(r) /\ SeatsAfter(r)[s] = Seats(r)[s])
      BY <2>2, <2>4, <2>6
    <2>8. ASSUME NEW x \in LiveRooms PROVE KeptSeats(x) \subseteq DOMAIN Seats(x)
      BY Lives
    <2>9. CASE Same(r)
      BY <2>4, <2>7, <2>9 DEF Same, Seats, SeatsAfter
    <2>10. CASE Trimmed(r) \/ Prolonged(r)
      <3>1. r \in LiveRooms /\ Keeps(r, KeptSeats(r))
        BY <2>10 DEF Trimmed, Prolonged
      <3>. QED
        BY <2>4, <2>7, <2>8, <3>1, Lives DEF Keeps
    <2>11. CASE Leased(r)
      <3>1. r \in LiveRooms
        BY <2>11 DEF Leased
      <3>2. PICK t \in Session :
                /\ TakesSeat(t, r) \/ t \in KeptSeats(r)
                /\ DOMAIN SeatsAfter(r) = KeptSeats(r) \cup {t}
                /\ \A y \in KeptSeats(r) \ {t} : SeatsAfter(r)[y] = Seats(r)[y]
        BY <2>11 DEF Leased
      <3>3. t = s
        BY <2>4, <2>7, <3>1, <3>2, Lives
      <3>4. CASE TakesSeat(t, r)
        BY <3>1, <3>4 DEF TakesSeat, JoinGranted
      <3>5. CASE t \in KeptSeats(r)
        BY <2>6, <3>1, <3>3, <3>5, Lives
      <3>. QED
        BY <3>2, <3>4, <3>5
    <2>12. CASE Vacated(r)
      BY <2>4, <2>7, <2>12 DEF Vacated, Keeps
    <2>13. CASE Aged(r)
      <3>1. r \in DOMAIN rooms /\ s \in DOMAIN Seats(r) /\ SeatsAfter(r)[s] = Sooner(Seats(r)[s])
        BY <2>4, <2>13 DEF Aged
      <3>2. Sooner(SeatTime(r, s)) <= SeatTime(r, s)
        BY <2>2 DEF Sooner
      <3>3. SeatsAfter(r)[s] = Sooner(SeatTime(r, s))
        BY <2>6, <3>1
      <3>4. Sooner(SeatTime(r, s)) \in Nat
        BY <2>2 DEF Sooner
      <3>. QED
        BY <2>2, <2>4, <3>2, <3>3, <3>4
    <2>14. CASE New(r)
      BY <2>4, <2>14 DEF New
    <2>. QED
      BY <2>5, <2>9, <2>10, <2>11, <2>12, <2>13, <2>14 DEF Fate
  <1>3. TypeOK /\ DrawnFresh /\ [Next]_vars => [Renewals /\ Seatings]_vars
    BY <1>1, <1>2
  <1>. QED
    BY <1>3, DrawnFreshAlways, PTL DEF Spec, LapsedStaysLapsed
=============================================================================
