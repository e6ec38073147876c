------------------------- MODULE LobbyServiceProofs -------------------------
(***************************************************************************)
(* Theorems of the modules built on LobbyStore, for any number of          *)
(* sessions, rooms and request threads, any lengths of the leases and any  *)
(* limits: LobbyStore implements SeatDirectory (LobbyDirectory); whoever   *)
(* falls silent is gone from what others see (LobbyPresence); message ids  *)
(* run without a gap, only members post, and a report goes on hiding its   *)
(* target (LobbyChat).                                                     *)
(***************************************************************************)
EXTENDS LobbyDirectory, LobbyPresence, LobbyChat, LobbyStoreProofs, SequenceTheorems,
        WellFoundedInduction

-----------------------------------------------------------------------------
(* The view of the directory, before and after a step.                     *)

\* The parts of the view after a step, with the primes at the variables.
AliveAfter == {s \in DOMAIN sessions' : sessions'[s] > 0}
OpenAfter == {r \in DOMAIN rooms' : rooms'[r].owner \in AliveAfter /\ rooms'[r].left > 0}
KeptAfter(r) == {s \in DOMAIN SeatsAfter(r) : SeatsAfter(r)[s] > 0 /\ s \in AliveAfter}
TableAfter(r) == [capacity |-> rooms'[r].capacity,
                  playing |-> rooms'[r].state = "in_game",
                  seated |-> KeptAfter(r)]

\* A host's table is the view of the one live room it owns.
LEMMA HostTable ==
    ASSUME OneRoomPerOwner
    PROVE  /\ DOMAIN Tables = {rooms[r].owner : r \in LiveRooms}
           /\ \A r \in LiveRooms : Tables[rooms[r].owner] = TableOf(r)
  <1>1. ASSUME NEW r \in LiveRooms PROVE RoomOf(rooms[r].owner) = r
    <2>1. LiveRooms \subseteq DOMAIN rooms
      BY DEF LiveRooms
    <2>. QED
      BY <2>1 DEF RoomOf, OneRoomPerOwner
  <1>. QED
    BY <1>1 DEF Tables, Hosts

LEMMA HostTableAfter ==
    ASSUME OneRoomPerOwner'
    PROVE  /\ DOMAIN Tables' = {rooms'[r].owner : r \in OpenAfter}
           /\ \A r \in OpenAfter : Tables'[rooms'[r].owner] = TableAfter(r)
           /\ Tables' = [h \in DOMAIN Tables' |-> Tables'[h]]
  <1>1. OpenAfter \subseteq DOMAIN rooms' /\ LiveRooms' = OpenAfter
    BY DEF LiveRooms, LiveSessions, AliveAfter, OpenAfter
  <1>2. ASSUME NEW r \in OpenAfter
        PROVE  (CHOOSE x \in OpenAfter : rooms'[x].owner = rooms'[r].owner) = r
    BY <1>1 DEF OneRoomPerOwner
  <1>3. Tables' = [h \in {rooms'[r].owner : r \in OpenAfter} |->
                     TableAfter(CHOOSE x \in OpenAfter : rooms'[x].owner = h)]
    BY <1>1 DEF Tables, Hosts, RoomOf, TableOf, TableAfter, KeptSeats, KeptAfter,
                SeatsAfter, LiveSessions, AliveAfter
  <1>4. DOMAIN Tables' = {rooms'[r].owner : r \in OpenAfter}
    BY <1>3
  <1>5. Tables' = [h \in DOMAIN Tables' |-> Tables'[h]]
    BY <1>3
  <1>6. ASSUME NEW r \in OpenAfter PROVE Tables'[rooms'[r].owner] = TableAfter(r)
    BY <1>2, <1>3
  <1>. QED
    BY <1>4, <1>5, <1>6

-----------------------------------------------------------------------------
(* Steps in which tables close and guests leave, and nothing else.         *)

\* Every room that is open after the step was open before it, with the same
\* host, capacity and state, and with at least the guests it has after.
Shrinks ==
    \A r \in OpenAfter :
        /\ r \in LiveRooms /\ SameHost(r) /\ rooms'[r].state = rooms[r].state
        /\ KeptAfter(r) \subseteq KeptSeats(r)

\* Such a step is an expiry, for the directory.
LEMMA ShrinkExpires ==
    ASSUME TypeOK, OneRoomPerOwner, OneRoomPerOwner', Shrinks
    PROVE  Directory!Expire
  <1> DEFINE open == DOMAIN Tables'
             kept == [h \in open |-> Tables'[h].seated]
  <1>1. /\ open = {rooms'[r].owner : r \in OpenAfter}
        /\ \A r \in OpenAfter : Tables'[rooms'[r].owner] = TableAfter(r)
        /\ Tables' = [h \in open |-> Tables'[h]]
    BY HostTableAfter
  <1>2. ASSUME NEW h \in open
        PROVE  /\ h \in DOMAIN Tables
               /\ Tables'[h].seated \subseteq Tables[h].seated
               /\ Tables'[h].seated \in SUBSET Session
               /\ Tables'[h] = [Tables[h] EXCEPT !.seated = Tables'[h].seated]
    <2>1. PICK r \in OpenAfter : h = rooms'[r].owner
      BY <1>1
    <2>2. /\ r \in LiveRooms /\ rooms[r].owner = h
          /\ rooms'[r].capacity = rooms[r].capacity
          /\ rooms'[r].state = rooms[r].state
          /\ KeptAfter(r) \subseteq KeptSeats(r)
      BY <2>1 DEF Shrinks, SameHost
    <2>3. h \in DOMAIN Tables /\ Tables[h] = TableOf(r) /\ Tables'[h] = TableAfter(r)
      BY <1>1, <2>1, <2>2, HostTable
    <2>4. KeptSeats(r) \subseteq Session
      BY <2>2, RoomFields, PurgeKeepsTypes DEF Seats
    <2>5. TableAfter(r) = [TableOf(r) EXCEPT !.seated = TableAfter(r).seated]
      BY <2>2 DEF TableAfter, TableOf
    <2>6. TableAfter(r).seated = KeptAfter(r) /\ TableOf(r).seated = KeptSeats(r)
      BY DEF TableAfter, TableOf
    <2>. QED
      BY <2>2, <2>3, <2>4, <2>5, <2>6
  <1>3. open \in SUBSET DOMAIN Tables
    BY <1>2
  <1>4. kept \in [open -> SUBSET Session] /\ \A h \in open : kept[h] \subseteq Tables[h].seated
    BY <1>2
  <1>5. Tables' = [h \in open |-> [Tables[h] EXCEPT !.seated = kept[h]]]
    BY <1>1, <1>2
  <1> HIDE DEF open, kept
  <1>. QED
    BY <1>3, <1>4, <1>5 DEF Directory!Expire

\* A purge only shrinks the view, whatever is then dropped from it.
LEMMA PurgeShrinks ==
    ASSUME DOMAIN rooms' \subseteq LiveRooms,
           \A r \in DOMAIN rooms' : /\ SameHost(r) /\ rooms'[r].state = rooms[r].state
                                    /\ DOMAIN SeatsAfter(r) \subseteq KeptSeats(r)
    PROVE  Shrinks
  BY DEF Shrinks, OpenAfter, KeptAfter

\* So does a step that prolongs no lease and admits no session.
LEMMA LapseShrinks ==
    ASSUME TypeOK, AliveAfter \subseteq LiveSessions,
           \A r \in DOMAIN rooms' : Same(r) \/ Vacated(r) \/ Aged(r)
    PROVE  Shrinks
  <1> SUFFICES ASSUME NEW r \in OpenAfter
               PROVE  /\ r \in LiveRooms /\ SameHost(r) /\ rooms'[r].state = rooms[r].state
                      /\ KeptAfter(r) \subseteq KeptSeats(r)
    BY DEF Shrinks
  <1>1. r \in DOMAIN rooms' /\ rooms'[r].owner \in LiveSessions /\ rooms'[r].left > 0
    BY DEF OpenAfter
  <1>2. /\ r \in DOMAIN rooms /\ SameHost(r) /\ rooms'[r].state = rooms[r].state
    BY <1>1 DEF Same, Vacated, Aged, SameHost, SameLease
  <1>3. rooms[r].left \in Nat /\ \A s \in DOMAIN Seats(r) : Seats(r)[s] \in Nat
    BY <1>2, RoomFields
  <1>4. rooms[r].left > 0
    BY <1>1, <1>3 DEF Same, Vacated, Aged, SameLease, Sooner
  <1>5. ASSUME NEW s \in KeptAfter(r) PROVE s \in DOMAIN Seats(r) /\ Seats(r)[s] > 0
    <2>1. s \in DOMAIN SeatsAfter(r) /\ SeatsAfter(r)[s] > 0
      BY DEF KeptAfter
    <2>2. CASE Same(r)
      BY <2>1, <2>2 DEF Same, Seats, SeatsAfter
    <2>3. CASE Vacated(r)
      BY <2>1, <2>3 DEF Vacated, Keeps
    <2>4. CASE Aged(r)
      <3>1. s \in DOMAIN Seats(r) /\ SeatsAfter(r)[s] = Sooner(Seats(r)[s])
        BY <2>1, <2>4 DEF Aged
      <3>2. Seats(r)[s] \in Nat
        BY <1>3, <3>1
      <3>. QED
        BY <2>1, <3>1, <3>2 DEF Sooner
    <2>. QED
      BY <1>1, <2>2, <2>3, <2>4
  <1>6. KeptAfter(r) \subseteq KeptSeats(r)
    BY <1>5 DEF KeptAfter, KeptSeats, Seats
  <1>. QED
    BY <1>1, <1>2, <1>4, <1>6 DEF LiveRooms, SameHost

\* The live sessions after a step: what a purge keeps is what was live.
LEMMA PurgeKeepsAlive ==
    ASSUME sessions' = sessions \/ sessions' = PurgedSessions
    PROVE  AliveAfter = LiveSessions
  <1>1. CASE sessions' = sessions
    BY <1>1 DEF AliveAfter, LiveSessions
  <1>2. CASE sessions' = PurgedSessions
    <2>1. /\ DOMAIN sessions' = LiveSessions
          /\ \A s \in LiveSessions : sessions'[s] = sessions[s] /\ sessions[s] > 0
      BY <1>2 DEF PurgedSessions, LiveSessions
    <2>. QED
      BY <2>1 DEF AliveAfter
  <1>. QED
    BY <1>1, <1>2

-----------------------------------------------------------------------------
(* Steps that change one open table.                                       *)

\* The view of a room that only lost what does not count any more.
LEMMA SameTable ==
    ASSUME TypeOK, AliveAfter = LiveSessions, NEW x \in LiveRooms, x \in DOMAIN rooms',
           Trimmed(x)
    PROVE  /\ x \in OpenAfter /\ rooms'[x].owner = rooms[x].owner
           /\ TableAfter(x) = TableOf(x)
  <1>1. rooms[x].owner \in LiveSessions /\ rooms[x].left > 0
    BY DEF LiveRooms
  <1>2. x \in OpenAfter
    BY <1>1 DEF OpenAfter, Trimmed, SameHost, SameLease
  <1>3. KeptAfter(x) = KeptSeats(x)
    <2>1. \A s \in KeptSeats(x) : Seats(x)[s] > 0 /\ s \in LiveSessions
      BY Lives
    <2>. QED
      BY <2>1 DEF KeptAfter, Trimmed, Keeps
  <1>. QED
    BY <1>2, <1>3 DEF TableAfter, TableOf, Trimmed, SameHost, SameLease

LEMMA OneTableChanged ==
    ASSUME OneRoomPerOwner, OneRoomPerOwner', OpenAfter = LiveRooms, NEW r \in LiveRooms,
           \A x \in LiveRooms : rooms'[x].owner = rooms[x].owner,
           \A x \in LiveRooms \ {r} : TableAfter(x) = TableOf(x)
    PROVE  /\ rooms[r].owner \in DOMAIN Tables
           /\ Tables[rooms[r].owner] = TableOf(r)
           /\ Tables' = [Tables EXCEPT ![rooms[r].owner] = TableAfter(r)]
  <1>1. /\ DOMAIN Tables = {rooms[x].owner : x \in LiveRooms}
        /\ \A x \in LiveRooms : Tables[rooms[x].owner] = TableOf(x)
    BY HostTable
  <1>2. /\ DOMAIN Tables' = DOMAIN Tables
        /\ \A x \in LiveRooms : Tables'[rooms[x].owner] = TableAfter(x)
        /\ Tables' = [h \in DOMAIN Tables |-> Tables'[h]]
    BY <1>1, HostTableAfter
  <1>3. LiveRooms \subseteq DOMAIN rooms
    BY DEF LiveRooms
  <1>4. ASSUME NEW h \in DOMAIN Tables
        PROVE  Tables'[h] = IF h = rooms[r].owner THEN TableAfter(r) ELSE Tables[h]
    BY <1>1, <1>2, <1>3 DEF OneRoomPerOwner
  <1>5. Tables = [h \in DOMAIN Tables |-> Tables[h]]
    BY DEF Tables
  <1>. QED
    BY <1>1, <1>2, <1>4, <1>5

\* An operation that purges and then changes one live room, r: either only r's
\* table changes, or, when r is not open any more, the view shrinks.
LEMMA OneRoomChanged ==
    ASSUME TypeOK, sessions' = PurgedSessions, NEW r \in LiveRooms,
           DOMAIN rooms' = LiveRooms,
           \A x \in LiveRooms : x # r => rooms'[x] = PurgedRoom(x),
           SameHost(r)
    PROVE  /\ AliveAfter = LiveSessions
           /\ \A x \in LiveRooms : rooms'[x].owner = rooms[x].owner
           /\ \A x \in LiveRooms \ {r} : x \in OpenAfter /\ TableAfter(x) = TableOf(x)
           /\ rooms'[r].left > 0 => OpenAfter = LiveRooms
           /\ ~(rooms'[r].left > 0) => OpenAfter = LiveRooms \ {r}
  <1>1. AliveAfter = LiveSessions
    BY PurgeKeepsAlive
  <1>2. ASSUME NEW x \in LiveRooms, x # r
        PROVE  /\ x \in OpenAfter /\ rooms'[x].owner = rooms[x].owner
               /\ TableAfter(x) = TableOf(x)
    BY <1>1, <1>2, TrimmedByPurge, SameTable
  <1>3. rooms'[r].owner \in AliveAfter
    BY <1>1 DEF SameHost, LiveRooms
  <1>4. OpenAfter \subseteq LiveRooms /\ (r \in OpenAfter <=> rooms'[r].left > 0)
    BY <1>3 DEF OpenAfter
  <1>. QED
    BY <1>1, <1>2, <1>4 DEF SameHost

\* heartbeat: the host declares its state, unless the lease it gets is empty.
LEMMA HeartbeatDeclares ==
    ASSUME TypeOK, OneRoomPerOwner, OneRoomPerOwner', NEW w \in Worker, NEW r \in RoomId,
           NEW state \in RoomState, Heartbeat(w, r, state), r \in LiveRooms,
           Owned(worker[w].session, r)
    PROVE  Shrinks \/ Directory!Declare(rooms[r].owner, state = "in_game")
  <1> DEFINE y == Renewed(PurgedRoom(r), RoomTTL, state)
             h == rooms[r].owner
  <1>1. PurgedRooms[r] = PurgedRoom(r) /\ IsRoom(PurgedRoom(r)) /\ DOMAIN PurgedRooms = LiveRooms
    BY PurgeKeepsTypes
  <1>2. rooms' = [PurgedRooms EXCEPT ![r] = y]
    BY <1>1 DEF Heartbeat, Renewed
  <1>3. /\ DOMAIN rooms' = LiveRooms /\ rooms'[r] = y
        /\ \A x \in LiveRooms : x # r => rooms'[x] = PurgedRoom(x)
    BY <1>1, <1>2, PurgeKeepsTypes
  <1>4. y.left = RoomTTL /\ y.state = state
    BY <1>1 DEF Renewed, IsRoom
  <1>5. /\ y.reservations = PurgedRoom(r).reservations
        /\ y.owner = rooms[r].owner /\ y.capacity = rooms[r].capacity
    BY <1>1, RenewedRoom, StoreAssumption, PurgeKeepsTypes
  <1> HIDE DEF y
  <1>6. SameHost(r)
    BY <1>3, <1>5 DEF SameHost
  <1>7. SeatsAfter(r) = [s \in KeptSeats(r) |-> Seats(r)[s]]
    BY <1>3, <1>5, PurgedSeats DEF SeatsAfter
  <1>8. sessions' = PurgedSessions
    BY DEF Heartbeat
  <1>9. /\ AliveAfter = LiveSessions
        /\ \A x \in LiveRooms : rooms'[x].owner = rooms[x].owner
        /\ \A x \in LiveRooms \ {r} : x \in OpenAfter /\ TableAfter(x) = TableOf(x)
        /\ rooms'[r].left > 0 => OpenAfter = LiveRooms
        /\ ~(rooms'[r].left > 0) => OpenAfter = LiveRooms \ {r}
    BY <1>3, <1>6, <1>8, OneRoomChanged
  <1>10. KeptAfter(r) = KeptSeats(r)
    BY <1>7, <1>9, Lives DEF KeptAfter
  <1>11. CASE rooms'[r].left > 0
    <2>1. /\ h \in DOMAIN Tables /\ Tables[h] = TableOf(r)
          /\ Tables' = [Tables EXCEPT ![h] = TableAfter(r)]
      BY <1>9, <1>11, OneTableChanged
    <2>2. TableAfter(r) = [TableOf(r) EXCEPT !.playing = state = "in_game"]
      BY <1>3, <1>4, <1>5, <1>10 DEF TableAfter, TableOf
    <2> HIDE DEF h
    <2>. QED
      BY <2>1, <2>2 DEF Directory!Declare, h
  <1>12. CASE ~(rooms'[r].left > 0)
    <2>1. ASSUME NEW x \in LiveRooms \ {r}
          PROVE  /\ SameHost(x) /\ rooms'[x].state = rooms[x].state
                 /\ KeptAfter(x) \subseteq KeptSeats(x)
      BY <1>3, TrimmedByPurge DEF Trimmed, SameLease, Keeps, KeptAfter
    <2>. QED
      BY <1>9, <1>12, <2>1 DEF Shrinks
  <1>. QED
    BY <1>11, <1>12

\* The directory counts the guests of a table as the store does.
LEMMA SameCount == \A S : Directory!Cardinality(S) = Cardinality(S)
  BY DEF Directory!Cardinality, Cardinality

\* join_room and heartbeat_member: a session of a live room gets a seat there,
\* or a new lease for the seat it has.
LEMMA LeaseEnters ==
    ASSUME TypeOK, OneRoomPerOwner, OneRoomPerOwner', NEW r \in LiveRooms, NEW s \in Session,
           NEW ttl \in Nat, TakesSeat(s, r) \/ s \in KeptSeats(r),
           sessions' = PurgedSessions,
           rooms' = [PurgedRooms EXCEPT ![r].reservations = Lease(@, s, ttl)]
    PROVE  Shrinks \/ Directory!Enter(s, rooms[r].owner)
  <1> DEFINE d == Lease(PurgedRoom(r).reservations, s, ttl)
             y == Reseated(PurgedRoom(r), d)
             h == rooms[r].owner
  <1>1. /\ PurgedRooms[r] = PurgedRoom(r) /\ IsRoom(PurgedRoom(r))
        /\ DOMAIN PurgedRooms = LiveRooms
        /\ IsDict(PurgedRoom(r).reservations, Session, Nat)
    BY PurgeKeepsTypes DEF IsRoom
  <1>2. rooms' = [PurgedRooms EXCEPT ![r] = y]
    BY <1>1 DEF Reseated
  <1>3. /\ DOMAIN rooms' = LiveRooms /\ rooms'[r] = y
        /\ \A x \in LiveRooms : x # r => rooms'[x] = PurgedRoom(x)
    BY <1>1, <1>2, PurgeKeepsTypes
  <1>4. /\ IsDict(d, Session, Nat) /\ DOMAIN d = KeptSeats(r) \cup {s}
        /\ \A x \in KeptSeats(r) \ {s} : d[x] = Seats(r)[x]
    <2>1. PurgedRoom(r).reservations = [x \in KeptSeats(r) |-> Seats(r)[x]]
      BY PurgedSeats
    <2>2. IsDict(d, Session, Nat)
      BY <1>1, LeaseType
    <2>. QED
      BY <2>1, <2>2 DEF Lease
  <1> HIDE DEF d
  <1>5. /\ y.reservations = d
        /\ y.owner = rooms[r].owner /\ y.capacity = rooms[r].capacity
        /\ y.state = rooms[r].state /\ y.left = rooms[r].left
    BY <1>1, <1>4, ReseatedRoom, PurgeKeepsTypes
  <1> HIDE DEF y
  <1>6. SameHost(r) /\ SeatsAfter(r) = d /\ rooms'[r].left > 0
    BY <1>3, <1>5 DEF SameHost, SeatsAfter, LiveRooms
  <1>7. /\ AliveAfter = LiveSessions
        /\ OpenAfter = LiveRooms
        /\ \A x \in LiveRooms : rooms'[x].owner = rooms[x].owner
        /\ \A x \in LiveRooms \ {r} : TableAfter(x) = TableOf(x)
    BY <1>3, <1>6, OneRoomChanged
  <1>8. \/ KeptAfter(r) \subseteq KeptSeats(r)
        \/ s \notin KeptSeats(r) /\ KeptAfter(r) = KeptSeats(r) \cup {s}
    <2>1. KeptAfter(r) \subseteq KeptSeats(r) \cup {s}
      BY <1>4, <1>6 DEF KeptAfter
    <2>2. KeptSeats(r) \ {s} \subseteq KeptAfter(r)
      BY <1>4, <1>6, <1>7, Lives DEF KeptAfter
    <2>. QED
      BY <2>1, <2>2
  <1>9. CASE KeptAfter(r) \subseteq KeptSeats(r)
    <2>1. ASSUME NEW x \in LiveRooms \ {r}
          PROVE  /\ SameHost(x) /\ rooms'[x].state = rooms[x].state
                 /\ KeptAfter(x) \subseteq KeptSeats(x)
      BY <1>3, TrimmedByPurge DEF Trimmed, SameLease, Keeps, KeptAfter
    <2>. QED
      BY <1>3, <1>5, <1>6, <1>7, <1>9, <2>1 DEF Shrinks
  <1>10. CASE s \notin KeptSeats(r) /\ KeptAfter(r) = KeptSeats(r) \cup {s}
    <2>1. /\ h \in DOMAIN Tables /\ Tables[h] = TableOf(r)
          /\ Tables' = [Tables EXCEPT ![h] = TableAfter(r)]
      BY <1>7, OneTableChanged
    <2>2. TableAfter(r) = [TableOf(r) EXCEPT !.seated = @ \cup {s}]
      <3>1. rooms'[r].capacity = rooms[r].capacity /\ rooms'[r].state = rooms[r].state
        BY <1>3, <1>5
      <3>. QED
        BY <1>10, <3>1 DEF TableAfter, TableOf
    <2>3. /\ s # h /\ rooms[r].state = "waiting"
          /\ 1 + Cardinality(KeptSeats(r)) < rooms[r].capacity
      BY <1>10 DEF TakesSeat, JoinGranted, Players
    <2>4. /\ TableOf(r).playing = FALSE /\ TableOf(r).seated = KeptSeats(r)
          /\ TableOf(r).capacity = rooms[r].capacity
      BY <2>3 DEF TableOf
    <2>5. Cardinality(KeptSeats(r)) \in Nat
      BY SeatsFinite, PurgeKeepsTypes
    <2>6. Directory!Cardinality(TableOf(r).seated) + 1 < TableOf(r).capacity
      <3>1. r \in DOMAIN rooms /\ rooms[r].capacity \in Nat
        BY SeatsFinite, PurgeKeepsTypes
      <3>2. Directory!Cardinality(KeptSeats(r)) = Cardinality(KeptSeats(r))
        BY SameCount
      <3>. QED
        BY <2>3, <2>4, <2>5, <3>1, <3>2
    <2>7. Directory!Enter(s, h)
      <3> HIDE DEF h
      <3>. QED
        BY <2>1, <2>2, <2>3, <2>4, <2>6 DEF Directory!Enter
    <2>. QED
      BY <2>7
  <1>. QED
    BY <1>8, <1>9, <1>10

\* An operation that only purges.
LEMMA PurgedShrinks == ASSUME TypeOK, rooms' = PurgedRooms PROVE Shrinks
  <1>1. DOMAIN rooms' = LiveRooms
    BY PurgeKeepsTypes
  <1>2. ASSUME NEW r \in LiveRooms
        PROVE  /\ SameHost(r) /\ rooms'[r].state = rooms[r].state
               /\ DOMAIN SeatsAfter(r) = KeptSeats(r)
    BY PurgeKeepsTypes DEF SameHost, SeatsAfter
  <1>. QED
    BY <1>1, <1>2, PurgeShrinks

\* create_room: the owner opens a new table, in place of the one it had,
\* unless its session or the clock of its request is too old for a live room.
LEMMA CreateOpens ==
    ASSUME TypeOK, DrawnFresh, OneRoomPerOwner, OneRoomPerOwner', NEW w \in Worker,
           NEW c \in Capacity, CreateRoom(w, c)
    PROVE  Shrinks \/ Directory!Open(worker[w].session, c)
  <1> DEFINE s == worker[w].session
             r == worker[w].room
             y == NewRoom(s, c, worker[w].age)
             others == LiveRooms \ RoomsOf(s)
  <1>1. r \notin DOMAIN rooms /\ LiveRooms \subseteq DOMAIN rooms
    BY DEF CreateRoom, DrawnFresh, LiveRooms
  <1>2. AliveAfter = LiveSessions
    BY PurgeKeepsAlive DEF CreateRoom
  <1>3. CASE Cardinality(LiveRooms) < MaxRooms
    <2>1. rooms' = [x \in others \cup {r} |-> IF x = r THEN y ELSE PurgedRoom(x)]
      BY <1>3 DEF CreateRoom
    <2>2. /\ y.owner = s /\ y.capacity = c /\ y.state = "waiting"
          /\ DOMAIN y.reservations = {}
      BY DEF NewRoom
    <2> HIDE DEF y, s, r
    <2>3. /\ DOMAIN rooms' = others \cup {r} /\ rooms'[r] = y
          /\ \A x \in others : rooms'[x] = PurgedRoom(x)
      BY <1>1, <2>1
    <2>4. ASSUME NEW x \in others
          PROVE  /\ x \in OpenAfter /\ rooms'[x].owner = rooms[x].owner
                 /\ TableAfter(x) = TableOf(x) /\ Trimmed(x)
      BY <1>2, <2>3, TrimmedByPurge, SameTable
    <2>5. CASE r \notin OpenAfter
      <3>1. OpenAfter \subseteq others
        BY <2>3, <2>5 DEF OpenAfter
      <3>2. ASSUME NEW x \in others
            PROVE  /\ SameHost(x) /\ rooms'[x].state = rooms[x].state
                   /\ KeptAfter(x) \subseteq KeptSeats(x)
        BY <2>4 DEF Trimmed, SameLease, Keeps, KeptAfter
      <3>. QED
        BY <3>1, <3>2 DEF Shrinks
    <2>6. CASE r \in OpenAfter
      <3>1. OpenAfter = others \cup {r}
        BY <2>3, <2>4, <2>6 DEF OpenAfter
      <3>2. /\ DOMAIN Tables = {rooms[x].owner : x \in LiveRooms}
            /\ \A x \in LiveRooms : Tables[rooms[x].owner] = TableOf(x)
        BY HostTable
      <3>3. /\ DOMAIN Tables' = {rooms'[x].owner : x \in OpenAfter}
            /\ \A x \in OpenAfter : Tables'[rooms'[x].owner] = TableAfter(x)
            /\ Tables' = [h \in DOMAIN Tables' |-> Tables'[h]]
        BY HostTableAfter
      <3>4. rooms'[r].owner = s /\ TableAfter(r) = Directory!NewTable(c)
        <4>1. KeptAfter(r) = {}
          BY <2>2, <2>3 DEF KeptAfter, SeatsAfter
        <4>. QED
          BY <2>2, <2>3, <4>1 DEF TableAfter, Directory!NewTable
      <3>5. \A x \in LiveRooms : x \in others <=> rooms[x].owner # s
        BY DEF RoomsOf
      <3>6. DOMAIN Tables' = DOMAIN Tables \cup {s}
        BY <2>4, <3>1, <3>2, <3>3, <3>4, <3>5
      <3>7. Tables'[s] = Directory!NewTable(c)
        BY <3>1, <3>3, <3>4
      <3>8. ASSUME NEW h \in DOMAIN Tables, h # s PROVE Tables'[h] = Tables[h]
        <4>1. PICK x \in others : h = rooms[x].owner
          BY <3>2, <3>5, <3>8
        <4>. QED
          BY <2>4, <3>1, <3>2, <3>3, <4>1
      <3>9. Tables' = [h \in DOMAIN Tables \cup {s} |->
                         IF h = s THEN Directory!NewTable(c) ELSE Tables[h]]
        BY <3>3, <3>6, <3>7, <3>8
      <3>10. Directory!Open(s, c)
        BY <3>9 DEF Directory!Open
      <3>. QED
        BY <3>10 DEF s
    <2>. QED
      BY <2>5, <2>6
  <1>4. CASE ~(Cardinality(LiveRooms) < MaxRooms)
    BY <1>4, PurgedShrinks DEF CreateRoom
  <1>. QED
    BY <1>3, <1>4

-----------------------------------------------------------------------------
(* The theorem.                                                            *)

\* No step but create_session admits a session, and that step purges.
LEMMA NoneRevived ==
    ASSUME sessions' = sessions \/ sessions' = PurgedSessions
    PROVE  AliveAfter \subseteq LiveSessions
  BY PurgeKeepsAlive

LEMMA UnchangedShrinks ==
    ASSUME TypeOK, rooms' = rooms, sessions' = sessions
    PROVE  Shrinks
  BY NoneRevived, LapseShrinks DEF Same

\* A step of one request of a client.
LEMMA RequestImplements ==
    ASSUME TypeOK, DrawnFresh, OneRoomPerOwner, OneRoomPerOwner',
           NEW w \in Worker, ClientRequest(w)
    PROVE  Shrinks \/ Directory!Next
  <1> DEFINE s == worker[w].session
  <1>1. CASE \E t \in Session : ReadClockForSession(w, t)
    BY <1>1, UnchangedShrinks DEF ReadClockForSession
  <1>2. CASE \/ \E p \in Profile : CreateSession(w, p)
             \/ \E t \in Session : Authenticate(w, t)
             \/ Browse(w)
    BY <1>2, PurgedShrinks DEF CreateSession, Authenticate, Browse
  <1>3. CASE \/ \E r \in RoomId : ReadClockForRoom(w, r)
             \/ \E t \in Session : Block(w, t)
    BY <1>3, UnchangedShrinks DEF ReadClockForRoom, Block
  <1>4. ASSUME NEW c \in Capacity, CreateRoom(w, c) PROVE Shrinks \/ Directory!Next
    <2>1. s \in Session
      BY <1>4 DEF CreateRoom, TypeOK
    <2>. QED
      BY <1>4, <2>1, CreateOpens DEF Directory!Next
  <1>5. ASSUME NEW r \in RoomId, NEW state \in RoomState, Heartbeat(w, r, state)
        PROVE  Shrinks \/ Directory!Next
    <2>1. CASE r \in LiveRooms /\ Owned(s, r)
      <3>1. rooms[r].owner \in Session /\ (state = "in_game") \in BOOLEAN
        BY <2>1, RoomFields DEF Owned
      <3>2. Shrinks \/ Directory!Declare(rooms[r].owner, state = "in_game")
        BY <1>5, <2>1, HeartbeatDeclares
      <3>. QED
        BY <3>1, <3>2 DEF Directory!Next
    <2>2. CASE ~(r \in LiveRooms /\ Owned(s, r))
      BY <1>5, <2>2, PurgedShrinks DEF Heartbeat
    <2>. QED
      BY <2>1, <2>2
  <1>6. ASSUME NEW r \in RoomId, JoinRoom(w, r) \/ HeartbeatMember(w, r)
        PROVE  Shrinks \/ Directory!Next
    <2>1. s \in Session /\ sessions' = PurgedSessions
      BY <1>6 DEF JoinRoom, HeartbeatMember, TypeOK
    <2>2. TakesSeat(s, r) => r \in LiveRooms
      BY DEF TakesSeat, JoinGranted
    <2>3. \/ rooms' = PurgedRooms
          \/ /\ r \in LiveRooms /\ (TakesSeat(s, r) \/ s \in KeptSeats(r))
             /\ \E ttl \in Nat :
                  rooms' = [PurgedRooms EXCEPT ![r].reservations = Lease(@, s, ttl)]
      BY <1>6, <2>2, StoreAssumption DEF JoinRoom, HeartbeatMember, HoldsSeat
    <2> HIDE DEF s
    <2>4. CASE rooms' = PurgedRooms
      BY <2>4, PurgedShrinks
    <2>5. CASE rooms' # PurgedRooms
      <3>1. Shrinks \/ Directory!Enter(s, rooms[r].owner)
        BY <2>1, <2>3, <2>5, LeaseEnters
      <3>2. rooms[r].owner \in Session
        BY <2>3, <2>5, RoomFields, PurgeKeepsTypes
      <3>. QED
        BY <2>1, <3>1, <3>2 DEF Directory!Next
    <2>. QED
      BY <2>4, <2>5
  <1>7. ASSUME NEW r \in RoomId, LeaveRoom(w, r) \/ DeleteRoom(w, r)
        PROVE  Shrinks \/ Directory!Next
    <2>1. \A x \in DOMAIN rooms' : Same(x) \/ Vacated(x)
      BY <1>7, LeaveVacates DEF DeleteRoom, Same
    <2>2. sessions' = sessions
      BY <1>7 DEF LeaveRoom, DeleteRoom
    <2>. QED
      BY <2>1, <2>2, NoneRevived, LapseShrinks
  <1>. QED
    BY <1>1, <1>2, <1>3, <1>4, <1>5, <1>6, <1>7 DEF ClientRequest

\* With OneRoomPerOwner known before and after, each step of the store is a
\* step of the directory, seen through Tables.
LEMMA StepImplements ==
    TypeOK /\ DrawnFresh /\ OneRoomPerOwner /\ OneRoomPerOwner' /\ [Next]_vars
        => [Directory!Next]_Tables
  <1> SUFFICES ASSUME TypeOK, DrawnFresh, OneRoomPerOwner, OneRoomPerOwner', [Next]_vars
               PROVE  [Directory!Next]_Tables
    OBVIOUS
  <1>1. ASSUME NEW w \in Worker, ClientRequest(w) PROVE Shrinks \/ Directory!Next
    BY <1>1, RequestImplements
  <1>2. CASE Tick
    <2>1. \A x \in DOMAIN rooms' : Aged(x)
      BY <1>2, TickAges
    <2>2. AliveAfter \subseteq LiveSessions
      <3>1. /\ DOMAIN sessions' = DOMAIN sessions
            /\ \A s \in DOMAIN sessions : /\ sessions[s] \in Nat
                                          /\ sessions'[s] = Sooner(sessions[s])
        BY <1>2 DEF Tick, TypeOK, IsDict
      <3>. QED
        BY <3>1 DEF AliveAfter, LiveSessions, Sooner
    <2>. QED
      BY <2>1, <2>2, LapseShrinks, ShrinkExpires DEF Directory!Next
  <1>3. CASE UNCHANGED vars
    BY <1>3, UnchangedShrinks, ShrinkExpires DEF vars, Directory!Next
  <1>. QED
    BY <1>1, <1>2, <1>3, ShrinkExpires DEF Next, Directory!Next

LEMMA InitImplements == Init => Directory!Init
  <1> SUFFICES ASSUME Init PROVE Directory!Init
    OBVIOUS
  <1>1. LiveRooms = {}
    BY DEF Init, LiveRooms
  <1>2. Tables = [h \in {} |-> 0]
    BY <1>1 DEF Tables, Hosts
  <1>. QED
    BY <1>2 DEF Directory!Init

\* The service, with its threads, stale clocks, lapsing leases and purges,
\* implements the directory: hosts open, close and declare tables, guests
\* enter one only when it waits and has a free seat, and nothing but a request
\* of its own or a lapse closes a table or takes a guest from it.
THEOREM StoreImplementsDirectory == Spec => ImplementsDirectory
  BY InitImplements, StepImplements, DrawnFreshAlways, OneRoomKept,
     PTL DEF Spec, ImplementsDirectory, Directory!Spec

-----------------------------------------------------------------------------
(* Presence: how long a session has been silent, against the leases its    *)
(* requests have bought it.                                                *)

\* How long anyone has been silent, as far as it is told apart.
SilenceType == silence \in [Session -> 0..RoomTTL]

\* A lease and the silence of its holder add up to at most ROOM_TTL_SECONDS.
LeasesMatchSilence ==
    \A r \in DOMAIN rooms :
        /\ rooms[r].left + silence[rooms[r].owner] <= RoomTTL
        /\ \A s \in DOMAIN Seats(r) : Seats(r)[s] + silence[s] <= RoomTTL

\* The inductive invariant of the presence.
PresenceInv == TypeOK /\ DrawnFresh /\ SilenceType /\ LeasesMatchSilence

\* What any step makes of the silence of a session and the leases it holds:
\* the clock takes from the one what it adds to the other.
Heard(s) == silence'[s] = IF ActsAs(s) THEN 0 ELSE silence[s]
Waits(s) == silence'[s] = IF silence[s] < RoomTTL THEN silence[s] + 1 ELSE RoomTTL

\* The numbers of a lease and a silence after a step that was no tick.
LEMMA RequestKeepsLease ==
    ASSUME NEW t \in Nat, NEW q \in 0..RoomTTL, t + q <= RoomTTL,
           NEW p \in {0, q}
    PROVE  t + p <= RoomTTL
  BY StoreAssumption

\* And after a tick.
LEMMA TickKeepsLease ==
    ASSUME NEW t \in Nat, NEW q \in 0..RoomTTL, t + q <= RoomTTL
    PROVE  Sooner(t) + (IF q < RoomTTL THEN q + 1 ELSE RoomTTL) <= RoomTTL
  BY StoreAssumption DEF Sooner

\* Time adds to a silence what it takes from the leases.
LEMMA PassKeeps ==
    ASSUME PresenceInv, Pass
    PROVE  SilenceType' /\ LeasesMatchSilence'
  <1>1. /\ \A s \in Session : Waits(s) /\ silence[s] \in 0..RoomTTL
        /\ silence' \in [Session -> 0..RoomTTL]
    BY StoreAssumption DEF PresenceInv, SilenceType, Pass, Longest, Waits
  <1>2. DOMAIN rooms' = DOMAIN rooms /\ \A x \in DOMAIN rooms' : Aged(x)
    BY TickAges DEF PresenceInv, Pass
  <1>3. ASSUME NEW x \in DOMAIN rooms'
        PROVE  /\ rooms'[x].left + silence'[rooms'[x].owner] <= RoomTTL
               /\ \A s \in DOMAIN SeatsAfter(x) : SeatsAfter(x)[s] + silence'[s] <= RoomTTL
    <2>1. /\ rooms[x].left \in Nat /\ rooms[x].owner \in Session
          /\ DOMAIN Seats(x) \subseteq Session
          /\ \A s \in DOMAIN Seats(x) : Seats(x)[s] \in Nat
      BY <1>2, RoomFields DEF PresenceInv
    <2>2. /\ rooms[x].left + silence[rooms[x].owner] <= RoomTTL
          /\ \A s \in DOMAIN Seats(x) : Seats(x)[s] + silence[s] <= RoomTTL
      BY <1>2 DEF PresenceInv, LeasesMatchSilence
    <2>3. rooms'[x].left + silence'[rooms'[x].owner] <= RoomTTL
      <3>1. rooms'[x].owner = rooms[x].owner /\ rooms'[x].left = Sooner(rooms[x].left)
        BY <1>2 DEF Aged, SameHost
      <3>2. silence'[rooms[x].owner] = IF silence[rooms[x].owner] < RoomTTL
                                         THEN silence[rooms[x].owner] + 1 ELSE RoomTTL
        BY <1>1, <2>1 DEF Waits
      <3>. QED
        BY <1>1, <2>1, <2>2, <3>1, <3>2, TickKeepsLease
    <2>4. ASSUME NEW s \in DOMAIN SeatsAfter(x)
          PROVE  SeatsAfter(x)[s] + silence'[s] <= RoomTTL
      <3>1. s \in DOMAIN Seats(x) /\ SeatsAfter(x)[s] = Sooner(Seats(x)[s])
        BY <1>2 DEF Aged
      <3>2. silence'[s] = IF silence[s] < RoomTTL THEN silence[s] + 1 ELSE RoomTTL
        BY <1>1, <2>1, <3>1 DEF Waits
      <3>. QED
        BY <1>1, <2>1, <2>2, <3>1, <3>2, TickKeepsLease
    <2>. QED
      BY <2>3, <2>4
  <1>. QED
    BY <1>1, <1>3 DEF SilenceType, LeasesMatchSilence, Seats, SeatsAfter

\* One room after a request: a lease was not prolonged, or its holder has
\* just been heard.
LEMMA RequestKeepsRoom ==
    ASSUME TypeOK, NEW x \in DOMAIN rooms', Fate(x),
           SilenceType, LeasesMatchSilence, \A s \in Session : Heard(s),
           TypeOK'
    PROVE  /\ rooms'[x].left + silence'[rooms'[x].owner] <= RoomTTL
           /\ \A s \in DOMAIN SeatsAfter(x) : SeatsAfter(x)[s] + silence'[s] <= RoomTTL
  <1>1. /\ \A s \in Session : silence[s] \in 0..RoomTTL /\ silence'[s] \in {0, silence[s]}
        /\ \A s \in Session : ActsAs(s) => silence'[s] = 0
    BY DEF SilenceType, Heard
  <1>2. ASSUME x \in DOMAIN rooms
        PROVE  /\ rooms[x].left \in Nat /\ rooms[x].owner \in Session
               /\ DOMAIN Seats(x) \subseteq Session
               /\ \A s \in DOMAIN Seats(x) : Seats(x)[s] \in Nat
               /\ rooms[x].left + silence[rooms[x].owner] <= RoomTTL
               /\ \A s \in DOMAIN Seats(x) : Seats(x)[s] + silence[s] <= RoomTTL
    BY <1>2, RoomFields DEF LeasesMatchSilence
  \* What was there before still fits.
  <1>3. ASSUME x \in DOMAIN rooms
        PROVE  /\ rooms[x].left + silence'[rooms[x].owner] <= RoomTTL
               /\ \A s \in DOMAIN Seats(x) : Seats(x)[s] + silence'[s] <= RoomTTL
    BY <1>1, <1>2, <1>3, RequestKeepsLease
  <1>4. KeptSeats(x) \subseteq DOMAIN Seats(x)
    BY Lives
  <1>5. CASE Same(x)
    BY <1>3, <1>5 DEF Same, Seats, SeatsAfter
  <1>6. CASE Trimmed(x)
    <2>1. x \in DOMAIN rooms
      BY <1>6, Lives DEF Trimmed
    <2>. QED
      BY <1>3, <1>4, <1>6, <2>1 DEF Trimmed, SameHost, SameLease, Keeps
  <1>7. CASE Prolonged(x)
    <2>1. x \in DOMAIN rooms
      BY <1>7, Lives DEF Prolonged
    <2>2. rooms'[x].left = RoomTTL /\ silence'[rooms'[x].owner] = 0
      BY <1>1, <1>2, <1>7, <2>1 DEF Prolonged, SameHost
    <2>3. \A s \in DOMAIN SeatsAfter(x) : SeatsAfter(x)[s] + silence'[s] <= RoomTTL
      BY <1>3, <1>4, <1>7, <2>1 DEF Prolonged, Keeps
    <2>. QED
      BY <2>2, <2>3, StoreAssumption
  <1>8. CASE Leased(x)
    <2>1. x \in DOMAIN rooms
      BY <1>8, Lives DEF Leased
    <2>2. rooms'[x].left + silence'[rooms'[x].owner] <= RoomTTL
      BY <1>3, <1>8, <2>1 DEF Leased, SameHost, SameLease
    <2>3. PICK t \in Session :
              /\ ActsAs(t)
              /\ SeatsAfter(x)[t] \in {ReservationTTL, RoomTTL}
              /\ DOMAIN SeatsAfter(x) = KeptSeats(x) \cup {t}
              /\ \A y \in KeptSeats(x) \ {t} : SeatsAfter(x)[y] = Seats(x)[y]
      BY <1>8 DEF Leased
    <2>4. SeatsAfter(x)[t] + silence'[t] <= RoomTTL
      BY <1>1, <2>3, StoreAssumption, PresenceAssumption
    <2>. QED
      BY <1>3, <1>4, <2>1, <2>2, <2>3, <2>4
  <1>9. CASE Vacated(x)
    BY <1>3, <1>9 DEF Vacated, SameHost, SameLease, Keeps
  <1>10. CASE New(x)
    <2>1. rooms'[x].owner \in Session
      BY DEF TypeOK, IsRoom
    <2>. QED
      BY <1>1, <1>10, <2>1, StoreAssumption DEF New
  <1>11. CASE Aged(x)
    <2>1. x \in DOMAIN rooms
      BY <1>11 DEF Aged
    <2>2. \A t \in Nat : Sooner(t) \in Nat /\ Sooner(t) <= t
      BY DEF Sooner
    <2>3. \A t \in Nat, q \in 0..RoomTTL : t + q <= RoomTTL => Sooner(t) + q <= RoomTTL
      BY <2>2, StoreAssumption
    <2>4. /\ silence'[rooms[x].owner] \in 0..RoomTTL
          /\ \A s \in DOMAIN Seats(x) : silence'[s] \in 0..RoomTTL
      BY <1>1, <1>2, <2>1, StoreAssumption
    <2>5. rooms'[x].left + silence'[rooms'[x].owner] <= RoomTTL
      BY <1>2, <1>3, <1>11, <2>1, <2>3, <2>4 DEF Aged, SameHost
    <2>6. \A s \in DOMAIN SeatsAfter(x) : SeatsAfter(x)[s] + silence'[s] <= RoomTTL
      BY <1>2, <1>3, <1>11, <2>1, <2>3, <2>4 DEF Aged
    <2>. QED
      BY <2>5, <2>6
  <1>. QED
    BY <1>5, <1>6, <1>7, <1>8, <1>9, <1>10, <1>11 DEF Fate

\* So a request keeps every lease within the silence of its holder.
LEMMA RequestKeeps ==
    ASSUME PresenceInv, TypeOK', NEW w \in Worker, Request(w)
    PROVE  SilenceType' /\ LeasesMatchSilence'
  <1>1. \A s \in Session : Heard(s)
    BY DEF Request, Heard
  <1>2. SilenceType'
    BY StoreAssumption DEF PresenceInv, SilenceType, Request
  <1>3. \A x \in DOMAIN rooms' : Fate(x)
    BY NextFates DEF PresenceInv, Request, Next, StepFates
  <1>4. ASSUME NEW x \in DOMAIN rooms'
        PROVE  /\ rooms'[x].left + silence'[rooms'[x].owner] <= RoomTTL
               /\ \A s \in DOMAIN SeatsAfter(x) : SeatsAfter(x)[s] + silence'[s] <= RoomTTL
    BY <1>1, <1>3, RequestKeepsRoom DEF PresenceInv
  <1>. QED
    BY <1>2, <1>4 DEF LeasesMatchSilence, Seats, SeatsAfter

\* Every step keeps the leases within the silences.
LEMMA PresenceNextInv == PresenceInv /\ [PresenceNext]_presenceVars => PresenceInv'
  <1> SUFFICES ASSUME PresenceInv, [PresenceNext]_presenceVars PROVE PresenceInv'
    OBVIOUS
  <1>1. [Next]_vars
    BY DEF PresenceNext, Pass, Request, Next, presenceVars
  <1>2. TypeOK' /\ DrawnFresh'
    BY <1>1, NextTypeOK, NextDrawnFresh DEF PresenceInv
  <1>3. CASE Pass
    BY <1>2, <1>3, PassKeeps DEF PresenceInv
  <1>4. ASSUME NEW w \in Worker, Request(w) PROVE PresenceInv'
    BY <1>2, <1>4, RequestKeeps DEF PresenceInv
  <1>5. CASE UNCHANGED presenceVars
    BY <1>2, <1>5 DEF PresenceInv, SilenceType, LeasesMatchSilence, Seats, presenceVars, vars
  <1>. QED
    BY <1>3, <1>4, <1>5 DEF PresenceNext

\* A host or guest that has been silent for ROOM_TTL_SECONDS is gone from
\* what anyone is shown, whatever requests of others purged, joined and
\* renewed in the meantime, and however old their clock readings were.
THEOREM SilenceEndsPresence == PresenceSpec => []SilentAreGone
  <1>1. PresenceInit => PresenceInv
    <2> SUFFICES ASSUME PresenceInit PROVE PresenceInv
      OBVIOUS
    <2>1. TypeOK /\ DrawnFresh
      BY InitTypeOK DEF PresenceInit, Init, DrawnFresh
    <2>. QED
      BY <2>1, StoreAssumption DEF PresenceInit, Init, PresenceInv, SilenceType, LeasesMatchSilence
  <1>2. PresenceInv => SilentAreGone
    <2> SUFFICES ASSUME PresenceInv, NEW s \in Session, silence[s] >= RoomTTL,
                        NEW r \in LiveRooms
                 PROVE  rooms[r].owner # s /\ s \notin KeptSeats(r)
      BY DEF SilentAreGone
    <2>1. r \in DOMAIN rooms /\ rooms[r].left > 0 /\ silence[s] \in 0..RoomTTL
      BY Lives DEF PresenceInv, SilenceType
    <2>2. /\ rooms[r].left \in Nat /\ \A x \in DOMAIN Seats(r) : Seats(r)[x] \in Nat
          /\ rooms[r].left + silence[rooms[r].owner] <= RoomTTL
          /\ \A x \in DOMAIN Seats(r) : Seats(r)[x] + silence[x] <= RoomTTL
      BY <2>1, RoomFields DEF PresenceInv, LeasesMatchSilence
    <2>3. rooms[r].owner # s
      BY <2>1, <2>2, StoreAssumption
    <2>4. s \notin KeptSeats(r)
      BY <2>1, <2>2, Lives, StoreAssumption
    <2>. QED
      BY <2>3, <2>4
  <1>. QED
    BY <1>1, <1>2, PresenceNextInv, PTL DEF PresenceSpec

-----------------------------------------------------------------------------
(* Chat: the messages and the reports.                                     *)

Message == [id : Nat \ {0}, sender : Session]
RoomChat == [next : Nat \ {0}, log : Seq(Message)]
ReportRecord == [reporter : Session, target : Session, room : RoomId, reason : Reason]

ChatOK == chat \in [RoomId -> RoomChat]
ReportsOK == reports \in Seq(ReportRecord)

-----------------------------------------------------------------------------
(* deque.append with a maxlen.                                             *)

Lost(q, n) == IF Len(q) < n THEN 0 ELSE 1

\* It adds x at the end, and drops the first entry of a full deque.
LEMMA AppendBoundedProperties ==
    ASSUME NEW S, NEW q \in Seq(S), NEW x \in S, NEW n \in Nat \ {0}, Len(q) <= n,
           NEW q2, q2 = AppendBounded(q, x, n)
    PROVE  /\ q2 \in Seq(S)
           /\ Len(q2) = Len(q) + 1 - Lost(q, n) /\ Len(q2) <= n
           /\ q2[Len(q2)] = x
           /\ \A i \in 1..(Len(q) - Lost(q, n)) : q2[i] = q[i + Lost(q, n)]
  <1>1. Len(q) \in Nat
    BY LenProperties
  <1>2. CASE Len(q) < n
    <2>1. AppendBounded(q, x, n) = Append(q, x)
      BY <1>2 DEF AppendBounded
    <2>. QED
      BY <1>1, <1>2, <2>1, AppendProperties DEF Lost
  <1>3. CASE ~(Len(q) < n)
    <2>1. AppendBounded(q, x, n) = Append(Tail(q), x)
      BY <1>3 DEF AppendBounded
    <2>2. q # << >> /\ Len(q) = n
      BY <1>1, <1>3
    <2>3. /\ Tail(q) \in Seq(S) /\ Len(Tail(q)) = Len(q) - 1
          /\ \A i \in 1..Len(Tail(q)) : Tail(q)[i] = q[i + 1]
      BY <2>2, HeadTailProperties
    <2>4. /\ q2 \in Seq(S) /\ Len(q2) = Len(Tail(q)) + 1
          /\ \A i \in 1..Len(Tail(q)) : q2[i] = Tail(q)[i]
          /\ q2[Len(Tail(q)) + 1] = x
      BY <2>1, <2>3, AppendProperties
    <2>. QED
      BY <1>1, <1>3, <2>1, <2>2, <2>3, <2>4 DEF Lost
  <1>. QED
    BY <1>2, <1>3

\* So it adds x and no other entry.
LEMMA AppendBoundedEntries ==
    ASSUME NEW S, NEW q \in Seq(S), NEW x \in S, NEW n \in Nat \ {0}
    PROVE  /\ AppendBounded(q, x, n) \in Seq(S)
           /\ Entries(AppendBounded(q, x, n)) \subseteq Entries(q) \cup {x}
           /\ x \in Entries(AppendBounded(q, x, n))
  <1>1. \A z \in Seq(S) : /\ Append(z, x) \in Seq(S)
                          /\ Entries(Append(z, x)) \subseteq Entries(z) \cup {x}
                          /\ x \in Entries(Append(z, x))
    <2> SUFFICES ASSUME NEW z \in Seq(S)
                 PROVE  /\ Append(z, x) \in Seq(S)
                        /\ Entries(Append(z, x)) \subseteq Entries(z) \cup {x}
                        /\ x \in Entries(Append(z, x))
      OBVIOUS
    <2>1. /\ Len(z) \in Nat /\ DOMAIN z = 1..Len(z)
          /\ Append(z, x) \in Seq(S) /\ Len(Append(z, x)) = Len(z) + 1
          /\ \A i \in 1..Len(z) : Append(z, x)[i] = z[i]
          /\ Append(z, x)[Len(z) + 1] = x
          /\ DOMAIN Append(z, x) = 1..(Len(z) + 1)
      BY AppendProperties, LenProperties
    <2>. QED
      BY <2>1 DEF Entries
  <1>2. CASE Len(q) < n
    BY <1>1, <1>2 DEF AppendBounded
  <1>3. CASE ~(Len(q) < n)
    <2>1. q # << >>
      BY <1>3, LenProperties
    <2>2. /\ Tail(q) \in Seq(S) /\ Len(Tail(q)) = Len(q) - 1
          /\ \A i \in 1..Len(Tail(q)) : Tail(q)[i] = q[i + 1]
          /\ Len(q) \in Nat /\ DOMAIN q = 1..Len(q)
          /\ DOMAIN Tail(q) = 1..Len(Tail(q))
      BY <2>1, HeadTailProperties, LenProperties
    <2>3. Entries(Tail(q)) \subseteq Entries(q)
      BY <2>2 DEF Entries
    <2>. QED
      BY <1>1, <1>3, <2>2, <2>3 DEF AppendBounded
  <1>. QED
    BY <1>2, <1>3

LEMMA EntryType == ASSUME NEW S, NEW q \in Seq(S), NEW x \in Entries(q) PROVE x \in S
  BY LenProperties DEF Entries

-----------------------------------------------------------------------------
(* Type correctness of the store under the requests of chat.               *)

\* What a request of chat does to the store: at most a purge, and for a report
\* one more hidden session.
LEMMA TalkTypeOK ==
    ASSUME TypeOK, WorkersOK',
           rooms' = rooms \/ rooms' = PurgedRooms,
           sessions' = sessions \/ sessions' = PurgedSessions,
           profile' = profile,
           blocked' \in [Session -> SUBSET Session]
    PROVE  TypeOK'
  <1>1. RoomsMove
    BY IdleRooms
  <1>2. IsDict(sessions', Session, Nat)
    BY PurgeKeepsTypes DEF TypeOK
  <1>. QED
    BY <1>1, <1>2 DEF TypeOK, RoomsMove, WorkersOK

\* Every step keeps the store well typed, chat included.
LEMMA ChatNextTypeOK == TypeOK /\ [ChatNext]_chatVars => TypeOK'
  <1> SUFFICES ASSUME TypeOK, [ChatNext]_chatVars PROVE TypeOK'
    OBVIOUS
  <1>. WorkersOK
    BY DEF TypeOK, WorkersOK
  <1>1. CASE ChatTick
    BY <1>1, NextTypeOK DEF ChatTick, Next
  <1>2. ASSUME NEW w \in Worker, DirectoryRequest(w) PROVE TypeOK'
    BY <1>2, NextTypeOK DEF DirectoryRequest, Next
  <1>3. ASSUME NEW w \in Worker, ReadClockForMessage(w) PROVE TypeOK'
    <2>1. worker[w].session \in Session
      BY <1>3 DEF ReadClockForMessage, TypeOK
    <2>2. WorkersOK'
      BY <1>3, <2>1, HoldType DEF ReadClockForMessage, Stamped
    <2>. QED
      BY <1>3, <2>2, TalkTypeOK DEF ReadClockForMessage, TypeOK
  <1>4. ASSUME NEW w \in Worker, NEW r \in RoomId, SendMessage(w, r) PROVE TypeOK'
    <2>1. WorkersOK'
      BY <1>4, FinishType DEF SendMessage
    <2>. QED
      BY <1>4, <2>1, TalkTypeOK DEF SendMessage, TypeOK
  <1>5. ASSUME NEW w \in Worker, NEW t \in Session, NEW r \in RoomId, NEW reason \in Reason,
               Report(w, t, r, reason)
        PROVE  TypeOK'
    <2>1. WorkersOK'
      BY <1>5, FinishType DEF Report
    <2>2. blocked' \in [Session -> SUBSET Session]
      BY <1>5 DEF Report, TypeOK
    <2>. QED
      BY <1>5, <2>1, <2>2, TalkTypeOK DEF Report
  <1>6. CASE UNCHANGED chatVars
    BY <1>6, NextTypeOK DEF chatVars, vars
  <1>. QED
    BY <1>1, <1>2, <1>3, <1>4, <1>5, <1>6 DEF ChatNext

-----------------------------------------------------------------------------
(* Messages.                                                               *)

\* What a step makes of the chat of one room.
Emptied(r) == chat'[r] = EmptyChat
Quiet(r) == chat'[r] = chat[r]
PostedBy(r, s) ==
    chat'[r] = [next |-> chat[r].next + 1,
                log |-> AppendBounded(chat[r].log,
                          [id |-> chat[r].next, sender |-> s], MaxMessages)]
Posted(r) == \E s \in Session : ActsAs(s) /\ IsMember(s, r) /\ PostedBy(r, s)

ChatMoves ==
    /\ chat' = [r \in RoomId |-> chat'[r]]
    /\ \A r \in RoomId : Emptied(r) \/ Quiet(r) \/ Posted(r)

\* Every step empties the chat of a room, leaves it alone, or adds the message
\* of a member to it.
LEMMA NextMovesChat ==
    ASSUME TypeOK, ChatOK, [ChatNext]_chatVars
    PROVE  ChatMoves
  <1>1. ASSUME chat' = OfOpenRooms(chat) \/ chat' = chat PROVE ChatMoves
    BY <1>1 DEF ChatOK, OfOpenRooms, ChatMoves, Emptied, Quiet
  <1>2. ASSUME NEW w \in Worker, NEW r \in RoomId, SendMessage(w, r) PROVE ChatMoves
    <2> DEFINE s == worker[w].session
               accepted == IsMember(s, r) /\ ChatLimiter!Admits(chatEvents, s, worker[w].age)
               posted == [next |-> chat[r].next + 1,
                          log |-> AppendBounded(chat[r].log, [id |-> chat[r].next, sender |-> s],
                                                MaxMessages)]
    <2>1. CASE ~accepted
      BY <1>1, <1>2, <2>1 DEF SendMessage
    <2>2. CASE accepted
      <3>1. chat' = OfOpenRooms([chat EXCEPT ![r] = posted])
        BY <1>2, <2>2 DEF SendMessage
      <3>2. s \in Session /\ ActsAs(s) /\ IsMember(s, r)
        <4>1. s \in Session
          BY <1>2 DEF SendMessage, TypeOK
        <4>2. worker[w].pc = "sending" /\ worker'[w].pc = "idle"
          BY <1>2 DEF SendMessage, Finish, Hold, TypeOK
        <4>. QED
          BY <2>2, <4>1, <4>2 DEF ActsAs
      <3> HIDE DEF posted, accepted
      <3>3. /\ chat' = [x \in RoomId |-> chat'[x]]
            /\ \A x \in RoomId : \/ chat'[x] = EmptyChat
                                 \/ chat'[x] = chat[x]
                                 \/ x = r /\ chat'[x] = posted
        BY <3>1 DEF OfOpenRooms, ChatOK
      <3>. QED
        BY <3>2, <3>3 DEF posted, ChatMoves, Emptied, Quiet, Posted, PostedBy
    <2>. QED
      BY <2>1, <2>2
  <1>3. CASE ChatTick \/ UNCHANGED chatVars
    BY <1>1, <1>3 DEF ChatTick, chatVars, talk
  <1>4. ASSUME NEW w \in Worker, DirectoryRequest(w) \/ ReadClockForMessage(w)
        PROVE  ChatMoves
    BY <1>1, <1>4 DEF DirectoryRequest, ReadClockForMessage, talk
  <1>5. ASSUME NEW w \in Worker, NEW t \in Session, NEW r \in RoomId, NEW reason \in Reason,
               Report(w, t, r, reason)
        PROVE  ChatMoves
    BY <1>1, <1>5 DEF Report
  <1>. QED
    BY <1>2, <1>3, <1>4, <1>5 DEF ChatNext

\* The message a room gains: its id is the room's next, its sender the member.
LEMMA PostedMessage ==
    ASSUME NEW n \in Nat \ {0}, NEW q \in Seq(Message), Len(q) <= MaxMessages,
           \A i \in 1..Len(q) : q[i].id = n - 1 - Len(q) + i,
           NEW s \in Session, NEW m, m = [id |-> n, sender |-> s],
           NEW q2, q2 = AppendBounded(q, m, MaxMessages)
    PROVE  /\ q2 \in Seq(Message)
           /\ Len(q2) <= MaxMessages
           /\ \A i \in 1..Len(q2) : q2[i].id = n - Len(q2) + i
           /\ q2[Len(q2)].sender = s
  <1> DEFINE lost == Lost(q, MaxMessages)
  <1>1. Len(q) \in Nat /\ lost \in {0, 1}
    BY LenProperties DEF Lost
  <1>2. m \in Message /\ m.id = n /\ m.sender = s
    BY DEF Message
  <1>3. MaxMessages \in Nat \ {0}
    BY ChatAssumption
  <1>4. /\ q2 \in Seq(Message)
        /\ Len(q2) = Len(q) + 1 - lost /\ Len(q2) <= MaxMessages
        /\ q2[Len(q2)] = m
        /\ \A i \in 1..(Len(q) - lost) : q2[i] = q[i + lost]
    <2>1. ASSUME NEW S, S = Message
          PROVE  /\ q2 \in Seq(S)
                 /\ Len(q2) = Len(q) + 1 - lost /\ Len(q2) <= MaxMessages
                 /\ q2[Len(q2)] = m
                 /\ \A i \in 1..(Len(q) - lost) : q2[i] = q[i + lost]
      <3>1. q \in Seq(S) /\ m \in S
        BY <1>2, <2>1
      <3>. QED
        BY <1>3, <3>1, AppendBoundedProperties
    <2>. QED
      BY <2>1
  <1> HIDE DEF lost
  <1>5. ASSUME NEW i \in 1..Len(q2) PROVE q2[i].id = n - Len(q2) + i
    <2>1. CASE i = Len(q2)
      <3>1. q2[i].id = n
        BY <1>2, <1>4, <2>1
      <3>2. n - i + i = n
        OBVIOUS
      <3>. QED
        BY <2>1, <3>1, <3>2
    <2>2. CASE i # Len(q2)
      <3>1. i \in 1..(Len(q) - lost) /\ i + lost \in 1..Len(q)
        BY <1>1, <1>4, <2>2
      <3>2. q2[i].id = n - 1 - Len(q) + (i + lost)
        BY <1>4, <3>1
      <3>3. n - (Len(q) + 1 - lost) + i = n - 1 - Len(q) + (i + lost)
        BY <1>1
      <3>. QED
        BY <1>4, <3>2, <3>3
    <2>. QED
      BY <2>1, <2>2
  <1>. QED
    BY <1>2, <1>4, <1>5

\* A room's chat is well typed, and has its ids in order.
RoomChatOK(r) ==
    /\ chat[r].next \in Nat \ {0} /\ chat[r].log \in Seq(Message)
    /\ Len(chat[r].log) <= MaxMessages
    /\ \A i \in 1..Len(chat[r].log) :
          chat[r].log[i].id = chat[r].next - 1 - Len(chat[r].log) + i

LEMMA RoomChats ==
    ASSUME ChatOK, MessageIdsUnbroken, NEW r \in RoomId
    PROVE  RoomChatOK(r)
  <1>1. chat[r].next \in Nat \ {0} /\ chat[r].log \in Seq(Message)
    BY DEF ChatOK, RoomChat
  <1>2. DOMAIN chat[r].log = 1..Len(chat[r].log)
    BY <1>1, LenProperties
  <1>. QED
    BY <1>1, <1>2 DEF RoomChatOK, MessageIdsUnbroken

\* So is the chat of a room that has just been posted to.
LEMMA PostedChat ==
    ASSUME ChatOK, MessageIdsUnbroken, NEW r \in RoomId, NEW s \in Session,
           PostedBy(r, s)
    PROVE  /\ chat'[r] \in RoomChat
           /\ Len(chat'[r].log) <= MaxMessages
           /\ \A i \in DOMAIN chat'[r].log :
                 chat'[r].log[i].id = chat'[r].next - 1 - Len(chat'[r].log) + i
           /\ chat'[r].log[Len(chat'[r].log)].sender = s
  <1> DEFINE n == chat[r].next
             q == chat[r].log
             m == [id |-> n, sender |-> s]
             q2 == AppendBounded(q, m, MaxMessages)
  <1>1. /\ n \in Nat \ {0} /\ q \in Seq(Message) /\ Len(q) <= MaxMessages
        /\ \A i \in 1..Len(q) : q[i].id = n - 1 - Len(q) + i
    BY RoomChats DEF RoomChatOK
  <1>2. chat'[r] = [next |-> n + 1, log |-> q2]
    BY DEF PostedBy
  <1> HIDE DEF n, q
  <1>3. /\ q2 \in Seq(Message) /\ Len(q2) <= MaxMessages
        /\ \A i \in 1..Len(q2) : q2[i].id = n - Len(q2) + i
        /\ q2[Len(q2)].sender = s
    BY <1>1, PostedMessage
  <1> HIDE DEF q2, m
  <1>4. /\ Len(q2) \in Nat /\ DOMAIN q2 = 1..Len(q2) /\ n \in Nat
        /\ chat'[r].next = n + 1 /\ chat'[r].log = q2
    BY <1>1, <1>2, <1>3, LenProperties
  <1>5. chat'[r] \in RoomChat
    BY <1>1, <1>2, <1>3 DEF RoomChat
  <1>6. ASSUME NEW i \in 1..Len(q2) PROVE n + 1 - 1 - Len(q2) + i = n - Len(q2) + i
    BY <1>4
  <1>. QED
    BY <1>3, <1>4, <1>5, <1>6

LEMMA NextChatOK ==
    TypeOK /\ ChatOK /\ MessageIdsUnbroken /\ [ChatNext]_chatVars
      => (ChatOK /\ MessageIdsUnbroken)'
  <1> SUFFICES ASSUME TypeOK, ChatOK, MessageIdsUnbroken, [ChatNext]_chatVars
               PROVE  ChatOK' /\ MessageIdsUnbroken'
    OBVIOUS
  <1>1. ChatMoves
    BY NextMovesChat
  <1>2. ASSUME NEW r \in RoomId
        PROVE  /\ chat'[r] \in RoomChat
               /\ Len(chat'[r].log) <= MaxMessages
               /\ \A i \in DOMAIN chat'[r].log :
                     chat'[r].log[i].id = chat'[r].next - 1 - Len(chat'[r].log) + i
    <2>1. CASE Emptied(r)
      BY <2>1, ChatAssumption, EmptySeq DEF Emptied, EmptyChat, RoomChat
    <2>2. CASE Quiet(r)
      BY <2>2 DEF Quiet, ChatOK, MessageIdsUnbroken
    <2>3. CASE Posted(r)
      BY <2>3, PostedChat DEF Posted
    <2>. QED
      BY <1>1, <2>1, <2>2, <2>3 DEF ChatMoves
  <1>3. ChatOK'
    BY <1>1, <1>2 DEF ChatOK, ChatMoves
  <1>. QED
    BY <1>2, <1>3 DEF MessageIdsUnbroken

\* The store, and the chat of every room, together.
LEMMA ChatInvariant == ChatSpec => [](TypeOK /\ ChatOK /\ MessageIdsUnbroken)
  <1>1. ChatInit => TypeOK
    BY InitTypeOK DEF ChatInit
  <1>2. ChatInit => ChatOK /\ MessageIdsUnbroken
    BY ChatAssumption, EmptySeq
    DEF ChatInit, ChatOK, RoomChat, EmptyChat, MessageIdsUnbroken
  <1>. QED
    BY <1>1, <1>2, ChatNextTypeOK, NextChatOK, PTL DEF ChatSpec

\* A room keeps the last messages posted to it, with ids that run without a gap
\* up to its next one: messages with a cursor misses none that is still kept.
THEOREM IdsUnbroken == ChatSpec => []MessageIdsUnbroken
  BY ChatInvariant, PTL

\* Only a session that is a member when its message is stored posts to a room,
\* however long the request waited for the lock.
THEOREM MembersPost == ChatSpec => OnlyMembersPost
  <1> DEFINE Posts ==
        \A r \in RoomId :
          chat'[r].next > chat[r].next =>
            LET s == chat'[r].log[Len(chat'[r].log)].sender IN
              /\ ActsAs(s)
              /\ r \in DOMAIN rooms
              /\ rooms[r].left > 0
              /\ s = rooms[r].owner \/ SeatTime(r, s) > 0
  <1>1. ASSUME TypeOK, ChatOK, MessageIdsUnbroken, [ChatNext]_chatVars, NEW r \in RoomId,
               chat'[r].next > chat[r].next
        PROVE  LET s == chat'[r].log[Len(chat'[r].log)].sender IN
                 /\ ActsAs(s)
                 /\ r \in DOMAIN rooms
                 /\ rooms[r].left > 0
                 /\ s = rooms[r].owner \/ SeatTime(r, s) > 0
    <2>1. ChatMoves /\ chat[r].next \in Nat \ {0}
      BY <1>1, NextMovesChat DEF ChatOK, RoomChat
    <2>2. ~Emptied(r) /\ ~Quiet(r)
      BY <1>1, <2>1 DEF Emptied, EmptyChat, Quiet
    <2>3. PICK s \in Session : ActsAs(s) /\ IsMember(s, r) /\ PostedBy(r, s)
      BY <1>1, <2>1, <2>2 DEF ChatMoves, Posted
    <2>4. chat'[r].log[Len(chat'[r].log)].sender = s
      BY <1>1, <2>3, PostedChat
    <2>5. /\ r \in DOMAIN rooms /\ rooms[r].left > 0
          /\ s = rooms[r].owner \/ SeatTime(r, s) > 0
      BY <2>3 DEF IsMember, LiveRooms, KeptSeats, SeatTime
    <2>. QED
      BY <2>3, <2>4, <2>5
  <1>2. TypeOK /\ ChatOK /\ MessageIdsUnbroken /\ [ChatNext]_chatVars => [Posts]_chatVars
    BY <1>1
  <1>. QED
    BY <1>2, ChatInvariant, PTL DEF ChatSpec, OnlyMembersPost

-----------------------------------------------------------------------------
(* Reports: who knows which session.                                       *)

\* The directory knows a session: it lives, hosts a room or has a seat in one.
RoomNames(x, s) == x \in DOMAIN rooms
                   /\ (rooms[x].owner = s \/ s \in DOMAIN rooms[x].reservations)
Known(s) == s \in DOMAIN sessions \/ \E x : RoomNames(x, s)
Reported(s) == \E p \in Entries(reports) : p.reporter = s \/ p.target = s

\* The same after the step.
NamesAfter(x, s) == x \in DOMAIN rooms'
                    /\ (rooms'[x].owner = s \/ s \in DOMAIN rooms'[x].reservations)
KnownAfter(s) == s \in DOMAIN sessions' \/ \E x : NamesAfter(x, s)
ReportedAfter(s) == \E p \in Entries(reports') : p.reporter = s \/ p.target = s

\* A session that a thread is about to register is new to everything else.
RegisteringIsNew ==
    \A w \in Worker : worker[w].pc = "registering" =>
        /\ ~Known(worker[w].session) /\ ~Reported(worker[w].session)
        /\ \A v \in Worker \ {w} : worker[v].session # worker[w].session

\* What a report has hidden stays hidden.
ReportedStayHidden ==
    \A p \in Entries(reports) :
        p.reporter \in DOMAIN sessions => p.target \in blocked[p.reporter]

\* Rooms gain no session but s.
RoomsLearn(s) == \A x, t : NamesAfter(x, t) => RoomNames(x, t) \/ t = s

LEMMA PurgeLearnsNothing ==
    ASSUME TypeOK, rooms' = rooms \/ rooms' = PurgedRooms, NEW s
    PROVE  RoomsLearn(s)
  BY PurgeKeepsTypes DEF RoomsLearn, RoomNames, NamesAfter

LEMMA OneRoomLearns ==
    ASSUME TypeOK, NEW r \in LiveRooms, NEW y, NEW s,
           rooms' = [PurgedRooms EXCEPT ![r] = y],
           y.owner = rooms[r].owner,
           DOMAIN y.reservations \subseteq KeptSeats(r) \cup {s}
    PROVE  RoomsLearn(s)
  <1>1. /\ DOMAIN rooms' = LiveRooms /\ rooms'[r] = y
        /\ \A x \in LiveRooms : x # r => rooms'[x] = PurgedRoom(x)
    BY PurgeKeepsTypes
  <1>. QED
    BY <1>1, PurgeKeepsTypes DEF RoomsLearn, RoomNames, NamesAfter

LEMMA LeaseLearns ==
    ASSUME TypeOK, NEW r \in LiveRooms, NEW s \in Session, NEW ttl \in Nat,
           rooms' = [PurgedRooms EXCEPT ![r].reservations = Lease(@, s, ttl)]
    PROVE  RoomsLearn(s)
  <1> DEFINE d == Lease(PurgedRoom(r).reservations, s, ttl)
             y == Reseated(PurgedRoom(r), d)
  <1>1. rooms' = [PurgedRooms EXCEPT ![r] = y]
    <2>1. PurgedRooms[r] = PurgedRoom(r)
      BY PurgeKeepsTypes
    <2>. QED
      BY <2>1 DEF Reseated
  <1>2. IsDict(PurgedRoom(r).reservations, Session, Nat) /\ IsRoom(PurgedRoom(r))
    BY PurgeKeepsTypes DEF IsRoom
  <1>3. IsDict(d, Session, Nat) /\ DOMAIN d = DOMAIN PurgedRoom(r).reservations \cup {s}
    BY <1>2, LeaseType
  <1>4. DOMAIN PurgedRoom(r).reservations = KeptSeats(r)
    BY PurgeKeepsTypes
  <1> HIDE DEF d
  <1>5. y.owner = rooms[r].owner /\ DOMAIN y.reservations = KeptSeats(r) \cup {s}
    BY <1>2, <1>3, <1>4, ReseatedRoom, PurgeKeepsTypes
  <1> HIDE DEF y
  <1>. QED
    BY <1>1, <1>5, OneRoomLearns

LEMMA HeartbeatLearnsNothing ==
    ASSUME TypeOK, NEW w \in Worker, NEW r \in RoomId, NEW state \in RoomState,
           Heartbeat(w, r, state), NEW s
    PROVE  RoomsLearn(s)
  <1>1. CASE r \in LiveRooms /\ Owned(worker[w].session, r)
    <2> DEFINE y == Renewed(PurgedRoom(r), RoomTTL, state)
    <2>1. rooms' = [PurgedRooms EXCEPT ![r] = y]
      <3>1. PurgedRooms[r] = PurgedRoom(r)
        BY <1>1, PurgeKeepsTypes
      <3>. QED
        BY <1>1, <3>1 DEF Heartbeat, Renewed
    <2>2. /\ y.owner = PurgedRoom(r).owner
          /\ y.reservations = PurgedRoom(r).reservations
      BY <1>1, PurgeKeepsTypes, RenewedRoom, StoreAssumption
    <2> HIDE DEF y
    <2>3. y.owner = rooms[r].owner /\ DOMAIN y.reservations = KeptSeats(r)
      BY <1>1, <2>2, PurgeKeepsTypes
    <2>. QED
      BY <1>1, <2>1, <2>3, OneRoomLearns
  <1>2. CASE ~(r \in LiveRooms /\ Owned(worker[w].session, r))
    BY <1>2, PurgeLearnsNothing DEF Heartbeat
  <1>. QED
    BY <1>1, <1>2

LEMMA LeaveLearnsNothing ==
    ASSUME TypeOK, NEW w \in Worker, NEW r \in RoomId, LeaveRoom(w, r), NEW s
    PROVE  RoomsLearn(s)
  <1>1. CASE r \in DOMAIN rooms
    <2> DEFINE d == [x \in DOMAIN rooms[r].reservations \ {worker[w].session} |->
                       rooms[r].reservations[x]]
               y == Reseated(rooms[r], d)
    <2>1. rooms' = [rooms EXCEPT ![r] = y]
      BY <1>1 DEF LeaveRoom, Reseated
    <2>2. IsRoom(rooms[r]) /\ IsDict(rooms[r].reservations, Session, Nat)
      BY <1>1 DEF TypeOK, IsRoom
    <2>3. IsDict(d, Session, Nat) /\ DOMAIN d \subseteq DOMAIN rooms[r].reservations
      BY <2>2, PartType
    <2> HIDE DEF d
    <2>4. y.owner = rooms[r].owner /\ DOMAIN y.reservations \subseteq DOMAIN rooms[r].reservations
      BY <2>2, <2>3, ReseatedRoom
    <2> HIDE DEF y
    <2>5. /\ DOMAIN rooms' = DOMAIN rooms /\ rooms'[r] = y
          /\ \A x \in DOMAIN rooms : x # r => rooms'[x] = rooms[x]
      BY <1>1, <2>1
    <2>. QED
      BY <1>1, <2>4, <2>5 DEF RoomsLearn, RoomNames, NamesAfter
  <1>2. CASE r \notin DOMAIN rooms
    BY <1>2, PurgeLearnsNothing DEF LeaveRoom
  <1>. QED
    BY <1>1, <1>2

\* A request makes the rooms know at most its own session.
LEMMA RequestLearns ==
    ASSUME TypeOK, NEW w \in Worker, ClientRequest(w)
    PROVE  RoomsLearn(worker[w].session)
  <1> DEFINE s == worker[w].session
  <1>1. CASE \/ \E t \in Session : ReadClockForSession(w, t) \/ Authenticate(w, t)
             \/ \E p \in Profile : CreateSession(w, p)
             \/ \E r \in RoomId : ReadClockForRoom(w, r)
             \/ \E t \in Session : Block(w, t)
             \/ Browse(w)
    BY <1>1, PurgeLearnsNothing
       DEF ReadClockForSession, Authenticate, CreateSession, ReadClockForRoom, Block, Browse
  <1>2. ASSUME NEW c \in Capacity, CreateRoom(w, c) PROVE RoomsLearn(s)
    <2> DEFINE r == worker[w].room
               new == NewRoom(s, c, worker[w].age)
    <2>1. CASE Cardinality(LiveRooms) < MaxRooms
      <3>1. rooms' = [x \in (LiveRooms \ RoomsOf(s)) \cup {r} |->
                        IF x = r THEN new ELSE PurgedRoom(x)]
        BY <1>2, <2>1 DEF CreateRoom
      <3>2. new.owner = s /\ DOMAIN new.reservations = {}
        BY DEF NewRoom
      <3> HIDE DEF new, r
      <3>3. /\ \A x \in DOMAIN rooms' : x # r => x \in LiveRooms /\ rooms'[x] = PurgedRoom(x)
            /\ r \in DOMAIN rooms' => rooms'[r] = new
        BY <3>1
      <3>. QED
        BY <3>2, <3>3, PurgeKeepsTypes DEF RoomsLearn, RoomNames, NamesAfter
    <2>2. CASE ~(Cardinality(LiveRooms) < MaxRooms)
      BY <1>2, <2>2, PurgeLearnsNothing DEF CreateRoom
    <2>. QED
      BY <2>1, <2>2
  <1>3. ASSUME NEW r \in RoomId, NEW state \in RoomState, Heartbeat(w, r, state)
        PROVE  RoomsLearn(s)
    BY <1>3, HeartbeatLearnsNothing
  <1>4. ASSUME NEW r \in RoomId, JoinRoom(w, r) PROVE RoomsLearn(s)
    <2>1. s \in Session
      BY <1>4 DEF JoinRoom, TypeOK
    <2>2. TakesSeat(s, r) => r \in LiveRooms
      BY DEF TakesSeat, JoinGranted
    <2>. QED
      BY <1>4, <2>1, <2>2, LeaseLearns, PurgeLearnsNothing, StoreAssumption DEF JoinRoom
  <1>5. ASSUME NEW r \in RoomId, HeartbeatMember(w, r) PROVE RoomsLearn(s)
    <2>1. s \in Session
      BY <1>5 DEF HeartbeatMember, TypeOK
    <2>2. HoldsSeat(s, r) => r \in LiveRooms
      BY DEF HoldsSeat
    <2>. QED
      BY <1>5, <2>1, <2>2, LeaseLearns, PurgeLearnsNothing, StoreAssumption DEF HeartbeatMember
  <1>6. ASSUME NEW r \in RoomId, LeaveRoom(w, r) PROVE RoomsLearn(s)
    BY <1>6, LeaveLearnsNothing
  <1>7. ASSUME NEW r \in RoomId, DeleteRoom(w, r) PROVE RoomsLearn(s)
    BY <1>7 DEF DeleteRoom, RoomsLearn, RoomNames, NamesAfter
  <1>. QED
    BY <1>1, <1>2, <1>3, <1>4, <1>5, <1>6, <1>7 DEF ClientRequest

\* How the thread of a request moves on: back to idle, on with a session the
\* directory knows, or with a session just drawn.
MovesOn(w) ==
    /\ \A v \in Worker : v # w => worker'[v] = worker[v]
    /\ \/ /\ worker'[w].pc # "registering"
          /\ \/ worker'[w].session \in {NoSession, worker[w].session}
             \/ Known(worker'[w].session)
       \/ /\ FreshSession(worker'[w].session)
          /\ UNCHANGED <<sessions, rooms>>

LEMMA HoldMoves ==
    ASSUME TypeOK, NEW w \in Worker, NEW pc, NEW s, NEW r, Hold(w, pc, s, r)
    PROVE  /\ worker'[w].pc = pc /\ worker'[w].session = s
           /\ \A v \in Worker : v # w => worker'[v] = worker[v]
  BY DEF Hold, TypeOK

LEMMA RequestMoves ==
    ASSUME TypeOK, NEW w \in Worker, ClientRequest(w)
    PROVE  MovesOn(w)
  <1>1. CASE Finish(w)
    BY <1>1, HoldMoves DEF Finish, MovesOn
  <1>2. ASSUME NEW s \in Session, ReadClockForSession(w, s) PROVE MovesOn(w)
    BY <1>2, HoldMoves DEF ReadClockForSession, MovesOn
  <1>3. ASSUME NEW s \in Session, Authenticate(w, s) PROVE MovesOn(w)
    <2>1. CASE s \in LiveSessions
      BY <1>3, <2>1, HoldMoves DEF Authenticate, MovesOn, Known, LiveSessions
    <2>2. CASE s \notin LiveSessions
      BY <1>3, <2>2 DEF Authenticate, MovesOn
    <2>. QED
      BY <2>1, <2>2
  <1>4. ASSUME NEW r \in RoomId, ReadClockForRoom(w, r) PROVE MovesOn(w)
    BY <1>4, HoldMoves DEF ReadClockForRoom, MovesOn
  <1>. QED
    BY <1>1, <1>2, <1>3, <1>4
    DEF ClientRequest, CreateSession, CreateRoom, Heartbeat, JoinRoom,
        HeartbeatMember, LeaveRoom, DeleteRoom, Block, Browse

\* What a request does to the live sessions and to what they hide: only a
\* session that registers forgets, and is forgotten.
SessionsStay ==
    /\ DOMAIN sessions' \subseteq DOMAIN sessions
    /\ \A s \in Session : blocked[s] \subseteq blocked'[s]

Registers(w) ==
    LET s == worker[w].session IN
    /\ worker[w].pc = "registering" /\ worker'[w].pc = "idle"
    /\ DOMAIN sessions' \subseteq DOMAIN sessions \cup {s}
    /\ \A t \in Session \ {s} : blocked[t] \ {s} \subseteq blocked'[t]

LEMMA RequestSessions ==
    ASSUME TypeOK, NEW w \in Worker, ClientRequest(w)
    PROVE  SessionsStay \/ Registers(w)
  <1>1. DOMAIN PurgedSessions \subseteq DOMAIN sessions
    BY DEF PurgedSessions, LiveSessions
  <1>2. CASE /\ sessions' = sessions \/ sessions' = PurgedSessions
             /\ blocked' = blocked
    BY <1>1, <1>2 DEF SessionsStay
  <1>3. ASSUME NEW p \in Profile, CreateSession(w, p) PROVE SessionsStay \/ Registers(w)
    <2>1. CASE Cardinality(LiveSessions) < MaxSessions
      <3>1. worker[w].pc = "registering" /\ worker'[w].pc = "idle"
        BY <1>3, HoldMoves DEF CreateSession, Finish
      <3>2. DOMAIN sessions' = DOMAIN PurgedSessions \cup {worker[w].session}
        BY <1>3, <2>1 DEF CreateSession, Lease
      <3>3. blocked' = [x \in Session |-> IF x = worker[w].session THEN {}
                                          ELSE blocked[x] \ {worker[w].session}]
        BY <1>3, <2>1 DEF CreateSession
      <3>. QED
        BY <1>1, <3>1, <3>2, <3>3 DEF Registers
    <2>2. CASE ~(Cardinality(LiveSessions) < MaxSessions)
      BY <1>2, <1>3, <2>2 DEF CreateSession
    <2>. QED
      BY <2>1, <2>2
  <1>4. ASSUME NEW t \in Session, Block(w, t) PROVE SessionsStay
    BY <1>4 DEF Block, SessionsStay, TypeOK
  <1>. QED
    BY <1>2, <1>3, <1>4
    DEF ClientRequest, ReadClockForSession, Authenticate, ReadClockForRoom,
        CreateRoom, Heartbeat, JoinRoom, HeartbeatMember, LeaveRoom, DeleteRoom, Browse

-----------------------------------------------------------------------------
(* What a step of the whole does, request by request.                      *)

\* The reports a request adds are its session's, about a session known.
ReportsGain(w) ==
    \A p \in Entries(reports') \ Entries(reports) :
        /\ p.reporter = worker[w].session /\ Known(p.target)
        /\ p.target \in blocked'[p.reporter]

RequestStep(w) ==
    /\ RoomsLearn(worker[w].session)
    /\ MovesOn(w)
    /\ worker'[w].pc = "registering" =>
          reports' = reports /\ ~Reported(worker'[w].session)
    /\ ReportsGain(w)
    /\ SessionsStay \/ Registers(w)

LEMMA DirectoryStep ==
    ASSUME TypeOK, NEW w \in Worker, DirectoryRequest(w)
    PROVE  RequestStep(w)
  <1>1. ReportsGain(w) /\ reports' = reports
    BY DEF DirectoryRequest, ReportsGain
  <1>2. worker'[w].pc = "registering" => ~Reported(worker'[w].session)
    BY DEF DirectoryRequest, Mentioned, Reported
  <1>. QED
    BY <1>1, <1>2, RequestLearns, RequestMoves, RequestSessions DEF DirectoryRequest, RequestStep

LEMMA MessageStep ==
    ASSUME TypeOK, NEW w \in Worker,
           ReadClockForMessage(w) \/ \E r \in RoomId : SendMessage(w, r)
    PROVE  RequestStep(w)
  <1>1. ReportsGain(w)
    BY DEF ReadClockForMessage, SendMessage, ReportsGain, talk
  <1>2. RoomsLearn(worker[w].session)
    BY PurgeLearnsNothing DEF ReadClockForMessage, SendMessage
  <1>3. MovesOn(w) /\ worker'[w].pc # "registering"
    BY HoldMoves DEF ReadClockForMessage, SendMessage, Finish, MovesOn
  <1>4. SessionsStay
    BY DEF ReadClockForMessage, SendMessage, SessionsStay, PurgedSessions, LiveSessions
  <1>. QED
    BY <1>1, <1>2, <1>3, <1>4 DEF RequestStep

LEMMA ReportStep ==
    ASSUME TypeOK, ReportsOK, NEW w \in Worker, NEW target \in Session, NEW r \in RoomId,
           NEW reason \in Reason, Report(w, target, r, reason)
    PROVE  RequestStep(w) /\ ReportsOK'
  <1> DEFINE s == worker[w].session
             report == [reporter |-> s, target |-> target, room |-> r, reason |-> reason]
             recorded == /\ ReportAccepted(s, target, r)
                         /\ ~OnRecord(report)
                         /\ ReportLimiter!Admits(reportEvents, s, 0)
  <1>1. s \in Session
    BY DEF Report, TypeOK
  <1>2. report \in ReportRecord
    BY <1>1 DEF ReportRecord
  <1>3. reports' = IF recorded THEN AppendBounded(reports, report, MaxReports) ELSE reports
    BY DEF Report
  <1>4. recorded => Known(target) /\ blocked' = [blocked EXCEPT ![s] = @ \cup {target}]
    <2>1. ReportAccepted(s, target, r) => Known(target)
      BY DEF ReportAccepted, Known, RoomNames, LiveRooms, KeptSeats
    <2>2. recorded => HidesTarget(report)
      BY DEF HidesTarget
    <2>. QED
      BY <2>1, <2>2 DEF Report
  <1>5. SessionsStay
    BY DEF Report, SessionsStay, PurgedSessions, LiveSessions, TypeOK
  <1>6. RoomsLearn(s)
    BY PurgeLearnsNothing DEF Report
  <1>7. MovesOn(w) /\ worker'[w].pc # "registering"
    BY HoldMoves DEF Report, Finish, MovesOn
  <1>8. report.reporter = s /\ report.target = target
    OBVIOUS
  <1> HIDE DEF report, recorded
  <1>9. ReportsOK' /\ Entries(reports') \subseteq Entries(reports) \cup {report}
    BY <1>2, <1>3, AppendBoundedEntries, ChatAssumption DEF ReportsOK
  <1>10. ReportsGain(w)
    <2>1. CASE recorded
      <3>1. target \in blocked'[s]
        BY <1>1, <1>4, <2>1 DEF TypeOK
      <3>. QED
        BY <1>4, <1>8, <1>9, <2>1, <3>1 DEF ReportsGain
    <2>2. CASE ~recorded
      BY <1>3, <2>2 DEF ReportsGain
    <2>. QED
      BY <2>1, <2>2
  <1>. QED
    BY <1>5, <1>6, <1>7, <1>9, <1>10 DEF RequestStep

\* A request keeps what a thread is about to register new, and reports hiding.
LEMMA StepKeepsHiding ==
    ASSUME TypeOK, ReportsOK, RegisteringIsNew, ReportedStayHidden,
           NEW w \in Worker, RequestStep(w)
    PROVE  RegisteringIsNew' /\ ReportedStayHidden'
  <1> DEFINE s == worker[w].session
  <1>1. \A t : KnownAfter(t) => Known(t) \/ t = s
    BY DEF RequestStep, RoomsLearn, Known, KnownAfter, SessionsStay, Registers
  <1>2. \A t : ReportedAfter(t) => Reported(t) \/ Known(t) \/ t = s
    BY DEF RequestStep, ReportsGain, Reported, ReportedAfter
  <1>3. RegisteringIsNew'
    <2> SUFFICES ASSUME NEW v \in Worker, worker'[v].pc = "registering"
                 PROVE  /\ ~KnownAfter(worker'[v].session)
                        /\ ~ReportedAfter(worker'[v].session)
                        /\ \A u \in Worker \ {v} : worker'[u].session # worker'[v].session
      BY DEF RegisteringIsNew, Known, RoomNames, Reported, KnownAfter, NamesAfter, ReportedAfter
    <2>1. CASE v = w
      <3>1. /\ FreshSession(worker'[w].session)
            /\ UNCHANGED <<sessions, rooms>>
            /\ reports' = reports /\ ~Reported(worker'[w].session)
            /\ \A u \in Worker : u # w => worker'[u] = worker[u]
        BY <2>1 DEF RequestStep, MovesOn
      <3>2. ~Known(worker'[w].session)
        BY <3>1 DEF FreshSession, Known, RoomNames
      <3>3. \A t : (KnownAfter(t) => Known(t)) /\ (ReportedAfter(t) => Reported(t))
        BY <3>1 DEF Known, RoomNames, Reported, KnownAfter, NamesAfter, ReportedAfter
      <3>. QED
        BY <2>1, <3>1, <3>2, <3>3 DEF FreshSession
    <2>2. CASE v # w
      <3>1. worker'[v] = worker[v]
        BY <2>2 DEF RequestStep, MovesOn
      <3> DEFINE t == worker[v].session
      <3>2. /\ ~Known(t) /\ ~Reported(t) /\ t # s
            /\ \A u \in Worker \ {v} : worker[u].session # t
        BY <2>2, <3>1 DEF RegisteringIsNew
      <3>3. t \in Session /\ t # NoSession
        BY <3>1, StoreAssumption DEF TypeOK
      <3>4. \A u \in Worker \ {v, w} : worker'[u].session # t
        BY <3>2 DEF RequestStep, MovesOn
      <3>5. worker'[w].session # t
        BY <3>2, <3>3 DEF RequestStep, MovesOn, FreshSession
      <3> HIDE DEF t
      <3>. QED
        BY <1>1, <1>2, <3>1, <3>2, <3>4, <3>5 DEF t
    <2>. QED
      BY <2>1, <2>2
  <1>4. ReportedStayHidden'
    <2> SUFFICES ASSUME NEW p \in Entries(reports'), p.reporter \in DOMAIN sessions'
                 PROVE  p.target \in blocked'[p.reporter]
      BY DEF ReportedStayHidden
    <2>1. CASE p \notin Entries(reports)
      BY <2>1 DEF RequestStep, ReportsGain
    <2>2. CASE p \in Entries(reports)
      <3>1. p.reporter \in Session
        <4>1. p \in ReportRecord
          BY <2>2, EntryType DEF ReportsOK
        <4>. QED
          BY <4>1 DEF ReportRecord
      <3>2. CASE SessionsStay
        BY <2>2, <3>1, <3>2 DEF SessionsStay, ReportedStayHidden
      <3>3. CASE Registers(w)
        <4>1. p.reporter # s /\ p.target # s
          BY <2>2, <3>3 DEF Registers, RegisteringIsNew, Reported
        <4>. QED
          BY <2>2, <3>1, <3>3, <4>1 DEF Registers, ReportedStayHidden
      <3>. QED
        BY <3>2, <3>3 DEF RequestStep
    <2>. QED
      BY <2>1, <2>2
  <1>. QED
    BY <1>3, <1>4

HidingInv == ReportsOK /\ RegisteringIsNew /\ ReportedStayHidden

LEMMA NextHidingInv == TypeOK /\ HidingInv /\ [ChatNext]_chatVars => HidingInv'
  <1> SUFFICES ASSUME TypeOK, HidingInv, [ChatNext]_chatVars PROVE HidingInv'
    OBVIOUS
  <1>1. CASE ChatTick
    <2>1. /\ DOMAIN sessions' = DOMAIN sessions
          /\ UNCHANGED <<blocked, reports>>
          /\ \A v \in Worker : /\ worker'[v].pc = worker[v].pc
                               /\ worker'[v].session = worker[v].session
      BY <1>1 DEF ChatTick, Tick, TypeOK, WorkerState
    <2>2. \A x, t : NamesAfter(x, t) => RoomNames(x, t)
      <3>1. DOMAIN rooms' = DOMAIN rooms
        BY <1>1 DEF ChatTick, Tick
      <3>2. ASSUME NEW x \in DOMAIN rooms
            PROVE  /\ rooms'[x].owner = rooms[x].owner
                   /\ DOMAIN rooms'[x].reservations = DOMAIN rooms[x].reservations
        <4> DEFINE d == [t \in DOMAIN rooms[x].reservations |->
                           Sooner(rooms[x].reservations[t])]
        <4>1. rooms[x] \in [owner : Session, capacity : Capacity, state : RoomState,
                            left : Nat, reservations : {rooms[x].reservations}]
          BY DEF TypeOK, IsRoom
        <4>2. rooms'[x] = [rooms[x] EXCEPT !.left = Sooner(@), !.reservations = d]
          BY <1>1 DEF ChatTick, Tick
        <4>3. DOMAIN d = DOMAIN rooms[x].reservations
          OBVIOUS
        <4> HIDE DEF d
        <4>. QED
          BY <4>1, <4>2, <4>3
      <3>. QED
        BY <3>1, <3>2 DEF RoomNames, NamesAfter
    <2>3. \A t : KnownAfter(t) => Known(t)
      BY <2>1, <2>2 DEF Known, KnownAfter
    <2>4. RegisteringIsNew'
      <3>1. ASSUME NEW v \in Worker, worker'[v].pc = "registering"
            PROVE  /\ ~KnownAfter(worker'[v].session)
                   /\ ~ReportedAfter(worker'[v].session)
                   /\ \A u \in Worker \ {v} : worker'[u].session # worker'[v].session
        BY <2>1, <2>3, <3>1 DEF HidingInv, RegisteringIsNew, Reported, ReportedAfter
      <3>. QED
        BY <3>1 DEF RegisteringIsNew, Known, RoomNames, Reported, KnownAfter, NamesAfter,
                    ReportedAfter
    <2>. QED
      BY <2>1, <2>4 DEF HidingInv, ReportsOK, ReportedStayHidden
  <1>2. ASSUME NEW w \in Worker, RequestStep(w), ReportsOK' PROVE HidingInv'
    BY <1>2, StepKeepsHiding DEF HidingInv
  <1>3. ASSUME NEW w \in Worker, DirectoryRequest(w) PROVE HidingInv'
    BY <1>2, <1>3, DirectoryStep DEF DirectoryRequest, HidingInv, ReportsOK
  <1>4. ASSUME NEW w \in Worker,
               ReadClockForMessage(w) \/ \E r \in RoomId : SendMessage(w, r)
        PROVE  HidingInv'
    <2>1. reports' = reports
      BY <1>4 DEF ReadClockForMessage, SendMessage, talk
    <2>. QED
      BY <1>2, <1>4, <2>1, MessageStep DEF HidingInv, ReportsOK
  <1>5. ASSUME NEW w \in Worker, NEW t \in Session, NEW r \in RoomId, NEW reason \in Reason,
               Report(w, t, r, reason)
        PROVE  HidingInv'
    BY <1>2, <1>5, ReportStep DEF HidingInv
  <1>6. CASE UNCHANGED chatVars
    BY <1>6 DEF chatVars, vars, talk, HidingInv, ReportsOK, RegisteringIsNew,
                ReportedStayHidden, Known, RoomNames, Reported
  <1>. QED
    BY <1>1, <1>3, <1>4, <1>5, <1>6 DEF ChatNext

\* A report goes on hiding its target as long as the reporter's session lasts:
\* no other request, no expiry and no later session brings the target's rooms or
\* messages back.
THEOREM ReportsHide == ChatSpec => []ReportHides
  <1>1. ChatInit => HidingInv
    BY EmptySeq DEF ChatInit, Init, HidingInv, ReportsOK, RegisteringIsNew,
                    ReportedStayHidden, Entries
  <1>2. HidingInv => ReportHides
    BY DEF HidingInv, ReportedStayHidden, ReportHides, Listed, JoinGranted, Readable
  <1>. QED
    BY <1>1, <1>2, NextHidingInv, ChatInvariant, PTL DEF ChatSpec

\* A report that is refused, for its room, its target or the limit, hides nobody:
\* the target is hidden only with the report on record, new or from before.
THEOREM HidingIsOnRecord == ChatSpec => HiddenOnlyOnRecord
  <1>1. ASSUME TypeOK, ReportsOK, [ChatNext]_chatVars, NEW s \in Session,
               NEW t \in (blocked'[s] \ blocked[s]) \ Blockable
        PROVE  \E p \in Entries(reports') : p.reporter = s /\ p.target = t
    <2>0. blocked \in [Session -> SUBSET Session]
      BY <1>1 DEF TypeOK
    <2>1. CASE ChatTick \/ UNCHANGED chatVars
      BY <1>1, <2>1 DEF ChatTick, Tick, chatVars, vars
    <2>2. ASSUME NEW w \in Worker, DirectoryRequest(w) PROVE FALSE
      <3>1. CASE \E target \in Session : Block(w, target)
        BY <1>1, <2>0, <3>1 DEF Block
      <3>2. CASE \E p \in Profile : CreateSession(w, p)
        BY <1>1, <2>0, <3>2 DEF CreateSession
      <3>3. CASE blocked' = blocked
        BY <1>1, <3>3
      <3>. QED
        BY <2>2, <3>1, <3>2, <3>3
        DEF DirectoryRequest, ClientRequest, ReadClockForSession, Authenticate,
            ReadClockForRoom, CreateRoom, Heartbeat, JoinRoom, HeartbeatMember, LeaveRoom,
            DeleteRoom, Browse
    <2>3. ASSUME NEW w \in Worker, ReadClockForMessage(w) \/ \E r \in RoomId : SendMessage(w, r)
          PROVE  FALSE
      BY <1>1, <2>3 DEF ReadClockForMessage, SendMessage
    <2>4. ASSUME NEW w \in Worker, NEW target \in Session, NEW r \in RoomId,
                 NEW reason \in Reason, Report(w, target, r, reason)
          PROVE  \E p \in Entries(reports') : p.reporter = s /\ p.target = t
      <3> DEFINE report == [reporter |-> worker[w].session, target |-> target,
                            room |-> r, reason |-> reason]
      <3>1. worker[w].session \in Session
        BY <1>1, <2>4 DEF Report, TypeOK
      <3>2. report \in ReportRecord /\ report.reporter = worker[w].session
            /\ report.target = target /\ report.room = r
        BY <3>1 DEF ReportRecord
      <3>3. /\ blocked' = IF HidesTarget(report)
                          THEN [blocked EXCEPT ![worker[w].session] = @ \cup {target}]
                          ELSE blocked
            /\ HidesTarget(report) /\ ~OnRecord(report) =>
                  reports' = AppendBounded(reports, report, MaxReports)
            /\ OnRecord(report) => reports' = reports
        BY <2>4, <3>2 DEF Report, HidesTarget
      <3> HIDE DEF report
      <3>4. HidesTarget(report) /\ worker[w].session = s /\ target = t
        BY <1>1, <2>0, <3>1, <3>3
      <3>5. report \in Entries(reports')
        BY <1>1, <3>2, <3>3, <3>4, AppendBoundedEntries, ChatAssumption
        DEF OnRecord, ReportsOK
      <3>. QED
        BY <3>2, <3>4, <3>5
    <2>. QED
      BY <1>1, <2>1, <2>2, <2>3, <2>4 DEF ChatNext
  <1>2. TypeOK /\ HidingInv /\ [ChatNext]_chatVars =>
          [\A s \in Session : \A t \in (blocked'[s] \ blocked[s]) \ Blockable :
             \E p \in Entries(reports') : p.reporter = s /\ p.target = t]_chatVars
    BY <1>1 DEF HidingInv
  <1>3. ChatInit => HidingInv
    BY EmptySeq DEF ChatInit, Init, HidingInv, ReportsOK, RegisteringIsNew,
                    ReportedStayHidden, Entries
  <1>. QED
    BY <1>2, <1>3, NextHidingInv, ChatInvariant, PTL DEF ChatSpec, HiddenOnlyOnRecord

-----------------------------------------------------------------------------
(* The tables of the two limiters.                                         *)

\* The events of a limiter that knows ages up to n.
LimiterTable(e, n) == DOMAIN e \subseteq Session /\ \A s \in DOMAIN e : e[s] \in Seq(0..n)

\* The tables of _chat_message_limits and _report_limits.
LimitersOK == LimiterTable(chatEvents, OldestPost) /\ LimiterTable(reportEvents, OldestReport)

\* A set of numbers has a least one.
LEMMA LeastNumber ==
    ASSUME NEW T \in SUBSET Nat, T # {}
    PROVE  \E m \in T : \A i \in T : m <= i
  <1>1. PICK m \in T : \A i \in T : ~(<<i, m>> \in OpToRel(<, Nat))
    BY NatLessThanWellFounded, WFMin
  <1>2. \A i \in T : ~(i < m)
    BY <1>1 DEF OpToRel
  <1>. QED
    BY <1>2

\* The entries of a deque that come before the first one below b.
LEMMA ExpiredPrefix ==
    ASSUME NEW n \in Nat, NEW q \in Seq(0..n), NEW b \in Nat
    PROVE  \E k \in 0..Len(q) : /\ \A i \in 1..k : q[i] >= b
                                /\ k < Len(q) => ~(q[k + 1] >= b)
  <1> DEFINE Below == {i \in 1..Len(q) : q[i] < b}
  <1>1. Len(q) \in Nat /\ \A i \in 1..Len(q) : q[i] \in 0..n
    BY LenProperties
  <1>2. CASE Below = {}
    <2>1. ASSUME NEW i \in 1..Len(q) PROVE q[i] >= b
      <3>1. i \notin Below
        BY <1>2
      <3>. QED
        BY <1>1, <3>1
    <2>. QED
      BY <1>1, <2>1
  <1>3. CASE Below # {}
    <2>1. Below \in SUBSET Nat
      BY <1>1
    <2>2. PICK m \in Below : \A i \in Below : m <= i
      <3> HIDE DEF Below
      <3>. QED
        BY <1>3, <2>1, LeastNumber
    <2>3. \A i \in 1..(m - 1) : q[i] >= b
      BY <1>1, <2>2
    <2>4. m - 1 \in 0..Len(q) /\ ~(q[(m - 1) + 1] >= b)
      BY <1>1, <2>2
    <2>. QED
      BY <2>3, <2>4
  <1>. QED
    BY <1>2, <1>3

\* What is left of it without such a prefix.
LEMMA SuffixType ==
    ASSUME NEW S, NEW q \in Seq(S), NEW k \in 0..Len(q)
    PROVE  SubSeq(q, k + 1, Len(q)) \in Seq(S)
  <1>1. Len(q) \in Nat /\ \A i \in (k + 1)..Len(q) : q[i] \in S
    BY LenProperties
  <1>. QED
    BY <1>1, SubSeqProperties

\* So what a limiter keeps of a deque has the ages the deque had.
LEMMA ChatDrops ==
    ASSUME NEW n \in Nat, NEW q \in Seq(0..n), NEW delay \in Nat
    PROVE  ChatLimiter!DropExpired(q, delay) \in Seq(0..n)
  <1> DEFINE Good(k) == /\ \A i \in 1..k : ChatLimiter!Expired(q[i], delay)
                        /\ k < Len(q) => ~ChatLimiter!Expired(q[k + 1], delay)
             Chosen == CHOOSE k \in 0..Len(q) : Good(k)
  <1>1. ChatWindow + delay \in Nat
    BY ChatAssumption
  <1>2. \E k \in 0..Len(q) : Good(k)
    BY <1>1, ExpiredPrefix DEF ChatLimiter!Expired
  <1>3. Chosen \in 0..Len(q)
    BY <1>2
  <1>4. ChatLimiter!DropExpired(q, delay) = SubSeq(q, Chosen + 1, Len(q))
    BY DEF ChatLimiter!DropExpired
  <1>. QED
    BY <1>3, <1>4, SuffixType

\* The same of the limiter of the reports.
LEMMA ReportDrops ==
    ASSUME NEW n \in Nat, NEW q \in Seq(0..n), NEW delay \in Nat
    PROVE  ReportLimiter!DropExpired(q, delay) \in Seq(0..n)
  <1> DEFINE Good(k) == /\ \A i \in 1..k : ReportLimiter!Expired(q[i], delay)
                        /\ k < Len(q) => ~ReportLimiter!Expired(q[k + 1], delay)
             Chosen == CHOOSE k \in 0..Len(q) : Good(k)
  <1>1. ReportWindow + delay \in Nat
    BY ChatAssumption
  <1>2. \E k \in 0..Len(q) : Good(k)
    BY <1>1, ExpiredPrefix DEF ReportLimiter!Expired
  <1>3. Chosen \in 0..Len(q)
    BY <1>2
  <1>4. ReportLimiter!DropExpired(q, delay) = SubSeq(q, Chosen + 1, Len(q))
    BY DEF ReportLimiter!DropExpired
  <1>. QED
    BY <1>3, <1>4, SuffixType

\* A request leaves each table a table.
LEMMA ChatTableStays ==
    ASSUME NEW n \in Nat, NEW e, LimiterTable(e, n), NEW s \in Session, NEW delay \in 0..n
    PROVE  LimiterTable(ChatLimiter!After(e, s, delay), n)
  <1> DEFINE table == ChatLimiter!TableFor(e, s, delay)
             q == ChatLimiter!DropExpired(ChatLimiter!DequeOf(table, s), delay)
             recorded == ChatLimiter!Refuses(table, s, delay)
  <1>1. LimiterTable(table, n)
    BY DEF LimiterTable, ChatLimiter!TableFor, ChatLimiter!KeepActive
  <1>2. ChatLimiter!DequeOf(table, s) \in Seq(0..n)
    BY <1>1, EmptySeq DEF LimiterTable, ChatLimiter!DequeOf
  <1>3. q \in Seq(0..n)
    BY <1>2, ChatDrops
  <1>4. Append(q, delay) \in Seq(0..n)
    BY <1>3, AppendProperties
  <1>5. \/ ChatLimiter!After(e, s, delay) = table
        \/ ChatLimiter!After(e, s, delay) =
             [k \in DOMAIN table \cup {s} |->
                IF k # s THEN table[k] ELSE IF recorded THEN q ELSE Append(q, delay)]
    BY DEF ChatLimiter!After
  <1> HIDE DEF table, q, recorded
  <1>. QED
    BY <1>1, <1>3, <1>4, <1>5 DEF LimiterTable

\* And the table of the reports.
LEMMA ReportTableStays ==
    ASSUME NEW n \in Nat, NEW e, LimiterTable(e, n), NEW s \in Session, NEW delay \in 0..n
    PROVE  LimiterTable(ReportLimiter!After(e, s, delay), n)
  <1> DEFINE table == ReportLimiter!TableFor(e, s, delay)
             q == ReportLimiter!DropExpired(ReportLimiter!DequeOf(table, s), delay)
             recorded == ReportLimiter!Refuses(table, s, delay)
  <1>1. LimiterTable(table, n)
    BY DEF LimiterTable, ReportLimiter!TableFor, ReportLimiter!KeepActive
  <1>2. ReportLimiter!DequeOf(table, s) \in Seq(0..n)
    BY <1>1, EmptySeq DEF LimiterTable, ReportLimiter!DequeOf
  <1>3. q \in Seq(0..n)
    BY <1>2, ReportDrops
  <1>4. Append(q, delay) \in Seq(0..n)
    BY <1>3, AppendProperties
  <1>5. \/ ReportLimiter!After(e, s, delay) = table
        \/ ReportLimiter!After(e, s, delay) =
             [k \in DOMAIN table \cup {s} |->
                IF k # s THEN table[k] ELSE IF recorded THEN q ELSE Append(q, delay)]
    BY DEF ReportLimiter!After
  <1> HIDE DEF table, q, recorded
  <1>. QED
    BY <1>1, <1>3, <1>4, <1>5 DEF LimiterTable

\* So does the clock, which makes no age older than the oldest.
LEMMA AgedDeque ==
    ASSUME NEW n \in Nat, NEW q \in Seq(0..n)
    PROVE  [i \in DOMAIN q |-> IF q[i] < n THEN q[i] + 1 ELSE n] \in Seq(0..n)
  <1>1. /\ Len(q) \in Nat /\ DOMAIN q = 1..Len(q)
        /\ \A i \in 1..Len(q) : q[i] \in 0..n
    BY LenProperties
  <1>2. \A i \in 1..Len(q) : (IF q[i] < n THEN q[i] + 1 ELSE n) \in 0..n
    BY <1>1
  <1>. QED
    BY <1>1, <1>2, IsASeq

\* Whole tables age as their deques do.
LEMMA TablesAge ==
    ASSUME NEW n \in Nat, NEW e, LimiterTable(e, n)
    PROVE  LimiterTable(ChatLimiter!Aged(e, n), n) /\ LimiterTable(ReportLimiter!Aged(e, n), n)
  BY AgedDeque DEF LimiterTable, ChatLimiter!Aged, ReportLimiter!Aged

\* Only a message and a report go through a limiter.
LEMMA NextLimitersOK ==
    TypeOK /\ LimitersOK /\ [ChatNext]_chatVars => LimitersOK'
  <1> SUFFICES ASSUME TypeOK, LimitersOK, [ChatNext]_chatVars
               PROVE  LimiterTable(chatEvents', OldestPost) /\ LimiterTable(reportEvents', OldestReport)
    BY DEF LimitersOK, OldestPost, OldestReport, LimiterTable
  <1>1. /\ OldestPost \in Nat /\ OldestReport \in Nat /\ 0 \in 0..OldestReport
        /\ 0..MaxDelay \subseteq 0..OldestPost
    BY ChatAssumption, StoreAssumption DEF OldestPost, OldestReport
  <1>2. CASE ChatTick
    BY <1>1, <1>2, TablesAge DEF ChatTick, LimitersOK
  <1>3. ASSUME NEW w \in Worker,
               DirectoryRequest(w) \/ ReadClockForMessage(w)
        PROVE  UNCHANGED <<chatEvents, reportEvents>>
    BY <1>3 DEF DirectoryRequest, ReadClockForMessage, talk
  <1>4. ASSUME NEW w \in Worker, NEW r \in RoomId, SendMessage(w, r)
        PROVE  LimiterTable(chatEvents', OldestPost) /\ reportEvents' = reportEvents
    <2>1. worker[w].session \in Session /\ worker[w].age \in 0..OldestPost
      BY <1>1, <1>4 DEF SendMessage, TypeOK, WorkerState, Stamped
    <2>. QED
      BY <1>1, <1>4, <2>1, ChatTableStays DEF SendMessage, LimitersOK
  <1>5. ASSUME NEW w \in Worker, NEW t \in Session, NEW r \in RoomId, NEW reason \in Reason,
               Report(w, t, r, reason)
        PROVE  LimiterTable(reportEvents', OldestReport) /\ chatEvents' = chatEvents
    <2>1. worker[w].session \in Session
      BY <1>5 DEF Report, TypeOK
    <2>. QED
      BY <1>1, <1>5, <2>1, ReportTableStays DEF Report, LimitersOK
  <1>6. CASE UNCHANGED chatVars
    BY <1>6 DEF chatVars, talk, LimitersOK
  <1>. QED
    BY <1>2, <1>3, <1>4, <1>5, <1>6 DEF ChatNext, LimitersOK

-----------------------------------------------------------------------------
(* The types of the chat.                                                  *)

\* _reports is a deque with a maxlen.
LEMMA NextReportsBounded ==
    TypeOK /\ ReportsOK /\ Len(reports) <= MaxReports /\ [ChatNext]_chatVars
      => ReportsOK' /\ Len(reports') <= MaxReports
  <1> SUFFICES ASSUME TypeOK, ReportsOK, Len(reports) <= MaxReports, [ChatNext]_chatVars
               PROVE  ReportsOK' /\ Len(reports') <= MaxReports
    OBVIOUS
  <1>1. ASSUME NEW w \in Worker, NEW t \in Session, NEW r \in RoomId, NEW reason \in Reason,
               Report(w, t, r, reason)
        PROVE  ReportsOK' /\ Len(reports') <= MaxReports
    <2>1. PICK report \in ReportRecord :
              reports' = reports \/ reports' = AppendBounded(reports, report, MaxReports)
      <3>1. worker[w].session \in Session
        BY <1>1 DEF Report, TypeOK
      <3>2. [reporter |-> worker[w].session, target |-> t, room |-> r, reason |-> reason]
               \in ReportRecord
        BY <3>1 DEF ReportRecord
      <3>. QED
        BY <1>1, <3>2 DEF Report
    <2>2. CASE reports' = AppendBounded(reports, report, MaxReports)
      BY <2>2, AppendBoundedProperties, ChatAssumption DEF ReportsOK
    <2>. QED
      BY <2>1, <2>2 DEF ReportsOK
  <1>2. CASE ~\E w \in Worker, t \in Session, r \in RoomId, reason \in Reason :
                  Report(w, t, r, reason)
    <2>1. reports' = reports
      BY <1>2 DEF ChatNext, ChatTick, DirectoryRequest, ReadClockForMessage, SendMessage,
                  chatVars, talk
    <2>. QED
      BY <2>1 DEF ReportsOK
  <1>. QED
    BY <1>1, <1>2

\* The chat, the reports and both limiters' tables keep their types, and the
\* reports never exceed their maxlen, for any limits and windows.
THEOREM ChatTypeCorrect == ChatSpec => []ChatTypeOK
  <1> DEFINE Inv == ReportsOK /\ Len(reports) <= MaxReports /\ LimitersOK
  <1>1. ChatInit => Inv
    BY EmptySeq, ChatAssumption DEF ChatInit, ReportsOK, LimitersOK, LimiterTable
  <1>2. TypeOK /\ Inv /\ [ChatNext]_chatVars => Inv'
    BY NextReportsBounded, NextLimitersOK
  <1>3. ChatOK /\ Inv => ChatTypeOK
    BY DEF ChatOK, RoomChat, Message, ReportsOK, ReportRecord, LimitersOK, LimiterTable, ChatTypeOK
  <1>. QED
    BY <1>1, <1>2, <1>3, ChatInvariant, PTL DEF ChatSpec

-----------------------------------------------------------------------------
(* The directory beside the chat.                                          *)

\* A request of the chat purges at most, and publishes nothing.
Beside ==
    /\ \/ rooms' = rooms /\ sessions' = sessions
       \/ rooms' = PurgedRooms /\ sessions' = PurgedSessions
    /\ \A v \in Worker : worker'[v].pc = "publishing" => worker'[v] = worker[v]

\* Every step is one of the store, or such a request.
LEMMA ChatSteps == ASSUME TypeOK, [ChatNext]_chatVars PROVE [Next]_vars \/ Beside
  <1>1. CASE ChatTick
    BY <1>1 DEF ChatTick, Next
  <1>2. ASSUME NEW w \in Worker, DirectoryRequest(w) PROVE [Next]_vars
    BY <1>2 DEF DirectoryRequest, Next
  <1>3. ASSUME NEW w \in Worker,
               \/ ReadClockForMessage(w)
               \/ \E r \in RoomId : SendMessage(w, r)
               \/ \E t \in Session, r \in RoomId, reason \in Reason : Report(w, t, r, reason)
        PROVE  Beside
    <2>1. \E pc \in {"sending", "idle"} : \E s, r : Hold(w, pc, s, r)
      BY <1>3 DEF ReadClockForMessage, SendMessage, Report, Finish
    <2>2. \A v \in Worker : worker'[v].pc = "publishing" => worker'[v] = worker[v]
      BY <2>1, HoldIsOwn
    <2>. QED
      BY <1>3, <2>2 DEF ReadClockForMessage, SendMessage, Report, Beside
  <1>4. CASE UNCHANGED chatVars
    BY <1>4 DEF chatVars
  <1>. QED
    BY <1>1, <1>2, <1>3, <1>4 DEF ChatNext

\* What the store keeps of its rooms, it keeps with the chat.
RoomsOK == DrawnFresh /\ SeatsWithinCapacity /\ OneRoomPerOwner /\ OwnerHoldsNoSeat

\* Both keep what the store keeps.
LEMMA ChatNextRoomsOK == TypeOK /\ RoomsOK /\ [ChatNext]_chatVars => RoomsOK'
  <1> SUFFICES ASSUME TypeOK, RoomsOK, [ChatNext]_chatVars PROVE RoomsOK'
    OBVIOUS
  <1>1. CASE [Next]_vars
    BY <1>1, NextDrawnFresh, NextMovesRooms, MovesSeatsWithinCapacity, MovesOneRoomPerOwner,
       MovesOwnerHoldsNoSeat
       DEF RoomsOK
  <1>2. CASE Beside
    <2>1. RoomsMove
      BY <1>2, IdleRooms DEF Beside
    <2>2. DOMAIN rooms' \subseteq DOMAIN rooms
      <3>1. DOMAIN PurgedRooms = LiveRooms /\ LiveRooms \subseteq DOMAIN rooms
        BY PurgeKeepsTypes DEF LiveRooms
      <3>. QED
        BY <1>2, <3>1 DEF Beside
    <2>3. DrawnFresh'
      BY <1>2, <2>2 DEF Beside, RoomsOK, DrawnFresh
    <2>. QED
      BY <2>1, <2>3, MovesSeatsWithinCapacity, MovesOneRoomPerOwner, MovesOwnerHoldsNoSeat
         DEF RoomsOK
  <1>. QED
    BY <1>1, <1>2, ChatSteps

\* Both are steps of the directory, or change nothing in it.
LEMMA ChatStepImplements ==
    TypeOK /\ RoomsOK /\ RoomsOK' /\ [ChatNext]_chatVars => [Directory!Next]_Tables
  <1> SUFFICES ASSUME TypeOK, RoomsOK, RoomsOK', [ChatNext]_chatVars
               PROVE  [Directory!Next]_Tables
    OBVIOUS
  <1>1. CASE [Next]_vars
    BY <1>1, StepImplements DEF RoomsOK
  <1>2. CASE Beside
    <2>1. Shrinks
      BY <1>2, PurgedShrinks, UnchangedShrinks DEF Beside
    <2>. QED
      BY <2>1, ShrinkExpires DEF RoomsOK, Directory!Next
  <1>. QED
    BY <1>1, <1>2, ChatSteps

\* So it holds in every state of the whole service.
LEMMA ChatKeepsRooms == ChatSpec => [](TypeOK /\ RoomsOK)
  <1>1. ChatInit => TypeOK /\ RoomsOK
    <2> SUFFICES ASSUME ChatInit PROVE TypeOK /\ RoomsOK
      OBVIOUS
    <2>1. Init
      BY DEF ChatInit
    <2>2. DOMAIN rooms = {} /\ \A w \in Worker : worker[w].pc = "idle"
      BY <2>1 DEF Init
    <2>. QED
      BY <2>1, <2>2, InitTypeOK
         DEF RoomsOK, DrawnFresh, SeatsWithinCapacity, OneRoomPerOwner, OwnerHoldsNoSeat
  <1>. QED
    BY <1>1, ChatNextTypeOK, ChatNextRoomsOK, PTL DEF ChatSpec

\* Messages and reports do not disturb the seats: in the whole service no room
\* is overfull, no session hosts two and no owner is counted twice.
THEOREM ChatKeepsSeats ==
    ChatSpec => [](SeatsWithinCapacity /\ OneRoomPerOwner /\ OwnerHoldsNoSeat)
  <1>1. RoomsOK => SeatsWithinCapacity /\ OneRoomPerOwner /\ OwnerHoldsNoSeat
    BY DEF RoomsOK
  <1>. QED
    BY <1>1, ChatKeepsRooms, PTL

\* The whole service implements the directory: the purges that messages and
\* reports make on their way change nothing in what it promises.
THEOREM ServiceImplementsDirectory == ChatSpec => ImplementsDirectory
  <1>1. ChatInit => Directory!Init
    BY InitImplements DEF ChatInit
  <1>. QED
    BY <1>1, ChatStepImplements, ChatKeepsRooms,
       PTL DEF ChatSpec, ImplementsDirectory, Directory!Spec
=============================================================================
