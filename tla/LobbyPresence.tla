---------------------------- MODULE LobbyPresence ----------------------------
(***************************************************************************)
(* How long the directory of LobbyStore remembers someone who has stopped  *)
(* sending requests: a client that crashed, lost its network, or left      *)
(* without telling the service.                                            *)
(***************************************************************************)
EXTENDS LobbyStore

\* 20 s and 45 s: joining holds a seat no longer than a heartbeat does.
ASSUME PresenceAssumption == ReservationTTL <= RoomTTL

VARIABLE
    silence   \* history: ticks since the service last finished a request of each session

presenceVars == <<vars, silence>>

\* Nothing below tells apart silences longer than this.
Longest == RoomTTL

PresenceInit == Init /\ silence = [s \in Session |-> 0]

Request(w) ==
    /\ ClientRequest(w)
    /\ silence' = [s \in Session |-> IF ActsAs(s) THEN 0 ELSE silence[s]]

Pass ==
    /\ Tick
    /\ silence' = [s \in Session |->
                     IF silence[s] < Longest THEN silence[s] + 1 ELSE Longest]

PresenceNext == Pass \/ \E w \in Worker : Request(w)

PresenceSpec == PresenceInit /\ [][PresenceNext]_presenceVars

\* A request that has its thread is carried out; time passes; and requests
\* keep arriving, from whomever: the clients of the service poll it.
Work(w) == worker[w].pc # "idle" /\ Request(w)
Arrive == \E w \in Worker, s \in Session : Authenticate(w, s) /\ UNCHANGED silence

FairPresenceSpec ==
    /\ PresenceSpec
    /\ WF_presenceVars(Pass)
    /\ \A w \in Worker : WF_presenceVars(Work(w))
    /\ WF_presenceVars(Arrive)

-----------------------------------------------------------------------------
(* Properties.                                                             *)

\* A host that has been silent for ROOM_TTL_SECONDS has no room that anyone
\* is shown or can join, and a guest silent that long holds no seat that counts:
\* nobody else's requests keep them there.
SilentAreGone ==
    \A s \in Session :
        silence[s] >= RoomTTL =>
            \A r \in LiveRooms : rooms[r].owner # s /\ s \notin KeptSeats(r)

\* What has run out does not stay in memory: as long as requests arrive, an
\* expired room is removed from _rooms, and so is an expired reservation.
LapsedAreReclaimed ==
    \A r \in RoomId, s \in Session :
        /\ (r \in DOMAIN rooms /\ rooms[r].left = 0) ~> (r \notin DOMAIN rooms)
        /\ (/\ r \in DOMAIN rooms
            /\ s \in DOMAIN rooms[r].reservations
            /\ rooms[r].reservations[s] = 0)
           ~> (\/ r \notin DOMAIN rooms
               \/ s \notin DOMAIN rooms[r].reservations
               \/ rooms[r].reservations[s] > 0)
=============================================================================
