--------------------------- MODULE LobbyClientProofs ---------------------------
(***************************************************************************)
(* What no order of replies does to the client's role, for any number of   *)
(* requests in flight, sessions, rooms and controllers.                    *)
(***************************************************************************)
EXTENDS LobbyClient, TLAPS

\* A request to publish names no room until the service has drawn one, which
\* is the app's own: its handler sets the role together with such a room.
Publishes(q) == q.kind = "publish" => q.room \notin OtherRoom
PublishesOwn == DOMAIN net = Slot /\ \A n \in Slot : Publishes(net[n])

\* The record keeps its fields, so that setting one sets it.
Fields == DOMAIN client = {"token", "room", "hosting"}

IndInv == Fields /\ HostsOnlyOwnRooms /\ PublishesOwn

-----------------------------------------------------------------------------
(* Requests put in flight.                                                 *)

\* A request as it is made names a room only where the caller gives one.
LEMMA RequestPublishes ==
    ASSUME NEW kind, NEW r, NEW state, NEW vc, kind = "publish" => r = NoRoom
    PROVE  Publishes(Request(kind, r, state, vc))
BY ClientAssumption DEF Publishes, Request

\* Putting a request in a free slot.
LEMMA SendKeeps ==
    ASSUME NEW q, Publishes(q), PublishesOwn, Send(q)
    PROVE  PublishesOwn'
BY DEF Send, PublishesOwn, Publishes

\* requestMethod: sent, or failed for want of a token.
LEMMA AskKeeps ==
    ASSUME NEW q, NEW queue, Publishes(q), PublishesOwn, Ask(q, queue)
    PROVE  PublishesOwn'
<1>1. CASE UNCHANGED net
  BY <1>1 DEF PublishesOwn, Publishes
<1>2. CASE Send(q)
  BY <1>2, SendKeeps
<1> QED
  BY <1>1, <1>2 DEF Ask

\* prepareWithNickname sends at most a request for a session.
LEMMA PrepareKeeps ==
    ASSUME NEW kind \in SessionKinds, NEW vc, PublishesOwn, Prepare(kind, vc)
    PROVE  PublishesOwn'
<1> DEFINE q == Request(kind, NoRoom, "waiting", vc)
<1>1. Publishes(q)
  BY RequestPublishes
<1>2. CASE UNCHANGED net
  BY <1>2 DEF PublishesOwn, Publishes
<1>3. CASE Send(q)
  BY <1>1, <1>3, SendKeeps
<1> QED
  BY <1>2, <1>3 DEF Prepare

\* heartbeatInGame sends at most a heartbeat.
LEMMA BeatKeeps ==
    ASSUME NEW state, NEW queue, PublishesOwn, Beat(state, queue)
    PROVE  PublishesOwn'
<1> DEFINE q == Request("beat", client.room, IF client.hosting THEN state ELSE "member", NoScreen)
<1>1. Publishes(q)
  BY RequestPublishes
<1>2. CASE UNCHANGED net
  BY <1>2 DEF PublishesOwn, Publishes
<1>3. CASE Ask(q, queue)
  BY <1>1, <1>3, AskKeeps
<1> QED
  BY <1>2, <1>3 DEF Beat

-----------------------------------------------------------------------------
(* Steps of the main thread.                                               *)

\* What the user does: only Cancel changes the client, and only to no room.
LEMMA UserKeeps ==
    ASSUME IndInv, User
    PROVE  IndInv'
<1> USE DEF IndInv
<1>1. CASE OpenOnlinePlay
  <2>1. UNCHANGED client
    BY <1>1 DEF OpenOnlinePlay
  <2>2. CASE UNCHANGED net
    BY <2>1, <2>2 DEF Fields, HostsOnlyOwnRooms, PublishesOwn, Publishes
  <2>3. CASE \E vc \in Fresh : Prepare("refreshSession", vc)
    BY <2>1, <2>3, PrepareKeeps DEF Fields, HostsOnlyOwnRooms, SessionKinds
  <2> QED
    BY <1>1, <2>2, <2>3 DEF OpenOnlinePlay
<1>2. CASE Refresh
  BY <1>2, PrepareKeeps DEF Refresh, Fields, HostsOnlyOwnRooms, SessionKinds
<1>3. CASE HostPublicGame
  BY <1>3, PrepareKeeps DEF HostPublicGame, Fields, HostsOnlyOwnRooms, SessionKinds
<1>4. CASE Connect \/ ReturnToGame \/ ExitToHome
  BY <1>4 DEF Connect, ReturnToGame, ExitToHome, Fields, HostsOnlyOwnRooms, PublishesOwn, Publishes
<1>5. CASE Start
  BY <1>5, BeatKeeps DEF Start, Fields, HostsOnlyOwnRooms
<1>6. CASE Cancel
  <2>1. Fields' /\ HostsOnlyOwnRooms'
    BY <1>6, ClientAssumption DEF Cancel, Fields, HostsOnlyOwnRooms
  <2>2. CASE UNCHANGED net
    BY <2>1, <2>2 DEF PublishesOwn, Publishes
  <2>3. CASE InRoom
    <3> DEFINE q == Request(IF client.hosting THEN "close" ELSE "leave",
                            client.room, "waiting", NoScreen)
    <3>1. Publishes(q)
      BY RequestPublishes
    <3>2. Ask(q, mainq)
      BY <1>6, <2>3 DEF Cancel
    <3> QED
      BY <2>1, <3>1, <3>2, AskKeeps
  <2> QED
    BY <1>6, <2>2, <2>3 DEF Cancel
<1>7. CASE \E r \in Room : JoinPublicRoom(r)
  <2> PICK r \in Room : JoinPublicRoom(r)
    BY <1>7
  <2>1. Publishes(Request("join", r, "waiting", ui.vc))
    BY RequestPublishes
  <2> QED
    BY <2>1, AskKeeps DEF JoinPublicRoom, Fields, HostsOnlyOwnRooms
<1> QED
  BY <1>1, <1>2, <1>3, <1>4, <1>5, <1>6, <1>7 DEF User

\* Snapshots of the session, the publication among them.
LEMMA LobbyKeeps ==
    ASSUME IndInv, Lobby
    PROVE  IndInv'
<1> USE DEF IndInv
<1>1. CASE ShowLobby
  BY <1>1 DEF ShowLobby, Fields, HostsOnlyOwnRooms, PublishesOwn, Publishes
<1>2. CASE PublishRoom
  <2>1. Publishes(Request("publish", NoRoom, "waiting", ui.vc))
    BY RequestPublishes
  <2> QED
    BY <1>2, <2>1, AskKeeps DEF PublishRoom, Fields, HostsOnlyOwnRooms
<1>3. CASE LobbyBeat
  BY <1>3, BeatKeeps DEF LobbyBeat, Fields, HostsOnlyOwnRooms
<1> QED
  BY <1>1, <1>2, <1>3 DEF Lobby

\* Start, gameplay heartbeat and end of a match.
LEMMA MatchKeeps ==
    ASSUME IndInv, Match
    PROVE  IndInv'
<1> USE DEF IndInv
<1>1. UNCHANGED client
  BY DEF Match, MatchStarts, GameBeat, MatchEnds
<1>2. UNCHANGED net \/ (\E state, queue : Beat(state, queue))
                    \/ (\E vc \in Fresh : Prepare("refreshSession", vc))
  BY DEF Match, MatchStarts, GameBeat, MatchEnds
<1>3. CASE UNCHANGED net
  BY <1>1, <1>3 DEF Fields, HostsOnlyOwnRooms, PublishesOwn, Publishes
<1>4. CASE \E state, queue : Beat(state, queue)
  BY <1>1, <1>4, BeatKeeps DEF Fields, HostsOnlyOwnRooms
<1>5. CASE \E vc \in Fresh : Prepare("refreshSession", vc)
  BY <1>1, <1>5, PrepareKeeps DEF Fields, HostsOnlyOwnRooms, SessionKinds
<1> QED
  BY <1>2, <1>3, <1>4, <1>5

-----------------------------------------------------------------------------
(* The network and the completions.                                        *)

\* The service answers: a room it draws for a publication is this app's.
LEMMA ServeKeeps ==
    ASSUME IndInv, NEW n \in Slot, Serve(n)
    PROVE  IndInv'
<1> USE DEF IndInv
<1>1. Fields' /\ HostsOnlyOwnRooms'
  BY DEF Serve, Fields, HostsOnlyOwnRooms
<1>2. CASE \E r \in OwnRoom : Publish(n, r)
  BY <1>1, <1>2, ClientAssumption DEF Publish, Answer, PublishesOwn, Publishes
<1>3. CASE CreateSession(n) \/ AcceptJoin(n) \/ ReadOrLeave(n) \/ CloseRoom(n) \/ Expired(n)
  <2>1. \E status, token, r : Answer(n, status, token, r) /\ (r = NoRoom \/ net[n].kind = "join")
    BY <1>3 DEF CreateSession, AcceptJoin, ReadOrLeave, CloseRoom, Expired
  <2> QED
    BY <1>1, <2>1, ClientAssumption DEF Answer, PublishesOwn, Publishes
<1>4. CASE ServeBeat(n)
  BY <1>1, <1>4 DEF ServeBeat, NoRequest, PublishesOwn, Publishes
<1> QED
  BY <1>2, <1>3, <1>4 DEF Serve

\* Handlers: publish sets the role with an own room, join clears it.
LEMMA ReplyKeeps ==
    ASSUME IndInv, NEW n \in Slot, Handle(n) \/ Fail(n)
    PROVE  IndInv'
<1> USE DEF IndInv
<1>1. PublishesOwn'
  <2>1. net' = [net EXCEPT ![n] = NoRequest]
    BY DEF Handle, Fail, Complete
  <2>2. Publishes(NoRequest)
    BY DEF Publishes, NoRequest
  <2> QED
    BY <2>1, <2>2 DEF PublishesOwn, Publishes
<1>2. CASE Fail(n)
  BY <1>1, <1>2 DEF Fail, Fields, HostsOnlyOwnRooms
<1>3. CASE Handle(n)
  <2>1. client' = Updated(net[n])
    BY <1>3 DEF Handle
  <2>2. net[n].kind = "publish" => net[n].room \notin OtherRoom
    BY DEF PublishesOwn, Publishes
  <2>3. Fields' /\ HostsOnlyOwnRooms'
    BY <2>1, <2>2, ClientAssumption DEF Updated, NoClient, SessionKinds, Fields, HostsOnlyOwnRooms
  <2> QED
    BY <1>1, <2>3
<1> QED
  BY <1>2, <1>3

\* Completions leave the client alone; a crash forgets it.
LEMMA MainQueueKeeps ==
    ASSUME IndInv, MainQueue
    PROVE  IndInv'
<1> USE DEF IndInv
<1>1. CASE HostReady \/ Joined
  BY <1>1 DEF HostReady, Joined, Fields, HostsOnlyOwnRooms, PublishesOwn, Publishes
<1>2. CASE HostReadyCrashes
  BY <1>2 DEF HostReadyCrashes, NoClient, NoRequest, Fields, HostsOnlyOwnRooms, PublishesOwn, Publishes
<1>3. CASE RefreshReady
  <2>1. UNCHANGED client
    BY <1>3 DEF RefreshReady
  <2>2. CASE UNCHANGED net
    BY <2>1, <2>2 DEF Fields, HostsOnlyOwnRooms, PublishesOwn, Publishes
  <2>3. CASE Ask(Request("rooms", NoRoom, "waiting", Head(mainq).vc), Tail(mainq))
    <3>1. Publishes(Request("rooms", NoRoom, "waiting", Head(mainq).vc))
      BY RequestPublishes
    <3> QED
      BY <2>1, <2>3, <3>1, AskKeeps DEF Fields, HostsOnlyOwnRooms
  <2> QED
    BY <1>3, <2>2, <2>3 DEF RefreshReady
<1> QED
  BY <1>1, <1>2, <1>3 DEF MainQueue

-----------------------------------------------------------------------------
\* Whatever order requests are served and answered in, and whichever are
\* lost, the client never takes itself for the host of another host's room.
THEOREM RoleKept == Spec => []HostsOnlyOwnRooms
<1>1. Init => IndInv
  BY DEF Init, NoClient, NoRequest, IndInv, Fields, HostsOnlyOwnRooms, PublishesOwn, Publishes
<1>2. IndInv /\ [Next]_vars => IndInv'
  <2> SUFFICES ASSUME IndInv, [Next]_vars PROVE IndInv'
    OBVIOUS
  <2>1. CASE Network
    BY <2>1, ServeKeeps, ReplyKeeps DEF Network
  <2>2. CASE Lapse \/ UNCHANGED vars
    BY <2>2 DEF Lapse, SessionExpires, LeaseEnds, OtherOpens, vars,
                IndInv, Fields, HostsOnlyOwnRooms, PublishesOwn, Publishes
  <2> QED
    BY <2>1, <2>2, UserKeeps, LobbyKeeps, MatchKeeps, MainQueueKeeps DEF Next
<1>3. IndInv => HostsOnlyOwnRooms
  BY DEF IndInv
<1> QED
  BY <1>1, <1>2, <1>3, PTL DEF Spec
================================================================================
