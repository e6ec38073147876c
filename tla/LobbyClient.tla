------------------------------ MODULE LobbyClient ------------------------------
(***************************************************************************)
(* One app against the lobby service: MeleePadPublicLobbyClient.m, the     *)
(* public games of MeleePadOnlinePlayViewController.mm, and the presence   *)
(* that MeleePadGameViewController.mm keeps up during a match.             *)
(*                                                                         *)
(* Requests run side by side; a reply changes the client when it arrives   *)
(* and then queues its completion on the main queue.  Replies come in any  *)
(* order, late, or not at all (the request may or may not have been        *)
(* served).  The service is the one of LobbyStore at the grain the client  *)
(* can see: tokens that expire, rooms that lapse, requests refused.        *)
(* All requests that only read or moderate count as one kind, "rooms".     *)
(***************************************************************************)
EXTENDS Naturals, Sequences, FiniteSets

CONSTANTS
    OwnRoom,    \* ids the service draws for rooms of this app
    OtherRoom,  \* rooms of other hosts
    NoRoom,     \* no room
    Slot,       \* bound: requests in flight
    Kinds,      \* bound: the requests the app makes
    MaxTokens,  \* bound: sessions the service creates for the app
    Screen,     \* bound: Online Play controllers on screen or still awaited
    NoScreen,   \* no controller
    MaxQueue    \* bound: completions queued when the user acts

ASSUME ClientAssumption ==
    /\ OwnRoom \cap OtherRoom = {} /\ NoRoom \notin OwnRoom \cup OtherRoom
    /\ NoScreen \notin Screen
    /\ {MaxTokens, MaxQueue} \subseteq Nat

VARIABLES
    client,   \* _token, _activeRoomID, _hosting; the nickname never changes here
    ui,       \* the controller on screen and what GameViewController keeps
    net,      \* requests in flight
    mainq,    \* completions on the main queue
    service   \* live tokens and rooms of the lobby service

vars == <<client, ui, net, mainq, service>>

Room == OwnRoom \cup OtherRoom
Token == 1..MaxTokens
NoToken == 0
OtherHost == MaxTokens + 1

NoClient == [token |-> NoToken, room |-> NoRoom, hosting |-> FALSE]
NoRequest == [kind |-> "none", room |-> NoRoom, state |-> "waiting",
              token |-> NoToken, vc |-> NoScreen, status |-> "free"]

SessionKinds == {"hostSession", "refreshSession"}
Completed == SessionKinds \cup {"join"}   \* with a completion that matters
RequestKinds == Completed \cup {"rooms", "publish", "leave", "close", "beat"}

InRoom == client.room # NoRoom
OnScreen(vc) == ui.vc = vc

\* What GameViewController keeps when a controller goes or a new one comes.
Presented(screen, vc) ==
    [ui EXCEPT !.screen = screen, !.vc = vc, !.pending = FALSE, !.hostButton = TRUE]
Dismissed == Presented("none", NoScreen)
Fresh == {vc \in Screen : /\ \A n \in Slot : net[n].vc # vc
                         /\ \A i \in DOMAIN mainq : mainq[i].vc # vc}

NoUi == [screen |-> "none", vc |-> NoScreen, session |-> "none", pending |-> FALSE,
         hostButton |-> TRUE, match |-> FALSE, timer |-> FALSE]

Init ==
    /\ client = NoClient
    /\ ui = NoUi
    /\ net = [n \in Slot |-> NoRequest]
    /\ mainq = <<>>
    /\ service = [live |-> {}, created |-> 0,
                  rooms |-> [r \in Room |-> [status |-> "unused", owner |-> NoToken,
                                             state |-> "waiting"]]]

-----------------------------------------------------------------------------
(* requestMethod, and the client's operations up to the request.           *)

Request(kind, r, state, vc) ==
    [kind |-> kind, room |-> r, state |-> state, token |-> client.token, vc |-> vc,
     status |-> "sent"]

Completion(q, ok) ==
    IF q.kind \in Completed THEN <<[kind |-> q.kind, vc |-> q.vc, ok |-> ok]>> ELSE <<>>

Send(q) ==
    q.kind \in Kinds /\ \E n \in Slot : net[n].status = "free" /\ net' = [net EXCEPT ![n] = q]

\* Without a token an authenticated request fails at once.
Ask(q, queue) ==
    IF client.token = NoToken /\ q.kind \notin SessionKinds
      THEN mainq' = queue \o Completion(q, FALSE) /\ UNCHANGED net
      ELSE mainq' = queue /\ Send(q)

\* prepareWithNickname: a client that has a token is ready.
Prepare(kind, vc) ==
    LET q == Request(kind, NoRoom, "waiting", vc) IN
    kind \in Kinds /\
    IF client.token # NoToken
      THEN mainq' = mainq \o Completion(q, TRUE) /\ UNCHANGED net
      ELSE UNCHANGED mainq /\ Send(q)

\* heartbeatInGame: a guest's carries no state; nothing without a room.
Beat(state, queue) ==
    IF InRoom
      THEN Ask(Request("beat", client.room, IF client.hosting THEN state ELSE "member",
                       NoScreen),
               queue)
      ELSE mainq' = queue /\ UNCHANGED net

-----------------------------------------------------------------------------
(* The user, the poll of the lobby, and the match, on the main thread.     *)

\* viewDidLoad refreshes the list if the player's name is known.
OpenOnlinePlay ==
    /\ ui.screen = "none" /\ Len(mainq) < MaxQueue
    /\ \E vc \in Fresh :
          /\ ui' = Presented("setup", vc)
          /\ Prepare("refreshSession", vc) \/ UNCHANGED <<net, mainq>>
    /\ UNCHANGED <<client, service>>

\* refreshPublicGames: by its button, its timer, a confirmed name, or when
\* Public Games is selected again.
Refresh ==
    /\ ui.screen = "setup" /\ Len(mainq) < MaxQueue
    /\ \E selected \in BOOLEAN : ui' = [ui EXCEPT !.hostButton = @ \/ selected]
    /\ Prepare("refreshSession", ui.vc)
    /\ UNCHANGED <<client, service>>

HostPublicGame ==
    /\ ui.screen = "setup" /\ ui.hostButton /\ Len(mainq) < MaxQueue
    /\ ui' = [ui EXCEPT !.hostButton = FALSE]
    /\ Prepare("hostSession", ui.vc)
    /\ UNCHANGED <<client, service>>

\* A card of the list, which may be out of date, and may be a room of this app.
JoinPublicRoom(r) ==
    /\ ui.screen = "setup" /\ Len(mainq) < MaxQueue
    /\ service.rooms[r].status # "unused"
    /\ Ask(Request("join", r, "waiting", ui.vc), mainq)
    /\ UNCHANGED <<client, ui, service>>

\* The netplay session that beginNetplay starts, unless there is one.
Began(kind) == IF ui.session = "none" THEN kind ELSE ui.session

\* connect: a private room, hosted or joined, or Direct IP.
Connect ==
    /\ ui.screen = "setup"
    /\ ui' = [ui EXCEPT !.screen = "lobby", !.session = Began("private")]
    /\ UNCHANGED <<client, net, mainq, service>>

Polls == ui.screen # "none" /\ ui.session # "none"

\* showLobby before the session has a room code to publish.
ShowLobby ==
    /\ Polls /\ ui.screen = "setup"
    /\ ui' = [ui EXCEPT !.screen = "lobby"]
    /\ UNCHANGED <<client, net, mainq, service>>

\* showLobby with a room code: _publicHostPending publishes it.
PublishRoom ==
    /\ Polls /\ ui.pending /\ ui.session \in {"host", "private"}
    /\ ui' = [ui EXCEPT !.pending = FALSE, !.screen = "lobby"]
    /\ Ask(Request("publish", NoRoom, "waiting", ui.vc), mainq)
    /\ UNCHANGED <<client, service>>

\* mutant: the flag inverted.
LobbyBeatInGame ==
    /\ Polls /\ InRoom /\ ~ui.match
    /\ Beat("in_game", mainq)
    /\ ui' = [ui EXCEPT !.screen = "lobby"]
    /\ UNCHANGED <<client, service>>

\* showLobby 15 s after the last heartbeat.
LobbyBeat ==
    /\ Polls /\ InRoom /\ ~ui.match
    /\ Beat("waiting", mainq)
    /\ ui' = [ui EXCEPT !.screen = "lobby"]
    /\ UNCHANGED <<client, service>>

\* start: announced before the peers have answered.
Start ==
    /\ ui.screen = "lobby" /\ ui.session \in {"host", "private"} /\ ~ui.match
    /\ InRoom
    /\ Beat("in_game", mainq)
    /\ UNCHANGED <<client, ui, service>>

\* onNetplayMatchStarted, found by a poll.
MatchStarts ==
    /\ Polls /\ ~ui.match
    /\ IF InRoom /\ ~ui.timer
         THEN /\ ui' = [Dismissed EXCEPT !.match = TRUE, !.timer = TRUE]
              /\ Beat("in_game", mainq)
         ELSE /\ ui' = [Dismissed EXCEPT !.match = TRUE]
              /\ UNCHANGED <<net, mainq>>
    /\ UNCHANGED <<client, service>>

\* mutant: only the first heartbeat of a match is sent.
GameBeatOnce ==
    /\ ui.timer
    /\ ui' = [ui EXCEPT !.timer = InRoom]
    /\ UNCHANGED <<client, net, mainq, service>>

\* The gameplay heartbeat's timer.
GameBeat ==
    /\ ui.timer
    /\ Beat("in_game", mainq)
    /\ ui' = [ui EXCEPT !.timer = InRoom]
    /\ UNCHANGED <<client, service>>

Known(vc) ==
    IF "refreshSession" \in Kinds
      THEN Completion(Request("refreshSession", NoRoom, "waiting", vc), TRUE) ELSE <<>>

\* onNetplayMatchEnded: back to waiting; Online Play is presented again, and
\* refreshes its list, if it is not on screen.  Without a token the refresh is
\* what sends a request, with one it is the heartbeat.
MatchEnds ==
    /\ ui.match /\ Len(mainq) < MaxQueue
    /\ \/ /\ ui.screen = "none"
          /\ \E vc \in Fresh :
                /\ ui' = [Presented("setup", vc) EXCEPT !.match = FALSE, !.timer = FALSE]
                /\ IF "refreshSession" \in Kinds /\ client.token = NoToken
                     THEN Prepare("refreshSession", vc)
                     ELSE Beat("waiting", mainq \o Known(vc))
       \/ /\ ui.screen # "none"
          /\ ui' = [ui EXCEPT !.match = FALSE, !.timer = FALSE]
          /\ Beat("waiting", mainq)
    /\ UNCHANGED <<client, service>>

ReturnToGame ==
    /\ ui.match /\ ui.screen = "lobby"
    /\ ui' = Dismissed
    /\ UNCHANGED <<client, net, mainq, service>>

\* closePublicPresence.  A host forgets the room at once, a guest when the reply comes.
Cancel ==
    /\ ui.screen # "none"
    /\ IF ~InRoom
         THEN UNCHANGED <<client, net, mainq>>
         ELSE /\ Ask(Request(IF client.hosting THEN "close" ELSE "leave",
                             client.room, "waiting", NoScreen), mainq)
              /\ client' = [client EXCEPT !.room = IF client.hosting THEN NoRoom ELSE @]
    /\ ui' = NoUi
    /\ UNCHANGED service

ExitToHome ==
    /\ ui.screen = "none" /\ ui.session # "none"
    /\ ui' = NoUi
    /\ UNCHANGED <<client, net, mainq, service>>

-----------------------------------------------------------------------------
(* The service.  An answer travels in the request's record: its status, a  *)
(* new token, or the room it published.                                    *)

Gone == [status |-> "gone", owner |-> NoToken, state |-> "waiting"]
Open(r) == service.rooms[r].status = "open"
Owned(r, k) == Open(r) /\ service.rooms[r].owner = k
Authentic(q) == q.token \in service.live

Answer(n, status, token, r) ==
    net' = [net EXCEPT ![n].status = status, ![n].token = token, ![n].room = r]

CreateSession(n) ==
    LET k == service.created + 1 IN
    /\ net[n].kind \in SessionKinds /\ k \in Token
    /\ Answer(n, "ok", k, NoRoom)
    /\ service' = [service EXCEPT !.created = k, !.live = @ \cup {k}]

\* A session publishes one room: the room it had closes.
Publish(n, r) ==
    /\ net[n].kind = "publish" /\ Authentic(net[n]) /\ service.rooms[r].status = "unused"
    /\ Answer(n, "ok", NoToken, r)
    /\ service' = [service EXCEPT !.rooms = [o \in Room |->
          IF o = r THEN [status |-> "open", owner |-> net[n].token, state |-> "waiting"]
          ELSE IF @[o].owner = net[n].token THEN Gone
          ELSE @[o]]]

AcceptJoin(n) ==
    /\ net[n].kind = "join" /\ Authentic(net[n]) /\ Open(net[n].room)
    /\ \/ service.rooms[net[n].room].state = "waiting"
       \/ service.rooms[net[n].room].owner = net[n].token
    /\ Answer(n, "ok", NoToken, net[n].room) /\ UNCHANGED service

ReadOrLeave(n) ==
    /\ net[n].kind \in {"rooms", "leave"} /\ Authentic(net[n])
    /\ Answer(n, "ok", NoToken, NoRoom) /\ UNCHANGED service

CloseRoom(n) ==
    /\ net[n].kind = "close" /\ Authentic(net[n]) /\ Owned(net[n].room, net[n].token)
    /\ Answer(n, "ok", NoToken, NoRoom)
    /\ service' = [service EXCEPT !.rooms[net[n].room] = Gone]

\* The answer to a heartbeat has no handler: the slot is free at once.
ServeBeat(n) ==
    /\ net[n].kind = "beat" /\ net[n].state # "member"
    /\ Authentic(net[n]) /\ Owned(net[n].room, net[n].token)
    /\ net' = [net EXCEPT ![n] = NoRequest]
    /\ service' = [service EXCEPT !.rooms[net[n].room].state = net[n].state]

Expired(n) ==
    /\ net[n].kind \notin SessionKinds /\ ~Authentic(net[n])
    /\ Answer(n, "expired", NoToken, NoRoom) /\ UNCHANGED service

Serve(n) ==
    /\ net[n].status = "sent"
    /\ \/ CreateSession(n) \/ AcceptJoin(n) \/ ReadOrLeave(n) \/ CloseRoom(n)
       \/ ServeBeat(n) \/ Expired(n)
       \/ \E r \in OwnRoom : Publish(n, r)
    /\ UNCHANGED <<client, ui, mainq>>

SessionExpires(k) ==
    /\ k \in service.live
    /\ service' = [service EXCEPT !.live = @ \ {k}, !.rooms = [r \in Room |->
          IF @[r].owner = k THEN Gone ELSE @[r]]]
    /\ UNCHANGED <<client, ui, net, mainq>>

LeaseEnds(r) ==
    /\ Open(r)
    /\ service' = [service EXCEPT !.rooms[r] = Gone]
    /\ UNCHANGED <<client, ui, net, mainq>>

OtherOpens(r) ==
    /\ service.rooms[r].status = "unused"
    /\ service' = [service EXCEPT !.rooms[r] =
                      [status |-> "open", owner |-> OtherHost, state |-> "waiting"]]
    /\ UNCHANGED <<client, ui, net, mainq>>

-----------------------------------------------------------------------------
(* The reply, on URLSession's queue, and the completions on the main queue. *)

\* mutant: joining keeps the host's role.
UpdatedKeepsRole(q) ==
    CASE q.status = "expired"                       -> NoClient
      [] q.status = "ok" /\ q.kind \in SessionKinds -> [client EXCEPT !.token = q.token]
      [] q.status = "ok" /\ q.kind = "publish" -> [client EXCEPT !.room = q.room, !.hosting = TRUE]
      [] q.status = "ok" /\ q.kind = "join"    -> [client EXCEPT !.room = q.room]
      [] q.status = "ok" /\ q.kind = "leave"   -> [client EXCEPT !.room = NoRoom]
      [] q.status = "ok" /\ q.kind = "close"   -> [client EXCEPT !.room = NoRoom, !.hosting = FALSE]
      [] OTHER                                 -> client

\* The handlers of the client's operations; any 401 forgets the session.
Updated(q) ==
    CASE q.status = "expired"                       -> NoClient
      [] q.status = "ok" /\ q.kind \in SessionKinds -> [client EXCEPT !.token = q.token]
      [] q.status = "ok" /\ q.kind = "publish" -> [client EXCEPT !.room = q.room, !.hosting = TRUE]
      [] q.status = "ok" /\ q.kind = "join"    -> [client EXCEPT !.room = q.room, !.hosting = FALSE]
      [] q.status = "ok" /\ q.kind = "leave"   -> [client EXCEPT !.room = NoRoom]
      [] q.status = "ok" /\ q.kind = "close"   -> [client EXCEPT !.room = NoRoom, !.hosting = FALSE]
      [] OTHER                                 -> client

Complete(n, ok) ==
    /\ mainq' = mainq \o Completion(net[n], ok)
    /\ net' = [net EXCEPT ![n] = NoRequest]

Handle(n) ==
    /\ net[n].status \in {"ok", "expired"}
    /\ client' = Updated(net[n])
    /\ Complete(n, net[n].status = "ok")
    /\ UNCHANGED <<ui, service>>

\* Any other reply, a network error or the 8 s timeout: served or not, the
\* client is told that the request failed.
Fail(n) ==
    /\ net[n].status # "free"
    /\ Complete(n, FALSE)
    /\ UNCHANGED <<client, ui, service>>

Due(kind) == mainq # <<>> /\ Head(mainq).kind = kind

\* mutant: a failed session leaves the button disabled.
HostReadyOnSuccess ==
    /\ Due("hostSession")
    /\ LET asked == OnScreen(Head(mainq).vc) IN
       ui' = IF Head(mainq).ok
               THEN [ui EXCEPT !.hostButton = @ \/ asked, !.pending = @ \/ asked,
                               !.screen = IF asked THEN "lobby" ELSE @,
                               !.session = Began("host")]
               ELSE ui
    /\ mainq' = Tail(mainq)
    /\ UNCHANGED <<client, net, service>>

\* hostPublicGame's completion, on the controller that asked.
HostReady ==
    /\ Due("hostSession")
    /\ LET asked == OnScreen(Head(mainq).vc) IN
       ui' = IF Head(mainq).ok
               THEN [ui EXCEPT !.hostButton = @ \/ asked, !.pending = @ \/ asked,
                               !.screen = IF asked THEN "lobby" ELSE @,
                               !.session = Began("host")]
               ELSE [ui EXCEPT !.hostButton = @ \/ asked]
    /\ mainq' = Tail(mainq)
    /\ UNCHANGED <<client, net, service>>

\* Requests and completions whose blocks retain the controller.
Retained(vc) ==
    \/ \E n \in Slot : net[n].vc = vc /\ net[n].kind \in {"rooms", "join", "publish"}
    \/ \E i \in DOMAIN mainq : mainq[i].vc = vc /\ mainq[i].kind = "join"

\* The same completion once the controller is gone: it writes through a nil
\* pointer, and the app starts again.
HostReadyCrashes ==
    /\ Due("hostSession") /\ ~OnScreen(Head(mainq).vc) /\ ~Retained(Head(mainq).vc)
    /\ client' = NoClient
    /\ ui' = NoUi
    /\ net' = [n \in Slot |-> NoRequest]
    /\ mainq' = <<>>
    /\ UNCHANGED service

\* refreshPublicGames asks for the list, unless its controller is gone.
RefreshReady ==
    /\ Due("refreshSession")
    /\ LET c == Head(mainq) IN
       \/ c.ok /\ Ask(Request("rooms", NoRoom, "waiting", c.vc), Tail(mainq))
       \/ /\ c.ok => ~OnScreen(c.vc) /\ ~Retained(c.vc)
          /\ mainq' = Tail(mainq) /\ UNCHANGED net
    /\ UNCHANGED <<client, ui, service>>

\* joinPublicRoom's completion starts the session, on screen or not.
Joined ==
    /\ Due("join")
    /\ ui' = IF Head(mainq).ok
               THEN [ui EXCEPT !.session = Began("guest"),
                               !.screen = IF OnScreen(Head(mainq).vc) THEN "lobby" ELSE @]
               ELSE ui
    /\ mainq' = Tail(mainq)
    /\ UNCHANGED <<client, net, service>>

MainQueue == HostReady \/ HostReadyCrashes \/ RefreshReady \/ Joined

User ==
    \/ OpenOnlinePlay \/ Refresh \/ HostPublicGame \/ Connect \/ Start \/ ReturnToGame
    \/ Cancel \/ ExitToHome
    \/ \E r \in Room : JoinPublicRoom(r)
Lobby == ShowLobby \/ PublishRoom \/ LobbyBeat
Match == MatchStarts \/ GameBeat \/ MatchEnds
Network == \E n \in Slot : Serve(n) \/ Handle(n) \/ Fail(n)
Lapse ==
    \/ \E k \in Token : SessionExpires(k)
    \/ \E r \in Room : LeaseEnds(r)
    \/ \E r \in OtherRoom : OtherOpens(r)

Next == User \/ Lobby \/ Match \/ Network \/ Lapse \/ MainQueue

BeatServed(state) ==
    \E n \in Slot : net[n].state = state /\ ServeBeat(n) /\ UNCHANGED <<client, ui, mainq>>

\* URLSession ends every request (8 s, 12 s), the run loop drains the main
\* queue, the timers keep firing (strongly: a bound may hold them back), and
\* of repeated heartbeats not all are lost.
Fairness ==
    /\ \A n \in Slot : WF_vars(Serve(n) \/ Handle(n) \/ Fail(n))
    /\ SF_vars(MainQueue) /\ SF_vars(GameBeat) /\ SF_vars(LobbyBeat)
    /\ SF_vars(BeatServed("in_game")) /\ SF_vars(BeatServed("waiting"))

Spec == Init /\ [][Next]_vars
FairSpec == Spec /\ Fairness

-----------------------------------------------------------------------------
\* Replies in any order never leave the client hosting another host's room:
\* its heartbeats and Cancel would go to the host's routes of that room.
HostsOnlyOwnRooms == client.hosting => client.room \notin OtherRoom

\* Hosting cannot remain stuck after a failed request: a Host button that a
\* request disabled comes back, or its screen goes.
HostButtonReturns ==
    ui.screen = "setup" /\ ~ui.hostButton ~> ui.screen # "setup" \/ ui.hostButton

Owns(r) ==
    /\ client.room = r /\ client.hosting /\ client.token \in service.live
    /\ Owned(r, client.token)

\* The room of a host in a match is listed as in_game and stays so, whatever
\* heartbeats of the lobby were still on their way.
InGameShown ==
    \A r \in OwnRoom :
        <>[](ui.timer /\ Owns(r)) => <>[](service.rooms[r].state = "in_game")

\* A host back in the lobby is listed as waiting again.
WaitingShown ==
    \A r \in OwnRoom :
        <>[](Polls /\ ~ui.match /\ Owns(r)) => []<>(service.rooms[r].state = "waiting")

\* Leaving ends directory presence (PL4): once nothing is in flight, an app
\* with neither session nor screen has no active room.
LeavingEndsPresence ==
    ui.screen = "none" /\ ui.session = "none" /\ net = [n \in Slot |-> NoRequest] /\ mainq = <<>>
        => client.room = NoRoom

=============================================================================
