------------------------------ MODULE LobbyHTTP ------------------------------
(***************************************************************************)
(* The HTTP layer of services/lobby/server.py, from the listening socket   *)
(* to the answer.  One thread accepts connections and gives each a thread  *)
(* of its own, as long as a worker slot is free; that thread reads one     *)
(* request, checks and dispatches it, runs the operation of the store and  *)
(* answers.  A client may stall or go away at every point where the worker *)
(* waits for its socket.                                                   *)
(*                                                                         *)
(* What an operation of the store does is the subject of LobbyStore and    *)
(* LobbyChat: here it is done or refused, whatever it changed before.      *)
(* Of the limiter this module has whose requests are inside the window and *)
(* how many clients its table holds; SlidingWindow has the window itself.  *)
(***************************************************************************)
EXTENDS Naturals, FiniteSets

CONSTANTS
    Conn,           \* connections that clients make
    MaxConcurrent,  \* MAX_CONCURRENT_REQUESTS
    QueueSize,      \* LobbyHTTPServer.request_queue_size
    Client,         \* the addresses clients come from
    Proxy,          \* the address of the Cloudflare proxy
    NoAddress,      \* no CF-Connecting-IP header, or one that is no address
    NoRequest,      \* a connection nothing has been read from
    Budget,         \* GENERAL_REQUEST_LIMIT
    MaxKeys,        \* MAX_RATE_LIMIT_KEYS
    Endpoint        \* bound: the endpoints that clients ask for

ASSUME HTTPAssumption ==
    /\ IsFiniteSet(Conn)
    /\ MaxConcurrent \in Nat /\ QueueSize \in Nat
    /\ Budget \in Nat \ {0} /\ MaxKeys \in Nat
    /\ Proxy \notin Client /\ NoAddress \notin Client

VARIABLES
    phase,    \* where each connection stands
    sender,   \* whose request was read from it, and what names the client
    endpoint, \* what the request asks for
    slots,    \* _worker_slots: free worker slots
    admitted, \* the requests let through that are inside the limiter's window
    trust,    \* trust_cloudflare
    answers   \* the statuses of the answers its thread has begun

vars == <<phase, sender, endpoint, slots, admitted, trust, answers>>

-----------------------------------------------------------------------------
(* The endpoints.                                                          *)

Endpoints ==
    {"healthz", "capabilities", "create_session", "activity", "room_list",
     "create_room", "block", "report", "heartbeat", "join_room", "leave_room",
     "heartbeat_member", "send_message", "messages", "delete_room", "unknown"}
OpenEndpoints == {"healthz", "capabilities", "create_session"}
BodyEndpoints == {"create_session", "create_room", "block", "report", "heartbeat",
                  "join_room", "heartbeat_member", "send_message"}

ASSUME EndpointAssumption == Endpoint \subseteq Endpoints

\* The statuses with which an endpoint refuses what the request carries,
\* before it takes the store lock.
_payload == {415, 400, 413}
_reject_unknown == {400}
_required_string == {400}
_validate_display_name == _required_string
SessionFields == _reject_unknown \cup _validate_display_name \cup _required_string
RoomFields == _reject_unknown \cup {400}
MessageFields == _reject_unknown \cup {400}
BlockFields == _reject_unknown \cup {400}
ReportFields == _reject_unknown \cup {400}
Cursor == {400}

BodyRefusals(e) ==
    CASE e = "create_session" -> _payload \cup SessionFields
      [] e \in {"create_room", "heartbeat"} -> _payload \cup RoomFields
      [] e = "send_message" -> _payload \cup MessageFields
      [] e = "block" -> _payload \cup BlockFields
      [] e = "report" -> _payload \cup ReportFields
      [] e \in {"join_room", "heartbeat_member"} -> _payload \cup _reject_unknown
      [] e = "messages" -> Cursor
      [] OTHER -> {}

\* The statuses with which an operation refuses under the lock.
_room == {404}
_owned_room == _room \cup {403}
_require_membership == {403}
StoreRefusals(e) ==
    CASE e \in {"create_session", "create_room"} -> {503}
      [] e \in {"heartbeat", "delete_room"} -> _owned_room
      [] e = "join_room" -> {404, 409}
      [] e = "heartbeat_member" -> _room \cup {400, 403}
      [] e = "leave_room" -> _room
      [] e = "send_message" -> _room \cup _require_membership \cup {429}
      [] e = "messages" -> _room \cup _require_membership
      [] e = "report" -> _room \cup {400, 429}
      [] OTHER -> {}

Success(e) == CASE e \in {"create_session", "create_room", "send_message"} -> 201
                [] e = "report" -> 202
                [] OTHER -> 200

-----------------------------------------------------------------------------
(* Connections.  A client reaches the service itself or through the proxy, *)
(* which names it in CF-Connecting-IP; a client that comes by itself may   *)
(* send any header.  A service that trusts the header is behind the proxy. *)

Senders == [origin : Client, peer : Client \cup {Proxy},
            header : Client \cup {NoAddress}]

Direct(q) == q.peer = q.origin /\ q.header # q.origin
Proxied(q) == q.peer = Proxy /\ q.header = q.origin

\* The connection has a worker slot.
Holding == {"starting", "head", "dispatch", "auth", "body", "run", "reply",
            "body_reply", "fault", "end"}
Phase == Holding \cup {"away", "queued", "closed"}
Held == {c \in Conn : phase[c] \in Holding}

Init ==
    /\ phase = [c \in Conn |-> "away"]
    /\ sender = [c \in Conn |-> NoRequest]
    /\ endpoint = [c \in Conn |-> NoRequest]
    /\ slots = MaxConcurrent
    /\ admitted = {}
    /\ trust \in BOOLEAN
    /\ answers = [c \in Conn |-> {}]

Goto(c, p) == phase' = [phase EXCEPT ![c] = p]

\* The kernel queues a connection until the serving thread accepts it.
Connect(c) ==
    /\ phase[c] = "away"
    /\ Cardinality({d \in Conn : phase[d] = "queued"}) < QueueSize
    /\ Goto(c, "queued")
    /\ UNCHANGED <<sender, endpoint, slots, admitted, trust, answers>>

\* get_request and the first half of process_request: without a free slot the
\* connection is shut down unanswered.  The serving thread handles one
\* connection at a time.
Accept(c) ==
    /\ phase[c] = "queued"
    /\ \A d \in Conn : phase[d] # "starting"
    /\ IF slots = 0 THEN Goto(c, "closed") /\ UNCHANGED slots
                    ELSE Goto(c, "starting") /\ slots' = slots - 1
    /\ UNCHANGED <<sender, endpoint, admitted, trust, answers>>

\* mutant: the slot is not given back when the thread cannot be started.
StartThreadLeaks(c) ==
    /\ phase[c] = "starting"
    /\ Goto(c, "head") \/ Goto(c, "closed")
    /\ UNCHANGED <<sender, endpoint, slots, admitted, trust, answers>>

\* The rest of process_request: a thread that cannot be started gives its slot
\* back, and socketserver closes the connection.
StartThread(c) ==
    /\ phase[c] = "starting"
    /\ \/ Goto(c, "head") /\ UNCHANGED slots
       \/ Goto(c, "closed") /\ slots' = slots + 1
    /\ UNCHANGED <<sender, endpoint, admitted, trust, answers>>

\* Reads of the request line and the headers end with a request, or without
\* one when the client stalls for REQUEST_SOCKET_TIMEOUT_SECONDS or goes away.
ReadHead(c) ==
    /\ phase[c] = "head"
    /\ \/ /\ \E q \in Senders :
                /\ Proxied(q) \/ (Direct(q) /\ ~trust)
                /\ sender' = [sender EXCEPT ![c] = q]
          /\ \E e \in Endpoint : endpoint' = [endpoint EXCEPT ![c] = e]
          /\ Goto(c, "dispatch")
       \/ Goto(c, "end") /\ UNCHANGED <<sender, endpoint>>
    /\ UNCHANGED <<slots, admitted, trust, answers>>

\* _send: the answer is begun.  What it raises is for the next step.
Send(c, status) == answers' = [answers EXCEPT ![c] = @ \cup {status}]

\* _handle answers a LobbyError; what that answer raises ends the thread.
Refuse(c, status) == Send(c, status) /\ Goto(c, "end")

\* mutant: the header is believed whoever sent it.
KeyByHeader(q) == IF q.header # NoAddress THEN q.header ELSE q.peer

rate_limit_key(q) == IF trust /\ q.header # NoAddress THEN q.header ELSE q.peer

\* The keys with a request inside the window, and the requests of one.
Keys == {rate_limit_key(sender[c]) : c \in admitted}
Counted(k) == {c \in admitted : rate_limit_key(sender[c]) = k}

\* SlidingWindowLimiter.allow.  A key that is not in the table, or idle there,
\* finds it full only when so many others have a request inside the window:
\* idle ones are removed to make room.
allow_request(k) ==
    /\ k \in Keys \/ Cardinality(Keys) < MaxKeys
    /\ Cardinality(Counted(k)) < Budget

\* Time: a request let through earlier is no longer inside the window.
Lapse(c) ==
    /\ c \in admitted
    /\ admitted' = admitted \ {c}
    /\ UNCHANGED <<phase, sender, endpoint, slots, trust, answers>>

\* _dispatch counts the request before it looks at it.
Dispatch(c) ==
    LET e == endpoint[c]
        k == rate_limit_key(sender[c])
    IN /\ phase[c] = "dispatch"
       /\ IF allow_request(k)
          THEN /\ admitted' = admitted \cup {c}
               /\ Goto(c, IF e \notin OpenEndpoints THEN "auth"
                          ELSE IF e = "create_session" THEN "body" ELSE "reply")
               /\ UNCHANGED answers
          ELSE Refuse(c, 429) /\ UNCHANGED admitted
    /\ UNCHANGED <<sender, endpoint, slots, trust>>

\* _session: a token that is not ASCII is no LobbyError.
Authenticate(c) ==
    LET e == endpoint[c]
    IN /\ phase[c] = "auth"
       /\ \/ Refuse(c, 401)
          \/ Goto(c, "fault") /\ UNCHANGED answers
          \/ e = "unknown" /\ Refuse(c, 404)
          \/ /\ e # "unknown"
             /\ Goto(c, IF e \in BodyEndpoints \cup {"messages"} THEN "body" ELSE "run")
             /\ UNCHANGED answers
    /\ UNCHANGED <<sender, endpoint, slots, admitted, trust>>

\* _payload and the checks of the fields.  A client that stalls in its body
\* raises TimeoutError, which _handle takes for an internal error; one that
\* resets the connection ends the request.
ReadBody(c) ==
    /\ phase[c] = "body"
    /\ \/ Goto(c, "run") /\ UNCHANGED answers
       \/ \E status \in BodyRefusals(endpoint[c]) : Refuse(c, status)
       \/ \E p \in {"fault", "end"} :
             /\ endpoint[c] \in BodyEndpoints
             /\ Goto(c, p)
             /\ UNCHANGED answers
    /\ UNCHANGED <<sender, endpoint, slots, admitted, trust>>

\* The operation of the store, or its refusal.
Run(c) ==
    /\ phase[c] = "run"
    /\ \/ Goto(c, "reply") /\ UNCHANGED answers
       \/ \E status \in StoreRefusals(endpoint[c]) : Refuse(c, status)
    /\ UNCHANGED <<sender, endpoint, slots, admitted, trust>>

\* _send of the result: its headers, then its body.  BrokenPipeError and
\* ConnectionResetError end the request; a client that does not read raises
\* TimeoutError, and _handle begins a second answer behind the first.
Reply(c) ==
    /\ \/ /\ phase[c] = "reply"
          /\ Send(c, Success(endpoint[c]))
          /\ Goto(c, "body_reply")
       \/ /\ phase[c] = "body_reply"
          /\ UNCHANGED answers
          /\ \E p \in {"fault", "end"} : Goto(c, p)
    /\ UNCHANGED <<sender, endpoint, slots, admitted, trust>>

\* _handle of any other exception.
Fault(c) ==
    /\ phase[c] = "fault"
    /\ Refuse(c, 500)
    /\ UNCHANGED <<sender, endpoint, slots, admitted, trust>>

\* mutant: without the finally, a request that ends without an answer keeps its slot.
ThreadEndsAnswered(c) ==
    /\ phase[c] = "end" /\ answers[c] # {}
    /\ Goto(c, "closed")
    /\ slots' = slots + 1
    /\ endpoint' = [endpoint EXCEPT ![c] = NoRequest]
    /\ answers' = [answers EXCEPT ![c] = {}]
    /\ UNCHANGED <<sender, admitted, trust>>

\* process_request_thread closes the connection and then gives the slot back,
\* whatever the handler raised.
process_request_thread(c) ==
    /\ phase[c] = "end"
    /\ Goto(c, "closed")
    /\ slots' = slots + 1
    /\ endpoint' = [endpoint EXCEPT ![c] = NoRequest]
    /\ answers' = [answers EXCEPT ![c] = {}]
    /\ UNCHANGED <<sender, admitted, trust>>

Serve(c) == Accept(c) \/ StartThread(c)
Work(c) == \/ ReadHead(c) \/ Dispatch(c) \/ Authenticate(c) \/ ReadBody(c)
           \/ Run(c) \/ Reply(c) \/ Fault(c) \/ process_request_thread(c)

Next == \E c \in Conn : Connect(c) \/ Serve(c) \/ Work(c) \/ Lapse(c)

Spec == Init /\ [][Next]_vars

\* The serving thread keeps serving, and every wait of a worker for its client
\* is bounded by the timeout of the socket.
FairSpec == /\ Spec
            /\ \A c \in Conn : WF_vars(Serve(c)) /\ WF_vars(Work(c))

-----------------------------------------------------------------------------
(* Properties.                                                             *)

Status == {200, 201, 202, 400, 401, 403, 404, 409, 413, 415, 429, 500, 503}

TypeOK ==
    /\ phase \in [Conn -> Phase]
    /\ sender \in [Conn -> Senders \cup {NoRequest}]
    /\ endpoint \in [Conn -> Endpoint \cup {NoRequest}]
    /\ slots \in Nat
    /\ admitted \subseteq Conn
    /\ trust \in BOOLEAN
    /\ answers \in [Conn -> SUBSET Status]

\* Every worker slot is free or held by exactly one connection under way, on
\* every path through process_request and process_request_thread: none leaks
\* when a thread cannot be started, none is given back twice.
SlotsConserved == slots + Cardinality(Held) = MaxConcurrent

\* The client that a request is held against; a service that does not trust
\* the proxy takes all who come through it for one client.
Payer(c) == IF trust \/ Direct(sender[c]) THEN sender[c].origin ELSE Proxy
Admitted(a) == {c \in admitted : Payer(c) = a}
Active == {Payer(c) : c \in admitted}

\* rate_limit_key counts a client under one key whatever headers it sends, and
\* under its own: nobody gets more than the budget of one client, and a client
\* is refused only when its own requests have used that up or, if none of its
\* requests is inside the window, when MAX_RATE_LIMIT_KEYS other clients are
\* active.  One client can therefore neither use up the budget of another nor
\* fill the table by itself.
BudgetPerClient ==
    /\ \A a \in Client \cup {Proxy} : Cardinality(Admitted(a)) <= Budget
    /\ \A c \in Conn :
          phase[c] = "dispatch" /\ ~allow_request(rate_limit_key(sender[c])) =>
             \/ Cardinality(Admitted(Payer(c))) = Budget
             \/ Payer(c) \notin Active /\ Cardinality(Active) >= MaxKeys

\* No connection waits for ever: each one queued is shut down or served and
\* closed, and its slot is free again, however its client behaves.
ConnectionsClose == \A c \in Conn : phase[c] = "queued" ~> phase[c] = "closed"
=============================================================================
