--------------------------- MODULE LobbyHTTPProofs ---------------------------
(***************************************************************************)
(* Proofs about LobbyHTTP, for any number of connections and worker slots. *)
(***************************************************************************)
EXTENDS LobbyHTTP, FiniteSetTheorems, TLAPS

\* A step that moves one connection into, within or out of the phases that hold
\* a slot changes the number of held slots by the one connection.
LEMMA HeldGrows ==
    ASSUME NEW c \in Conn, NEW p \in Holding, phase \in [Conn -> Phase],
           phase[c] \notin Holding, Goto(c, p)
    PROVE  /\ Cardinality(Held') = Cardinality(Held) + 1
           /\ Cardinality(Held) \in Nat
  <1>1. IsFiniteSet(Held)
    BY HTTPAssumption, FS_Subset DEF Held
  <1>2. Held' = Held \cup {c}
    BY DEF Held, Goto
  <1>3. c \notin Held
    BY DEF Held
  <1> QED
    BY <1>1, <1>2, <1>3, FS_AddElement, FS_CardinalityType

LEMMA HeldShrinks ==
    ASSUME NEW c \in Conn, NEW p, p \notin Holding, phase \in [Conn -> Phase],
           phase[c] \in Holding, Goto(c, p)
    PROVE  /\ Cardinality(Held') = Cardinality(Held) - 1
           /\ Cardinality(Held) \in Nat
  <1>1. IsFiniteSet(Held)
    BY HTTPAssumption, FS_Subset DEF Held
  <1>2. Held' = Held \ {c}
    BY DEF Held, Goto
  <1>3. c \in Held
    BY DEF Held
  <1> QED
    BY <1>1, <1>2, <1>3, FS_RemoveElement, FS_CardinalityType

LEMMA HeldStays ==
    ASSUME NEW c \in Conn, NEW p, phase \in [Conn -> Phase],
           phase[c] \in Holding <=> p \in Holding, Goto(c, p)
    PROVE  Held' = Held
  BY DEF Held, Goto

-----------------------------------------------------------------------------
(* What a worker does between taking its slot and giving it back.          *)

LEMMA WorkKeepsSlots ==
    ASSUME TypeOK, NEW c \in Conn,
           \/ ReadHead(c) \/ Dispatch(c) \/ Authenticate(c) \/ ReadBody(c)
           \/ Run(c) \/ Reply(c) \/ Fault(c)
    PROVE  slots' = slots /\ Held' = Held
  <1>1. PICK p \in Holding : Goto(c, p) /\ phase[c] \in Holding /\ slots' = slots
    <2>1. CASE ReadHead(c)
      BY <2>1 DEF ReadHead, Holding
    <2>2. CASE Dispatch(c)
      BY <2>2 DEF Dispatch, Refuse, Holding
    <2>3. CASE Authenticate(c)
      BY <2>3 DEF Authenticate, Refuse, Holding
    <2>4. CASE ReadBody(c)
      BY <2>4 DEF ReadBody, Refuse, Holding
    <2>5. CASE Run(c)
      BY <2>5 DEF Run, Refuse, Holding
    <2>6. CASE Reply(c)
      BY <2>6 DEF Reply, Holding
    <2>7. CASE Fault(c)
      BY <2>7 DEF Fault, Refuse, Holding
    <2> QED
      BY <2>1, <2>2, <2>3, <2>4, <2>5, <2>6, <2>7
  <1> QED
    BY <1>1, HeldStays DEF TypeOK

-----------------------------------------------------------------------------
(* Types.                                                                  *)

LEMMA SomeStatuses ==
    /\ \A e : Success(e) \in Status
    /\ \A e : BodyRefusals(e) \subseteq Status
    /\ \A e : StoreRefusals(e) \subseteq Status
  BY DEF Success, BodyRefusals, StoreRefusals, Status, _payload, _reject_unknown,
         _required_string, _validate_display_name, SessionFields, RoomFields,
         MessageFields, BlockFields, ReportFields, Cursor, _room, _owned_room,
         _require_membership

LEMMA SendTypes ==
    ASSUME TypeOK, NEW c \in Conn, NEW status \in Status, Send(c, status)
    PROVE  answers' \in [Conn -> SUBSET Status]
  BY DEF TypeOK, Send

LEMMA GotoTypes ==
    ASSUME TypeOK, NEW c \in Conn, NEW p \in Phase, Goto(c, p)
    PROVE  phase' \in [Conn -> Phase]
  BY DEF TypeOK, Goto

LEMMA NextTypes == TypeOK /\ [Next]_vars => TypeOK'
  <1> SUFFICES ASSUME TypeOK, [Next]_vars PROVE TypeOK'
    OBVIOUS
  <1>1. CASE UNCHANGED vars
    BY <1>1 DEF TypeOK, vars
  <1>2. ASSUME NEW c \in Conn, Connect(c) PROVE TypeOK'
    BY <1>2, GotoTypes DEF TypeOK, Connect, Phase
  <1>3. ASSUME NEW c \in Conn, Accept(c) PROVE TypeOK'
    <2>1. phase' \in [Conn -> Phase]
      BY <1>3, GotoTypes DEF Accept, Phase, Holding
    <2>2. slots' \in Nat
      BY <1>3 DEF Accept, TypeOK
    <2> QED
      BY <1>3, <2>1, <2>2 DEF TypeOK, Accept
  <1>4. ASSUME NEW c \in Conn, StartThread(c) PROVE TypeOK'
    BY <1>4, GotoTypes DEF TypeOK, StartThread, Phase, Holding
  <1>5. ASSUME NEW c \in Conn, ReadHead(c) PROVE TypeOK'
    <2>1. phase' \in [Conn -> Phase]
      BY <1>5, GotoTypes DEF ReadHead, Phase, Holding
    <2>2. sender' \in [Conn -> Senders \cup {NoRequest}]
      BY <1>5 DEF ReadHead, TypeOK
    <2>3. endpoint' \in [Conn -> Endpoint \cup {NoRequest}]
      BY <1>5 DEF ReadHead, TypeOK
    <2> QED
      BY <1>5, <2>1, <2>2, <2>3 DEF TypeOK, ReadHead
  <1>6. ASSUME NEW c \in Conn, Dispatch(c) PROVE TypeOK'
    <2>1. phase' \in [Conn -> Phase]
      BY <1>6, GotoTypes DEF Dispatch, Refuse, Phase, Holding
    <2>2. answers' \in [Conn -> SUBSET Status]
      BY <1>6, SendTypes DEF Dispatch, Refuse, Status, TypeOK
    <2>3. admitted' \subseteq Conn
      BY <1>6 DEF Dispatch, TypeOK
    <2> QED
      BY <1>6, <2>1, <2>2, <2>3 DEF TypeOK, Dispatch
  <1>7. ASSUME NEW c \in Conn, Authenticate(c) PROVE TypeOK'
    <2>1. phase' \in [Conn -> Phase]
      BY <1>7, GotoTypes DEF Authenticate, Refuse, Phase, Holding
    <2>2. answers' \in [Conn -> SUBSET Status]
      BY <1>7, SendTypes DEF Authenticate, Refuse, Status, TypeOK
    <2> QED
      BY <1>7, <2>1, <2>2 DEF TypeOK, Authenticate
  <1>8. ASSUME NEW c \in Conn, ReadBody(c) PROVE TypeOK'
    <2>1. phase' \in [Conn -> Phase]
      BY <1>8, GotoTypes DEF ReadBody, Refuse, Phase, Holding
    <2>2. answers' \in [Conn -> SUBSET Status]
      BY <1>8, SendTypes, SomeStatuses DEF ReadBody, Refuse, TypeOK
    <2> QED
      BY <1>8, <2>1, <2>2 DEF TypeOK, ReadBody
  <1>9. ASSUME NEW c \in Conn, Run(c) PROVE TypeOK'
    <2>1. phase' \in [Conn -> Phase]
      BY <1>9, GotoTypes DEF Run, Refuse, Phase, Holding
    <2>2. answers' \in [Conn -> SUBSET Status]
      BY <1>9, SendTypes, SomeStatuses DEF Run, Refuse, TypeOK
    <2> QED
      BY <1>9, <2>1, <2>2 DEF TypeOK, Run
  <1>10. ASSUME NEW c \in Conn, Reply(c) PROVE TypeOK'
    <2>1. phase' \in [Conn -> Phase]
      BY <1>10, GotoTypes DEF Reply, Phase, Holding
    <2>2. answers' \in [Conn -> SUBSET Status]
      BY <1>10, SendTypes, SomeStatuses DEF Reply, TypeOK
    <2> QED
      BY <1>10, <2>1, <2>2 DEF TypeOK, Reply
  <1>11. ASSUME NEW c \in Conn, Fault(c) PROVE TypeOK'
    <2>1. phase' \in [Conn -> Phase]
      BY <1>11, GotoTypes DEF Fault, Refuse, Phase, Holding
    <2>2. answers' \in [Conn -> SUBSET Status]
      BY <1>11, SendTypes DEF Fault, Refuse, Status
    <2> QED
      BY <1>11, <2>1, <2>2 DEF TypeOK, Fault
  <1>12. ASSUME NEW c \in Conn, process_request_thread(c) PROVE TypeOK'
    BY <1>12, GotoTypes DEF TypeOK, process_request_thread, Phase
  <1>13. ASSUME NEW c \in Conn, Lapse(c) PROVE TypeOK'
    BY <1>13 DEF TypeOK, Lapse
  <1> QED
    BY <1>1, <1>2, <1>3, <1>4, <1>5, <1>6, <1>7, <1>8, <1>9, <1>10, <1>11, <1>12, <1>13
       DEF Next, Serve, Work

\* Type correctness: in particular _worker_slots never counts below zero.
THEOREM HTTPTypeCorrect == Spec => []TypeOK
  <1>1. Init => TypeOK
    BY HTTPAssumption DEF Init, TypeOK, Phase
  <1> QED
    BY <1>1, NextTypes, PTL DEF Spec

-----------------------------------------------------------------------------
(* The worker slots.                                                       *)

LEMMA NextKeepsSlots == TypeOK /\ SlotsConserved /\ [Next]_vars => SlotsConserved'
  <1> SUFFICES ASSUME TypeOK, SlotsConserved, [Next]_vars PROVE SlotsConserved'
    OBVIOUS
  <1>0. phase \in [Conn -> Phase] /\ slots \in Nat
    BY DEF TypeOK
  <1>1. CASE UNCHANGED vars
    BY <1>1 DEF SlotsConserved, Held, vars
  <1>2. ASSUME NEW c \in Conn, Connect(c) PROVE SlotsConserved'
    <2>1. Held' = Held
      BY <1>0, <1>2, HeldStays DEF Connect, Holding
    <2> QED
      BY <1>2, <2>1 DEF SlotsConserved, Connect
  <1>3. ASSUME NEW c \in Conn, Accept(c) PROVE SlotsConserved'
    <2>1. CASE slots = 0
      <3>1. Held' = Held
        BY <1>0, <1>3, <2>1, HeldStays DEF Accept, Holding
      <3> QED
        BY <1>3, <2>1, <3>1 DEF SlotsConserved, Accept
    <2>2. CASE slots # 0
      <3>1. Cardinality(Held') = Cardinality(Held) + 1 /\ Cardinality(Held) \in Nat
        BY <1>0, <1>3, <2>2, HeldGrows DEF Accept, Holding
      <3>2. slots' = slots - 1
        BY <1>3, <2>2 DEF Accept
      <3> QED
        BY <1>0, <3>1, <3>2 DEF SlotsConserved
    <2> QED
      BY <2>1, <2>2
  <1>4. ASSUME NEW c \in Conn, StartThread(c) PROVE SlotsConserved'
    <2>1. CASE Goto(c, "head") /\ UNCHANGED slots
      <3>1. Held' = Held
        BY <1>0, <1>4, <2>1, HeldStays DEF StartThread, Holding
      <3> QED
        BY <2>1, <3>1 DEF SlotsConserved
    <2>2. CASE Goto(c, "closed") /\ slots' = slots + 1
      <3>1. Cardinality(Held') = Cardinality(Held) - 1 /\ Cardinality(Held) \in Nat
        BY <1>0, <1>4, <2>2, HeldShrinks DEF StartThread, Holding
      <3> QED
        BY <1>0, <2>2, <3>1 DEF SlotsConserved
    <2> QED
      BY <1>4, <2>1, <2>2 DEF StartThread
  <1>5. ASSUME NEW c \in Conn,
               \/ ReadHead(c) \/ Dispatch(c) \/ Authenticate(c) \/ ReadBody(c)
               \/ Run(c) \/ Reply(c) \/ Fault(c)
        PROVE  SlotsConserved'
    BY <1>5, WorkKeepsSlots DEF SlotsConserved
  <1>6. ASSUME NEW c \in Conn, process_request_thread(c) PROVE SlotsConserved'
    <2>1. Cardinality(Held') = Cardinality(Held) - 1 /\ Cardinality(Held) \in Nat
      BY <1>0, <1>6, HeldShrinks DEF process_request_thread, Holding
    <2>2. slots' = slots + 1
      BY <1>6 DEF process_request_thread
    <2> QED
      BY <1>0, <2>1, <2>2 DEF SlotsConserved
  <1>7. ASSUME NEW c \in Conn, Lapse(c) PROVE SlotsConserved'
    BY <1>7 DEF SlotsConserved, Held, Lapse
  <1> QED
    BY <1>1, <1>2, <1>3, <1>4, <1>5, <1>6, <1>7 DEF Next, Serve, Work

\* The slots that are free and the connections that hold one always add up to
\* MAX_CONCURRENT_REQUESTS: process_request and process_request_thread neither
\* lose a slot nor give one back twice.
THEOREM SlotsKept == Spec => []SlotsConserved
  <1>1. Init => SlotsConserved
    <2> SUFFICES ASSUME Init PROVE SlotsConserved
      OBVIOUS
    <2>1. Held = {}
      BY DEF Init, Held, Holding
    <2> QED
      BY <2>1, HTTPAssumption, FS_EmptySet DEF Init, SlotsConserved
  <1> QED
    BY <1>1, NextKeepsSlots, HTTPTypeCorrect, PTL DEF Spec

-----------------------------------------------------------------------------
(* The limiter's keys.                                                     *)

\* The phases before _dispatch has asked the limiter.
Uncounted == {"away", "queued", "starting", "head", "dispatch"}

\* A request that was read came through the proxy, or by itself to a service
\* that does not trust the header.
Known(c) ==
    /\ sender[c] \in Senders
    /\ Proxied(sender[c]) \/ (Direct(sender[c]) /\ ~trust)

KeyInv ==
    /\ \A c \in admitted : phase[c] \notin Uncounted
    /\ \A c \in Conn : phase[c] = "dispatch" \/ c \in admitted => Known(c)
    /\ \A k \in Client \cup {Proxy} : Cardinality(Counted(k)) <= Budget

\* The key is the client's own, whatever header it sends.
LEMMA KeyOfKnown ==
    ASSUME NEW c \in Conn, Known(c)
    PROVE  rate_limit_key(sender[c]) = Payer(c) /\ Payer(c) \in Client \cup {Proxy}
  <1>1. /\ sender[c].origin \in Client /\ sender[c].peer \in Client \cup {Proxy}
        /\ Proxied(sender[c]) \/ (Direct(sender[c]) /\ ~trust)
    BY DEF Known, Senders
  <1>2. Proxy \notin Client /\ NoAddress \notin Client
    BY HTTPAssumption
  <1>3. CASE Proxied(sender[c])
    BY <1>1, <1>2, <1>3 DEF Proxied, Direct, Payer, rate_limit_key
  <1>4. CASE Direct(sender[c]) /\ ~trust
    BY <1>1, <1>2, <1>4 DEF Direct, Payer, rate_limit_key
  <1> QED
    BY <1>1, <1>3, <1>4

\* So what is counted under an address is what its client asked, and the table
\* holds one key for each active client.
LEMMA CountedIsAdmitted ==
    ASSUME TypeOK, KeyInv
    PROVE  /\ \A a : Counted(a) = Admitted(a)
           /\ Keys = Active
  <1>1. \A c \in admitted : rate_limit_key(sender[c]) = Payer(c)
    <2> SUFFICES ASSUME NEW c \in admitted PROVE rate_limit_key(sender[c]) = Payer(c)
      OBVIOUS
    <2>1. c \in Conn /\ Known(c)
      BY DEF TypeOK, KeyInv
    <2> QED
      BY <2>1, KeyOfKnown
  <1> QED
    BY <1>1 DEF Counted, Admitted, Keys, Active

LEMMA CountedIsFinite ==
    ASSUME TypeOK, NEW k
    PROVE  IsFiniteSet(Counted(k)) /\ Cardinality(Counted(k)) \in Nat
  <1>1. Counted(k) \subseteq Conn
    BY DEF Counted, TypeOK
  <1> QED
    BY <1>1, HTTPAssumption, FS_Subset, FS_CardinalityType

LEMMA KeysAreFinite ==
    ASSUME TypeOK
    PROVE  IsFiniteSet(Keys) /\ Cardinality(Keys) \in Nat
  <1>1. IsFiniteSet(admitted)
    BY HTTPAssumption, FS_Subset DEF TypeOK
  <1>2. IsFiniteSet(Keys)
    <2> DEFINE key == [c \in admitted |-> rate_limit_key(sender[c])]
    <2>1. key \in Surjection(admitted, Keys)
      BY DEF Keys, Surjection
    <2> QED
      BY <1>1, <2>1, FS_Surjection
  <1> QED
    BY <1>2, FS_CardinalityType

\* The steps that neither ask the limiter nor let time pass.
LEMMA OtherStepsKeepKeys ==
    ASSUME TypeOK, KeyInv, NEW c \in Conn,
           \/ Connect(c) \/ Serve(c) \/ Authenticate(c) \/ ReadBody(c)
           \/ Run(c) \/ Reply(c) \/ Fault(c) \/ process_request_thread(c)
    PROVE  KeyInv'
  <1>1. sender' = sender /\ admitted' = admitted /\ trust' = trust
    BY DEF Connect, Serve, Accept, StartThread, Authenticate, ReadBody, Run, Reply,
           Fault, process_request_thread
  <1>2. \E p : /\ Goto(c, p) /\ p # "dispatch"
               /\ p \in Uncounted => phase[c] \in Uncounted
    <2> USE DEF Uncounted
    <2>1. CASE Connect(c) \/ Serve(c)
      BY <2>1 DEF Connect, Serve, Accept, StartThread
    <2>2. CASE Authenticate(c) \/ ReadBody(c)
      BY <2>2 DEF Authenticate, ReadBody, Refuse
    <2>3. CASE Run(c) \/ Reply(c) \/ Fault(c) \/ process_request_thread(c)
      BY <2>3 DEF Run, Reply, Fault, process_request_thread, Refuse
    <2> QED
      BY <2>1, <2>2, <2>3
  <1>3. /\ \A d \in Conn : phase'[d] = "dispatch" => phase[d] = "dispatch"
        /\ \A d \in Conn : phase'[d] \in Uncounted => phase[d] \in Uncounted
    BY <1>2 DEF Goto, TypeOK
  <1>4. admitted \subseteq Conn
    BY DEF TypeOK
  <1> QED
    BY <1>1, <1>3, <1>4 DEF KeyInv, Known, Counted, rate_limit_key

\* Only Dispatch lets a request through, and only ReadHead changes one, which
\* has not been let through.
LEMMA NextKeepsKeys == TypeOK /\ KeyInv /\ [Next]_vars => KeyInv'
  <1> SUFFICES ASSUME TypeOK, KeyInv, [Next]_vars PROVE KeyInv'
    OBVIOUS
  <1>0. admitted \subseteq Conn
    BY DEF TypeOK
  <1>1. CASE UNCHANGED vars
    BY <1>1 DEF vars, KeyInv, Known, Counted, rate_limit_key
  <1>2. ASSUME NEW c \in Conn, ReadHead(c) PROVE KeyInv'
    <2>1. phase[c] = "head" /\ admitted' = admitted /\ trust' = trust
      BY <1>2 DEF ReadHead
    <2>2. c \notin admitted
      BY <2>1 DEF KeyInv, Uncounted
    <2>3. \A d \in Conn : d # c => sender'[d] = sender[d] /\ phase'[d] = phase[d]
      BY <1>2 DEF ReadHead, Goto, TypeOK
    <2>4. phase'[c] = "dispatch" => Known(c)'
      BY <1>2, <2>1 DEF ReadHead, Goto, Known, TypeOK
    <2>5. \A d \in Conn : phase'[d] = "dispatch" \/ d \in admitted' => Known(d)'
      BY <2>1, <2>2, <2>3, <2>4 DEF KeyInv, Known
    <2>6. \A d \in admitted : sender'[d] = sender[d] /\ phase'[d] = phase[d]
      BY <1>0, <2>2, <2>3
    <2>7. \A k : Counted(k)' = Counted(k)
      BY <2>1, <2>6 DEF Counted, rate_limit_key
    <2> QED
      BY <2>1, <2>5, <2>6, <2>7 DEF KeyInv
  <1>3. ASSUME NEW c \in Conn, Dispatch(c) PROVE KeyInv'
    <2>1. /\ phase[c] = "dispatch" /\ sender' = sender /\ trust' = trust
          /\ \A d \in Conn : phase'[d] = "dispatch" => phase[d] = "dispatch"
          /\ \A d \in Conn : d # c => phase'[d] = phase[d]
          /\ phase'[c] \notin Uncounted
      BY <1>3 DEF Dispatch, Refuse, Goto, TypeOK, Uncounted
    <2>2. \/ admitted' = admitted
          \/ /\ admitted' = admitted \cup {c}
             /\ Cardinality(Counted(rate_limit_key(sender[c]))) < Budget
      BY <1>3 DEF Dispatch, allow_request
    <2>3. \A d \in Conn : phase'[d] = "dispatch" \/ d \in admitted' => Known(d)'
      BY <2>1, <2>2 DEF KeyInv, Known
    <2>4. ASSUME NEW k \in Client \cup {Proxy} PROVE Cardinality(Counted(k)') <= Budget
      <3>1. Cardinality(Counted(k)) \in Nat /\ IsFiniteSet(Counted(k))
        BY CountedIsFinite
      <3>2. Cardinality(Counted(k)) <= Budget
        BY DEF KeyInv
      <3>3. CASE Counted(k)' = Counted(k)
        BY <3>2, <3>3
      <3>4. CASE Counted(k)' # Counted(k)
        <4>1. admitted' = admitted \cup {c} /\ k = rate_limit_key(sender[c])
          BY <2>1, <2>2, <3>4 DEF Counted, rate_limit_key
        <4>2. Counted(k)' = Counted(k) \cup {c}
          BY <2>1, <4>1 DEF Counted, rate_limit_key
        <4>3. Cardinality(Counted(k)) < Budget
          <5>1. admitted' # admitted
            BY <2>1, <3>4 DEF Counted, rate_limit_key
          <5> QED
            BY <2>2, <4>1, <5>1
        <4>4. c \notin Counted(k)
          BY <3>4, <4>2
        <4>5. Cardinality(Counted(k)') = Cardinality(Counted(k)) + 1
          BY <3>1, <4>2, <4>4, FS_AddElement
        <4> QED
          BY <3>1, <4>3, <4>5, HTTPAssumption
      <3> QED
        BY <3>3, <3>4
    <2>5. \A d \in admitted' : phase'[d] \notin Uncounted
      BY <1>0, <2>1, <2>2 DEF KeyInv
    <2> QED
      BY <2>3, <2>4, <2>5 DEF KeyInv
  <1>4. ASSUME NEW c \in Conn,
               \/ Connect(c) \/ Serve(c) \/ Authenticate(c) \/ ReadBody(c)
               \/ Run(c) \/ Reply(c) \/ Fault(c) \/ process_request_thread(c)
        PROVE  KeyInv'
    BY <1>4, OtherStepsKeepKeys
  <1>5. ASSUME NEW c \in Conn, Lapse(c) PROVE KeyInv'
    <2>1. /\ admitted' = admitted \ {c} /\ phase' = phase
          /\ sender' = sender /\ trust' = trust
      BY <1>5 DEF Lapse
    <2>2. ASSUME NEW k \in Client \cup {Proxy} PROVE Cardinality(Counted(k)') <= Budget
      <3>1. Counted(k)' \subseteq Counted(k)
        BY <2>1 DEF Counted, rate_limit_key
      <3>2. IsFiniteSet(Counted(k)) /\ Cardinality(Counted(k)) \in Nat
        BY CountedIsFinite
      <3>3. IsFiniteSet(Counted(k)') /\ Cardinality(Counted(k)') <= Cardinality(Counted(k))
        BY <3>1, <3>2, FS_Subset
      <3>4. Cardinality(Counted(k)') \in Nat
        BY <3>3, FS_CardinalityType
      <3> QED
        BY <3>2, <3>3, <3>4, HTTPAssumption DEF KeyInv
    <2> QED
      BY <2>1, <2>2 DEF KeyInv, Known
  <1> QED
    BY <1>1, <1>2, <1>3, <1>4, <1>5 DEF Next, Work

\* No client gets more than its budget, and none is refused but for its own
\* requests or for a table full of other clients, whatever headers are sent:
\* the key is the client's own.
THEOREM BudgetsAreSeparate == Spec => []BudgetPerClient
  <1>1. Init => KeyInv
    <2> SUFFICES ASSUME Init PROVE KeyInv
      OBVIOUS
    <2>1. \A k : Counted(k) = {}
      BY DEF Init, Counted
    <2>2. Cardinality({}) = 0 /\ Budget \in Nat
      BY FS_EmptySet, HTTPAssumption
    <2> QED
      BY <2>1, <2>2 DEF Init, KeyInv
  <1>2. TypeOK /\ KeyInv => BudgetPerClient
    <2> SUFFICES ASSUME TypeOK, KeyInv PROVE BudgetPerClient
      OBVIOUS
    <2>1. \A a \in Client \cup {Proxy} : Cardinality(Admitted(a)) <= Budget
      BY CountedIsAdmitted DEF KeyInv
    <2>2. ASSUME NEW c \in Conn, phase[c] = "dispatch",
                 ~allow_request(rate_limit_key(sender[c]))
          PROVE  \/ Cardinality(Admitted(Payer(c))) = Budget
                 \/ Payer(c) \notin Active /\ Cardinality(Active) >= MaxKeys
      <3>1. rate_limit_key(sender[c]) = Payer(c) /\ Payer(c) \in Client \cup {Proxy}
        BY <2>2, KeyOfKnown DEF KeyInv
      <3>2. Counted(Payer(c)) = Admitted(Payer(c)) /\ Keys = Active
        BY CountedIsAdmitted
      <3>3. CASE ~(Cardinality(Counted(Payer(c))) < Budget)
        <4>1. /\ Cardinality(Counted(Payer(c))) \in Nat
              /\ Cardinality(Counted(Payer(c))) <= Budget
          BY <3>1, CountedIsFinite DEF KeyInv
        <4> QED
          BY <3>2, <3>3, <4>1, HTTPAssumption
      <3>4. CASE Payer(c) \notin Keys /\ ~(Cardinality(Keys) < MaxKeys)
        BY <3>2, <3>4, KeysAreFinite, HTTPAssumption
      <3> QED
        BY <2>2, <3>1, <3>3, <3>4 DEF allow_request
    <2> QED
      BY <2>1, <2>2 DEF BudgetPerClient
  <1> QED
    BY <1>1, <1>2, NextKeepsKeys, HTTPTypeCorrect, PTL DEF Spec
=============================================================================
