--------------------------- MODULE RequestLimiter ---------------------------
(***************************************************************************)
(* A sliding-window limiter of LobbyStore as its callers use it.           *)
(* allow_request and report read the clock under the store lock;           *)
(* send_message reads it before it waits for the lock, so that its reading *)
(* may be MaxDelay old and the readings reach the limiter out of order.    *)
(* The table of keys is bounded.  A full record of what was admitted, and  *)
(* when, which the code does not keep, says what it should decide.         *)
(***************************************************************************)
EXTENDS SlidingWindow

CONSTANTS
    Key,       \* client keys: an address's hash, or a session id
    MaxDelay   \* bound: how old a caller's clock reading may be

ASSUME DelayAssumption == MaxDelay \in Nat /\ MaxDelay < Window
ASSUME KeyAssumption == IsFiniteSet(Key)

VARIABLES
    events,      \* _events of the limiter
    admitted     \* history: how long ago each key's requests were admitted

vars == <<events, admitted>>

\* An entry older than this is expired for every later request.
Oldest == Window + MaxDelay

AllowRequest(k, delay) ==
    /\ events' = After(events, k, delay)
    /\ admitted' = IF Admits(events, k, delay)
                     THEN [admitted EXCEPT ![k] = Append(@, 0)] ELSE admitted

\* What no window reaches any more is dropped from the history, where the
\* oldest come first.
StillRecent(q) ==
    SubSeq(q, Cardinality({i \in DOMAIN q : q[i] >= Oldest}) + 1, Len(q))

Tick ==
    /\ events' = Aged(events, Oldest)
    /\ admitted' = [k \in Key |->
                      StillRecent([i \in DOMAIN admitted[k] |-> admitted[k][i] + 1])]

Init ==
    /\ events = [k \in {} |-> << >>]
    /\ admitted = [k \in Key |-> << >>]

Next == Tick \/ \E k \in Key, delay \in 0..MaxDelay : AllowRequest(k, delay)

Spec == Init /\ [][Next]_vars

-----------------------------------------------------------------------------
(* Properties.                                                             *)

Within(k, span) == {i \in DOMAIN admitted[k] : admitted[k][i] < span}

\* No client is admitted more than Limit times in a window less the delay of
\* the clock readings, although the table forgets clients and stamps are out
\* of order: a key is dropped only when nothing of it is that recent.
AtMostLimit == \A k \in Key : Cardinality(Within(k, Window - MaxDelay)) <= Limit

\* A client is refused only for a reason: within the window its reading of the
\* clock sees, it has used its Limit, or as many other clients as the table
\* holds were active.
RefusalsJustified ==
    \A k \in Key, delay \in 0..MaxDelay :
        ~Admits(events, k, delay) =>
            \/ Cardinality(Within(k, Window + delay)) >= Limit
            \/ Cardinality({x \in Key \ {k} : Within(x, Window + delay) # {}})
                  >= MaxKeys

\* The table never outgrows its bound.
TableBounded == Cardinality(DOMAIN events) <= MaxKeys
=============================================================================
