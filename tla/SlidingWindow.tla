--------------------------- MODULE SlidingWindow ---------------------------
(***************************************************************************)
(* SlidingWindowLimiter of services/lobby/server.py as operators on its    *)
(* table of events.  A key's deque holds the ages of its admitted requests *)
(* (now minus the recorded time), in the order they were admitted.  The    *)
(* caller's clock reading may be delay old when it gets the lock.          *)
(***************************************************************************)
EXTENDS Naturals, Sequences, FiniteSets

CONSTANTS
    Limit,    \* limit: requests admitted per key in a window
    Window,   \* window_seconds
    MaxKeys   \* max_keys: keys the table holds

ASSUME WindowAssumption == Limit \in Nat /\ Window \in Nat /\ MaxKeys \in Nat

\* event <= now - window_seconds, by a clock read delay ago
Expired(age, delay) == age >= Window + delay

IdleByOldest(q, delay) ==  \* mutant: the oldest entry decides, not the latest
    q = << >> \/ Expired(q[1], delay)

Idle(q, delay) == q = << >> \/ Expired(q[Len(q)], delay)

\* The room made for a new key when the table is full.
KeepActive(events, delay) ==
    [k \in {k \in DOMAIN events : ~Idle(events[k], delay)} |-> events[k]]

TableFor(events, key, delay) ==
    IF key \notin DOMAIN events /\ Cardinality(DOMAIN events) >= MaxKeys
      THEN KeepActive(events, delay) ELSE events

\* No room for this key.
FullLate(table, key) ==  \* mutant: one key too many
    key \notin DOMAIN table /\ Cardinality(DOMAIN table) > MaxKeys

Full(table, key) == key \notin DOMAIN table /\ Cardinality(DOMAIN table) >= MaxKeys

DropNothing(q, delay) == q  \* mutant: expired entries go on counting

\* popleft while the oldest entry is expired
DropExpired(q, delay) ==
    LET n == CHOOSE n \in 0..Len(q) :
               /\ \A i \in 1..n : Expired(q[i], delay)
               /\ n < Len(q) => ~Expired(q[n + 1], delay)
    IN SubSeq(q, n + 1, Len(q))

DequeOf(table, key) == IF key \in DOMAIN table THEN table[key] ELSE << >>

Refuses(table, key, delay) ==
    \/ Full(table, key)
    \/ Len(DropExpired(DequeOf(table, key), delay)) >= Limit

\* allow returns whether the request is admitted ...
Admits(events, key, delay) == ~Refuses(TableFor(events, key, delay), key, delay)

\* ... and leaves the table with the key's expired entries gone, and the
\* request recorded at the caller's reading of the clock if it is admitted.
After(events, key, delay) ==
    LET table == TableFor(events, key, delay)
        q == DropExpired(DequeOf(table, key), delay)
    IN IF Full(table, key)
         THEN table
         ELSE [k \in DOMAIN table \cup {key} |->
                 IF k # key THEN table[k]
                 ELSE IF Refuses(table, key, delay) THEN q ELSE Append(q, delay)]

\* The clock advances by one; ages beyond oldest are all alike.
Aged(events, oldest) ==
    [k \in DOMAIN events |->
       [i \in DOMAIN events[k] |->
          IF events[k][i] < oldest THEN events[k][i] + 1 ELSE oldest]]
=============================================================================
