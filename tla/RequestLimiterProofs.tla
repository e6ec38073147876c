------------------------- MODULE RequestLimiterProofs -------------------------
(***************************************************************************)
(* Proofs about RequestLimiter, for any number of keys and any limits: the *)
(* table of the limiter agrees with the full history of what it admitted,  *)
(* as far back as a window reaches.                                        *)
(***************************************************************************)
EXTENDS RequestLimiter, FiniteSetTheorems, SequenceTheorems,
        WellFoundedInduction, TLAPS

-----------------------------------------------------------------------------
(* Prefixes and suffixes of sequences of ages.                             *)

LEMMA LessThan == OpToRel(<, Nat) = {p \in Nat \X Nat : p[1] < p[2]}
  BY DEF OpToRel

LEMMA Smallest ==
    ASSUME NEW T \in SUBSET Nat, T # {}
    PROVE  \E m \in T : \A i \in T : m <= i
  <1>1. PICK m \in T : \A i \in T : ~(<<i, m>> \in OpToRel(<, Nat))
    BY NatLessThanWellFounded, WFMin
  <1>2. \A i \in T : ~(i < m)
    BY <1>1, LessThan
  <1> QED
    BY <1>2

\* The entries of a sequence that come before the first one below b.
LEMMA PrefixEnds ==
    ASSUME NEW q \in Seq(Nat), NEW b \in Nat
    PROVE  \E n \in 0..Len(q) : /\ \A i \in 1..n : q[i] >= b
                                /\ n < Len(q) => q[n + 1] < b
  <1> DEFINE Below == {i \in 1..Len(q) : q[i] < b}
  <1>1. Len(q) \in Nat /\ \A i \in 1..Len(q) : q[i] \in Nat
    BY LenProperties
  <1>2. CASE Below = {}
    <2>1. \A i \in 1..Len(q) : q[i] >= b
      BY <1>1, <1>2
    <2> QED
      BY <1>1, <2>1
  <1>3. CASE Below # {}
    <2>1. PICK m \in Below : \A i \in Below : m <= i
      <3>1. Below \subseteq Nat
        OBVIOUS
      <3> HIDE DEF Below
      <3> QED
        BY <1>3, <3>1, Smallest
    <2>3. \A i \in 1..(m - 1) : q[i] >= b
      BY <1>1, <2>1
    <2>4. m - 1 \in 0..Len(q) /\ q[(m - 1) + 1] < b
      BY <1>1
    <2> QED
      BY <2>3, <2>4
  <1> QED
    BY <1>2, <1>3

LEMMA Suffix ==
    ASSUME NEW S, NEW q \in Seq(S), NEW n \in 0..Len(q)
    PROVE  /\ SubSeq(q, n + 1, Len(q)) \in Seq(S)
           /\ Len(SubSeq(q, n + 1, Len(q))) = Len(q) - n
           /\ \A i \in 1..(Len(q) - n) : SubSeq(q, n + 1, Len(q))[i] = q[n + i]
  <1>1. Len(q) \in Nat /\ \A i \in (n + 1)..Len(q) : q[i] \in S
    BY LenProperties
  <1>2. /\ SubSeq(q, n + 1, Len(q)) \in Seq(S)
        /\ Len(SubSeq(q, n + 1, Len(q))) = IF n + 1 <= Len(q) THEN Len(q) - (n + 1) + 1 ELSE 0
        /\ \A i \in 1..(Len(q) - (n + 1) + 1) : SubSeq(q, n + 1, Len(q))[i] = q[(n + 1) + i - 1]
    BY <1>1, SubSeqProperties
  <1> QED
    BY <1>1, <1>2

\* popleft takes a prefix, all of it expired, up to the first entry that is not.
LEMMA DropsPrefix ==
    ASSUME NEW q \in Seq(Nat), NEW delay \in Nat
    PROVE  \E n \in 0..Len(q) : /\ DropExpired(q, delay) = SubSeq(q, n + 1, Len(q))
                                /\ \A i \in 1..n : Expired(q[i], delay)
                                /\ n < Len(q) => ~Expired(q[n + 1], delay)
  <1> DEFINE Good(n) == /\ \A i \in 1..n : Expired(q[i], delay)
                        /\ n < Len(q) => ~Expired(q[n + 1], delay)
             Chosen == CHOOSE n \in 0..Len(q) : Good(n)
  <1>1. \E n \in 0..Len(q) : Good(n)
    <2>1. Window + delay \in Nat /\ Len(q) \in Nat
      BY WindowAssumption, LenProperties
    <2>2. PICK n \in 0..Len(q) : /\ \A i \in 1..n : q[i] >= Window + delay
                                 /\ n < Len(q) => q[n + 1] < Window + delay
      BY <2>1, PrefixEnds
    <2>3. n < Len(q) => q[n + 1] \in Nat
      BY <2>1, LenProperties
    <2> QED
      BY <2>1, <2>2, <2>3 DEF Expired
  <1>2. Chosen \in 0..Len(q) /\ Good(Chosen)
    BY <1>1
  <1>3. DropExpired(q, delay) = SubSeq(q, Chosen + 1, Len(q))
    BY DEF DropExpired
  <1> QED
    BY <1>2, <1>3

\* Ages that are recorded in the order of admission, by a clock that is read in
\* that order.
OldestFirst(h) == \A i, j \in 1..Len(h) : i <= j => h[j] <= h[i]

\* The history loses a prefix, and with it just what no window reaches.
LEMMA RecentIsSuffix ==
    ASSUME NEW h \in Seq(Nat), OldestFirst(h)
    PROVE  \E n \in 0..Len(h) : /\ StillRecent(h) = SubSeq(h, n + 1, Len(h))
                                /\ \A i \in 1..n : h[i] >= Oldest
                                /\ \A i \in (n + 1)..Len(h) : h[i] < Oldest
  <1>1. Oldest \in Nat /\ Len(h) \in Nat /\ DOMAIN h = 1..Len(h)
    BY WindowAssumption, DelayAssumption, LenProperties DEF Oldest
  <1>2. PICK n \in 0..Len(h) : /\ \A i \in 1..n : h[i] >= Oldest
                               /\ n < Len(h) => h[n + 1] < Oldest
    BY <1>1, PrefixEnds
  <1>3. \A i \in 1..Len(h) : h[i] \in Nat
    BY LenProperties
  <1>4. \A i \in (n + 1)..Len(h) : h[i] < Oldest
    <2> SUFFICES ASSUME NEW i \in (n + 1)..Len(h) PROVE h[i] < Oldest
      OBVIOUS
    <2>1. n + 1 \in 1..Len(h) /\ i \in 1..Len(h) /\ n + 1 <= i
      BY <1>1
    <2>2. h[i] <= h[n + 1]
      BY <2>1 DEF OldestFirst
    <2> QED
      BY <1>1, <1>2, <1>3, <2>1, <2>2
  <1>5. {i \in DOMAIN h : h[i] >= Oldest} = 1..n
    BY <1>1, <1>2, <1>3, <1>4
  <1>6. Cardinality(1..n) = n
    BY FS_Interval
  <1>7. StillRecent(h) = SubSeq(h, n + 1, Len(h))
    BY <1>5, <1>6 DEF StillRecent
  <1> QED
    BY <1>2, <1>4, <1>7

-----------------------------------------------------------------------------
(* The table.                                                              *)

Table(e) == DOMAIN e \subseteq Key /\ \A x \in DOMAIN e : e[x] \in Seq(Nat)

LEMMA Deques ==
    ASSUME NEW e, Table(e), NEW x
    PROVE  DequeOf(e, x) \in Seq(Nat)
  BY EmptySeq DEF Table, DequeOf

\* Making room for a new key takes away only idle keys.
LEMMA RoomMade ==
    ASSUME NEW e, Table(e), NEW k, NEW delay \in Nat
    PROVE  /\ Table(TableFor(e, k, delay))
           /\ DOMAIN TableFor(e, k, delay) \subseteq DOMAIN e
           /\ k \notin DOMAIN e \/ TableFor(e, k, delay) = e
           /\ \A x \in DOMAIN e :
                 \/ /\ x \in DOMAIN TableFor(e, k, delay)
                    /\ TableFor(e, k, delay)[x] = e[x]
                 \/ /\ x \notin DOMAIN TableFor(e, k, delay)
                    /\ Idle(e[x], delay)
  BY DEF TableFor, KeepActive, Table

LEMMA TableStays ==
    ASSUME NEW e, Table(e), NEW k \in Key, NEW delay \in Nat
    PROVE  Table(After(e, k, delay))
  <1> DEFINE table == TableFor(e, k, delay)
             q == DropExpired(DequeOf(table, k), delay)
  <1>1. Table(table)
    BY RoomMade
  <1>2. q \in Seq(Nat)
    <2>1. PICK d \in Seq(Nat) : d = DequeOf(table, k)
      BY <1>1, Deques
    <2>2. PICK n \in 0..Len(d) : DropExpired(d, delay) = SubSeq(d, n + 1, Len(d))
      BY DropsPrefix
    <2> QED
      BY <2>1, <2>2, Suffix
  <1>3. Append(q, delay) \in Seq(Nat)
    BY <1>2, AppendProperties
  <1>4. CASE Full(table, k)
    BY <1>1, <1>4 DEF After
  <1>5. CASE ~Full(table, k)
    <2>1. After(e, k, delay) =
             [x \in DOMAIN table \cup {k} |->
                IF x # k THEN table[x]
                ELSE IF Refuses(table, k, delay) THEN q ELSE Append(q, delay)]
      BY <1>5 DEF After
    <2> HIDE DEF table, q
    <2> QED
      BY <1>1, <1>2, <1>3, <2>1 DEF Table
  <1> QED
    BY <1>4, <1>5

-----------------------------------------------------------------------------
(* The bound of the table.                                                 *)

TableInv == Table(events) /\ TableBounded

LEMMA NextKeepsTable == TableInv /\ [Next]_vars => TableInv'
  <1> SUFFICES ASSUME TableInv, [Next]_vars PROVE TableInv'
    OBVIOUS
  <1>1. CASE UNCHANGED vars
    BY <1>1 DEF TableInv, Table, TableBounded, vars
  <1>2. CASE Tick
    <2>1. DOMAIN events' = DOMAIN events
      BY <1>2 DEF Tick, Aged
    <2>2. Table(events')
      <3> SUFFICES ASSUME NEW x \in DOMAIN events PROVE events'[x] \in Seq(Nat)
        BY <2>1 DEF TableInv, Table
      <3>1. events[x] \in Seq(Nat)
        BY DEF TableInv, Table
      <3>2. events'[x] = [i \in 1..Len(events[x]) |->
                            IF events[x][i] < Oldest THEN events[x][i] + 1 ELSE Oldest]
        BY <1>2, <3>1, LenProperties DEF Tick, Aged
      <3>3. Oldest \in Nat
        BY WindowAssumption, DelayAssumption DEF Oldest
      <3>4. \A i \in 1..Len(events[x]) : events[x][i] \in Nat
        BY <3>1, LenProperties
      <3>5. Len(events[x]) \in Nat
        BY <3>1, LenProperties
      <3> QED
        BY <3>2, <3>3, <3>4, <3>5
    <2> QED
      BY <2>1, <2>2 DEF TableInv, TableBounded
  <1>3. ASSUME NEW k \in Key, NEW delay \in 0..MaxDelay, AllowRequest(k, delay)
        PROVE  TableInv'
    <2> DEFINE table == TableFor(events, k, delay)
    <2>1. delay \in Nat
      BY DelayAssumption
    <2>2. events' = After(events, k, delay)
      BY <1>3 DEF AllowRequest
    <2>3. Table(events')
      BY <2>1, <2>2, TableStays DEF TableInv
    <2>4. IsFiniteSet(DOMAIN events) /\ DOMAIN table \subseteq DOMAIN events
      BY <2>1, RoomMade, KeyAssumption, FS_Subset DEF TableInv, Table
    <2>5. /\ IsFiniteSet(DOMAIN table)
          /\ Cardinality(DOMAIN table) \in Nat
          /\ Cardinality(DOMAIN table) <= MaxKeys
      BY <2>4, FS_Subset, FS_CardinalityType, WindowAssumption DEF TableInv, TableBounded
    <2>6. CASE Full(table, k)
      <3>1. events' = table
        BY <2>2, <2>6 DEF After
      <3> QED
        BY <2>3, <2>5, <3>1 DEF TableInv, TableBounded
    <2>7. CASE ~Full(table, k)
      <3>1. DOMAIN events' = DOMAIN table \cup {k}
        BY <2>2, <2>7 DEF After
      <3>2. k \in DOMAIN table \/ Cardinality(DOMAIN table) < MaxKeys
        BY <2>5, <2>7, WindowAssumption DEF Full
      <3>3. Cardinality(DOMAIN table \cup {k}) =
               IF k \in DOMAIN table THEN Cardinality(DOMAIN table)
               ELSE Cardinality(DOMAIN table) + 1
        BY <2>5, FS_AddElement
      <3>4. Cardinality(DOMAIN events') <= MaxKeys
        <4> HIDE DEF table
        <4> QED
          BY <2>5, <3>1, <3>2, <3>3, WindowAssumption
      <3> QED
        BY <2>3, <3>4 DEF TableInv, TableBounded
    <2> QED
      BY <2>6, <2>7
  <1> QED
    BY <1>1, <1>2, <1>3 DEF Next

LEMMA TableInvariant == Spec => []TableInv
  <1>1. Init => TableInv
    <2> SUFFICES ASSUME Init PROVE TableInv
      OBVIOUS
    <2>1. DOMAIN events = {}
      BY DEF Init
    <2> QED
      BY <2>1, FS_EmptySet, WindowAssumption DEF TableInv, Table, TableBounded
  <1> QED
    BY <1>1, NextKeepsTable, PTL DEF Spec

\* The table never outgrows its bound, whatever keys ask and however stale
\* their clock readings are: allow makes room, or refuses, before it records.
THEOREM TableStaysBounded == Spec => []TableBounded
  <1>1. TableInv => TableBounded
    BY DEF TableInv
  <1> QED
    BY <1>1, TableInvariant, PTL

-----------------------------------------------------------------------------
(* The deques and the history.  Both grow and are cut at the same ends, so *)
(* their entries correspond when counted from the latest.                  *)

\* What the limiter still counts has an entry that no reading finds expired,
\* and an entry that some reading may find unexpired was admitted as recently.
Matches(q, h) ==
    /\ Len(q) <= Limit
    /\ \A i \in 1..Len(h) : h[i] < Window - MaxDelay =>
          /\ i - Len(h) + Len(q) >= 1
          /\ q[i - Len(h) + Len(q)] <= h[i] + MaxDelay
    /\ \A j \in 1..Len(q) : q[j] < Oldest =>
          /\ j - Len(q) + Len(h) >= 1
          /\ h[j - Len(q) + Len(h)] <= q[j]

LEMMA Spans == /\ Limit \in Nat /\ Window \in Nat /\ MaxDelay \in Nat /\ Oldest \in Nat
               /\ Window - MaxDelay \in Nat /\ Window - MaxDelay > 0
               /\ Oldest = Window + MaxDelay
  BY WindowAssumption, DelayAssumption DEF Oldest

LEMMA NoneMatchNone == Matches(<< >>, << >>)
  BY Spans DEF Matches

\* Only what every reading from now on finds expired is dropped ...
LEMMA MatchesDropped ==
    ASSUME NEW q \in Seq(Nat), NEW h \in Seq(Nat), Matches(q, h),
           NEW delay \in 0..MaxDelay, NEW n \in 0..Len(q),
           \A i \in 1..n : Expired(q[i], delay)
    PROVE  Matches(SubSeq(q, n + 1, Len(q)), h)
  <1> DEFINE r == SubSeq(q, n + 1, Len(q))
  <1>1. /\ Len(q) \in Nat /\ Len(h) \in Nat
        /\ \A i \in 1..Len(q) : q[i] \in Nat
        /\ \A i \in 1..Len(h) : h[i] \in Nat
    BY LenProperties
  <1>2. Len(r) = Len(q) - n /\ \A i \in 1..(Len(q) - n) : r[i] = q[n + i]
    BY Suffix
  <1> HIDE DEF r
  <1>3. Len(r) <= Limit
    BY <1>1, <1>2, Spans DEF Matches
  <1>4. ASSUME NEW i \in 1..Len(h), h[i] < Window - MaxDelay
        PROVE  /\ i - Len(h) + Len(r) >= 1
               /\ r[i - Len(h) + Len(r)] <= h[i] + MaxDelay
    <2>1. PICK j \in 1..Len(q) : j = i - Len(h) + Len(q) /\ q[j] <= h[i] + MaxDelay
      <3>1. i - Len(h) + Len(q) >= 1 /\ q[i - Len(h) + Len(q)] <= h[i] + MaxDelay
        BY <1>4 DEF Matches
      <3>2. i - Len(h) + Len(q) \in 1..Len(q)
        BY <1>1, <3>1
      <3> QED
        BY <3>1, <3>2
    <2>2. q[j] \in Nat /\ h[i] \in Nat
      BY <1>1
    <2>3. q[j] < Window + delay
      <3>1. h[i] < Window - MaxDelay /\ q[j] <= h[i] + MaxDelay
        BY <1>4, <2>1
      <3>2. delay >= 0 /\ delay \in Int
        BY Spans
      <3> QED
        BY <2>2, <3>1, <3>2, Spans
    <2>4. ~Expired(q[j], delay)
      BY <2>2, <2>3, Spans DEF Expired
    <2>5. j > n
      BY <1>1, <2>4
    <2>6. PICK m \in 1..(Len(q) - n) : m = j - n
      BY <1>1, <2>5
    <2>7. r[m] = q[j] /\ m = i - Len(h) + Len(r)
      <3>1. n + m = j /\ r[m] = q[n + m]
        BY <1>1, <1>2, <2>6
      <3>2. m = i - Len(h) + Len(r)
        BY <1>1, <1>2, <2>1, <2>6
      <3> QED
        BY <3>1, <3>2
    <2>8. i - Len(h) + Len(r) >= 1
      BY <2>6, <2>7
    <2>9. r[i - Len(h) + Len(r)] = q[j]
      BY <2>7
    <2> QED
      BY <2>1, <2>8, <2>9
  <1>5. ASSUME NEW j \in 1..Len(r), r[j] < Oldest
        PROVE  /\ j - Len(r) + Len(h) >= 1
               /\ h[j - Len(r) + Len(h)] <= r[j]
    <2>1. n + j \in 1..Len(q) /\ r[j] = q[n + j]
      BY <1>1, <1>2
    <2>2. j - Len(r) + Len(h) = (n + j) - Len(q) + Len(h)
      BY <1>1, <1>2
    <2> QED
      BY <1>5, <2>1, <2>2 DEF Matches
  <1> QED
    BY <1>3, <1>4, <1>5 DEF Matches, r

\* ... and a key is forgotten only when its latest entry is.
LEMMA MatchesForgotten ==
    ASSUME NEW q \in Seq(Nat), NEW h \in Seq(Nat), OldestFirst(h), Matches(q, h),
           NEW delay \in 0..MaxDelay, Idle(q, delay)
    PROVE  Matches(<< >>, h)
  <1>1. /\ Len(q) \in Nat /\ Len(h) \in Nat
        /\ \A i \in 1..Len(q) : q[i] \in Nat
        /\ \A i \in 1..Len(h) : h[i] \in Nat
    BY LenProperties
  <1>2. ASSUME NEW i \in 1..Len(h), h[i] < Window - MaxDelay
        PROVE  FALSE
    <2>1. Len(h) \in 1..Len(h) /\ h[Len(h)] <= h[i]
      BY <1>1 DEF OldestFirst
    <2>2. h[Len(h)] < Window - MaxDelay
      BY <1>1, <1>2, <2>1, Spans
    <2>3. Len(q) >= 1 /\ q[Len(q)] <= h[Len(h)] + MaxDelay
      <3>1. Len(h) - Len(h) + Len(q) = Len(q)
        BY <1>1
      <3> QED
        BY <2>1, <2>2, <3>1 DEF Matches
    <2>4. q[Len(q)] \in Nat /\ q[Len(q)] < Window + delay
      BY <1>1, <2>1, <2>2, <2>3, Spans
    <2>5. q # << >> /\ ~Expired(q[Len(q)], delay)
      BY <2>3, <2>4, Spans DEF Expired
    <2> QED
      BY <2>5 DEF Idle
  <1> QED
    BY <1>2, Spans DEF Matches

\* A request is recorded in both.
LEMMA MatchesRecorded ==
    ASSUME NEW q \in Seq(Nat), NEW h \in Seq(Nat), Matches(q, h), Len(q) < Limit,
           NEW delay \in 0..MaxDelay
    PROVE  Matches(Append(q, delay), Append(h, 0))
  <1> DEFINE r == Append(q, delay)
             g == Append(h, 0)
  <1>1. /\ Len(q) \in Nat /\ Len(h) \in Nat
        /\ \A i \in 1..Len(q) : q[i] \in Nat
        /\ \A i \in 1..Len(h) : h[i] \in Nat
    BY LenProperties
  <1>2. /\ Len(r) = Len(q) + 1 /\ r[Len(q) + 1] = delay
        /\ \A i \in 1..Len(q) : r[i] = q[i]
    BY AppendProperties, Spans
  <1>3. /\ Len(g) = Len(h) + 1 /\ g[Len(h) + 1] = 0
        /\ \A i \in 1..Len(h) : g[i] = h[i]
    BY AppendProperties
  <1> HIDE DEF r, g
  <1>4. Len(r) <= Limit
    BY <1>1, <1>2, Spans
  <1>5. ASSUME NEW i \in 1..Len(g), g[i] < Window - MaxDelay
        PROVE  /\ i - Len(g) + Len(r) >= 1
               /\ r[i - Len(g) + Len(r)] <= g[i] + MaxDelay
    <2>1. i - Len(g) + Len(r) = i - Len(h) + Len(q)
      BY <1>1, <1>2, <1>3
    <2>2. CASE i = Len(h) + 1
      <3>1. i - Len(h) + Len(q) = Len(q) + 1
        BY <1>1, <2>2
      <3> QED
        BY <1>1, <1>2, <1>3, <2>1, <2>2, <3>1, Spans
    <2>3. CASE i \in 1..Len(h)
      <3>1. i - Len(h) + Len(q) >= 1 /\ q[i - Len(h) + Len(q)] <= h[i] + MaxDelay
        BY <1>3, <1>5, <2>3 DEF Matches
      <3>2. i - Len(h) + Len(q) \in 1..Len(q)
        BY <1>1, <2>3, <3>1
      <3> QED
        BY <1>2, <1>3, <2>1, <2>3, <3>1, <3>2
    <2> QED
      BY <1>1, <1>3, <2>2, <2>3
  <1>6. ASSUME NEW j \in 1..Len(r), r[j] < Oldest
        PROVE  /\ j - Len(r) + Len(g) >= 1
               /\ g[j - Len(r) + Len(g)] <= r[j]
    <2>1. j - Len(r) + Len(g) = j - Len(q) + Len(h)
      BY <1>1, <1>2, <1>3
    <2>2. CASE j = Len(q) + 1
      <3>1. j - Len(q) + Len(h) = Len(h) + 1
        BY <1>1, <2>2
      <3> QED
        BY <1>1, <1>2, <1>3, <2>1, <2>2, <3>1
    <2>3. CASE j \in 1..Len(q)
      <3>1. j - Len(q) + Len(h) >= 1 /\ h[j - Len(q) + Len(h)] <= q[j]
        BY <1>2, <1>6, <2>3 DEF Matches
      <3>2. j - Len(q) + Len(h) \in 1..Len(h)
        BY <1>1, <2>3, <3>1
      <3> QED
        BY <1>2, <1>3, <2>1, <2>3, <3>1, <3>2
    <2> QED
      BY <1>1, <1>2, <2>2, <2>3
  <1> QED
    BY <1>4, <1>5, <1>6 DEF Matches, r, g

LEMMA AgedDeque ==
    ASSUME NEW q \in Seq(Nat)
    PROVE  LET r == [i \in DOMAIN q |-> IF q[i] < Oldest THEN q[i] + 1 ELSE Oldest]
           IN  /\ r \in Seq(Nat) /\ Len(r) = Len(q)
               /\ \A i \in 1..Len(q) : r[i] = IF q[i] < Oldest THEN q[i] + 1 ELSE Oldest
  <1>1. Len(q) \in Nat /\ DOMAIN q = 1..Len(q) /\ \A i \in 1..Len(q) : q[i] \in Nat
    BY LenProperties
  <1>2. PICK r : r = [i \in 1..Len(q) |-> IF q[i] < Oldest THEN q[i] + 1 ELSE Oldest]
    OBVIOUS
  <1>3. r \in Seq(Nat) /\ Len(r) = Len(q)
    BY <1>1, <1>2, Spans
  <1> QED
    BY <1>1, <1>2, <1>3

LEMMA AgedHistory ==
    ASSUME NEW h \in Seq(Nat)
    PROVE  LET g == [i \in DOMAIN h |-> h[i] + 1]
           IN  /\ g \in Seq(Nat) /\ Len(g) = Len(h)
               /\ \A i \in 1..Len(h) : g[i] = h[i] + 1
  <1>1. Len(h) \in Nat /\ DOMAIN h = 1..Len(h) /\ \A i \in 1..Len(h) : h[i] \in Nat
    BY LenProperties
  <1>2. PICK g : g = [i \in 1..Len(h) |-> h[i] + 1]
    OBVIOUS
  <1>3. g \in Seq(Nat) /\ Len(g) = Len(h)
    BY <1>1, <1>2
  <1> QED
    BY <1>1, <1>2, <1>3

\* Time passes alike in both, and the history loses nothing that counts.
LEMMA MatchesAged ==
    ASSUME NEW q \in Seq(Nat), NEW h \in Seq(Nat), OldestFirst(h), Matches(q, h)
    PROVE  LET r == [i \in DOMAIN q |-> IF q[i] < Oldest THEN q[i] + 1 ELSE Oldest]
               g == StillRecent([i \in DOMAIN h |-> h[i] + 1])
           IN  g \in Seq(Nat) /\ OldestFirst(g) /\ Matches(r, g)
  <1>1. /\ Len(q) \in Nat /\ Len(h) \in Nat
        /\ \A i \in 1..Len(q) : q[i] \in Nat
        /\ \A i \in 1..Len(h) : h[i] \in Nat
    BY LenProperties
  <1>2. PICK r : r = [i \in DOMAIN q |-> IF q[i] < Oldest THEN q[i] + 1 ELSE Oldest]
    OBVIOUS
  <1>3. /\ Len(r) = Len(q)
        /\ \A i \in 1..Len(q) : r[i] = IF q[i] < Oldest THEN q[i] + 1 ELSE Oldest
    BY <1>2, AgedDeque
  <1>4. PICK f : f = [i \in DOMAIN h |-> h[i] + 1]
    OBVIOUS
  <1>5. f \in Seq(Nat) /\ Len(f) = Len(h) /\ \A i \in 1..Len(h) : f[i] = h[i] + 1
    BY <1>4, AgedHistory
  <1>6. OldestFirst(f)
    <2> SUFFICES ASSUME NEW i \in 1..Len(h), NEW j \in 1..Len(h), i <= j
                 PROVE  f[j] <= f[i]
      BY <1>5 DEF OldestFirst
    <2>1. h[j] <= h[i] /\ h[i] \in Nat /\ h[j] \in Nat
      BY <1>1 DEF OldestFirst
    <2>2. f[i] = h[i] + 1 /\ f[j] = h[j] + 1
      BY <1>5
    <2> QED
      BY <2>1, <2>2
  <1>7. PICK n \in 0..Len(f) : /\ StillRecent(f) = SubSeq(f, n + 1, Len(f))
                               /\ \A i \in 1..n : f[i] >= Oldest
                               /\ \A i \in (n + 1)..Len(f) : f[i] < Oldest
    BY <1>5, <1>6, RecentIsSuffix
  <1>8. PICK g : g = StillRecent(f)
    OBVIOUS
  <1>9. /\ g \in Seq(Nat) /\ Len(g) = Len(h) - n
        /\ \A i \in 1..(Len(h) - n) : g[i] = f[n + i]
    <2>1. /\ SubSeq(f, n + 1, Len(f)) \in Seq(Nat)
          /\ Len(SubSeq(f, n + 1, Len(f))) = Len(f) - n
          /\ \A i \in 1..(Len(f) - n) : SubSeq(f, n + 1, Len(f))[i] = f[n + i]
      BY <1>5, Suffix
    <2> QED
      BY <1>5, <1>7, <1>8, <2>1
  <1>10. \A i \in 1..Len(g) : n + i \in 1..Len(h) /\ g[i] = h[n + i] + 1
    BY <1>1, <1>5, <1>9
  <1>11. OldestFirst(g)
    <2> SUFFICES ASSUME NEW i \in 1..Len(g), NEW j \in 1..Len(g), i <= j
                 PROVE  g[j] <= g[i]
      BY DEF OldestFirst
    <2>1. PICK a \in 1..Len(h) : a = n + i
      BY <1>10
    <2>2. PICK b \in 1..Len(h) : b = n + j
      BY <1>10
    <2>3. a <= b /\ h[a] \in Nat /\ h[b] \in Nat
      BY <1>1, <1>9, <2>1, <2>2
    <2>4. h[b] <= h[a]
      BY <2>3 DEF OldestFirst
    <2>5. g[i] = h[a] + 1 /\ g[j] = h[b] + 1
      BY <1>10, <2>1, <2>2
    <2> QED
      BY <2>3, <2>4, <2>5
  <1>12. ASSUME NEW i \in 1..Len(g), g[i] < Window - MaxDelay
         PROVE  /\ i - Len(g) + Len(r) >= 1
                /\ r[i - Len(g) + Len(r)] <= g[i] + MaxDelay
    <2>1. PICK k \in 1..Len(h) : k = n + i /\ g[i] = h[k] + 1
      BY <1>10
    <2>2. h[k] < Window - MaxDelay
      <3>1. h[k] \in Nat /\ h[k] + 1 < Window - MaxDelay
        BY <1>1, <1>12, <2>1
      <3> QED
        BY <3>1, Spans
    <2>3. PICK j \in 1..Len(q) : j = k - Len(h) + Len(q) /\ q[j] <= h[k] + MaxDelay
      <3>1. k - Len(h) + Len(q) >= 1 /\ q[k - Len(h) + Len(q)] <= h[k] + MaxDelay
        BY <2>2 DEF Matches
      <3>2. k - Len(h) + Len(q) \in 1..Len(q)
        BY <1>1, <3>1
      <3> QED
        BY <3>1, <3>2
    <2>4. q[j] \in Nat /\ h[k] \in Nat
      BY <1>1
    <2>5. r[j] <= g[i] + MaxDelay
      <3>1. r[j] = IF q[j] < Oldest THEN q[j] + 1 ELSE Oldest
        BY <1>3
      <3>2. PICK x \in Nat, y \in Nat : x = h[k] /\ y = q[j]
        BY <2>4
      <3>3. y <= x + MaxDelay /\ g[i] = x + 1
        BY <2>1, <2>3, <3>2
      <3>4. CASE y < Oldest
        <4>1. r[j] = y + 1
          BY <3>1, <3>2, <3>4
        <4> QED
          BY <3>3, <4>1, Spans
      <3>5. CASE ~(y < Oldest)
        <4>1. r[j] = Oldest
          BY <3>1, <3>2, <3>5
        <4> QED
          BY <3>3, <3>5, <4>1, Spans
      <3> QED
        BY <3>4, <3>5
    <2>6. i - Len(g) + Len(r) = j
      BY <1>1, <1>3, <1>9, <2>1, <2>3
    <2> QED
      BY <2>5, <2>6
  <1>13. ASSUME NEW j \in 1..Len(r), r[j] < Oldest
         PROVE  /\ j - Len(r) + Len(g) >= 1
                /\ g[j - Len(r) + Len(g)] <= r[j]
    <2>1. j \in 1..Len(q) /\ q[j] < Oldest /\ r[j] = q[j] + 1 /\ q[j] \in Nat
      BY <1>1, <1>3, <1>13, Spans
    <2>2. PICK k \in 1..Len(h) : k = j - Len(q) + Len(h) /\ h[k] <= q[j]
      <3>1. j - Len(q) + Len(h) >= 1 /\ h[j - Len(q) + Len(h)] <= q[j]
        BY <2>1 DEF Matches
      <3>2. j - Len(q) + Len(h) \in 1..Len(h)
        BY <1>1, <2>1, <3>1
      <3> QED
        BY <3>1, <3>2
    <2>3. f[k] = h[k] + 1 /\ h[k] \in Nat
      BY <1>1, <1>5
    <2>4. f[k] <= r[j] /\ f[k] < Oldest
      <3>1. PICK x \in Nat, y \in Nat : x = h[k] /\ y = q[j]
        BY <2>1, <2>3
      <3>2. x <= y /\ f[k] = x + 1 /\ r[j] = y + 1 /\ y + 1 < Oldest
        BY <1>13, <2>1, <2>2, <2>3, <3>1
      <3> QED
        BY <3>2, Spans
    <2>5. k > n
      <3>1. k \in 1..n => f[k] >= Oldest
        BY <1>7
      <3> QED
        BY <1>1, <2>3, <2>4, <3>1, Spans
    <2>6. PICK i \in 1..Len(g) : i = k - n
      BY <1>1, <1>5, <1>9, <2>5
    <2>7. j - Len(r) + Len(g) = i
      BY <1>1, <1>3, <1>9, <2>2, <2>6
    <2>8. g[i] = f[k]
      <3>1. n + i = k /\ g[i] = f[n + i]
        BY <1>1, <1>9, <2>6
      <3> QED
        BY <3>1
    <2> QED
      BY <2>4, <2>7, <2>8
  <1>14. Len(r) <= Limit
    BY <1>3 DEF Matches
  <1> QED
    BY <1>2, <1>4, <1>8, <1>9, <1>11, <1>12, <1>13, <1>14 DEF Matches

-----------------------------------------------------------------------------
(* What one request does to the deques of the table.                       *)

LEMMA OthersKept ==
    ASSUME NEW e, Table(e), NEW k \in Key, NEW delay \in Nat, NEW x \in Key, x # k
    PROVE  \/ DequeOf(After(e, k, delay), x) = DequeOf(e, x)
           \/ /\ DequeOf(After(e, k, delay), x) = << >>
              /\ Idle(DequeOf(e, x), delay)
  <1> DEFINE table == TableFor(e, k, delay)
  <1>1. DequeOf(After(e, k, delay), x) = DequeOf(table, x)
    BY DEF After, DequeOf
  <1>2. DOMAIN table \subseteq DOMAIN e
    BY RoomMade
  <1>3. CASE x \in DOMAIN e
    <2>1. \/ x \in DOMAIN table /\ table[x] = e[x]
          \/ x \notin DOMAIN table /\ Idle(e[x], delay)
      BY <1>3, RoomMade
    <2> QED
      BY <1>1, <1>3, <2>1 DEF DequeOf
  <1>4. CASE x \notin DOMAIN e
    BY <1>1, <1>2, <1>4 DEF DequeOf
  <1> QED
    BY <1>3, <1>4

\* A request of k drops n entries of its deque d before they are counted.
Counted(e, k, delay, d, n) ==
    /\ \A i \in 1..n : Expired(d[i], delay)
    /\ n < Len(d) => ~Expired(d[n + 1], delay)
    /\ Admits(e, k, delay) =>
          /\ Len(d) - n < Limit
          /\ DequeOf(After(e, k, delay), k) = Append(SubSeq(d, n + 1, Len(d)), delay)
    /\ ~Admits(e, k, delay) =>
          \/ /\ Len(d) - n >= Limit
             /\ DequeOf(After(e, k, delay), k) = SubSeq(d, n + 1, Len(d))
          \/ /\ Full(TableFor(e, k, delay), k)
             /\ DequeOf(After(e, k, delay), k) = d

LEMMA OwnCounted ==
    ASSUME NEW e, Table(e), NEW k \in Key, NEW delay \in Nat,
           NEW d \in Seq(Nat), d = DequeOf(e, k)
    PROVE  \E n \in 0..Len(d) : Counted(e, k, delay, d, n)
  <1> DEFINE table == TableFor(e, k, delay)
             after == After(e, k, delay)
  <1>2. DequeOf(table, k) = d
    <2>1. DOMAIN table \subseteq DOMAIN e /\ (k \notin DOMAIN e \/ table = e)
      BY RoomMade
    <2> QED
      BY <2>1 DEF DequeOf
  <1>3. PICK n \in 0..Len(d) : /\ DropExpired(d, delay) = SubSeq(d, n + 1, Len(d))
                               /\ \A i \in 1..n : Expired(d[i], delay)
                               /\ n < Len(d) => ~Expired(d[n + 1], delay)
    BY DropsPrefix
  <1>4. PICK q : q = SubSeq(d, n + 1, Len(d))
    OBVIOUS
  <1>5. Len(q) = Len(d) - n /\ Len(q) \in Nat
    BY <1>4, Suffix, LenProperties
  <1>6. Refuses(table, k, delay) <=> Full(table, k) \/ Len(q) >= Limit
    BY <1>2, <1>3, <1>4 DEF Refuses
  <1>7. Admits(e, k, delay) <=> ~Refuses(table, k, delay)
    BY DEF Admits
  <1>8. CASE Full(table, k)
    <2>1. after = table
      BY <1>8 DEF After
    <2> QED
      BY <1>2, <1>3, <1>6, <1>7, <1>8, <2>1 DEF Counted
  <1>9. CASE ~Full(table, k)
    <2>1. after = [x \in DOMAIN table \cup {k} |->
                     IF x # k THEN table[x]
                     ELSE IF Refuses(table, k, delay) THEN q ELSE Append(q, delay)]
      BY <1>2, <1>3, <1>4, <1>9 DEF After
    <2>2. DequeOf(after, k) = IF Refuses(table, k, delay) THEN q ELSE Append(q, delay)
      <3> HIDE DEF after, table
      <3> QED
        BY <2>1 DEF DequeOf
    <2>3. Admits(e, k, delay) => Len(q) < Limit
      BY <1>5, <1>6, <1>7, Spans
    <2>4. ~Admits(e, k, delay) => Len(q) >= Limit
      BY <1>6, <1>7, <1>9
    <2> QED
      BY <1>3, <1>4, <1>5, <1>7, <2>2, <2>3, <2>4 DEF Counted
  <1> QED
    BY <1>8, <1>9

-----------------------------------------------------------------------------
(* The invariant.                                                          *)

LimiterInv ==
    /\ Table(events)
    /\ admitted \in [Key -> Seq(Nat)]
    /\ \A k \in Key : /\ OldestFirst(admitted[k])
                      /\ Matches(DequeOf(events, k), admitted[k])

LEMMA TickKeepsLimits == LimiterInv /\ Tick => LimiterInv'
  <1> SUFFICES ASSUME LimiterInv, Tick PROVE LimiterInv'
    OBVIOUS
  <1>1. DOMAIN events' = DOMAIN events
    BY DEF Tick, Aged
  <1>2. ASSUME NEW k \in Key
        PROVE  /\ admitted'[k] \in Seq(Nat)
               /\ OldestFirst(admitted'[k])
               /\ Matches(DequeOf(events', k), admitted'[k])
               /\ DequeOf(events', k) \in Seq(Nat)
    <2>1. PICK d \in Seq(Nat) : d = DequeOf(events, k)
      BY Deques DEF LimiterInv
    <2>2. PICK h \in Seq(Nat) : h = admitted[k]
      BY DEF LimiterInv
    <2>3. OldestFirst(h) /\ Matches(d, h)
      BY <2>1, <2>2 DEF LimiterInv
    <2>4. PICK r : r = [i \in DOMAIN d |-> IF d[i] < Oldest THEN d[i] + 1 ELSE Oldest]
      OBVIOUS
    <2>5. r \in Seq(Nat)
      BY <2>4, AgedDeque
    <2>6. DequeOf(events', k) = r
      <3>1. CASE k \in DOMAIN events
        BY <1>1, <2>1, <2>4, <3>1 DEF DequeOf, Tick, Aged
      <3>2. CASE k \notin DOMAIN events
        <4>1. d = << >> /\ Len(r) = 0
          BY <2>1, <2>4, <3>2, EmptySeq, AgedDeque DEF DequeOf
        <4>2. r = << >>
          BY <2>5, <4>1, EmptySeq
        <4> QED
          BY <1>1, <3>2, <4>2 DEF DequeOf
      <3> QED
        BY <3>1, <3>2
    <2>7. admitted'[k] = StillRecent([i \in DOMAIN h |-> h[i] + 1])
      BY <2>2 DEF Tick
    <2> QED
      BY <2>3, <2>4, <2>5, <2>6, <2>7, MatchesAged
  <1>3. Table(events')
    <2> SUFFICES ASSUME NEW x \in DOMAIN events PROVE events'[x] \in Seq(Nat)
      BY <1>1 DEF LimiterInv, Table
    <2>1. x \in Key
      BY DEF LimiterInv, Table
    <2> QED
      BY <1>1, <1>2, <2>1 DEF DequeOf
  <1>4. admitted' \in [Key -> Seq(Nat)]
    <2>1. admitted' = [k \in Key |-> admitted'[k]]
      BY DEF Tick
    <2> QED
      BY <1>2, <2>1
  <1> QED
    BY <1>2, <1>3, <1>4 DEF LimiterInv

LEMMA RequestKeepsLimits ==
    ASSUME LimiterInv, NEW k \in Key, NEW delay \in 0..MaxDelay, AllowRequest(k, delay)
    PROVE  LimiterInv'
  <1>1. delay \in Nat /\ Table(events) /\ events' = After(events, k, delay)
    BY DelayAssumption DEF LimiterInv, AllowRequest
  <1>2. Table(events')
    BY <1>1, TableStays
  <1>3. PICK d \in Seq(Nat) : d = DequeOf(events, k)
    BY <1>1, Deques
  <1>4. PICK h \in Seq(Nat) : h = admitted[k]
    BY DEF LimiterInv
  <1>5. OldestFirst(h) /\ Matches(d, h)
    BY <1>3, <1>4 DEF LimiterInv
  <1>6. PICK n \in 0..Len(d) : Counted(events, k, delay, d, n)
    BY <1>1, <1>3, OwnCounted
  <1>7. PICK q \in Seq(Nat) : q = SubSeq(d, n + 1, Len(d)) /\ Len(q) = Len(d) - n
    BY Suffix
  <1>8. Matches(q, h)
    BY <1>5, <1>6, <1>7, MatchesDropped DEF Counted
  <1>9. ASSUME NEW x \in Key, x # k
        PROVE  /\ admitted'[x] = admitted[x]
               /\ OldestFirst(admitted'[x])
               /\ Matches(DequeOf(events', x), admitted'[x])
    <2>1. admitted'[x] = admitted[x]
      BY <1>9 DEF AllowRequest, LimiterInv
    <2>2. PICK c \in Seq(Nat) : c = DequeOf(events, x)
      BY <1>1, Deques
    <2>3. PICK g \in Seq(Nat) : g = admitted[x]
      BY DEF LimiterInv
    <2>4. OldestFirst(g) /\ Matches(c, g)
      BY <2>2, <2>3 DEF LimiterInv
    <2>5. \/ DequeOf(events', x) = c
          \/ DequeOf(events', x) = << >> /\ Idle(c, delay)
      BY <1>1, <1>9, <2>2, OthersKept
    <2>6. Idle(c, delay) => Matches(<< >>, g)
      BY <2>4, MatchesForgotten
    <2> QED
      BY <2>1, <2>3, <2>4, <2>5, <2>6
  <1>10. CASE Admits(events, k, delay)
    <2>1. admitted' = [admitted EXCEPT ![k] = Append(h, 0)]
      BY <1>4, <1>10 DEF AllowRequest
    <2>2. Append(h, 0) \in Seq(Nat)
      BY AppendProperties
    <2>3. OldestFirst(Append(h, 0))
      <3>1. /\ Len(h) \in Nat /\ \A i \in 1..Len(h) : h[i] \in Nat
            /\ Len(Append(h, 0)) = Len(h) + 1 /\ Append(h, 0)[Len(h) + 1] = 0
            /\ \A i \in 1..Len(h) : Append(h, 0)[i] = h[i]
        BY LenProperties, AppendProperties
      <3>2. PICK g : g = Append(h, 0)
        OBVIOUS
      <3> SUFFICES ASSUME NEW i \in 1..Len(g), NEW j \in 1..Len(g), i <= j
                   PROVE  g[j] <= g[i]
        BY <3>2 DEF OldestFirst
      <3>3. CASE j = Len(h) + 1
        <4>1. g[j] = 0 /\ g[i] \in Nat
          BY <3>1, <3>2, <3>3
        <4> QED
          BY <4>1
      <3>4. CASE j # Len(h) + 1
        <4>1. i \in 1..Len(h) /\ j \in 1..Len(h)
          BY <3>1, <3>2, <3>4
        <4> QED
          BY <1>5, <3>1, <3>2, <4>1 DEF OldestFirst
      <3> QED
        BY <3>3, <3>4
    <2>4. Matches(Append(q, delay), Append(h, 0))
      BY <1>6, <1>7, <1>8, <1>10, MatchesRecorded DEF Counted
    <2>5. DequeOf(events', k) = Append(q, delay)
      BY <1>1, <1>6, <1>7, <1>10 DEF Counted
    <2>6. admitted' \in [Key -> Seq(Nat)] /\ admitted'[k] = Append(h, 0)
      BY <2>1, <2>2 DEF LimiterInv
    <2> QED
      BY <1>2, <1>9, <2>3, <2>4, <2>5, <2>6 DEF LimiterInv
  <1>11. CASE ~Admits(events, k, delay)
    <2>1. admitted' = admitted
      BY <1>11 DEF AllowRequest
    <2>2. DequeOf(events', k) = q \/ DequeOf(events', k) = d
      BY <1>1, <1>6, <1>7, <1>11 DEF Counted
    <2>3. Matches(DequeOf(events', k), admitted'[k]) /\ OldestFirst(admitted'[k])
      BY <1>4, <1>5, <1>8, <2>1, <2>2
    <2> QED
      BY <1>2, <1>9, <2>1, <2>3 DEF LimiterInv
  <1> QED
    BY <1>10, <1>11

LEMMA LimiterInvariant == Spec => []LimiterInv
  <1>1. Init => LimiterInv
    <2> SUFFICES ASSUME Init PROVE LimiterInv
      OBVIOUS
    <2>1. DOMAIN events = {} /\ \A k \in Key : admitted[k] = << >>
      BY DEF Init
    <2>2. admitted \in [Key -> Seq(Nat)]
      BY EmptySeq DEF Init
    <2>3. OldestFirst(<< >>)
      BY DEF OldestFirst
    <2> QED
      BY <2>1, <2>2, <2>3, NoneMatchNone DEF LimiterInv, Table, DequeOf
  <1>2. LimiterInv /\ [Next]_vars => LimiterInv'
    <2>1. ASSUME LimiterInv, UNCHANGED vars PROVE LimiterInv'
      BY <2>1 DEF LimiterInv, Table, vars
    <2> QED
      BY <2>1, TickKeepsLimits, RequestKeepsLimits DEF Next
  <1> QED
    BY <1>1, <1>2, PTL DEF Spec

-----------------------------------------------------------------------------
(* What the limiter decides.                                               *)

\* The places of the last m entries of a sequence, or of all of them.
Last(h, m) == {i \in 1..Len(h) : i - Len(h) + m >= 1}

LEMMA LastEntries ==
    ASSUME NEW h \in Seq(Nat), NEW m \in Nat
    PROVE  /\ IsFiniteSet(Last(h, m))
           /\ Cardinality(Last(h, m)) \in Nat
           /\ Cardinality(Last(h, m)) <= m
           /\ m <= Len(h) => Cardinality(Last(h, m)) = m
  <1>1. PICK l \in Nat : l = Len(h)
    BY LenProperties
  <1>2. CASE m <= l
    <2>1. Last(h, m) = (l - m + 1)..l
      BY <1>1, <1>2 DEF Last
    <2>2. IsFiniteSet((l - m + 1)..l) /\ Cardinality((l - m + 1)..l) = m
      <3>1. PICK a \in Int : a = l - m + 1
        OBVIOUS
      <3>2. IsFiniteSet(a..l) /\ Cardinality(a..l) = IF a > l THEN 0 ELSE l - a + 1
        BY FS_Interval
      <3> QED
        BY <1>2, <3>1, <3>2
    <2>3. IsFiniteSet(Last(h, m)) /\ Cardinality(Last(h, m)) = m
      BY <2>1, <2>2
    <2> QED
      BY <2>3
  <1>3. CASE ~(m <= l)
    <2>1. Last(h, m) = 1..l
      BY <1>1, <1>3 DEF Last
    <2>2. IsFiniteSet(1..l) /\ Cardinality(1..l) = IF 1 > l THEN 0 ELSE l - 1 + 1
      BY FS_Interval
    <2>3. IsFiniteSet(Last(h, m)) /\ Cardinality(Last(h, m)) = l
      BY <2>1, <2>2
    <2> QED
      BY <1>1, <1>3, <2>3
  <1> QED
    BY <1>2, <1>3

\* No client is admitted more than Limit times in a window less the delay of
\* the clock readings, for any number of clients and any limits: the stamps
\* that allow keeps are those of the last admissions.
THEOREM LimitsHold == Spec => []AtMostLimit
  <1>1. LimiterInv => AtMostLimit
    <2> SUFFICES ASSUME LimiterInv, NEW k \in Key
                 PROVE  Cardinality(Within(k, Window - MaxDelay)) <= Limit
      BY DEF AtMostLimit
    <2>1. PICK d \in Seq(Nat) : d = DequeOf(events, k)
      BY Deques DEF LimiterInv
    <2>2. PICK h \in Seq(Nat) : h = admitted[k]
      BY DEF LimiterInv
    <2>3. Matches(d, h)
      BY <2>1, <2>2 DEF LimiterInv
    <2>4. PICK m \in Nat : m = Len(d)
      BY LenProperties
    <2>5. Within(k, Window - MaxDelay) \subseteq Last(h, m)
      BY <2>2, <2>3, <2>4, LenProperties DEF Within, Matches, Last
    <2>6. /\ Cardinality(Within(k, Window - MaxDelay)) \in Nat
          /\ Cardinality(Within(k, Window - MaxDelay)) <= Cardinality(Last(h, m))
          /\ Cardinality(Last(h, m)) \in Nat
      BY <2>5, LastEntries, FS_Subset, FS_CardinalityType
    <2>7. m <= Limit
      BY <2>3, <2>4 DEF Matches
    <2>8. Cardinality(Last(h, m)) <= m
      BY LastEntries
    <2> QED
      BY <2>6, <2>7, <2>8, Spans
  <1> QED
    BY <1>1, LimiterInvariant, PTL

\* An entry that a reading finds unexpired was admitted within its window, and
\* so were all that came after it.
LEMMA UnexpiredWasAdmitted ==
    ASSUME NEW d \in Seq(Nat), NEW h \in Seq(Nat), OldestFirst(h), Matches(d, h),
           NEW delay \in 0..MaxDelay, NEW j \in 1..Len(d), ~Expired(d[j], delay),
           NEW m \in Nat, m = Len(d) - j + 1
    PROVE  /\ m <= Len(h)
           /\ Last(h, m) \subseteq {i \in DOMAIN h : h[i] < Window + delay}
  <1>1. /\ Len(d) \in Nat /\ Len(h) \in Nat /\ DOMAIN h = 1..Len(h)
        /\ \A i \in 1..Len(h) : h[i] \in Nat
        /\ d[j] \in Nat
    BY LenProperties
  <1>2. d[j] < Window + delay /\ d[j] < Oldest
    <2>1. Window + delay \in Nat /\ Window + delay <= Oldest
      BY Spans
    <2> QED
      BY <1>1, <2>1, Spans DEF Expired
  <1>3. PICK k \in 1..Len(h) : k = j - Len(d) + Len(h) /\ h[k] <= d[j]
    <2>1. j - Len(d) + Len(h) >= 1 /\ h[j - Len(d) + Len(h)] <= d[j]
      BY <1>2 DEF Matches
    <2>2. j - Len(d) + Len(h) \in 1..Len(h)
      BY <1>1, <2>1
    <2> QED
      BY <2>1, <2>2
  <1>4. m <= Len(h)
    BY <1>1, <1>3
  <1>5. ASSUME NEW i \in 1..Len(h), i - Len(h) + m >= 1
        PROVE  h[i] < Window + delay
    <2>1. k <= i
      BY <1>1, <1>3, <1>5
    <2>2. h[i] <= h[k]
      BY <2>1 DEF OldestFirst
    <2>3. h[i] \in Nat /\ h[k] \in Nat /\ Window + delay \in Nat
      BY <1>1, Spans
    <2>4. h[i] <= d[j]
      <3>1. PICK x \in Nat, y \in Nat, z \in Nat : x = h[i] /\ y = h[k] /\ z = d[j]
        BY <1>1
      <3>2. x <= y /\ y <= z
        BY <1>3, <2>2, <3>1
      <3>3. x <= z
        BY <3>2
      <3> QED
        BY <3>1, <3>3
    <2> QED
      BY <1>1, <1>2, <2>3, <2>4
  <1> QED
    BY <1>1, <1>4, <1>5 DEF Last

\* A client is refused only because it has used its Limit within the window its
\* reading sees, or because as many other clients as the table holds were
\* active in that window: allow neither counts what has expired nor lets keys
\* that are idle take up the table.
THEOREM RefusalsAreJustified == Spec => []RefusalsJustified
  <1>1. LimiterInv => RefusalsJustified
    <2> SUFFICES ASSUME LimiterInv, NEW k \in Key, NEW delay \in 0..MaxDelay,
                        ~Admits(events, k, delay)
                 PROVE  \/ Cardinality(Within(k, Window + delay)) >= Limit
                        \/ Cardinality({x \in Key \ {k} : Within(x, Window + delay) # {}})
                              >= MaxKeys
      BY DEF RefusalsJustified
    <2> DEFINE table == TableFor(events, k, delay)
               Active == {x \in Key \ {k} : Within(x, Window + delay) # {}}
    <2>1. Table(events) /\ delay \in Nat
      BY Spans DEF LimiterInv
    <2>2. PICK d \in Seq(Nat) : d = DequeOf(events, k)
      BY <2>1, Deques
    <2>3. PICK n \in 0..Len(d) : Counted(events, k, delay, d, n)
      BY <2>1, <2>2, OwnCounted
    <2>4. CASE Len(d) - n >= Limit
      <3>1. PICK h \in Seq(Nat) : h = admitted[k]
        BY DEF LimiterInv
      <3>2. OldestFirst(h) /\ Matches(d, h)
        BY <2>2, <3>1 DEF LimiterInv
      <3>3. IsFiniteSet(Within(k, Window + delay))
        <4>1. IsFiniteSet(1..Len(h)) /\ DOMAIN h = 1..Len(h)
          BY LenProperties, FS_Interval
        <4> QED
          BY <3>1, <4>1, FS_Subset DEF Within
      <3>4. Cardinality(Within(k, Window + delay)) \in Nat
        BY <3>3, FS_CardinalityType
      <3>5. CASE n = Len(d)
        BY <2>4, <3>4, <3>5, Spans
      <3>6. CASE n < Len(d)
        <4>1. PICK j \in 1..Len(d) : j = n + 1
          BY <3>6, LenProperties
        <4>2. PICK m \in Nat : m = Len(d) - j + 1
          <5>1. Len(d) \in Nat
            BY LenProperties
          <5>2. Len(d) - j + 1 \in Nat
            BY <5>1
          <5> QED
            BY <5>2
        <4>3. ~Expired(d[j], delay)
          BY <2>3, <3>6, <4>1 DEF Counted
        <4>4. /\ m <= Len(h)
              /\ Last(h, m) \subseteq {i \in DOMAIN h : h[i] < Window + delay}
          BY <3>2, <4>2, <4>3, UnexpiredWasAdmitted
        <4>5. Within(k, Window + delay) = {i \in DOMAIN h : h[i] < Window + delay}
          BY <3>1 DEF Within
        <4>6. Cardinality(Last(h, m)) = m
          BY <4>4, LastEntries
        <4>7. m <= Cardinality(Within(k, Window + delay))
          BY <3>3, <4>4, <4>5, <4>6, FS_Subset
        <4>8. m >= Limit
          BY <2>4, <4>1, <4>2, LenProperties, Spans
        <4> QED
          BY <3>4, <4>7, <4>8, Spans
      <3> QED
        BY <3>5, <3>6, LenProperties
    <2>5. CASE Full(table, k)
      <3>1. k \notin DOMAIN table /\ Cardinality(DOMAIN table) >= MaxKeys
        BY <2>5 DEF Full
      <3>2. DOMAIN table \subseteq DOMAIN events /\ table = KeepActive(events, delay)
        <4>1. DOMAIN table \subseteq DOMAIN events
          BY <2>1, RoomMade
        <4>2. k \notin DOMAIN events /\ Cardinality(DOMAIN events) >= MaxKeys
          BY <3>1 DEF TableFor, KeepActive
        <4> QED
          BY <4>1, <4>2 DEF TableFor
      <3>3. ASSUME NEW x \in DOMAIN table PROVE x \in Active
        <4>1. x \in Key \ {k} /\ x \in DOMAIN events /\ ~Idle(events[x], delay)
          BY <2>1, <3>1, <3>2, <3>3 DEF KeepActive, Table
        <4>2. PICK c \in Seq(Nat) : c = events[x] /\ c = DequeOf(events, x)
          BY <2>1, <4>1 DEF Table, DequeOf
        <4>3. PICK g \in Seq(Nat) : g = admitted[x]
          BY <4>1 DEF LimiterInv
        <4>4. OldestFirst(g) /\ Matches(c, g)
          BY <4>1, <4>2, <4>3 DEF LimiterInv
        <4>5. c # << >> /\ ~Expired(c[Len(c)], delay)
          BY <4>1, <4>2 DEF Idle
        <4>6. Len(c) \in 1..Len(c) /\ 1 = Len(c) - Len(c) + 1
          BY <4>5, EmptySeq
        <4>7. /\ 1 <= Len(g)
              /\ Last(g, 1) \subseteq {i \in DOMAIN g : g[i] < Window + delay}
          BY <4>4, <4>5, <4>6, UnexpiredWasAdmitted
        <4>8. Len(g) \in Last(g, 1)
          BY <4>7, LenProperties DEF Last
        <4>9. Within(x, Window + delay) # {}
          BY <4>3, <4>7, <4>8 DEF Within
        <4> QED
          BY <4>1, <4>9
      <3>4. IsFiniteSet(Active)
        BY KeyAssumption, FS_Subset
      <3>5. Cardinality(DOMAIN table) <= Cardinality(Active)
        BY <3>3, <3>4, FS_Subset
      <3>6. Cardinality(DOMAIN table) \in Nat /\ Cardinality(Active) \in Nat
        <4>1. IsFiniteSet(DOMAIN table)
          BY <3>3, <3>4, FS_Subset
        <4> QED
          BY <3>4, <4>1, FS_CardinalityType
      <3>7. Cardinality(Active) >= MaxKeys
        <4> HIDE DEF Active, table
        <4> QED
          BY <3>1, <3>5, <3>6, WindowAssumption
      <3> QED
        BY <3>7
    <2> QED
      BY <2>3, <2>4, <2>5 DEF Counted
  <1> QED
    BY <1>1, LimiterInvariant, PTL
=============================================================================
