---------------------------- MODULE SeatDirectory ----------------------------
(***************************************************************************)
(* What the public lobby promises, without clocks, threads or leases: a    *)
(* host has at most one table, a table seats fewer guests than its         *)
(* capacity, a guest sits down only at a table that is not in a game, and  *)
(* hosts and guests come and go by their own requests or by expiry.        *)
(***************************************************************************)
EXTENDS Naturals, FiniteSets

CONSTANTS Person, Capacity

VARIABLE tables  \* host |-> the table it has open

NewTable(c) == [capacity |-> c, playing |-> FALSE, seated |-> {}]

Open(h, c) ==
    tables' = [x \in DOMAIN tables \cup {h} |-> IF x = h THEN NewTable(c) ELSE tables[x]]

Close(h) ==
    /\ h \in DOMAIN tables
    /\ tables' = [x \in DOMAIN tables \ {h} |-> tables[x]]

Declare(h, playing) ==
    /\ h \in DOMAIN tables
    /\ tables' = [tables EXCEPT ![h].playing = playing]

Enter(g, h) ==
    /\ h \in DOMAIN tables
    /\ ~tables[h].playing
    /\ g # h
    /\ Cardinality(tables[h].seated) + 1 < tables[h].capacity
    /\ tables' = [tables EXCEPT ![h].seated = @ \cup {g}]

Leave(g, h) ==
    /\ h \in DOMAIN tables
    /\ tables' = [tables EXCEPT ![h].seated = @ \ {g}]

\* Time alone closes tables and empties seats, never the reverse.
Expire ==
    \E open \in SUBSET DOMAIN tables :
      \E kept \in [open -> SUBSET Person] :
        /\ \A h \in open : kept[h] \subseteq tables[h].seated
        /\ tables' = [h \in open |-> [tables[h] EXCEPT !.seated = kept[h]]]

Init == tables = [h \in {} |-> 0]

Next ==
    \/ Expire
    \/ \E h \in Person :
         \/ \E c \in Capacity : Open(h, c)
         \/ Close(h)
         \/ \E playing \in BOOLEAN : Declare(h, playing)
         \/ \E g \in Person : Enter(g, h) \/ Leave(g, h)

Spec == Init /\ [][Next]_tables
=============================================================================
