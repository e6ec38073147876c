---------------------------- MODULE LobbyDirectory ----------------------------
(***************************************************************************)
(* LobbyStore implements SeatDirectory.  A table is a live room seen by    *)
(* its host, with the seats that count at this moment: what has lapsed is  *)
(* already gone from the view, so a purge changes nothing in it and only   *)
(* the clock takes tables and guests away.                                 *)
(***************************************************************************)
EXTENDS LobbyStore

TableOf(r) == [capacity |-> rooms[r].capacity,
               playing |-> rooms[r].state = "in_game",
               seated |-> KeptSeats(r)]

Hosts == {rooms[r].owner : r \in LiveRooms}

RoomOf(h) == CHOOSE r \in LiveRooms : rooms[r].owner = h

Tables == [h \in Hosts |-> TableOf(RoomOf(h))]

Directory == INSTANCE SeatDirectory WITH Person <- Session, tables <- Tables

\* Every step of the service, with its threads, stale clocks and lapsing
\* leases, is a step of the directory or changes nothing in it.
ImplementsDirectory == Directory!Spec
=============================================================================
