---------------------------- MODULE MCLobbyStore ----------------------------
(* LobbyStore and the directory it implements, for TLC: the ids, the        *)
(* workers and the products are interchangeable, but not the session whose  *)
(* id others hide.                                                          *)
EXTENDS LobbyDirectory, TLC

Symmetry == Permutations(Session \ Blockable) \cup Permutations(RoomId)
            \cup Permutations(Worker) \cup Permutations(Product)
=============================================================================
