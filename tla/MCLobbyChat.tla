----------------------------- MODULE MCLobbyChat -----------------------------
(* LobbyChat for TLC.                                                       *)
EXTENDS LobbyChat, TLC

Symmetry == Permutations(Session) \cup Permutations(RoomId) \cup Permutations(Worker)
=============================================================================
