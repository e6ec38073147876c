--------------------------- MODULE MCLobbyPresence ---------------------------
(* LobbyPresence for TLC; no symmetry, since liveness is checked.           *)
EXTENDS LobbyPresence
=============================================================================
