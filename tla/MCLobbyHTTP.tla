----------------------------- MODULE MCLobbyHTTP -----------------------------
(* LobbyHTTP for TLC; no symmetry, since liveness is checked.               *)
EXTENDS LobbyHTTP
=============================================================================
