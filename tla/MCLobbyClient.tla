---------------------------- MODULE MCLobbyClient ----------------------------
(* One app, one or two rooms of its own and one of another host. *)
EXTENDS LobbyClient, TLC

Symmetry == Permutations(Slot) \cup Permutations(Screen)

==============================================================================
