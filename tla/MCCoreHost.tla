------------------------------ MODULE MCCoreHost ------------------------------
(* Matches offered by the peers in one session, and polls under way.         *)
EXTENDS CoreHost

=============================================================================
