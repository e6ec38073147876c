-------------------------- MODULE MCRequestLimiter --------------------------
(* RequestLimiter for TLC.                                                  *)
EXTENDS RequestLimiter, TLC

Symmetry == Permutations(Key)
=============================================================================
