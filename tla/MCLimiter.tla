----------------------------- MODULE MCLimiter -----------------------------
(* Limiter for TLC.                                                          *)
EXTENDS Limiter, TLC

MCActuals == {-1, 0, 3}
Symmetry  == Permutations(Requests)
============================================================================
