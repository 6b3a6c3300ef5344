--------------------------- MODULE MCBreakerCalls ---------------------------
(* BreakerCalls for TLC: the callers are interchangeable, but the liveness  *)
(* property rules out a symmetry set.                                       *)
EXTENDS BreakerCalls, TLC
============================================================================
