----------------------------- MODULE MCKeyCache -----------------------------
(* KeyCache for TLC: two callers on one replica and one on another.          *)
EXTENDS KeyCache, TLC

CONSTANTS r1, r2, c1, c2, c3

MCHome == (c1 :> r1) @@ (c2 :> r1) @@ (c3 :> r2)
============================================================================
