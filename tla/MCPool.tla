------------------------------- MODULE MCPool -------------------------------
(* Pool for TLC: three requests, the fewest for which both choices of one    *)
(* Pick can be refused by results that land while it runs.                   *)
EXTENDS Pool, TLC

CONSTANTS a, b, m1

Row(e, w) == [id |-> e, model |-> m1, weight |-> w, provider |-> "", complete |-> TRUE]

MCFirstTable == <<Row(a, 2), Row(b, 0)>>

Symmetry == Permutations(Callers)
============================================================================
