----------------------------- MODULE MCRouting -----------------------------
EXTENDS Routing, TLC

CONSTANTS a, b, m1

Row(e, w) ==
    [id |-> e, model |-> m1, weight |-> w, provider |-> "", complete |-> TRUE]

MCFirstTable == <<Row(a, 1)>>
\* a leaves the pool and returns; an empty table and a negative weight are ignored.
MCTables == { <<>>, MCFirstTable, <<Row(b, 0)>>, <<Row(b, 1), Row(a, -1)>> }
============================================================================
