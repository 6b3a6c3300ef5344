----------------------------- MODULE MCGateway -----------------------------
(* Gateway for TLC: a streamed request and one that is not, over two         *)
(* endpoints, to one of which the operator may give a provider name that the *)
(* registry does not know.                                                   *)
EXTENDS Gateway

CONSTANTS a, b, m1

Row(e, provider) ==
    [id |-> e, model |-> m1, weight |-> 1, provider |-> provider, complete |-> TRUE]

MCFirstTable == <<Row(a, "openai"), Row(b, "openai")>>

MCTables == {<<Row(a, "openai"), Row(b, "mistyped")>>}

\* One endpoint, whose failure leaves none.
OneEndpoint == <<Row(b, "openai")>>

OneMistyped == {<<Row(b, "mistyped")>>}

\* An upstream that sends no usage, and one that leaves out the total.
MCUsages == {[prompt |-> 0, completion |-> 0, total |-> 0],
             [prompt |-> 1, completion |-> 1, total |-> 0]}
============================================================================
