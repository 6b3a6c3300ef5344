------------------------------ MODULE MCProxy ------------------------------
(* Proxy for TLC: answers that cost less and more than was reserved. *)
EXTENDS Proxy

MCActuals == {1, 4}
============================================================================
