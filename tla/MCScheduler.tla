---------------------------- MODULE MCScheduler ----------------------------
(* Scheduler for TLC: one slot and queues of one element, which two jobs     *)
(* are enough to fill.                                                       *)
EXTENDS Scheduler, TLC

Symmetry == Permutations(Jobs)
============================================================================
