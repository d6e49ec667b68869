-------------------------- MODULE MCComponentCycles --------------------------
(* A boot and three calls: a cycle whose on_ready() awaits one call while  *)
(* another waits in the queue, and an on_ready() nested in an on_ready().  *)
EXTENDS ComponentCycles, TLC

Symmetry == Permutations(Calls)
=============================================================================
