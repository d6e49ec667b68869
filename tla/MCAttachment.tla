---------------------------- MODULE MCAttachment ----------------------------
(* A component inside another, only the inner one with hooks.              *)
EXTENDS Attachment, TLC

CONSTANTS outer, inner

MCParent == outer :> None @@ inner :> outer
Symmetry == Permutations(Listeners)
=============================================================================
