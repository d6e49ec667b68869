---------------------------- MODULE MCDataFreeze ----------------------------
(* One object of the author, of each kind, as many nodes as copies of it   *)
(* need.                                                                   *)
EXTENDS DataFreeze

MCKinds == [Own -> ObjectKinds]
==============================================================================
