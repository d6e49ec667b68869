-------------------------- MODULE MCLoadCoordinator --------------------------
(* Three components with the same key: a leader, a follower and a newcomer *)
(* that can overtake it, or a second follower.  One key is enough: every   *)
(* operation of the coordinator works on one key only.  No symmetry: the   *)
(* run checks liveness.                                                    *)
EXTENDS LoadCoordinator
=============================================================================
