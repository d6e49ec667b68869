-------------------------- MODULE MCLifecycleQueue --------------------------
(* Three calls of two kinds behind a boot: enough for a merge, a promotion *)
(* out of the middle of the queue, and two promoted entries at once.       *)
EXTENDS LifecycleQueue
=============================================================================
