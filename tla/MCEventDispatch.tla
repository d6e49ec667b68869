--------------------------- MODULE MCEventDispatch ---------------------------
(* 'ready' and 'stop', two on() handlers that may come before and after a  *)
(* once() and a _settle_on(), and room for a dispatch, one nested in it    *)
(* and 'stop' anywhere.                                                    *)
EXTENDS EventDispatch

Symmetry == Permutations(OnHandlers)
=============================================================================
