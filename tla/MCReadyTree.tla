----------------------------- MODULE MCReadyTree -----------------------------
EXTENDS ReadyTree

(* A boot or a reload may throw; a render() that does leaves ready() open. *)
BootOrReloadFails == {<<"boot", "load">>, <<"boot", "on_ready">>,
                      <<"reload", "load">>, <<"reload", "on_ready">>}

(* A load fails after the render from the cache.                           *)
CachedReloadFails == {<<"reload", "cached">>}

=============================================================================
