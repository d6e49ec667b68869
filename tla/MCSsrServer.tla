---------------------------- MODULE MCSsrServer ----------------------------
(* Two connections: renders of two sets of bundles, with a flush of a      *)
(* bundle that is in one of them, and whose id begins that in the other.   *)
EXTENDS SsrServer

MCStream == [one |-> Message("render1") \o Message("flush") ,
             two |-> Message("page") \o Message("ping") \o Message("render2")]
MCKind == [render1 |-> "render", render2 |-> "render", page |-> "spa",
           flush |-> "flush", ping |-> "ping"]
MCBundles == [render1 |-> <<"app2">>, render2 |-> <<"lib", "app">>, page |-> <<"lib", "app">>,
              flush |-> <<"app">>, ping |-> <<>>]
MCPartOf == {<<"app", "app2">>}
=============================================================================
