---------------------------- MODULE MCCachedLoads ----------------------------
EXTENDS CachedLoads, TLC

CONSTANTS t1, t2, c1, c2, s1, s2

(* Args by their names: an id, with an internal arg beside it; a filter,   *)
(* its properties set in two orders; and the same filter with a callback   *)
(* in it, which has no key.                                                *)
One == <<"prim", 1>>
Two == <<"prim", 2>>
Callback == <<"ref", 1>>
Filters ==
  [filter |-> <<"object", <<<<1, One>>, <<2, Two>>>>>>,
   reordered |-> <<"object", <<<<2, Two>>, <<1, One>>>>>>,
   callback |-> <<"object", <<<<1, One>>, <<2, Two>>, <<3, Callback>>>>>>]
MCValues == {One, Two, Callback} \cup {Filters[a] : a \in DOMAIN Filters}

MCArgs == {"id"} \cup DOMAIN Filters
MCDescribed ==
  [a \in MCArgs |->
    [name |-> "List", cacheId |-> "none",
     args |-> IF a = "id" THEN <<<<9, Callback>>, <<1, One>>>> ELSE <<<<2, Filters[a]>>>>]]

Plain == [args |-> "id", text |-> "{}", detached |-> FALSE, reads |-> TRUE, useCached |-> FALSE]
MCBoots ==
  (c1 :> {Plain,
          [Plain EXCEPT !.args = "filter", !.text = "x", !.useCached = TRUE],
          [Plain EXCEPT !.args = "callback", !.detached = TRUE]})
  @@ (c2 :> {[Plain EXCEPT !.args = "reordered"]})

MCBrings == (c1 :> {"{}", "x"}) @@ (c2 :> {"x"})
MCModeOf == (s1 :> "data") @@ (s2 :> "html")
MCTabOf == (c1 :> t1) @@ (c2 :> t2)

(* A page of the first tab was rendered on the server, or not.             *)
MCPreloads ==
  (t1 :> {<<>>, KeyOf["id"] :> [text |-> "x", of |-> Identity["id"]]}) @@ (t2 :> {<<>>})

==============================================================================
