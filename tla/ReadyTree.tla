------------------------------ MODULE ReadyTree ------------------------------
(***************************************************************************)
(* Readiness in a tree of components (packages/core/src/component.ts and   *)
(* lifecycle-manager.ts): a render boots the components of its template,   *)
(* stops those of the render before, and a parent's on_ready() waits for   *)
(* its children.                                                           *)
(*                                                                         *)
(* An instance is a number; instances are created in document order, so    *)
(* those a render creates are the next ones.  What one component does      *)
(* between its turns is in ComponentCycles and LifecycleQueue: here its    *)
(* queue is at most one waiting call, and no call is awaited in a hook.    *)
(***************************************************************************)
EXTENDS Naturals, FiniteSets

CONSTANTS N,         \* instances there can be
          MaxCalls,  \* calls of render(), reload() and refresh()
          Callable,  \* instances whose methods are called
          Html,      \* instances that cache their html (cache mode 'html')
          Failing    \* where a cycle may throw: pairs of a cycle and a step

Instances == 1..N
NoParent == 0
Methods == {"render", "reload", "refresh"}
Cycles == Methods \cup {"boot"}
Steps == {"load", "cached", "on_ready"}  \* cached: a load after a cached render

ASSUME ParametersAssumption ==
  /\ N \in Nat \ {0} /\ MaxCalls \in Nat
  /\ Callable \subseteq Instances /\ Html \subseteq Instances
  /\ Failing \subseteq Cycles \X Steps

VARIABLES comp,   \* the components, see Component
          calls   \* how many calls were made

vars == <<comp, calls>>

(* boot: created -> [load ->] yield -> [snapshot ->] children -> on_ready  *)
(* reload(), refresh(): [load ->] [children -> on_ready]                   *)
(* render(): children -> on_ready                                          *)
Phases == {"none", "created", "load", "yield", "snapshot", "children", "on_ready", "idle"}

Component ==
  [state : {0, 1, 2, 3, 4, 99},         \* _ready_state; 0: not created, 99: stopped
   parent : Instances \cup {NoParent},  \* _dom_parent
   hasLoad : BOOLEAN,                   \* __has_custom_on_load
   phase : Phases,                      \* what the running cycle waits for
   cycle : Cycles \cup {"none"},        \* the cycle that runs
   pending : Methods \cup {"none"},     \* the call waiting in the queue
   waits : SUBSET Instances,            \* children whose promise it waits for
   marker : BOOLEAN,                    \* 'ready' is in _lifecycle_states
   owed : BOOLEAN,                      \* _ready_owed
   wasReady : BOOLEAN,                  \* was_ready of _reload()
   fromCache : BOOLEAN,                 \* rendered_from_cache of _reload_cycle()
   complete : BOOLEAN,                  \* _on_render_complete
   due : BOOLEAN,                       \* _should_cache_html_after_ready
   everReady : BOOLEAN]                 \* history: has fired 'ready'

Unborn ==
  [state |-> 0, parent |-> NoParent, hasLoad |-> FALSE, phase |-> "none",
   cycle |-> "none", pending |-> "none", waits |-> {}, marker |-> FALSE,
   owed |-> FALSE, wasReady |-> FALSE, fromCache |-> FALSE, complete |-> FALSE,
   due |-> FALSE, everReady |-> FALSE]

Created(p, load) ==
  [Unborn EXCEPT !.state = 1, !.parent = p, !.hasLoad = load,
                 !.phase = "created", !.cycle = "boot"]

(* _stop().  Every await of a cycle is followed by a check of _stopped, so *)
(* what is left of a stopped component's cycle is nothing.                 *)
Dead(r) == [Unborn EXCEPT !.state = 99, !.parent = r.parent]

TypeOK ==
  /\ comp \in [Instances -> Component]
  /\ calls \in Nat

(* A page with one component, about to boot.                               *)
Init ==
  /\ \E load \in BOOLEAN :
       comp = [i \in Instances |-> IF i = 1 THEN Created(NoParent, load) ELSE Unborn]
  /\ calls = 0

-----------------------------------------------------------------------------
(* The tree                                                                *)

Born == {i \in Instances : comp[i].state # 0}
Stopped == {i \in Instances : comp[i].state = 99}
Live == Born \ Stopped
Complete == {i \in Instances : comp[i].complete}

(* _get_dom_children(), less the stopped ones, which everybody skips       *)
Children(c) == {k \in Live : comp[k].parent = c}

(* The components inside c's element, all younger than c: the least set    *)
(* with c's children and the children of its members, stopped ones         *)
(* included                                                                *)
Inside(c) ==
  LET Younger == {i \in Born : i > c}
      Closed(S) == \A k \in Younger : comp[k].parent \in S \cup {c} => k \in S
  IN {i \in Younger : \A S \in SUBSET Younger : Closed(S) => i \in S}

(* faulty variant: a child that has loaded is not waited for               *)
NotLoadedChildren(c) == {k \in Children(c) : comp[k].state < 2}

(* _wait_for_children_ready(): a child in state 4 or stopped is not waited *)
(* for; _settle_on() resolves at once for one whose 'ready' is still sticky *)
NotReadyChildren(c) == {k \in Children(c) : comp[k].state < 4 /\ ~comp[k].marker}

(* What a template of c may make of the instances it creates when there    *)
(* are b: whose child each is, and whether it overrides on_load().  A      *)
(* parent is created before its children.                                  *)
Templates ==
  [c \in Instances |-> [b \in 0..N |->
     UNION {{shape \in [b + 1 .. n -> [parent : {c} \cup (b + 1 .. n), hasLoad : BOOLEAN]] :
               \A i \in b + 1 .. n : shape[i].parent < i} :
            n \in b..N}]]

NewTrees(c) == Templates[c][Cardinality(Born)]

-----------------------------------------------------------------------------
(* What a turn does to the component r it is about                         *)

(* _render() itself: state 3 and the render complete, if it has loaded     *)
Rendered(r) ==
  [r EXCEPT !.state = IF @ >= 2 THEN 3 ELSE @,
            !.complete = @ \/ r.state >= 2 \/ ~r.hasLoad]

(* boot after its first render: the load, or the yield before _ready()     *)
FirstRendered(r) ==
  [Rendered(r) EXCEPT !.phase = IF r.hasLoad THEN "load" ELSE "yield"]

WaitsFor(r, children) == [r EXCEPT !.phase = "children", !.waits = children]

(* The cycle is over.                                                      *)
Idle(r) ==
  [r EXCEPT !.phase = "idle", !.cycle = "none", !.waits = {},
            !.wasReady = FALSE, !.fromCache = FALSE]

(* _fire_ready(), for c itself                                             *)
Ready(r) ==
  [r EXCEPT !.state = 4, !.marker = TRUE, !.owed = FALSE, !.everReady = TRUE]

-----------------------------------------------------------------------------
Becomes(c, r) == comp' = [comp EXCEPT ![c] = r]

StopsAll(S) == comp' = [i \in Instances |-> IF i \in S THEN Dead(comp[i]) ELSE comp[i]]

(* _render() of c: stops every component inside, clears the element, and   *)
(* boots the new ones, each of which runs up to its first await.  r is     *)
(* what becomes of c.                                                      *)
Renders(c, r, shape) ==
  LET old == Inside(c) IN
  comp' = [i \in Instances |->
    IF i \in DOMAIN shape THEN FirstRendered(Created(shape[i].parent, shape[i].hasLoad))
    ELSE IF i = c THEN r
    ELSE IF i \in old THEN Dead(comp[i])
    ELSE comp[i]]

ChildrenIn(c, shape) == {i \in DOMAIN shape : shape[i].parent = c}

(* _fire_ready(): a parent that waits for c does so no longer              *)
FiresReady(c, r) ==
  comp' = [i \in Instances |->
    IF i = c THEN Ready(r)
    ELSE IF comp[i].phase = "children" THEN [comp[i] EXCEPT !.waits = @ \ {c}]
    ELSE comp[i]]

(* The ready point of boot (the end of _ready()) and of the other cycles   *)
(* (_entry_ready_point()): 'ready', or owing it until the queue is idle    *)
FiresNow(r) == r.pending = "none" \/ (r.cycle # "boot" /\ ~r.owed)

ReadyPoint(c, r) ==
  IF FiresNow(r) THEN FiresReady(c, Idle(r))
  ELSE Becomes(c, [Idle(r) EXCEPT !.owed = TRUE])

(* A cycle throws: boot stops the component (not those inside it), a       *)
(* _reload() puts back the ready state it found, render() does not; the    *)
(* queue going idle still fires an owed 'ready'                            *)
Restores(r) == r.wasReady \/ (r.owed /\ r.pending = "none")

Fails(c) ==
  LET r == comp[c] IN
  CASE r.cycle = "boot" -> StopsAll({c})
    [] r.cycle # "boot" /\ Restores(r) -> FiresReady(c, Idle(r))
    [] OTHER -> Becomes(c, Idle(r))

-----------------------------------------------------------------------------
(* boot_component()                                                        *)

(* The root's boot; every other component boots in its parent's render.    *)
Boot(c) ==
  /\ comp[c].phase = "created"
  /\ \E shape \in NewTrees(c) : Renders(c, FirstRendered(comp[c]), shape)

(* After the yield: _ready() begins.                                       *)
ReadyPhase(c) ==
  LET r == comp[c] IN
  /\ r.phase = "yield"
  /\ Becomes(c, IF r.due
                THEN [r EXCEPT !.phase = "snapshot", !.waits = Children(c) \ Complete]
                ELSE WaitsFor(r, NotReadyChildren(c)))

(* _wait_for_children_on_render() is over: the snapshot is written.        *)
Snapshot(c) ==
  LET r == comp[c] IN
  /\ r.phase = "snapshot"
  /\ r.waits \subseteq Complete \cup Stopped
  /\ Becomes(c, [WaitsFor(r, NotReadyChildren(c)) EXCEPT !.due = FALSE])

(* faulty variant: 'stop' of a child does not release its parent           *)
AllChildrenReady(c) ==
  /\ comp[c].phase = "children" /\ comp[c].waits = {}
  /\ Becomes(c, [comp[c] EXCEPT !.phase = "on_ready"])

(* _wait_for_children_ready() is over: on_ready() begins.  A _reload()     *)
(* writes its snapshot here.                                               *)
ChildrenReady(c) ==
  LET r == comp[c] IN
  /\ r.phase = "children"
  /\ r.waits \subseteq Stopped
  /\ Becomes(c, [r EXCEPT !.phase = "on_ready", !.waits = {},
                          !.due = @ /\ r.cycle \notin {"reload", "refresh"}])

(* on_ready() settles.                                                     *)
HookReturns(c) ==
  /\ comp[c].phase = "on_ready"
  /\ ReadyPoint(c, comp[c])

HookThrows(c) ==
  /\ comp[c].phase = "on_ready"
  /\ <<comp[c].cycle, "on_ready">> \in Failing
  /\ Fails(c)

-----------------------------------------------------------------------------
(* The load of boot, reload() and refresh(), up to the next await after    *)
(* its result is applied.                                                  *)

(* write_cache_on_loaded(): a dynamic load owes a snapshot.                *)
Loaded(c, dynamic) == [comp[c] EXCEPT !.state = 2, !.due = @ \/ dynamic]

(* The data changed (to something), or it is filed under a new key.        *)
MayBeDynamic(c, changed) ==
  c \in Html /\ (changed \/ comp[c].cycle # "boot")

(* _should_rerender() at boot; STEP 3 of _reload_cycle() otherwise         *)
Rerenders(c, changed) ==
  \/ changed
  \/ comp[c].fromCache /\ c \in Html
  \/ comp[c].cycle = "reload" /\ ~comp[c].fromCache

LoadRerenders(c, loaded) ==
  \E shape \in NewTrees(c) :
    LET r == Rendered(loaded) IN
    Renders(c, IF r.cycle = "boot" THEN [r EXCEPT !.phase = "yield"]
               ELSE WaitsFor(r, ChildrenIn(c, shape)), shape)

(* Boot's first render stands, or a _reload()'s from the cache does.       *)
LoadKeepsRender(c, r) ==
  \/ /\ r.cycle = "boot"
     /\ Becomes(c, [r EXCEPT !.phase = "yield", !.complete = TRUE])
  \/ /\ r.cycle # "boot" /\ r.fromCache
     /\ Becomes(c, WaitsFor(r, NotReadyChildren(c)))

(* refresh() found the data it has already rendered; a snapshot still due  *)
(* is written.                                                             *)
RefreshIsQuiet(c, r) ==
  /\ r.cycle # "boot" /\ ~r.fromCache
  /\ ReadyPoint(c, [r EXCEPT !.due = FALSE])

LoadReturns(c) ==
  /\ comp[c].phase = "load"
  /\ \E changed, dynamic \in BOOLEAN :
       LET r == Loaded(c, dynamic) IN
       /\ dynamic => MayBeDynamic(c, changed)
       /\ \/ Rerenders(c, changed) /\ LoadRerenders(c, r)
          \/ ~Rerenders(c, changed) /\ (LoadKeepsRender(c, r) \/ RefreshIsQuiet(c, r))

LoadThrows(c) ==
  /\ comp[c].phase = "load"
  /\ <<comp[c].cycle, IF comp[c].fromCache THEN "cached" ELSE "load">> \in Failing
  /\ Fails(c)

-----------------------------------------------------------------------------
(* render(), reload() and refresh(): what an executor does before its      *)
(* first await.  r is c as the call left it.                               *)

Invalidated(r) == [r EXCEPT !.marker = FALSE]

BeginRender(c, r) ==
  \E shape \in NewTrees(c) : Renders(c, WaitsFor(Rendered(r), ChildrenIn(c, shape)), shape)

BeginLoad(c, r) ==
  /\ r.hasLoad
  /\ Becomes(c, [r EXCEPT !.phase = "load"])

(* check_cache_on_reload(): the args changed and there is cached data, or  *)
(* html, which has no components in it and leaves the ready state alone.   *)
BeginCachedLoad(c, r) ==
  LET rendered == IF c \in Html THEN r ELSE Rendered(r) IN
  /\ r.hasLoad
  /\ \E shape \in NewTrees(c) :
       /\ c \in Html => DOMAIN shape = {}
       /\ Renders(c, [rendered EXCEPT !.phase = "load", !.fromCache = TRUE], shape)

(* _reload()                                                               *)
BeginReload(c, r) ==
  LET reloading == [Invalidated(r) EXCEPT !.wasReady = r.state >= 4 /\ r.marker] IN
  \/ ~r.hasLoad /\ BeginRender(c, reloading)
  \/ BeginLoad(c, reloading)
  \/ BeginCachedLoad(c, reloading)

Begin(c, r, method) ==
  LET running == [r EXCEPT !.cycle = method] IN
  IF method = "render" THEN BeginRender(c, running) ELSE BeginReload(c, running)

(* render() drops the marker when it is called, _reload() when it runs     *)
AfterCall(r, method) == IF method = "render" THEN Invalidated(r) ELSE r

Call(c, method) ==
  LET r == AfterCall(comp[c], method) IN
  /\ comp[c].phase \notin {"none", "created"} /\ comp[c].pending = "none"
  /\ calls < MaxCalls /\ calls' = calls + 1
  /\ IF comp[c].phase = "idle" THEN Begin(c, r, method)
     ELSE Becomes(c, [r EXCEPT !.pending = method])

(* The macrotask of _release() starts the waiting call.                    *)
StartPending(c) ==
  LET r == comp[c] IN
  /\ r.phase = "idle" /\ r.pending # "none"
  /\ Begin(c, [r EXCEPT !.pending = "none"], r.pending)

(* stop(): every component inside, then c.  Also what removing c from the  *)
(* page does.                                                              *)
Stop(c) ==
  /\ c \in Live
  /\ LET inside == Inside(c) IN StopsAll({c} \cup inside)

-----------------------------------------------------------------------------
Turn(c) ==
  /\ \/ Boot(c) \/ ReadyPhase(c) \/ Snapshot(c) \/ ChildrenReady(c)
     \/ HookReturns(c) \/ HookThrows(c) \/ LoadReturns(c) \/ LoadThrows(c)
     \/ StartPending(c)
  /\ UNCHANGED calls

Next ==
  \E c \in Instances :
    \/ Turn(c)
    \/ c \in Callable /\ \E method \in Methods : Call(c, method)
    \/ Stop(c) /\ UNCHANGED calls

Spec == Init /\ [][Next]_vars

(* The event loop goes on, and loads and hooks settle.                     *)
FairSpec == Spec /\ \A c \in Instances : WF_vars(Turn(c))

-----------------------------------------------------------------------------
(* A component whose on_ready() runs, or that is in the ready state, has   *)
(* only children that have been ready at least once: children become ready *)
(* before their parents, also when they stop, fail, reload or are replaced *)
(* while the parent waits.                                                 *)
BottomUp ==
  \A c \in Live :
    comp[c].phase = "on_ready" \/ comp[c].state = 4 =>
      \A k \in Children(c) : comp[k].everReady

(* Waiting for ready() ends: when the calls (MaxCalls of them) have ceased *)
(* every component becomes ready or is stopped, whatever happens to those  *)
(* it waits for itself.                                                    *)
TreeSettles == []<>(\A c \in Live : comp[c].marker)

(* Claimed by the documentation of the html cache: a snapshot is taken of  *)
(* fully rendered DOM, so every component in it has rendered its loaded    *)
(* data.                                                                   *)
SnapshotFullyRendered ==
  [][\A c \in Live :
       comp[c].due /\ c \in Live' /\ ~comp'[c].due =>
         Inside(c) \cap Live \subseteq Complete]_vars

=============================================================================
