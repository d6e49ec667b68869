----------------------------- MODULE CachedLoads -----------------------------
(***************************************************************************)
(* What components put into the cache and take from it, and what they have *)
(* on screen meanwhile: create(), the boot's load, load(), reload(),       *)
(* refresh() (packages/core/src/component.ts, component-cache.ts,          *)
(* preload-data.ts), in tabs that share one localStorage.                  *)
(*                                                                         *)
(* One call of a component runs at a time, as LifecycleQueue has it; a     *)
(* call awaited inside a hook is in ComponentCycles.  Args change at any   *)
(* time: a parent may set them while a load is under way.                  *)
(***************************************************************************)
EXTENDS BrowserStorage, TLC

CONSTANTS Tabs,
          Comps,        \* components of a page
          TabOf,        \* the tab each is in
          ModeOf,       \* the cache mode of the application of each scope
          Args,         \* what args may be
          Boots,        \* how each component may boot, see Boot
          Described,    \* a component's name, cache_id() and args, by these
          Values,       \* values in them
          NoKey,
          Empty,        \* the text of {}
          Texts,        \* texts of data
          Brings,       \* those that each component's loads may bring
          Preloads,     \* what the pages of each tab may carry, by key
          Callable,     \* components whose methods are called
          Failing,      \* components whose on_load() may throw
          ArgsMove,     \* phases of a call in which a parent sets the args
          MaxEvents     \* calls and events after the page has loaded

Keyed == INSTANCE ArgKeys WITH MaxKeySize <- 10, InternalNames <- {9}, UseCachedData <- 8

(* generate_cache_key() of args, and the data they stand for, each by the  *)
(* first args that have it                                                 *)
KeyOf ==
  LET Key(a) == Keyed!CacheKey(Described[a])
  IN <<>> @@ [a \in Args |->
       IF Key(a) = NoKey THEN NoKey ELSE CHOOSE b \in Args : Key(b) = Key(a)]
Identity ==
  LET Means(a) == Keyed!Identity(Described[a])
  IN <<>> @@ [a \in Args |-> CHOOSE b \in Args : Means(b) = Means(a)]

(* the args that read the same in JSON                                     *)
SameJson ==
  {p \in Args \X Args :
     Keyed!ArgsJson(Described[p[1]].args) = Keyed!ArgsJson(Described[p[2]].args)}

Keys == {KeyOf[a] : a \in Args} \ {NoKey}
Calls == {"boot", "load", "reload", "refresh", "blank"}
Phases == {"unborn", "gated", "loading", "loaded", "children", "idle", "stopped"}
NoText == "none"

Boot ==
  [args : Args,
   text : Texts,          \* what on_create() leaves
   detached : BOOLEAN,    \* not in the document
   reads : BOOLEAN,       \* visible, and without skip_cache_read
   useCached : BOOLEAN]   \* use_cached_data

ASSUME ParametersAssumption ==
  /\ Args # {} /\ MaxEvents \in Nat
  /\ TabOf \in [Comps -> Tabs] /\ ModeOf \in [Scopes -> {"data", "html"}]
  /\ Boots \in [Comps -> SUBSET Boot]
  /\ Callable \cup Failing \subseteq Comps
  /\ DOMAIN Described = Args
  /\ Brings \in [Comps -> SUBSET Texts]
  /\ Empty \in Texts /\ NoText \notin Texts
  /\ ArgsMove \subseteq Phases

VARIABLES disk,     \* localStorage, see BrowserStorage
          tab,      \* the module in each tab
          preload,  \* _preload_cache of each tab
          comp,     \* the components
          used,     \* history: the scopes configured so far
          events    \* how many calls and events there were

vars == <<disk, tab, preload, comp, used, events>>

(* Data, an entry and what is on screen are a text; of is history: what    *)
(* the text was loaded for.  Mixed: markup of other data than this.data.   *)
Created == "created"     \* as on_create() left it
Fallback == "fallback"   \* as on_load_error() left it
Mixed == "mixed"
Sources == {Identity[a] : a \in Args} \cup {Created, Fallback, Mixed}
Data == [text : Texts \cup {NoText}, of : Sources]
NoData == [text |-> NoText, of |-> Created]

(* A page carries data under the keys it was loaded for on the server.     *)
ASSUME PreloadsAssumption ==
  \A t \in Tabs : \A p \in Preloads[t] :
    DOMAIN p \subseteq Keys /\ p \in [DOMAIN p -> [text : Texts, of : Sources]]

Component ==
  [phase : Phases,                  \* what the running call waits for
   call : Calls,                    \* the last call
   args : Args,
   data : Data,
   initial : Data,                  \* __initial_data_text
   key : Keys \cup {NoKey},         \* _cache_key
   dataKey : Keys \cup {NoKey},     \* _data_cache_key
   failed : BOOLEAN,                \* _load_failed
   hit : BOOLEAN,                   \* _use_cached_data_hit
   inert : BOOLEAN,                 \* _used_cached_html
   due : BOOLEAN,                   \* _should_cache_html_after_ready
   dynamic : BOOLEAN,               \* _is_dynamic
   detached : BOOLEAN,              \* _is_detached
   before : Texts \cup {NoText},    \* data_before_load
   fetched : Sources,               \* history: what on_load() was asked for
   fromCache : BOOLEAN,             \* rendered_from_cache of _reload_cycle()
   wasReady : BOOLEAN,              \* was_ready of _reload()
   shown : Data,                    \* what the last render shows ...
   live : BOOLEAN,                  \* ... and whether it is the template's
   lastArgs : Args \cup {NoKey},    \* _args_on_last_render
   lastData : Texts \cup {NoText},  \* _data_on_last_render
   drawn : Texts \cup {NoText},     \* _data_before_render
   ready : BOOLEAN,                 \* 'ready' is in _lifecycle_states
   rejected : BOOLEAN]              \* history: the last call was rejected

Unborn(a) ==
  [phase |-> "unborn", call |-> "boot", args |-> a, data |-> NoData,
   initial |-> NoData, key |-> NoKey, dataKey |-> NoKey, failed |-> FALSE,
   hit |-> FALSE, inert |-> FALSE, due |-> FALSE, dynamic |-> FALSE,
   detached |-> FALSE, before |-> NoText, fetched |-> Created,
   fromCache |-> FALSE, wasReady |-> FALSE, shown |-> NoData, live |-> FALSE,
   lastArgs |-> NoKey, lastData |-> NoText, drawn |-> NoText,
   ready |-> FALSE, rejected |-> FALSE]

(* A stopped component runs nothing more: nothing of it is left but that.  *)
Nobody == Unborn(CHOOSE a \in Args : TRUE)
Dead == [Nobody EXCEPT !.phase = "stopped"]

TypeOK ==
  /\ disk.foreign \in 0..Capacity /\ Used(disk) <= Capacity
  /\ \A id \in DOMAIN disk.items :
       /\ id \in {"data", "html"} \X Keys \X Scopes
       /\ disk.items[id] \in [text : Texts \ Oversized, of : Sources]
  /\ \A t \in Tabs : tab[t].ready => tab[t].scope \in Scopes /\ tab[t].available = "yes"
  /\ \A t \in Tabs : DOMAIN preload[t] \subseteq Keys
  /\ comp \in [Comps -> Component]
  /\ used \subseteq Scopes
  /\ events \in 0..MaxEvents

Init ==
  /\ disk = EmptyDisk
  /\ tab = [t \in Tabs |-> Fresh]
  /\ preload \in {p \in [Tabs -> UNION {Preloads[t] : t \in Tabs}] :
                   \A t \in Tabs : p[t] \in Preloads[t]}
  /\ comp = [c \in Comps |-> Nobody]
  /\ used = {}
  /\ events = 0

-----------------------------------------------------------------------------
(* What a step makes of the component r it is about                        *)

Module(c) == tab[TabOf[c]]

(* _render() from the template, and what _record_render_snapshots() keeps  *)
Recorded(r) == [r EXCEPT !.lastArgs = r.args, !.lastData = r.data.text]

Rendered(r) ==
  Recorded([r EXCEPT !.shown = r.data, !.live = TRUE,
                     !.drawn = IF @ = NoText THEN r.data.text ELSE @])

(* _render() with a snapshot from the cache: markup without components     *)
Injected(r, snapshot) ==
  Recorded([r EXCEPT !.shown = snapshot, !.live = FALSE, !.inert = TRUE])

(* write_cache_on_loaded(): what a load brought is filed if it is not the  *)
(* data that was there, or if it is, under another key.                    *)
Changed(r, d) == r.before # d.text
KeyMoved(r, d) == ~Changed(r, d) /\ NoKey \notin {r.key, r.dataKey} /\ r.key # r.dataKey
Dynamic(r, d) == (Changed(r, d) /\ d.text # Empty) \/ KeyMoved(r, d)
(* faulty variant: the data of a failed load is filed too                  *)
FiledAlways(r, d) == Dynamic(r, d) /\ r.key # NoKey

Filed(r, d) == Dynamic(r, d) /\ r.key # NoKey /\ ~r.failed

(* _apply_load_result(), up to on_loaded()                                 *)
Accepted(r, d, mode) ==
  [r EXCEPT !.phase = "loaded", !.data = d, !.dynamic = Dynamic(r, d),
            !.dataKey = CASE Filed(r, d) -> r.key
                          [] ~Filed(r, d) /\ Changed(r, d) -> NoKey
                          [] OTHER -> @,
            !.due = @ \/ (Filed(r, d) /\ mode = "html")]

(* The call has ended, and its locals with it.                             *)
Ended(r) ==
  [r EXCEPT !.phase = "idle", !.before = NoText, !.fetched = Created,
            !.fromCache = FALSE, !.wasReady = FALSE]

Ready(r) == [Ended(r) EXCEPT !.ready = TRUE]

(* A call that throws: a boot stops the component; reload() and refresh()  *)
(* put the ready state back they found.                                    *)
Rejected(r) ==
  CASE r.call = "boot" -> Dead
    [] r.call \in {"reload", "refresh"} ->
         [Ended(r) EXCEPT !.ready = r.wasReady, !.rejected = TRUE]
    [] OTHER -> [Ended(r) EXCEPT !.rejected = TRUE]

-----------------------------------------------------------------------------
(* Steps that may write an entry: the component becomes r, or what it      *)
(* would if the write threw.                                               *)

Set(c, r) == comp' = [comp EXCEPT ![c] = r]

Write(c, r, kind, key, value) ==
  LET t == Module(c)
  IN IF WriteThrows(t, disk, kind, key, value)
     THEN disk' = Cleared(disk) /\ Set(c, Rejected(r))
     ELSE disk' = Written(t, disk, kind, key, value) /\ Set(c, r)

(* _apply_load_result() of d                                               *)
Apply(c, r, d) ==
  LET t == Module(c)
      next == Accepted(r, d, t.mode)
  IN IF Filed(r, d) /\ t.mode = "data"
     THEN Write(c, next, "data", r.key, d)
     ELSE Set(c, next) /\ UNCHANGED disk

(* write_html_cache_snapshot(), where r would become next: what is on      *)
(* screen is filed, which is markup of the data only if it was drawn from  *)
(* the same text                                                           *)
Markup(r) == [r.shown EXCEPT !.of = IF r.shown.text = r.data.text
                                    THEN r.data.of ELSE Mixed]

Snapshot(c, r, next) ==
  LET kept == [next EXCEPT !.due = @ /\ r.key = NoKey]
  IN IF r.due /\ r.key # NoKey /\ ~r.failed /\ r.dynamic
     THEN Write(c, kept, "html", r.key, Markup(r))
     ELSE Set(c, kept) /\ UNCHANGED disk

(* load() has its result: the key is that of the args as they are now.     *)
ApplyLoaded(c, r, d) ==
  LET t == Module(c)
      key == KeyOf[r.args]
      changed == r.before # d.text
      files == changed /\ ~r.failed /\ key # NoKey /\ t.mode # "html"
      next == [r EXCEPT !.phase = "loaded", !.data = d,
                        !.dataKey = CASE files -> key
                                      [] changed /\ ~files -> NoKey
                                      [] OTHER -> @]
  IN IF files THEN Write(c, next, "data", key, d) ELSE Set(c, next) /\ UNCHANGED disk

-----------------------------------------------------------------------------
(* Boot                                                                    *)

(* read_cache_in_create() and the first render, which shows the snapshot,  *)
(* the cached data or what on_create() left                                *)
FirstRender(r, t, reads, useCached) ==
  LET found == reads /\ r.key # NoKey /\ Holds(t, disk, t.mode, r.key)
      entry == Get(t, disk, t.mode, r.key)
  IN CASE found /\ t.mode = "html" -> Injected(r, entry)
       [] found /\ t.mode = "data" ->
            Rendered([r EXCEPT !.data = entry, !.dataKey = r.key, !.hit = useCached])
       [] OTHER -> Rendered(r)

(* create(): out of the document nothing is read and nothing rendered.     *)
Create(c) ==
  /\ comp[c].phase = "unborn"
  /\ \E b \in Boots[c] :
       LET data == [text |-> b.text, of |-> Created]
           new == [Unborn(b.args) EXCEPT !.phase = "gated", !.detached = b.detached,
                                         !.data = data, !.initial = data]
       IN Set(c, IF b.detached THEN new
                 ELSE FirstRender([new EXCEPT !.key = KeyOf[b.args]], Module(c),
                                  b.reads, b.useCached))
  /\ UNCHANGED <<disk, tab, preload, used, events>>

(* The load gates have settled, or reload() released them, and _load()     *)
(* starts: after a hit that may be used there is nothing to load ...       *)
Gated(c) == comp[c].phase = "gated"

UseCached(c) ==
  /\ Gated(c) /\ comp[c].hit
  /\ Set(c, [comp[c] EXCEPT !.phase = "loaded"])
  /\ UNCHANGED <<disk, tab, preload, used, events>>

(* ... or the page came with the data, for one component of each key ...   *)
Preloaded(c) == KeyOf[comp[c].args] \in DOMAIN preload[TabOf[c]]

UsePreloaded(c) ==
  LET t == TabOf[c]
      k == KeyOf[comp[c].args]
      r == [comp[c] EXCEPT !.key = k, !.before = comp[c].data.text]
  IN /\ Gated(c) /\ ~comp[c].hit /\ Preloaded(c)
     /\ preload' = [preload EXCEPT ![t] = Restrict(@, DOMAIN @ \ {k})]
     /\ Apply(c, r, preload[t][k])
     /\ UNCHANGED <<tab, used, events>>

(* ... or on_load() runs.                                                  *)
StartLoad(c) ==
  /\ Gated(c) /\ ~comp[c].hit /\ ~Preloaded(c)
  /\ Set(c, [comp[c] EXCEPT !.phase = "loading", !.key = KeyOf[comp[c].args],
                            !.before = comp[c].data.text,
                            !.fetched = Identity[comp[c].args]])
  /\ UNCHANGED <<disk, tab, preload, used, events>>

(* _should_rerender() after the boot's load: data that is not what was     *)
(* drawn, or a snapshot on screen                                          *)
ShouldRerender(r) == r.inert \/ r.drawn # r.data.text

(* A detached component has not been rendered yet.                         *)
BootRender(c) ==
  LET r == comp[c]
      after == [r EXCEPT !.phase = "children", !.inert = FALSE]
  IN /\ r.phase = "loaded" /\ r.call = "boot"
     /\ Set(c, IF r.detached \/ ShouldRerender(r)
               THEN Rendered([after EXCEPT !.drawn = r.data.text])
               ELSE after)
     /\ UNCHANGED <<disk, tab, preload, used, events>>

-----------------------------------------------------------------------------
(* on_load() settles                                                       *)

Loading(c) == comp[c].phase = "loading"

Settle(c, r, d) == IF r.call = "load" THEN ApplyLoaded(c, r, d) ELSE Apply(c, r, d)

LoadReturns(c) ==
  /\ Loading(c)
  /\ \E x \in Brings[c] : Settle(c, comp[c], [text |-> x, of |-> comp[c].fetched])
  /\ UNCHANGED <<tab, preload, used, events>>

(* on_load() throws and on_load_error() leaves its own data.               *)
LoadRecovers(c) ==
  /\ Loading(c) /\ c \in Failing
  /\ \E x \in Brings[c] :
       Settle(c, [comp[c] EXCEPT !.failed = TRUE], [text |-> x, of |-> Fallback])
  /\ UNCHANGED <<tab, preload, used, events>>

LoadFails(c) ==
  /\ Loading(c) /\ c \in Failing
  /\ Set(c, Rejected([comp[c] EXCEPT !.failed = TRUE]))
  /\ UNCHANGED <<disk, tab, preload, used, events>>

-----------------------------------------------------------------------------
(* load(), reload(), refresh()                                             *)

Event == events < MaxEvents /\ events' = events + 1

Idle(c) == comp[c].phase = "idle"
MayCall(c) == c \in Callable /\ Idle(c) /\ Event

Called(c, m) == [comp[c] EXCEPT !.call = m, !.rejected = FALSE]

Fetching(r) ==
  [r EXCEPT !.phase = "loading", !.before = r.data.text, !.fetched = Identity[r.args]]

CallLoad(c) ==
  /\ MayCall(c)
  /\ Set(c, Fetching(Called(c, "load")))
  /\ UNCHANGED <<disk, tab, preload, used>>

LoadEnds(c) ==
  /\ comp[c].phase = "loaded" /\ comp[c].call = "load"
  /\ Set(c, Ended(comp[c]))
  /\ UNCHANGED <<disk, tab, preload, used, events>>

(* _reload_cycle() with check_cache_on_reload(): the key is always that of *)
(* the args now; args that changed are looked up in the cache, and a hit   *)
(* is rendered before on_load() runs.                                      *)
FromCache(c, r) ==
  LET t == Module(c)
      entry == Get(t, disk, t.mode, r.key)
  IN IF t.mode = "html" THEN Injected(r, entry)
     ELSE Rendered([r EXCEPT !.data = entry, !.dataKey = r.key])

CallReload(c, m) ==
  LET t == Module(c)
      k == KeyOf[comp[c].args]
      r == [Called(c, m) EXCEPT !.key = k, !.wasReady = comp[c].ready, !.ready = FALSE]
      found == /\ r.lastArgs # NoKey /\ <<r.args, r.lastArgs>> \notin SameJson
               /\ k # NoKey /\ ~r.failed
               /\ Holds(t, disk, t.mode, k)
               /\ t.mode = "html" \/ Get(t, disk, t.mode, k).text # Empty
  IN /\ MayCall(c)
     /\ \E reads \in BOOLEAN :
          Set(c, IF found /\ reads
                 THEN Fetching([FromCache(c, r) EXCEPT !.fromCache = TRUE])
                 ELSE Fetching([r EXCEPT !.fromCache = FALSE]))
     /\ UNCHANGED <<disk, tab, preload, used>>

(* faulty variant: refresh() compares with the data before its own load    *)
RerendersIfLoaded(r) ==
  \/ r.inert
  \/ r.call = "reload" /\ (~r.fromCache \/ r.before # r.data.text)
  \/ r.call = "refresh" /\ r.before # r.data.text

(* STEP 3 of _reload_cycle(): render if the data is not what is on screen, *)
(* or if a snapshot is.                                                    *)
Rerenders(r) ==
  \/ r.inert
  \/ r.call = "reload" /\ (~r.fromCache \/ r.before # r.data.text)
  \/ r.call = "refresh" /\ r.lastData # r.data.text

ReloadRender(c) ==
  LET r == comp[c]
      after == [r EXCEPT !.inert = FALSE]
  IN /\ r.phase = "loaded" /\ r.call \in {"reload", "refresh"}
     /\ CASE Rerenders(r) ->
               Set(c, Rendered([after EXCEPT !.phase = "children"])) /\ UNCHANGED disk
          [] ~Rerenders(r) /\ r.fromCache ->
               Set(c, [after EXCEPT !.phase = "children"]) /\ UNCHANGED disk
          [] OTHER -> Snapshot(c, after, Ready(after))
     /\ UNCHANGED <<tab, preload, used, events>>

(* _reload_without_data()                                                  *)
CallBlank(c) ==
  LET r == [Called(c, "blank") EXCEPT !.ready = FALSE, !.dataKey = NoKey,
                                      !.data = comp[c].initial, !.phase = "children"]
      k == KeyOf[r.args]
  IN /\ MayCall(c)
     /\ disk' = IF k = NoKey THEN disk ELSE Removed(Module(c), disk, {"data", "html"}, k)
     /\ Set(c, Rendered(r))
     /\ UNCHANGED <<tab, preload, used>>

(* The children are ready: _ready() of a boot, the end of _reload_cycle(); *)
(* a blank render takes no snapshot.                                       *)
ChildrenReady(c) ==
  LET r == comp[c]
  IN /\ r.phase = "children"
     /\ IF r.call = "blank" THEN Set(c, Ready(r)) /\ UNCHANGED disk
        ELSE Snapshot(c, r, Ready(r))
     /\ UNCHANGED <<tab, preload, used, events>>

Stop(c) ==
  /\ comp[c].phase \notin {"unborn", "stopped"}
  /\ Set(c, Dead) /\ Event
  /\ UNCHANGED <<disk, tab, preload, used>>

-----------------------------------------------------------------------------
(* Around the components                                                   *)

(* A parent's render, or its code, sets the args.                          *)
SetArgs(c) ==
  /\ comp[c].phase \in ArgsMove
  /\ \E b \in Boots[c] : b.args # comp[c].args /\ Set(c, [comp[c] EXCEPT !.args = b.args])
  /\ Event
  /\ UNCHANGED <<disk, tab, preload, used>>

(* Done once on a page, at any time                                        *)
SetCacheKey(t) ==
  /\ tab[t].scope = NoScope
  /\ \E s \in Scopes :
       /\ tab' = [tab EXCEPT ![t] = Configured(@, disk, s, ModeOf[s])]
       /\ disk' = Validated(tab[t], disk, s)
       /\ used' = used \cup {s}
  /\ UNCHANGED <<preload, comp, events>>

(* Another page of the site in the same tab                                *)
PageLoad(t) ==
  /\ tab[t].scope # NoScope /\ Event
  /\ tab' = [tab EXCEPT ![t] = Fresh]
  /\ \E p \in Preloads[t] : preload' = [preload EXCEPT ![t] = p]
  /\ comp' = [c \in Comps |-> IF TabOf[c] = t THEN Nobody ELSE comp[c]]
  /\ UNCHANGED <<disk, used>>

(* Others use the storage, and the user clears it.                         *)
OthersWrite ==
  /\ ~Full(disk) /\ Event
  /\ disk' = [disk EXCEPT !.foreign = @ + 1]
  /\ UNCHANGED <<tab, preload, comp, used>>

StorageCleared ==
  /\ disk # EmptyDisk /\ Event
  /\ disk' = EmptyDisk
  /\ UNCHANGED <<tab, preload, comp, used>>

Turn(c) ==
  \/ Create(c) \/ UseCached(c) \/ UsePreloaded(c) \/ StartLoad(c) \/ BootRender(c)
  \/ LoadReturns(c) \/ LoadRecovers(c) \/ LoadFails(c)
  \/ CallLoad(c) \/ LoadEnds(c)
  \/ \E m \in {"reload", "refresh"} : CallReload(c, m)
  \/ ReloadRender(c) \/ CallBlank(c) \/ ChildrenReady(c)
  \/ Stop(c) \/ SetArgs(c)

Next ==
  \/ \E c \in Comps : Turn(c)
  \/ \E t \in Tabs : SetCacheKey(t) \/ PageLoad(t)
  \/ OthersWrite \/ StorageCleared

Spec == Init /\ [][Next]_vars

-----------------------------------------------------------------------------
(* An entry holds data that was loaded for every args that have its key,   *)
(* or markup drawn from such data: not data of other args, not the         *)
(* defaults of on_create() and not what on_load_error() left.              *)
EntriesAreTrue ==
  \A id \in DOMAIN disk.items :
    \A a \in Args : KeyOf[a] = id[2] => disk.items[id].of = Identity[a]

(* When a boot, reload() or refresh() has ended, the page shows this.data, *)
(* in live components: what was drawn from the cache, and what load() or   *)
(* the debug tool changed without drawing it, is gone.                     *)
ShownIsCurrent ==
  \A c \in Comps :
    LET r == comp[c]
    IN Idle(c) /\ r.call # "load" /\ ~r.rejected
         => r.ready /\ r.live /\ r.shown.text = r.data.text

(* Entries are wiped for a reason.  A page that starts under the only      *)
(* scope ever used clears nothing, also after the quota was hit; and a     *)
(* component's write that fits takes nothing from another scope.           *)
Lost == DOMAIN disk.items \ DOMAIN disk'.items

EntriesKept ==
  [][/\ used' # used \/ tab' # tab => (Cardinality(used') <= 1 => Lost = {})
     /\ comp' # comp /\ ~Full(disk) =>
          \A id \in Lost : \E c \in Comps :
            comp'[c] # comp[c] /\ id[3] = tab[TabOf[c]].scope]_vars

=============================================================================
