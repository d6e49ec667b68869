--------------------------- MODULE LoadCoordinator ---------------------------
(***************************************************************************)
(* Load deduplication: Load_Coordinator (packages/core/src/                *)
(* load-coordinator.ts) together with the boot-time load that drives it,   *)
(* Jqhtml_Component._load() (component.ts) and execute_on_load_detached()  *)
(* (data-proxy.ts).                                                        *)
(*                                                                         *)
(* A component's load runs once (_load() is called by boot only), so a     *)
(* coordination entry is named after the component that registered it, and *)
(* everything an entry holds is a function of that name.  The promise of   *)
(* an entry is settled by the step that changes its status, so status also *)
(* stands for the promise.                                                 *)
(*                                                                         *)
(* One action is one turn of the event loop.  Reactions run in the order   *)
(* they were queued: this matters in one place, see Turn.                  *)
(***************************************************************************)
EXTENDS Naturals, FiniteSets

CONSTANTS Components, \* the instances that reach on_load()
          Keys,       \* invocation keys: name plus serialized args
          NoKey,      \* the key of args that cannot be keyed: null
          NoEntry,    \* Map.get() of a key that is not there
          NoData      \* no on_load() result

ASSUME ComponentsAssumption ==
  /\ IsFiniteSet(Components)
  /\ NoEntry \notin Components
  /\ NoKey \notin Keys
  /\ NoData \notin [by : Components, kind : {"loaded", "fallback"}]

Loaded(c) == [by |-> c, kind |-> "loaded"]
Fallback(c) == [by |-> c, kind |-> "fallback"]
Data == [by : Components, kind : {"loaded", "fallback"}] \cup {NoData}

VARIABLES
  registry,    \* _registry: the entry each key has
  status,      \* CoordinationEntry.status, and what became of its promise
  waiting,     \* CoordinationEntry.waiting
  leaderData,  \* CoordinationEntry.leader_data
  key,         \* dedup_key, captured when the load starts
  joined,      \* the entry whose promise a follower awaits
  data,        \* this.data: what it was assigned from
  stopped,     \* _stopped
  phase,       \* where each component's _load() is, see Phases
  ahead        \* followers whose wake-up was queued before this load started

vars == <<registry, status, waiting, leaderData, key, joined, data, stopped,
          phase, ahead>>

coordination == <<registry, status, waiting, leaderData>>
identity == <<key, joined, ahead>>

(* created   -> leading | parked | alone                                   *)
(* leading   on_load() runs, followers may join    -> applying | erring    *)
(* applying  _apply_load_result(), on_loaded()     -> done | failed        *)
(* parked    awaits the leader's promise  -> finishing | alone | erring    *)
(* alone     on_load() runs without coordination   -> finishing | erring   *)
(* erring    the load failed, on_load_error() runs -> finishing | failed   *)
(* finishing applies data nobody shares            -> done | failed        *)
Phases == {"created", "leading", "applying", "parked", "alone", "erring",
           "finishing", "done", "failed"}

TypeOK ==
  /\ registry \in [Keys -> Components \cup {NoEntry}]
  /\ status \in [Components -> {"none", "loading", "completed", "failed"}]
  /\ waiting \in [Components -> SUBSET Components]
  /\ leaderData \in [Components -> Data]
  /\ key \in [Components -> Keys \cup {NoKey}]
  /\ joined \in [Components -> Components \cup {NoEntry}]
  /\ data \in [Components -> Data]
  /\ stopped \in [Components -> BOOLEAN]
  /\ phase \in [Components -> Phases]
  /\ ahead \in [Components -> SUBSET Components]

Init ==
  /\ registry = [k \in Keys |-> NoEntry]
  /\ status = [c \in Components |-> "none"]
  /\ waiting = [c \in Components |-> {}]
  /\ leaderData = [c \in Components |-> NoData]
  /\ key = [c \in Components |-> NoKey]
  /\ joined = [c \in Components |-> NoEntry]
  /\ data = [c \in Components |-> NoData]
  /\ stopped = [c \in Components |-> FALSE]
  /\ phase = [c \in Components |-> "created"]
  /\ ahead = [c \in Components |-> {}]

-----------------------------------------------------------------------------
(* The coordinator's operations.  Each looks its entry up by key.          *)
HasEntry(k) == k \in Keys /\ registry[k] # NoEntry
InFlight(k) == HasEntry(k) /\ status[registry[k]] = "loading"

Goto(c, p) == phase' = [phase EXCEPT ![c] = p]

(* register_leader(): takes the key over from an entry that is not loading *)
Register(c, k) ==
  /\ registry' = [registry EXCEPT ![k] = c]
  /\ status' = [status EXCEPT ![c] = "loading"]
  /\ UNCHANGED <<waiting, leaderData>>

CompleteKeepsEntry(k, text) ==                               \* faulty variant
  IF HasEntry(k)
  THEN LET e == registry[k] IN
       /\ leaderData' = [leaderData EXCEPT ![e] = text]
       /\ status' = [status EXCEPT ![e] = "completed"]
       /\ UNCHANGED <<registry, waiting>>
  ELSE UNCHANGED coordination

(* _complete_coordination(): wakes the followers, or frees the entry at    *)
(* once when there are none                                                *)
Complete(k, text) ==
  IF HasEntry(k)
  THEN LET e == registry[k] IN
       /\ leaderData' = [leaderData EXCEPT ![e] = text]
       /\ status' = [status EXCEPT ![e] = "completed"]
       /\ registry' = IF waiting[e] = {}
                      THEN [registry EXCEPT ![k] = NoEntry] ELSE registry
       /\ UNCHANGED waiting
  ELSE UNCHANGED coordination

DropEntryOnly(k) ==                                          \* faulty variant
  IF HasEntry(k)
  THEN /\ registry' = [registry EXCEPT ![k] = NoEntry]
       /\ UNCHANGED <<status, waiting, leaderData>>
  ELSE UNCHANGED coordination

(* handle_leader_error(): rejects the followers, then frees the entry *)
HandleLeaderError(k) ==
  IF HasEntry(k)
  THEN /\ status' = [status EXCEPT ![registry[k]] = "failed"]
       /\ registry' = [registry EXCEPT ![k] = NoEntry]
       /\ UNCHANGED <<waiting, leaderData>>
  ELSE UNCHANGED coordination

(* get_leader_data(): what follower c is handed, NoData for null *)
LeaderData(k) ==
  IF HasEntry(k) /\ status[registry[k]] = "completed"
  THEN leaderData[registry[k]] ELSE NoData

(* get_leader_data(): c leaves the waiting list; the last one to collect   *)
(* frees the entry                                                         *)
Collect(c, k) ==
  IF LeaderData(k) = NoData THEN UNCHANGED coordination
  ELSE LET e == registry[k]
           rest == waiting[e] \ {c}
       IN /\ waiting' = [waiting EXCEPT ![e] = rest]
          /\ registry' = IF rest = {} THEN [registry EXCEPT ![k] = NoEntry]
                         ELSE registry
          /\ UNCHANGED <<status, leaderData>>

-----------------------------------------------------------------------------
(* Parked followers whose promise is settled: their reactions are queued.  *)
Woken == {f \in Components : phase[f] = "parked" /\ status[joined[f]] # "loading"}

(* A promise queues its reactions back to back, so nothing starts between  *)
(* the wake-ups of two followers of the same entry.                        *)
BetweenReactions ==
  \A f \in Woken : \A g \in Components : joined[g] = joined[f] => g \in Woken

(* What a load does after an await was queued behind the wake-ups that     *)
(* were already queued when it started.                                    *)
Turn(c) == ahead[c] \cap Woken = {}

Begin(c, k) ==
  /\ phase[c] = "created" /\ ~stopped[c]
  /\ BetweenReactions
  /\ key' = [key EXCEPT ![c] = k]
  /\ ahead' = [ahead EXCEPT ![c] = Woken]
  /\ UNCHANGED <<data, stopped>>

(* _load() without a dedup identity *)
StartAlone(c) ==
  /\ Begin(c, NoKey)
  /\ Goto(c, "alone")
  /\ UNCHANGED <<coordination, joined>>

(* should_execute_on_load() says yes: no entry, or one that is not loading.*)
(* execute_on_load_detached() registers before it calls on_load().         *)
StartLeading(c, k) ==
  /\ ~InFlight(k)
  /\ Begin(c, k)
  /\ Register(c, k)
  /\ Goto(c, "leading")
  /\ UNCHANGED joined

(* should_execute_on_load() says no, and the follower takes the promise *)
StartFollowing(c, k) ==
  /\ InFlight(k)
  /\ Begin(c, k)
  /\ waiting' = [waiting EXCEPT ![registry[k]] = @ \cup {c}]
  /\ joined' = [joined EXCEPT ![c] = registry[k]]
  /\ Goto(c, "parked")
  /\ UNCHANGED <<registry, status, leaderData>>

-----------------------------------------------------------------------------
Assign(c, d) == data' = [data EXCEPT ![c] = d]

(* The load fails out of _load(): boot's catch stops the component *)
Fail(c) == Goto(c, "failed") /\ stopped' = [stopped EXCEPT ![c] = TRUE]

StoppedLeaderTakesData(c) ==                                 \* faulty variant
  /\ phase[c] = "leading" /\ Turn(c) /\ stopped[c]
  /\ Complete(key[c], Loaded(c))
  /\ Assign(c, Loaded(c))
  /\ Goto(c, "done")
  /\ UNCHANGED <<identity, stopped>>

(* on_load() returned to a leader stopped meanwhile: nothing is applied,   *)
(* but the group is served (or, left without an object, failed)            *)
StoppedLeaderReturns(c) ==
  /\ phase[c] = "leading" /\ Turn(c) /\ stopped[c]
  /\ Complete(key[c], Loaded(c)) \/ HandleLeaderError(key[c])
  /\ Goto(c, "done")
  /\ UNCHANGED <<identity, data, stopped>>

LeaderReturns(c) ==
  /\ phase[c] = "leading" /\ Turn(c) /\ ~stopped[c]
  /\ Goto(c, "applying")
  /\ UNCHANGED <<coordination, identity, data, stopped>>

LeaderSharesFallback(c) ==                                   \* faulty variant
  /\ phase[c] = "leading" /\ Turn(c)
  /\ Complete(key[c], Fallback(c))
  /\ Goto(c, "erring")
  /\ UNCHANGED <<identity, data, stopped>>

(* on_load() threw: the group fails before the leader's own recovery *)
LeaderThrows(c) ==
  /\ phase[c] = "leading" /\ Turn(c)
  /\ HandleLeaderError(key[c])
  /\ Goto(c, "erring")
  /\ UNCHANGED <<identity, data, stopped>>

LeaderApplies(c) ==
  /\ phase[c] = "applying"
  /\ Assign(c, Loaded(c))
  /\ Complete(key[c], Loaded(c))
  /\ Goto(c, "done")
  /\ UNCHANGED <<identity, stopped>>

(* this.data was left a non-object, or on_loaded() threw after the assign *)
LeaderApplyFails(c) ==
  /\ phase[c] = "applying"
  /\ \E d \in {data[c], Loaded(c)} : Assign(c, d)
  /\ HandleLeaderError(key[c])
  /\ Fail(c)
  /\ UNCHANGED identity

-----------------------------------------------------------------------------
(* The follower's await rejects *)
FollowerFails(c) ==
  /\ phase[c] = "parked" /\ status[joined[c]] = "failed"
  /\ Goto(c, "erring")
  /\ UNCHANGED <<coordination, identity, data, stopped>>

(* The follower's await resolves.  It collects even when stopped; without  *)
(* data to adopt it loads on its own.                                      *)
FollowerWakes(c) ==
  /\ phase[c] = "parked" /\ status[joined[c]] = "completed"
  /\ Collect(c, key[c])
  /\ \/ stopped[c] /\ Goto(c, "done") /\ UNCHANGED data
     \/ /\ ~stopped[c] /\ LeaderData(key[c]) # NoData
        /\ Assign(c, LeaderData(key[c]))
        /\ Goto(c, "finishing")
     \/ /\ ~stopped[c] /\ LeaderData(key[c]) = NoData
        /\ Goto(c, "alone") /\ UNCHANGED data
  /\ UNCHANGED <<identity, stopped>>

-----------------------------------------------------------------------------
(* Uncoordinated on_load(): a result that is no object fails in Finish *)
AloneReturns(c) ==
  /\ phase[c] = "alone"
  /\ \/ stopped[c] /\ Goto(c, "done") /\ UNCHANGED data
     \/ /\ ~stopped[c] /\ Goto(c, "finishing")
        /\ \E d \in {NoData, Loaded(c)} : Assign(c, d)
  /\ UNCHANGED <<coordination, identity, stopped>>

AloneThrows(c) ==
  /\ phase[c] = "alone"
  /\ Goto(c, "erring")
  /\ UNCHANGED <<coordination, identity, data, stopped>>

(* _run_load_error_hook(): not overridden, or the override throws *)
NotRecovered(c) ==
  /\ phase[c] = "erring"
  /\ Fail(c)
  /\ UNCHANGED <<coordination, identity, data>>

(* _run_load_error_hook(): abandoned because stopped, or a fallback *)
Recovers(c) ==
  /\ phase[c] = "erring"
  /\ \/ stopped[c] /\ Goto(c, "done") /\ UNCHANGED data
     \/ /\ ~stopped[c] /\ Goto(c, "finishing")
        /\ \E d \in {NoData, Fallback(c)} : Assign(c, d)
  /\ UNCHANGED <<coordination, identity, stopped>>

Finishes(c) ==
  /\ phase[c] = "finishing" /\ data[c] # NoData
  /\ Goto(c, "done")
  /\ UNCHANGED <<coordination, identity, data, stopped>>

FinishFailsKeyed(c) ==                                       \* faulty variant
  /\ phase[c] = "finishing"
  /\ HandleLeaderError(key[c])
  /\ Fail(c)
  /\ UNCHANGED <<identity, data>>

(* The apply failed for a load that owns no entry (any more): the key may  *)
(* be another leader's by now, and is left alone                           *)
FinishFails(c) ==
  /\ phase[c] = "finishing"
  /\ Fail(c)
  /\ UNCHANGED <<coordination, identity, data>>

(* _stop() by anyone, while the load can still tell the difference *)
Stop(c) ==
  /\ ~stopped[c] /\ phase[c] \notin {"done", "failed"}
  /\ stopped' = [stopped EXCEPT ![c] = TRUE]
  /\ UNCHANGED <<coordination, identity, data, phase>>

-----------------------------------------------------------------------------
Start(c) == StartAlone(c) \/ \E k \in Keys : StartLeading(c, k) \/ StartFollowing(c, k)

LeaderStep(c) == StoppedLeaderReturns(c) \/ LeaderReturns(c) \/ LeaderThrows(c)
                 \/ LeaderApplies(c) \/ LeaderApplyFails(c)
FollowerStep(c) == FollowerFails(c) \/ FollowerWakes(c)
OwnStep(c) == AloneReturns(c) \/ AloneThrows(c) \/ NotRecovered(c)
              \/ Recovers(c) \/ Finishes(c) \/ FinishFails(c)

Next == \E c \in Components :
          Start(c) \/ LeaderStep(c) \/ FollowerStep(c) \/ OwnStep(c) \/ Stop(c)

Spec == Init /\ [][Next]_vars

(* The event loop runs what is queued, and hooks settle.  Nobody has to    *)
(* start another load or stop anything.                                    *)
Fairness == \A c \in Components :
  WF_vars(LeaderStep(c)) /\ WF_vars(FollowerStep(c)) /\ WF_vars(OwnStep(c))

FairSpec == Spec /\ Fairness

-----------------------------------------------------------------------------
(* A load that has an entry to settle finds its own entry under its key,   *)
(* still loading: by-key completion never settles another leader's group,  *)
(* and a key never has two coordinated on_load() calls in flight.          *)
(* (load-coordinator.ts:283-403, component.ts:1590-1649)                   *)
LeaderOwnsEntry ==
  /\ \A c \in Components :
       (phase[c] \in {"leading", "applying"}) <=> (status[c] = "loading")
  /\ \A c \in Components :
       status[c] = "loading" => key[c] \in Keys /\ registry[key[c]] = c

(* The registry holds an entry only while somebody will come back to free  *)
(* it: its leader, or a follower that has not collected.  "Without this    *)
(* the registry grows once per distinct name+args, forever"                *)
(* (load-coordinator.ts:310-314).                                          *)
NoEntryLeaks ==
  \A k \in Keys : LET e == registry[k] IN
    e # NoEntry =>
      \/ status[e] = "loading"
      \/ status[e] = "completed" /\ \E f \in waiting[e] : phase[f] = "parked" /\ key[f] = k

(* Data that is not a component's own comes from the successful load of    *)
(* the group it joined: never a fallback, never another key's, and never   *)
(* what a later leader of the same key fetched.                            *)
AdoptsItsGroup ==
  \A c \in Components : LET l == joined[c] IN
    data[c] # NoData /\ data[c].by # c =>
      /\ data[c] = Loaded(l)
      /\ status[l] = "completed" /\ key[l] = key[c]

(* A component stopped while its on_load(), or the one it waits for, is in *)
(* flight takes nothing from it.  (component.ts:1565, 1612-1625)           *)
StoppedTakesNothing ==
  [][\A c \in Components :
       stopped[c] /\ phase[c] \in {"leading", "parked", "alone", "erring"}
         => data'[c] = data[c]]_vars

(* A load whose hooks settle ends: no follower is left waiting, whatever   *)
(* becomes of its leader - stopped, failed in on_load() or on_loaded(), or *)
(* overtaken by a new leader of the same key.  (component.ts:1590-1649)    *)
EveryLoadEnds ==
  \A c \in Components :
    phase[c] # "created" ~> phase[c] \in {"done", "failed"}
=============================================================================
