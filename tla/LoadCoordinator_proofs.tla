----------------------- MODULE LoadCoordinator_proofs -----------------------
(***************************************************************************)
(* Load deduplication is correct for every set of components and keys.     *)
(* The invariants the run load_coordinator checks are proved from one      *)
(* inductive invariant, IInv.                                              *)
(***************************************************************************)
EXTENDS LoadCoordinator, TLAPS

Fresh ==
  \A c \in Components :
    phase[c] = "created" => /\ status[c] = "none" /\ waiting[c] = {}
                            /\ joined[c] = NoEntry /\ data[c] = NoData

(* A follower belongs to the group it joined, and is on its waiting list   *)
(* only.                                                                   *)
Groups ==
  /\ \A f \in Components : joined[f] # NoEntry =>
       /\ key[joined[f]] = key[f] /\ status[joined[f]] # "none"
  /\ \A e \in Components : \A f \in waiting[e] : joined[f] = e

CompletedHasData ==
  \A e \in Components : status[e] = "completed" => leaderData[e] = Loaded(e)

(* An entry in the registry is live: still loading, or every follower on   *)
(* its list has yet to wake, and there is one.                             *)
LiveEntry(e) ==
  /\ status[e] \in {"loading", "completed"}
  /\ status[e] = "completed" => waiting[e] # {}
  /\ \A f \in waiting[e] : phase[f] = "parked"

RegistryLive ==
  \A k \in Keys : registry[k] # NoEntry =>
    key[registry[k]] = k /\ LiveEntry(registry[k])

(* Who took over the key of a group that still has to wake is a leader     *)
(* that began after it, and will not return from on_load() before it woke. *)
SuccessorWaits ==
  \A f \in Components : \A k \in Keys :
    phase[f] = "parked" /\ status[joined[f]] = "completed" /\ key[f] = k
      /\ registry[k] # NoEntry /\ registry[k] # joined[f]
      => phase[registry[k]] = "leading" /\ f \in ahead[registry[k]]

ParkedJoined == \A f \in Components : phase[f] = "parked" => joined[f] # NoEntry

IInv ==
  /\ TypeOK
  /\ LeaderOwnsEntry
  /\ Fresh
  /\ Groups
  /\ CompletedHasData
  /\ RegistryLive
  /\ SuccessorWaits
  /\ ParkedJoined
  /\ AdoptsItsGroup

LEMMA DataFacts ==
  ASSUME NEW c \in Components
  PROVE  /\ Loaded(c) \in Data /\ Fallback(c) \in Data /\ NoData \in Data
         /\ Loaded(c) # NoData /\ Fallback(c) # NoData
         /\ Loaded(c).by = c /\ Fallback(c).by = c
  BY ComponentsAssumption DEF Loaded, Fallback, Data

-----------------------------------------------------------------------------
LEMMA InitHolds ==
  ASSUME Init
  PROVE  IInv
  <1>1. TypeOK
    BY DEF Init, TypeOK, Phases, Data
  <1>2. LeaderOwnsEntry /\ Fresh /\ Groups /\ CompletedHasData
    BY DEF Init, LeaderOwnsEntry, Fresh, Groups, CompletedHasData
  <1>3. RegistryLive /\ SuccessorWaits /\ ParkedJoined /\ AdoptsItsGroup
    BY DEF Init, RegistryLive, SuccessorWaits, ParkedJoined, AdoptsItsGroup
  <1> QED BY <1>1, <1>2, <1>3 DEF IInv

(* A load that owns no entry and waits for none goes on by itself.         *)
LEMMA OwnMove ==
  ASSUME IInv, NEW c \in Components,
         phase[c] \in {"alone", "erring", "finishing"},
         NEW p \in {"alone", "erring", "finishing", "done", "failed"}, Goto(c, p),
         NEW d \in {NoData, Loaded(c), Fallback(c), data[c]},
         data' = [data EXCEPT ![c] = d],
         stopped' \in [Components -> BOOLEAN],
         UNCHANGED <<coordination, identity>>
  PROVE  IInv'
  <1>0. /\ TypeOK /\ p \in Phases /\ d \in Data
        /\ UNCHANGED <<registry, status, waiting, leaderData, key, joined, ahead>>
        /\ phase' = [phase EXCEPT ![c] = p]
    BY DataFacts DEF IInv, TypeOK, Phases, coordination, identity, Goto
  <1>1. TypeOK'
    BY <1>0 DEF TypeOK
  <1>2. LeaderOwnsEntry'
    BY <1>0 DEF IInv, TypeOK, LeaderOwnsEntry
  <1>3. Fresh' /\ Groups' /\ CompletedHasData' /\ ParkedJoined'
    BY <1>0 DEF IInv, TypeOK, Fresh, Groups, CompletedHasData, ParkedJoined
  <1>4. RegistryLive'
    BY <1>0 DEF IInv, TypeOK, RegistryLive, LiveEntry
  <1>5. SuccessorWaits'
    BY <1>0, ComponentsAssumption DEF IInv, TypeOK, SuccessorWaits
  <1>6. AdoptsItsGroup'
    BY <1>0, DataFacts DEF IInv, TypeOK, AdoptsItsGroup
  <1> QED BY <1>1, <1>2, <1>3, <1>4, <1>5, <1>6 DEF IInv

LEMMA StartAloneStep ==
  ASSUME IInv, NEW c \in Components, StartAlone(c)
  PROVE  IInv'
  <1>0. /\ TypeOK /\ phase[c] = "created" /\ "alone" \in Phases
        /\ UNCHANGED <<registry, status, waiting, leaderData, joined, data, stopped>>
        /\ key' = [key EXCEPT ![c] = NoKey]
        /\ phase' = [phase EXCEPT ![c] = "alone"]
        /\ ahead' = [ahead EXCEPT ![c] = Woken] /\ Woken \in SUBSET Components
        /\ status[c] = "none" /\ waiting[c] = {} /\ joined[c] = NoEntry
        /\ data[c] = NoData
    BY DEF IInv, StartAlone, Begin, Goto, coordination, Phases, Woken, Fresh
  <1>1. TypeOK'
    BY <1>0 DEF TypeOK
  <1>2. LeaderOwnsEntry'
    BY <1>0 DEF IInv, TypeOK, LeaderOwnsEntry
  <1>3. Fresh' /\ CompletedHasData' /\ ParkedJoined'
    BY <1>0 DEF IInv, TypeOK, Fresh, CompletedHasData, ParkedJoined
  <1>4. Groups'
    BY <1>0 DEF IInv, TypeOK, Groups
  <1>5. RegistryLive'
    BY <1>0 DEF IInv, TypeOK, RegistryLive, LiveEntry
  <1>6. SuccessorWaits'
    BY <1>0 DEF IInv, TypeOK, SuccessorWaits
  <1>7. AdoptsItsGroup'
    BY <1>0 DEF IInv, TypeOK, AdoptsItsGroup
  <1> QED BY <1>1, <1>2, <1>3, <1>4, <1>5, <1>6, <1>7 DEF IInv

(* A leader takes a key whose entry, if there is one, is completed: the    *)
(* followers of that entry are awake already, and ahead of the leader.     *)
LEMMA StartLeadingStep ==
  ASSUME IInv, NEW c \in Components, NEW k \in Keys, StartLeading(c, k)
  PROVE  IInv'
  <1>0. /\ TypeOK /\ phase[c] = "created" /\ "leading" \in Phases
        /\ UNCHANGED <<waiting, leaderData, joined, data, stopped>>
        /\ registry' = [registry EXCEPT ![k] = c]
        /\ status' = [status EXCEPT ![c] = "loading"]
        /\ key' = [key EXCEPT ![c] = k]
        /\ phase' = [phase EXCEPT ![c] = "leading"]
        /\ ahead' = [ahead EXCEPT ![c] = Woken]
        /\ Woken = {f \in Components : phase[f] = "parked" /\ status[joined[f]] # "loading"}
        /\ status[c] = "none" /\ waiting[c] = {} /\ joined[c] = NoEntry
        /\ data[c] = NoData
        /\ registry[k] # NoEntry => status[registry[k]] # "loading"
        /\ c # NoEntry
    BY ComponentsAssumption
    DEF IInv, StartLeading, Begin, Register, Goto, Phases, Woken, Fresh, InFlight, HasEntry
  <1>1. TypeOK'
    BY <1>0 DEF TypeOK
  <1>2. LeaderOwnsEntry'
    <2>1. ASSUME NEW d \in Components
          PROVE  (phase'[d] \in {"leading", "applying"}) <=> (status'[d] = "loading")
      BY <1>0 DEF IInv, TypeOK, LeaderOwnsEntry
    <2>2. ASSUME NEW d \in Components, status'[d] = "loading"
          PROVE  key'[d] \in Keys /\ registry'[key'[d]] = d
      <3>1. CASE d = c
        BY <3>1, <1>0 DEF TypeOK
      <3>2. CASE d # c
        <4>1. status[d] = "loading" /\ key'[d] = key[d]
          BY <3>2, <2>2, <1>0 DEF TypeOK
        <4>2. key[d] \in Keys /\ registry[key[d]] = d /\ d # NoEntry
          BY <4>1, ComponentsAssumption DEF IInv, LeaderOwnsEntry
        <4>3. key[d] # k
          BY <4>1, <4>2, <1>0
        <4> QED BY <4>1, <4>2, <4>3, <1>0 DEF TypeOK
      <3> QED BY <3>1, <3>2
    <2> QED BY <2>1, <2>2 DEF LeaderOwnsEntry
  <1>3. Fresh' /\ CompletedHasData' /\ ParkedJoined'
    BY <1>0 DEF IInv, TypeOK, Fresh, CompletedHasData, ParkedJoined
  <1>4. Groups'
    BY <1>0 DEF IInv, TypeOK, Groups
  <1>5. RegistryLive'
    BY <1>0 DEF IInv, TypeOK, RegistryLive, LiveEntry
  <1>6. SuccessorWaits'
    BY <1>0 DEF IInv, TypeOK, SuccessorWaits
  <1>7. AdoptsItsGroup'
    BY <1>0 DEF IInv, TypeOK, AdoptsItsGroup
  <1> QED BY <1>1, <1>2, <1>3, <1>4, <1>5, <1>6, <1>7 DEF IInv

LEMMA StartFollowingStep ==
  ASSUME IInv, NEW c \in Components, NEW k \in Keys, StartFollowing(c, k)
  PROVE  IInv'
  <1> DEFINE e == registry[k]
  <1>0. /\ TypeOK /\ phase[c] = "created" /\ "parked" \in Phases
        /\ UNCHANGED <<registry, status, leaderData, data, stopped>>
        /\ e \in Components /\ status[e] = "loading" /\ key[e] = k
        /\ waiting' = [waiting EXCEPT ![e] = waiting[e] \cup {c}]
        /\ joined' = [joined EXCEPT ![c] = e]
        /\ key' = [key EXCEPT ![c] = k]
        /\ phase' = [phase EXCEPT ![c] = "parked"]
        /\ ahead' = [ahead EXCEPT ![c] = Woken] /\ Woken \in SUBSET Components
        /\ status[c] = "none" /\ waiting[c] = {} /\ joined[c] = NoEntry
        /\ data[c] = NoData
        /\ c # e /\ e # NoEntry
    BY ComponentsAssumption
    DEF IInv, TypeOK, StartFollowing, Begin, Goto, Phases, Woken, Fresh, InFlight,
        HasEntry, RegistryLive
  <1>a. registry[k] = e
    OBVIOUS
  <1> HIDE DEF e
  <1>1. TypeOK'
    BY <1>0 DEF TypeOK
  <1>2. LeaderOwnsEntry'
    BY <1>0 DEF IInv, TypeOK, LeaderOwnsEntry
  <1>3. Fresh' /\ CompletedHasData' /\ ParkedJoined'
    <2>1. Fresh'
      <3> SUFFICES ASSUME NEW d \in Components, phase'[d] = "created"
                   PROVE  /\ status'[d] = "none" /\ waiting'[d] = {}
                          /\ joined'[d] = NoEntry /\ data'[d] = NoData
        BY DEF Fresh
      <3>1. d # c /\ phase[d] = "created"
        BY <1>0 DEF TypeOK
      <3>2. d # e
        BY <3>1, <1>0 DEF IInv, Fresh
      <3> QED BY <3>1, <3>2, <1>0 DEF IInv, TypeOK, Fresh
    <2>2. CompletedHasData' /\ ParkedJoined'
      BY <1>0 DEF IInv, TypeOK, CompletedHasData, ParkedJoined
    <2> QED BY <2>1, <2>2
  <1>4. Groups'
    <2>1. ASSUME NEW f \in Components, joined'[f] # NoEntry
          PROVE  key'[joined'[f]] = key'[f] /\ status'[joined'[f]] # "none"
      <3>1. CASE f = c
        BY <3>1, <1>0 DEF TypeOK
      <3>2. CASE f # c
        <4>1. joined'[f] = joined[f] /\ key'[f] = key[f] /\ joined[f] \in Components
          BY <3>2, <2>1, <1>0 DEF TypeOK
        <4>2. key[joined[f]] = key[f] /\ status[joined[f]] # "none"
          BY <4>1, <2>1 DEF IInv, Groups
        <4> QED BY <4>1, <4>2, <1>0 DEF TypeOK
      <3> QED BY <3>1, <3>2
    <2>2. ASSUME NEW g \in Components, NEW f \in waiting'[g]
          PROVE  joined'[f] = g
      <3>1. CASE f = c
        <4>1. c \notin waiting[g]
          BY <1>0, ComponentsAssumption DEF IInv, Groups
        <4> QED BY <4>1, <3>1, <2>2, <1>0 DEF TypeOK
      <3>2. CASE f # c
        <4>1. f \in waiting[g]
          BY <3>2, <2>2, <1>0 DEF TypeOK
        <4> QED BY <4>1, <3>2, <1>0 DEF IInv, TypeOK, Groups
      <3> QED BY <3>1, <3>2
    <2> QED BY <2>1, <2>2 DEF Groups
  <1>5. RegistryLive'
    BY <1>0, <1>a DEF IInv, TypeOK, RegistryLive, LiveEntry
  <1>6. SuccessorWaits'
    BY <1>0, <1>a DEF IInv, TypeOK, SuccessorWaits
  <1>7. AdoptsItsGroup'
    BY <1>0 DEF IInv, TypeOK, AdoptsItsGroup
  <1> QED BY <1>1, <1>2, <1>3, <1>4, <1>5, <1>6, <1>7 DEF IInv

(* What settling its group does for a leader that has returned: it was the *)
(* one under its key, so nobody else's entry is touched.                   *)
LEMMA LeaderFacts ==
  ASSUME IInv, NEW c \in Components, phase[c] \in {"leading", "applying"}
  PROVE  /\ status[c] = "loading" /\ key[c] \in Keys /\ registry[key[c]] = c
         /\ c # NoEntry /\ HasEntry(key[c])
         /\ \A f \in waiting[c] : phase[f] = "parked" /\ joined[f] = c
         /\ \A k \in Keys : registry[k] = c => k = key[c]
  <1>1. status[c] = "loading" /\ key[c] \in Keys /\ registry[key[c]] = c
    BY DEF IInv, LeaderOwnsEntry
  <1>2. c # NoEntry
    BY ComponentsAssumption
  <1> QED BY <1>1, <1>2 DEF IInv, RegistryLive, LiveEntry, Groups, HasEntry

(* The leader serves its group and is done.                                *)
LEMMA ServeGroup ==
  ASSUME IInv, NEW c \in Components, phase[c] \in {"leading", "applying"},
         phase[c] = "leading" => Turn(c),
         Complete(key[c], Loaded(c)), Goto(c, "done"),
         NEW d \in {Loaded(c), data[c]}, data' = [data EXCEPT ![c] = d],
         UNCHANGED <<identity, stopped>>
  PROVE  IInv'
  <1>0. /\ TypeOK /\ "done" \in Phases /\ d \in Data /\ Loaded(c) \in Data
        /\ UNCHANGED <<waiting, key, joined, ahead, stopped>>
        /\ leaderData' = [leaderData EXCEPT ![c] = Loaded(c)]
        /\ status' = [status EXCEPT ![c] = "completed"]
        /\ registry' = IF waiting[c] = {}
                       THEN [registry EXCEPT ![key[c]] = NoEntry] ELSE registry
        /\ phase' = [phase EXCEPT ![c] = "done"]
    BY LeaderFacts, DataFacts DEF IInv, TypeOK, Phases, Complete, Goto, identity
  <1>a. /\ status[c] = "loading" /\ key[c] \in Keys /\ registry[key[c]] = c
        /\ c # NoEntry
        /\ \A f \in waiting[c] : phase[f] = "parked" /\ joined[f] = c
        /\ \A k \in Keys : registry[k] = c => k = key[c]
    BY LeaderFacts
  <1>b. /\ \A k \in Keys : registry'[k] \in {registry[k], NoEntry}
        /\ \A k \in Keys : k # key[c] => registry'[k] = registry[k]
        /\ registry' \in [Keys -> Components \cup {NoEntry}]
        /\ registry'[key[c]] # NoEntry => waiting[c] # {}
    BY <1>0, <1>a DEF TypeOK
  <1>1. TypeOK'
    BY <1>0, <1>b DEF TypeOK
  <1>2. LeaderOwnsEntry'
    <2>1. ASSUME NEW b \in Components
          PROVE  (phase'[b] \in {"leading", "applying"}) <=> (status'[b] = "loading")
      BY <1>0 DEF IInv, TypeOK, LeaderOwnsEntry
    <2>2. ASSUME NEW b \in Components, status'[b] = "loading"
          PROVE  key'[b] \in Keys /\ registry'[key'[b]] = b
      <3>1. b # c /\ status[b] = "loading"
        BY <2>2, <1>0 DEF TypeOK
      <3>2. key[b] \in Keys /\ registry[key[b]] = b
        BY <3>1 DEF IInv, LeaderOwnsEntry
      <3> QED BY <3>1, <3>2, <1>0, <1>a, <1>b
    <2> QED BY <2>1, <2>2 DEF LeaderOwnsEntry
  <1>3. Fresh' /\ CompletedHasData' /\ ParkedJoined'
    BY <1>0 DEF IInv, TypeOK, Fresh, CompletedHasData, ParkedJoined
  <1>4. Groups'
    BY <1>0 DEF IInv, TypeOK, Groups
  <1>5. RegistryLive'
    <2> SUFFICES ASSUME NEW k \in Keys, registry'[k] # NoEntry
                 PROVE  (key[registry[k]] = k /\ LiveEntry(registry[k]))'
      BY DEF RegistryLive
    <2>1. registry'[k] = registry[k] /\ registry[k] \in Components
          /\ key[registry[k]] = k /\ LiveEntry(registry[k])
      BY <1>b, <1>0 DEF IInv, TypeOK, RegistryLive
    <2>2. CASE registry[k] = c
      BY <2>1, <2>2, <1>0, <1>a, <1>b DEF TypeOK, LiveEntry
    <2>3. CASE registry[k] # c
      <3>1. \A f \in waiting[registry[k]] : f # c
        BY <2>1, <1>a DEF LiveEntry, IInv, LeaderOwnsEntry
      <3> QED BY <2>1, <2>3, <3>1, <1>0 DEF TypeOK, LiveEntry
    <2> QED BY <2>2, <2>3
  <1>6. SuccessorWaits'
    <2> SUFFICES ASSUME NEW f \in Components, NEW k \in Keys,
                        phase'[f] = "parked", status'[joined'[f]] = "completed",
                        key'[f] = k, registry'[k] # NoEntry, registry'[k] # joined'[f]
                 PROVE  phase'[registry'[k]] = "leading" /\ f \in ahead'[registry'[k]]
      BY DEF SuccessorWaits
    <2>1. /\ registry'[k] = registry[k] /\ registry[k] \in Components
          /\ f # c /\ phase[f] = "parked" /\ key[f] = k /\ joined[f] \in Components
          /\ joined[f] # NoEntry
      BY <1>b, <1>0 DEF IInv, TypeOK, ParkedJoined
    <2>2. joined[f] # c
      BY <2>1, <1>0, <1>a DEF IInv, Groups
    <2>3. status[joined[f]] = "completed"
      BY <2>1, <2>2, <1>0 DEF TypeOK
    <2>4. phase[registry[k]] = "leading" /\ f \in ahead[registry[k]]
      BY <2>1, <2>3, <1>0 DEF IInv, SuccessorWaits
    <2>5. registry[k] # c
      BY <2>1, <2>3, <2>4 DEF Turn, Woken
    <2> QED BY <2>1, <2>4, <2>5, <1>0 DEF TypeOK
  <1>7. AdoptsItsGroup'
    BY <1>0, <1>a, DataFacts DEF IInv, TypeOK, AdoptsItsGroup
  <1> QED BY <1>1, <1>2, <1>3, <1>4, <1>5, <1>6, <1>7 DEF IInv

(* The leader fails its group: the entry is gone.                          *)
LEMMA FailGroup ==
  ASSUME IInv, NEW c \in Components, phase[c] \in {"leading", "applying"},
         phase[c] = "leading" => Turn(c),
         HandleLeaderError(key[c]), NEW p \in {"done", "erring", "failed"}, Goto(c, p),
         NEW d \in {Loaded(c), data[c]}, data' = [data EXCEPT ![c] = d],
         stopped' \in [Components -> BOOLEAN],
         UNCHANGED identity
  PROVE  IInv'
  <1>0. /\ TypeOK /\ p \in Phases /\ d \in Data
        /\ UNCHANGED <<waiting, leaderData, key, joined, ahead>>
        /\ status' = [status EXCEPT ![c] = "failed"]
        /\ registry' = [registry EXCEPT ![key[c]] = NoEntry]
        /\ phase' = [phase EXCEPT ![c] = p]
    BY LeaderFacts, DataFacts DEF IInv, TypeOK, Phases, HandleLeaderError, Goto, identity
  <1>a. /\ status[c] = "loading" /\ key[c] \in Keys /\ registry[key[c]] = c
        /\ c # NoEntry
        /\ \A k \in Keys : registry[k] = c => k = key[c]
    BY LeaderFacts
  <1>1. TypeOK'
    BY <1>0 DEF TypeOK
  <1>2. LeaderOwnsEntry'
    <2>1. ASSUME NEW b \in Components
          PROVE  (phase'[b] \in {"leading", "applying"}) <=> (status'[b] = "loading")
      BY <1>0 DEF IInv, TypeOK, LeaderOwnsEntry
    <2>2. ASSUME NEW b \in Components, status'[b] = "loading"
          PROVE  key'[b] \in Keys /\ registry'[key'[b]] = b
      <3>1. b # c /\ status[b] = "loading"
        BY <2>2, <1>0 DEF TypeOK
      <3>2. key[b] \in Keys /\ registry[key[b]] = b
        BY <3>1 DEF IInv, LeaderOwnsEntry
      <3> QED BY <3>1, <3>2, <1>0, <1>a DEF TypeOK
    <2> QED BY <2>1, <2>2 DEF LeaderOwnsEntry
  <1>3. Fresh' /\ CompletedHasData' /\ ParkedJoined'
    BY <1>0 DEF IInv, TypeOK, Fresh, CompletedHasData, ParkedJoined
  <1>4. Groups'
    BY <1>0 DEF IInv, TypeOK, Groups
  <1>5. RegistryLive'
    <2> SUFFICES ASSUME NEW k \in Keys, registry'[k] # NoEntry
                 PROVE  (key[registry[k]] = k /\ LiveEntry(registry[k]))'
      BY DEF RegistryLive
    <2>1. k # key[c] /\ registry'[k] = registry[k]
          /\ registry[k] \in Components /\ registry[k] # c
          /\ key[registry[k]] = k /\ LiveEntry(registry[k])
      BY <1>0, <1>a DEF IInv, TypeOK, RegistryLive
    <2> QED BY <2>1, <1>0 DEF TypeOK, LiveEntry
  <1>6. SuccessorWaits'
    <2> SUFFICES ASSUME NEW f \in Components, NEW k \in Keys,
                        phase'[f] = "parked", status'[joined'[f]] = "completed",
                        key'[f] = k, registry'[k] # NoEntry, registry'[k] # joined'[f]
                 PROVE  phase'[registry'[k]] = "leading" /\ f \in ahead'[registry'[k]]
      BY DEF SuccessorWaits
    <2>1. /\ registry'[k] = registry[k] /\ registry[k] \in Components
          /\ registry[k] # c /\ k # key[c]
          /\ f # c /\ phase[f] = "parked" /\ key[f] = k /\ joined[f] \in Components
      BY <1>0, <1>a DEF IInv, TypeOK, ParkedJoined
    <2>2. status[joined[f]] = "completed"
      BY <2>1, <1>0 DEF TypeOK
    <2>3. phase[registry[k]] = "leading" /\ f \in ahead[registry[k]]
      BY <2>1, <2>2, <1>0 DEF IInv, SuccessorWaits
    <2> QED BY <2>1, <2>3, <1>0 DEF TypeOK
  <1>7. AdoptsItsGroup'
    BY <1>0, <1>a, DataFacts DEF IInv, TypeOK, AdoptsItsGroup
  <1> QED BY <1>1, <1>2, <1>3, <1>4, <1>5, <1>6, <1>7 DEF IInv

-----------------------------------------------------------------------------
(* A follower collects from the entry it joined or from nobody: it leaves  *)
(* no entry behind that nobody will free.                                  *)
LEMMA FollowerWakesStep ==
  ASSUME IInv, NEW c \in Components, FollowerWakes(c)
  PROVE  IInv'
  <1> DEFINE k == key[c]
             e == registry[k]
  <1>0. /\ TypeOK /\ phase[c] = "parked" /\ status[joined[c]] = "completed"
        /\ Collect(c, k)
        /\ UNCHANGED <<key, joined, ahead, stopped>>
        /\ joined[c] \in Components /\ joined[c] # NoEntry
    BY DEF IInv, TypeOK, FollowerWakes, identity, ParkedJoined
  <1>a. PICK p \in {"done", "finishing", "alone"} : phase' = [phase EXCEPT ![c] = p]
    BY DEF FollowerWakes, Goto
  <1>b. /\ UNCHANGED <<status, leaderData>>
        /\ \/ UNCHANGED <<registry, waiting>> /\ LeaderData(k) = NoData
           \/ /\ k \in Keys /\ e # NoEntry /\ status[e] = "completed"
              /\ waiting' = [waiting EXCEPT ![e] = waiting[e] \ {c}]
              /\ registry' = IF waiting[e] \ {c} = {}
                             THEN [registry EXCEPT ![k] = NoEntry] ELSE registry
    BY <1>0 DEF Collect, LeaderData, HasEntry, coordination
  <1>c. /\ registry' \in [Keys -> Components \cup {NoEntry}]
        /\ waiting' \in [Components -> SUBSET Components]
        /\ \A j \in Keys : registry'[j] \in {registry[j], NoEntry}
        /\ \A j \in Keys : registry'[j] # registry[j] => status[registry[j]] = "completed"
        /\ \A g \in Components : waiting'[g] \subseteq waiting[g]
    <2>1. CASE UNCHANGED <<registry, waiting>>
      BY <2>1, <1>0 DEF TypeOK
    <2>2. CASE ~ UNCHANGED <<registry, waiting>>
      <3>1. e \in Components /\ k \in Keys /\ status[e] = "completed"
        BY <2>2, <1>0, <1>b DEF TypeOK
      <3> HIDE DEF k, e
      <3>2. e = registry[k]
        BY DEF e
      <3>3. /\ waiting' = [waiting EXCEPT ![e] = waiting[e] \ {c}]
            /\ registry' = IF waiting[e] \ {c} = {}
                           THEN [registry EXCEPT ![k] = NoEntry] ELSE registry
        BY <2>2, <1>b
      <3> QED BY <3>1, <3>2, <3>3, <1>0 DEF TypeOK
    <2> QED BY <2>1, <2>2
  (* what it adopts, it adopts from the entry it joined *)
  <1>d. LeaderData(k) # NoData => e = joined[c] /\ LeaderData(k) = Loaded(e)
    <2> SUFFICES ASSUME LeaderData(k) # NoData
                 PROVE  e = joined[c] /\ LeaderData(k) = Loaded(e)
      OBVIOUS
    <2>1. k \in Keys /\ e # NoEntry /\ status[e] = "completed" /\ LeaderData(k) = leaderData[e]
      BY DEF LeaderData, HasEntry
    <2>2. e \in Components
      BY <2>1, <1>0 DEF TypeOK
    <2>3. phase[e] # "leading"
      BY <2>1, <2>2 DEF IInv, LeaderOwnsEntry
    <2> QED BY <2>1, <2>2, <2>3, <1>0 DEF IInv, SuccessorWaits, CompletedHasData
  <1>e. PICK d \in Data : /\ data' = [data EXCEPT ![c] = d]
                          /\ d = data[c] \/ (LeaderData(k) # NoData /\ d = LeaderData(k))
    <2>1. CASE UNCHANGED data
      BY <2>1, <1>0 DEF TypeOK
    <2>2. CASE LeaderData(k) # NoData /\ Assign(c, LeaderData(k))
      <3>1. LeaderData(k) \in Data
        BY <2>2, <1>d, <1>0, DataFacts
      <3> QED BY <2>2, <3>1 DEF Assign
    <2> QED BY <2>1, <2>2 DEF FollowerWakes
  <1>f. k = key[c] /\ e = registry[k]
    OBVIOUS
  <1> HIDE DEF k, e
  <1>1. TypeOK'
    BY <1>0, <1>a, <1>b, <1>c, <1>e DEF TypeOK, Phases
  <1>2. LeaderOwnsEntry'
    <2>1. ASSUME NEW b \in Components
          PROVE  (phase'[b] \in {"leading", "applying"}) <=> (status'[b] = "loading")
      BY <1>0, <1>a, <1>b DEF IInv, TypeOK, LeaderOwnsEntry
    <2>2. ASSUME NEW b \in Components, status'[b] = "loading"
          PROVE  key'[b] \in Keys /\ registry'[key'[b]] = b
      <3>1. key[b] \in Keys /\ registry[key[b]] = b /\ status[b] = "loading"
        BY <2>2, <1>b DEF IInv, LeaderOwnsEntry
      <3> QED BY <3>1, <1>0, <1>c
    <2> QED BY <2>1, <2>2 DEF LeaderOwnsEntry
  <1>3. Fresh' /\ CompletedHasData' /\ ParkedJoined'
    <2>1. Fresh'
      BY <1>0, <1>a, <1>b, <1>c, <1>e DEF IInv, TypeOK, Fresh
    <2>2. CompletedHasData' /\ ParkedJoined'
      BY <1>0, <1>a, <1>b DEF IInv, TypeOK, CompletedHasData, ParkedJoined
    <2> QED BY <2>1, <2>2
  <1>4. Groups'
    BY <1>0, <1>b, <1>c DEF IInv, TypeOK, Groups
  <1>5. RegistryLive'
    <2> SUFFICES ASSUME NEW j \in Keys, registry'[j] # NoEntry
                 PROVE  (key[registry[j]] = j /\ LiveEntry(registry[j]))'
      BY DEF RegistryLive
    <2> DEFINE g == registry[j]
    <2>1. /\ registry'[j] = g /\ g \in Components /\ g # NoEntry
          /\ key[g] = j /\ LiveEntry(g)
      BY <1>c, <1>0 DEF IInv, TypeOK, RegistryLive
    <2>2. g = registry[j]
      OBVIOUS
    <2> HIDE DEF g
    <2>3. status'[g] \in {"loading", "completed"} /\ key'[g] = j
      BY <2>1, <1>0, <1>b DEF LiveEntry
    <2>4. c \in waiting[g] => g = joined[c] /\ g = e /\ j = k
      <3> HAVE c \in waiting[g]
      <3>1. g = joined[c] /\ key[c] = j
        BY <2>1, <1>0 DEF IInv, Groups
      <3> QED BY <3>1, <2>2, <1>f
    <2>5. c \notin waiting'[g]
      <3> SUFFICES ASSUME c \in waiting'[g] PROVE FALSE
        OBVIOUS
      <3>1. c \in waiting[g] /\ g = joined[c] /\ g = e /\ j = k
        BY <2>1, <2>4, <1>c
      <3>2. LeaderData(k) = Loaded(e)
        BY <3>1, <2>1, <1>0, <1>f DEF IInv, CompletedHasData, LeaderData, HasEntry
      <3>3. waiting' = [waiting EXCEPT ![e] = waiting[e] \ {c}]
        BY <3>1, <3>2, <2>1, <1>b, DataFacts
      <3> QED BY <3>1, <3>3, <2>1, <1>0 DEF TypeOK
    <2>6. \A f \in waiting'[g] : phase'[f] = "parked"
      BY <2>1, <2>5, <1>0, <1>a, <1>c DEF TypeOK, LiveEntry
    <2>7. status'[g] = "completed" => waiting'[g] # {}
      <3> SUFFICES ASSUME status[g] = "completed" PROVE waiting'[g] # {}
        BY <1>b
      <3>1. waiting[g] # {}
        BY <2>1 DEF LiveEntry
      <3>2. CASE UNCHANGED waiting
        BY <3>1, <3>2
      <3>3. CASE /\ k \in Keys /\ e # NoEntry
                 /\ waiting' = [waiting EXCEPT ![e] = waiting[e] \ {c}]
                 /\ registry' = IF waiting[e] \ {c} = {}
                                THEN [registry EXCEPT ![k] = NoEntry] ELSE registry
        <4>1. CASE g = e
          <5>1. e \in Components /\ key[e] = k
            BY <3>3, <4>1, <2>1, <1>0, <1>f DEF IInv, RegistryLive
          <5>2. j = k
            BY <5>1, <4>1, <2>1
          <5>3. waiting[e] \ {c} # {}
            BY <5>2, <3>3, <4>1, <2>1, <1>0 DEF TypeOK
          <5> QED BY <5>1, <5>3, <4>1, <3>3, <1>0 DEF TypeOK
        <4>2. CASE g # e
          BY <4>2, <3>1, <3>3, <2>1, <1>0 DEF TypeOK
        <4> QED BY <4>1, <4>2
      <3> QED BY <3>2, <3>3, <1>b
    <2> QED BY <2>1, <2>3, <2>6, <2>7 DEF LiveEntry
  <1>6. SuccessorWaits'
    <2> SUFFICES ASSUME NEW f \in Components, NEW j \in Keys,
                        phase'[f] = "parked", status'[joined'[f]] = "completed",
                        key'[f] = j, registry'[j] # NoEntry, registry'[j] # joined'[f]
                 PROVE  phase'[registry'[j]] = "leading" /\ f \in ahead'[registry'[j]]
      BY DEF SuccessorWaits
    <2>1. /\ registry'[j] = registry[j] /\ registry[j] \in Components
          /\ f # c /\ phase[f] = "parked" /\ key[f] = j
      BY <1>c, <1>0, <1>a DEF TypeOK
    <2>2. phase[registry[j]] = "leading" /\ f \in ahead[registry[j]]
      BY <2>1, <1>0, <1>b DEF IInv, SuccessorWaits
    <2>3. registry[j] # c
      BY <2>2, <1>0
    <2> QED BY <2>1, <2>2, <2>3, <1>0, <1>a DEF TypeOK
  <1>7. AdoptsItsGroup'
    <2> SUFFICES ASSUME NEW b \in Components, data'[b] # NoData, data'[b].by # b
                 PROVE  /\ data'[b] = Loaded(joined'[b])
                        /\ status'[joined'[b]] = "completed" /\ key'[joined'[b]] = key'[b]
      BY DEF AdoptsItsGroup, Loaded
    <2>1. CASE b = c /\ LeaderData(k) # NoData /\ data'[b] = LeaderData(k)
      <3>1. data'[c] = Loaded(joined[c])
        BY <2>1, <1>d
      <3>2. key[joined[c]] = key[c]
        BY <1>0 DEF IInv, Groups
      <3> QED BY <2>1, <3>1, <3>2, <1>0, <1>b
    <2>2. CASE data'[b] = data[b]
      BY <2>2, <1>0, <1>b DEF IInv, AdoptsItsGroup
    <2>3. b # c => data'[b] = data[b]
      BY <1>0, <1>e DEF TypeOK
    <2>4. b = c => data'[b] = data[b] \/ (LeaderData(k) # NoData /\ data'[b] = LeaderData(k))
      BY <1>0, <1>e DEF TypeOK
    <2> QED BY <2>1, <2>2, <2>3, <2>4
  <1> QED BY <1>1, <1>2, <1>3, <1>4, <1>5, <1>6, <1>7 DEF IInv

(* A follower of a failed group: its entry is out of the registry.         *)
LEMMA FollowerFailsStep ==
  ASSUME IInv, NEW c \in Components, FollowerFails(c)
  PROVE  IInv'
  <1>0. /\ TypeOK /\ phase[c] = "parked" /\ status[joined[c]] = "failed"
        /\ UNCHANGED <<registry, status, waiting, leaderData, key, joined, ahead,
                      data, stopped>>
        /\ phase' = [phase EXCEPT ![c] = "erring"] /\ "erring" \in Phases
    BY DEF IInv, FollowerFails, coordination, identity, Goto, Phases
  <1>1. TypeOK'
    BY <1>0 DEF TypeOK
  <1>2. LeaderOwnsEntry'
    BY <1>0 DEF IInv, TypeOK, LeaderOwnsEntry
  <1>3. Fresh' /\ Groups' /\ CompletedHasData' /\ ParkedJoined'
    BY <1>0 DEF IInv, TypeOK, Fresh, Groups, CompletedHasData, ParkedJoined
  <1>4. RegistryLive'
    BY <1>0 DEF IInv, TypeOK, RegistryLive, LiveEntry, Groups
  <1>5. SuccessorWaits'
    BY <1>0, ComponentsAssumption DEF IInv, TypeOK, SuccessorWaits
  <1>6. AdoptsItsGroup'
    BY <1>0 DEF IInv, TypeOK, AdoptsItsGroup
  <1> QED BY <1>1, <1>2, <1>3, <1>4, <1>5, <1>6 DEF IInv

(* The leader goes on to apply its result: nobody it overtook still has to *)
(* wake.                                                                   *)
LEMMA LeaderReturnsStep ==
  ASSUME IInv, NEW c \in Components, LeaderReturns(c)
  PROVE  IInv'
  <1>0. /\ TypeOK /\ phase[c] = "leading" /\ ahead[c] \cap Woken = {}
        /\ UNCHANGED <<registry, status, waiting, leaderData, key, joined, ahead,
                      data, stopped>>
        /\ phase' = [phase EXCEPT ![c] = "applying"] /\ "applying" \in Phases
    BY DEF IInv, LeaderReturns, Turn, coordination, identity, Goto, Phases
  <1>1. TypeOK'
    BY <1>0 DEF TypeOK
  <1>2. LeaderOwnsEntry'
    BY <1>0 DEF IInv, TypeOK, LeaderOwnsEntry
  <1>3. Fresh' /\ Groups' /\ CompletedHasData' /\ ParkedJoined'
    BY <1>0 DEF IInv, TypeOK, Fresh, Groups, CompletedHasData, ParkedJoined
  <1>4. RegistryLive'
    BY <1>0 DEF IInv, TypeOK, RegistryLive, LiveEntry
  <1>5. SuccessorWaits'
    BY <1>0 DEF IInv, TypeOK, SuccessorWaits, Woken
  <1>6. AdoptsItsGroup'
    BY <1>0 DEF IInv, TypeOK, AdoptsItsGroup
  <1> QED BY <1>1, <1>2, <1>3, <1>4, <1>5, <1>6 DEF IInv

LEMMA StopOrStutter ==
  ASSUME IInv, stopped' \in [Components -> BOOLEAN],
         UNCHANGED <<coordination, identity, data, phase>>
  PROVE  IInv'
  BY DEF IInv, coordination, identity, TypeOK, LeaderOwnsEntry, Fresh, Groups,
         CompletedHasData, RegistryLive, LiveEntry, SuccessorWaits, ParkedJoined,
         AdoptsItsGroup

-----------------------------------------------------------------------------
LEMMA StartStep ==
  ASSUME IInv, NEW c \in Components, Start(c)
  PROVE  IInv'
  BY StartAloneStep, StartLeadingStep, StartFollowingStep DEF Start

LEMMA LeaderStepHolds ==
  ASSUME IInv, NEW c \in Components, LeaderStep(c)
  PROVE  IInv'
  <1>t. data = [data EXCEPT ![c] = data[c]] /\ stopped \in [Components -> BOOLEAN]
        /\ [stopped EXCEPT ![c] = TRUE] \in [Components -> BOOLEAN]
    BY DEF IInv, TypeOK
  <1>1. CASE StoppedLeaderReturns(c)
    <2>1. CASE Complete(key[c], Loaded(c))
      BY <1>1, <1>t, <2>1, ServeGroup DEF StoppedLeaderReturns
    <2>2. CASE HandleLeaderError(key[c])
      BY <1>1, <1>t, <2>2, FailGroup DEF StoppedLeaderReturns
    <2> QED BY <1>1, <2>1, <2>2 DEF StoppedLeaderReturns
  <1>2. CASE LeaderReturns(c)
    BY <1>2, LeaderReturnsStep
  <1>3. CASE LeaderThrows(c)
    BY <1>3, <1>t, FailGroup DEF LeaderThrows
  <1>4. CASE LeaderApplies(c)
    BY <1>4, <1>t, ServeGroup DEF LeaderApplies, Assign
  <1>5. CASE LeaderApplyFails(c)
    BY <1>5, <1>t, FailGroup DEF LeaderApplyFails, Assign, Fail
  <1> QED BY <1>1, <1>2, <1>3, <1>4, <1>5 DEF LeaderStep

LEMMA OwnStepHolds ==
  ASSUME IInv, NEW c \in Components, OwnStep(c)
  PROVE  IInv'
  <1>t. data = [data EXCEPT ![c] = data[c]] /\ stopped \in [Components -> BOOLEAN]
        /\ [stopped EXCEPT ![c] = TRUE] \in [Components -> BOOLEAN]
    BY DEF IInv, TypeOK
  <1>1. CASE AloneReturns(c)
    BY <1>1, <1>t, OwnMove DEF AloneReturns, Assign
  <1>2. CASE AloneThrows(c)
    BY <1>2, <1>t, OwnMove DEF AloneThrows
  <1>3. CASE NotRecovered(c)
    BY <1>3, <1>t, OwnMove DEF NotRecovered, Fail
  <1>4. CASE Recovers(c)
    BY <1>4, <1>t, OwnMove DEF Recovers, Assign
  <1>5. CASE Finishes(c)
    BY <1>5, <1>t, OwnMove DEF Finishes
  <1>6. CASE FinishFails(c)
    BY <1>6, <1>t, OwnMove DEF FinishFails, Fail
  <1> QED BY <1>1, <1>2, <1>3, <1>4, <1>5, <1>6 DEF OwnStep

LEMMA NextHolds ==
  ASSUME IInv, [Next]_vars
  PROVE  IInv'
  <1>1. CASE UNCHANGED vars
    <2>1. stopped' \in [Components -> BOOLEAN]
      BY <1>1 DEF IInv, TypeOK, vars
    <2> QED BY <1>1, <2>1, StopOrStutter DEF vars, coordination, identity
  <1>2. ASSUME NEW c \in Components, Stop(c)
        PROVE  IInv'
    <2>1. stopped' \in [Components -> BOOLEAN]
      BY <1>2 DEF IInv, TypeOK, Stop
    <2> QED BY <1>2, <2>1, StopOrStutter DEF Stop
  <1>3. ASSUME NEW c \in Components, FollowerStep(c)
        PROVE  IInv'
    BY <1>3, FollowerFailsStep, FollowerWakesStep DEF FollowerStep
  <1> QED
    BY <1>1, <1>2, <1>3, StartStep, LeaderStepHolds, OwnStepHolds DEF Next

(* The inductive invariant holds in every reachable state.                 *)
THEOREM Invariance == Spec => []IInv
  BY InitHolds, NextHolds, PTL DEF Spec

(* Every variable keeps its type.                                          *)
THEOREM TypeCorrect == Spec => []TypeOK
  BY Invariance, PTL DEF IInv

(* A load that has an entry to settle finds its own entry under its key,   *)
(* so a key never has two coordinated on_load() calls in flight.           *)
(* (load-coordinator.ts:283-403)                                           *)
THEOREM OneLeaderPerKey == Spec => []LeaderOwnsEntry
  BY Invariance, PTL DEF IInv

(* Every entry in the registry has somebody who will come back to free it. *)
(* (load-coordinator.ts:310-314)                                           *)
THEOREM RegistryDoesNotLeak == Spec => []NoEntryLeaks
  <1>1. IInv => NoEntryLeaks
    <2> SUFFICES ASSUME IInv, NEW k \in Keys, registry[k] # NoEntry
                 PROVE  \/ status[registry[k]] = "loading"
                        \/ /\ status[registry[k]] = "completed"
                           /\ \E f \in waiting[registry[k]] : phase[f] = "parked" /\ key[f] = k
      BY DEF NoEntryLeaks
    <2>1. /\ registry[k] \in Components /\ registry[k] # NoEntry
          /\ waiting[registry[k]] \subseteq Components
          /\ key[registry[k]] = k /\ LiveEntry(registry[k])
      BY DEF IInv, TypeOK, RegistryLive
    <2>2. \A f \in waiting[registry[k]] : key[f] = k
      BY <2>1 DEF IInv, Groups
    <2> QED BY <2>1, <2>2 DEF LiveEntry
  <1> QED BY <1>1, Invariance, PTL

(* Data that is not a component's own comes from the successful load of    *)
(* the group it joined, whoever took over the key meanwhile.               *)
(* (load-coordinator.ts:347-387)                                           *)
THEOREM FollowersAdoptTheirGroup == Spec => []AdoptsItsGroup
  BY Invariance, PTL DEF IInv

(* A component stopped while a load is in flight takes nothing from it.    *)
(* (component.ts:1565, 1612-1625)                                          *)
THEOREM StoppedIsLeftAlone == Spec => StoppedTakesNothing
  <1> DEFINE Kept(c) ==
        stopped[c] /\ phase[c] \in {"leading", "parked", "alone", "erring"}
          => data'[c] = data[c]
  <1>1. ASSUME TypeOK, [Next]_vars, NEW c \in Components
        PROVE  Kept(c)
    <2>1. CASE UNCHANGED data
      BY <2>1
    <2>2. ASSUME NEW b \in Components,
                 Start(b) \/ LeaderStep(b) \/ FollowerStep(b) \/ OwnStep(b) \/ Stop(b),
                 ~ UNCHANGED data
          PROVE  /\ phase[b] = "applying" \/ ~ stopped[b]
                 /\ \E d \in Data \cup {LeaderData(key[b])} : data' = [data EXCEPT ![b] = d]
      BY <2>2, <1>1, DataFacts
      DEF TypeOK, Start, StartAlone, StartLeading, StartFollowing, Begin,
          LeaderStep, StoppedLeaderReturns, LeaderReturns, LeaderThrows, LeaderApplies,
          LeaderApplyFails, FollowerStep, FollowerFails, FollowerWakes, OwnStep,
          AloneReturns, AloneThrows, NotRecovered, Recovers, Finishes, FinishFails,
          Stop, Assign
    <2>3. CASE UNCHANGED vars
      BY <2>3 DEF vars
    <2>4. CASE Next /\ ~ UNCHANGED data
      <3>1. PICK b \in Components :
              Start(b) \/ LeaderStep(b) \/ FollowerStep(b) \/ OwnStep(b) \/ Stop(b)
        BY <2>4 DEF Next
      <3>2. phase[b] = "applying" \/ ~ stopped[b]
        BY <2>2, <2>4, <3>1
      <3>3. c # b => data'[c] = data[c]
        BY <2>2, <2>4, <3>1, <1>1 DEF TypeOK
      <3> QED BY <3>2, <3>3
    <2> QED BY <2>1, <2>3, <2>4, <1>1
  <1>2. TypeOK /\ [Next]_vars => [\A c \in Components : Kept(c)]_vars
    BY <1>1
  <1> QED BY <1>2, TypeCorrect, PTL DEF Spec, StoppedTakesNothing
=============================================================================
