------------------------- MODULE CachedLoads_proofs -------------------------
(***************************************************************************)
(* The cache and the components that use it, for any tabs, components,     *)
(* args and quota: the storage stays within the quota and loses only what  *)
(* there is a reason to lose, a call that has ended leaves its data on     *)
(* screen, and an entry is what was loaded for its key.                    *)
(*                                                                         *)
(* SInv is about storage, tabs and what each component has on screen at    *)
(* each stage of its call; TInv, which needs it, about what data was       *)
(* loaded for.                                                             *)
(***************************************************************************)
EXTENDS CachedLoads, Sequences, FiniteSetTheorems, TLAPS

Ids == {"data", "html"} \X Keys \X Scopes
Stored == [text : Texts \ Oversized, of : Sources]
Brought == [text : Texts, of : Sources]

Items == UNION {[I -> Stored] : I \in SUBSET Ids}
Disk(d) ==
  /\ d \in [items : Items, marker : Scopes \cup {NoScope}, foreign : Nat]
  /\ IsFiniteSet(DOMAIN d.items) /\ Used(d) <= Capacity

(* A marker and a tab's scope are scopes that were set.                    *)
DiskOK == Disk(disk) /\ disk.marker \in used \cup {NoScope}

TabState ==
  [scope : used \cup {NoScope}, mode : {"data", "html"},
   available : {"unknown", "yes", "no"}, ready : BOOLEAN]

TabsOK ==
  /\ used \subseteq Scopes /\ IsFiniteSet(used)
  /\ tab \in [Tabs -> TabState]
  /\ \A t \in Tabs : tab[t].ready => tab[t].scope # NoScope /\ tab[t].available = "yes"

Pages == UNION {[K -> Brought] : K \in SUBSET Keys}
PagesOK == preload \in [Tabs -> Pages] /\ events \in 0..MaxEvents

-----------------------------------------------------------------------------
(* The storage *)
LEMMA CardinalityOfItems ==
  ASSUME NEW S, IsFiniteSet(S)
  PROVE  /\ Cardinality(S) \in Nat
         /\ \A x : /\ IsFiniteSet(S \cup {x})
                   /\ Cardinality(S \cup {x}) = IF x \in S THEN Cardinality(S)
                                                ELSE Cardinality(S) + 1
         /\ \A T \in SUBSET S : IsFiniteSet(T) /\ Cardinality(T) \in Nat
                                /\ Cardinality(T) <= Cardinality(S)
  <1>1. Cardinality(S) \in Nat
    BY FS_CardinalityType
  <1>2. \A x : /\ IsFiniteSet(S \cup {x})
               /\ Cardinality(S \cup {x}) = IF x \in S THEN Cardinality(S)
                                            ELSE Cardinality(S) + 1
    BY FS_AddElement
  <1>3. \A T \in SUBSET S : IsFiniteSet(T) /\ Cardinality(T) \in Nat
                            /\ Cardinality(T) <= Cardinality(S)
    BY FS_Subset, FS_CardinalityType
  <1> QED BY <1>1, <1>2, <1>3

LEMMA ItemsAre ==
  ASSUME NEW f
  PROVE  f \in Items <=> f \in [DOMAIN f -> Stored] /\ DOMAIN f \subseteq Ids
  BY DEF Items

LEMMA NoItems == DOMAIN <<>> = {} /\ <<>> \in Items
  <1>1. <<>> \in Seq(Stored) /\ Len(<<>>) = 0 /\ DOMAIN <<>> = {}
    OBVIOUS
  <1>2. <<>> \in [{} -> Stored]
    BY <1>1
  <1> QED BY <1>1, <1>2 DEF Items

LEMMA WithoutKeepsDisk ==
  ASSUME NEW d, Disk(d), NEW S
  PROVE  /\ Disk(Without(d, S)) /\ Without(d, S).marker = d.marker
         /\ DOMAIN Without(d, S).items = DOMAIN d.items \ S
         /\ \A id \in DOMAIN d.items \ S : Without(d, S).items[id] = d.items[id]
         /\ Used(Without(d, S)) <= Used(d)
  <1> DEFINE f == Restrict(d.items, DOMAIN d.items \ S)
             e == Without(d, S)
  <1>2. /\ DOMAIN f = DOMAIN d.items \ S
        /\ \A id \in DOMAIN f : f[id] = d.items[id]
        /\ f \in Items
    <2>1. d.items \in [DOMAIN d.items -> Stored] /\ DOMAIN d.items \subseteq Ids
      BY ItemsAre DEF Disk
    <2>2. /\ DOMAIN f = DOMAIN d.items \ S
          /\ \A id \in DOMAIN f : f[id] = d.items[id]
          /\ f \in [DOMAIN f -> Stored] /\ DOMAIN f \subseteq Ids
      BY <2>1 DEF Restrict
    <2> HIDE DEF f
    <2> QED BY <2>2, ItemsAre
  <1>3. /\ IsFiniteSet(DOMAIN f) /\ Cardinality(DOMAIN f) \in Nat
        /\ Cardinality(DOMAIN d.items) \in Nat
        /\ Cardinality(DOMAIN f) <= Cardinality(DOMAIN d.items)
    <2>1. DOMAIN f \in SUBSET DOMAIN d.items
      BY <1>2
    <2> HIDE DEF f
    <2> QED BY <2>1, CardinalityOfItems DEF Disk
  <1>1. e = [d EXCEPT !.items = f]
    BY DEF Without
  <1> HIDE DEF f, e
  <1>4. /\ e \in [items : Items, marker : Scopes \cup {NoScope}, foreign : Nat]
        /\ e.items = f /\ e.marker = d.marker /\ e.foreign = d.foreign
    BY <1>1, <1>2 DEF Disk
  <1>5. Used(e) <= Used(d)
    BY <1>3, <1>4 DEF Used, Disk
  <1>6. Used(e) \in Nat /\ Used(d) \in Nat /\ Used(e) <= Capacity
    BY <1>3, <1>4, <1>5, StorageAssumption DEF Used, Disk
  <1>7. Disk(e)
    BY <1>3, <1>4, <1>6 DEF Disk
  <1> QED BY <1>2, <1>4, <1>5, <1>7 DEF e

LEMMA ClearedKeepsDisk ==
  ASSUME NEW d, Disk(d)
  PROVE  /\ Disk(Cleared(d)) /\ Cleared(d).marker = d.marker
         /\ DOMAIN Cleared(d).items = {} /\ Used(Cleared(d)) <= Used(d)
  BY WithoutKeepsDisk DEF Cleared

LEMMA StampedKeepsDisk ==
  ASSUME NEW d, Disk(d), MarkerFits(d), NEW s \in Scopes
  PROVE  /\ Disk(Stamped(d, s)) /\ Stamped(d, s).marker = s
         /\ Stamped(d, s).items = d.items
  <1> DEFINE e == Stamped(d, s)
  <1>1. /\ e \in [items : Items, marker : Scopes \cup {NoScope}, foreign : Nat]
        /\ e.items = d.items /\ e.marker = s /\ e.foreign = d.foreign
    BY DEF Stamped, Disk
  <1> HIDE DEF e
  <1>2. Cardinality(DOMAIN d.items) \in Nat /\ d.foreign \in Nat
    BY CardinalityOfItems DEF Disk
  <1>3. Used(e) <= Capacity
    BY <1>1, <1>2, StorageAssumption DEF Used, MarkerFits, Full, Disk
  <1>4. Disk(e)
    BY <1>1, <1>3 DEF Disk
  <1> QED BY <1>1, <1>4 DEF e

LEMMA WithKeepsDisk ==
  ASSUME NEW d, Disk(d), NEW id \in Ids, Fits(d, id), NEW value \in Stored
  PROVE  /\ Disk(With(d, id, value)) /\ With(d, id, value).marker = d.marker
         /\ DOMAIN With(d, id, value).items = DOMAIN d.items \cup {id}
         /\ With(d, id, value).items[id] = value
         /\ \A x \in DOMAIN d.items : x # id => With(d, id, value).items[x] = d.items[x]
  <1> DEFINE f == [x \in DOMAIN d.items \cup {id} |-> IF x = id THEN value ELSE d.items[x]]
             e == With(d, id, value)
  <1>1. e = [d EXCEPT !.items = f]
    BY DEF With
  <1>2. /\ DOMAIN f = DOMAIN d.items \cup {id} /\ f[id] = value
        /\ \A x \in DOMAIN d.items : x # id => f[x] = d.items[x]
        /\ f \in Items
    <2>1. d.items \in [DOMAIN d.items -> Stored] /\ DOMAIN d.items \subseteq Ids
      BY ItemsAre DEF Disk
    <2>2. /\ DOMAIN f = DOMAIN d.items \cup {id} /\ f[id] = value
          /\ \A x \in DOMAIN d.items : x # id => f[x] = d.items[x]
          /\ f \in [DOMAIN f -> Stored] /\ DOMAIN f \subseteq Ids
      BY <2>1
    <2> HIDE DEF f
    <2> QED BY <2>2, ItemsAre
  <1>3. /\ IsFiniteSet(DOMAIN f) /\ Cardinality(DOMAIN f) \in Nat
        /\ Cardinality(DOMAIN d.items) \in Nat
        /\ Cardinality(DOMAIN f) = IF id \in DOMAIN d.items THEN Cardinality(DOMAIN d.items)
                                   ELSE Cardinality(DOMAIN d.items) + 1
    <2>1. DOMAIN f = DOMAIN d.items \cup {id}
      OBVIOUS
    <2> HIDE DEF f
    <2>2. IsFiniteSet(DOMAIN d.items)
      BY DEF Disk
    <2>3. /\ IsFiniteSet(DOMAIN f) /\ Cardinality(DOMAIN d.items) \in Nat
          /\ Cardinality(DOMAIN f) = IF id \in DOMAIN d.items THEN Cardinality(DOMAIN d.items)
                                     ELSE Cardinality(DOMAIN d.items) + 1
      BY <2>1, <2>2, CardinalityOfItems
    <2> QED BY <2>3
  <1> HIDE DEF f, e
  <1>4. /\ e \in [items : Items, marker : Scopes \cup {NoScope}, foreign : Nat]
        /\ e.items = f /\ e.marker = d.marker /\ e.foreign = d.foreign
    BY <1>1, <1>2 DEF Disk
  <1>5. Used(e) <= Capacity
    BY <1>3, <1>4, StorageAssumption DEF Used, Fits, Full, Disk
  <1>6. Disk(e)
    BY <1>3, <1>4, <1>5 DEF Disk
  <1> QED BY <1>2, <1>4, <1>6 DEF e

(* A write that does not throw: the entry is there or the others are as    *)
(* before, and with room left no other entry is lost.                      *)
LEMMA WrittenKeepsDisk ==
  ASSUME NEW d, Disk(d), NEW t, t.ready => t.scope \in Scopes,
         NEW kind \in {"data", "html"}, NEW key \in Keys, NEW value \in Brought,
         ~ WriteThrows(t, d, kind, key, value)
  PROVE  LET e == Written(t, d, kind, key, value)
             id == Entry(t, kind, key)
         IN  /\ Disk(e) /\ (e.marker = d.marker \/ (t.ready /\ e.marker = t.scope))
             /\ \A x \in DOMAIN e.items : \/ x \in DOMAIN d.items /\ e.items[x] = d.items[x]
                                          \/ x = id /\ e.items[x] = value
             /\ ~ Full(d) => DOMAIN d.items \ DOMAIN e.items \subseteq {id}
  <1> DEFINE e == Written(t, d, kind, key, value)
             id == Entry(t, kind, key)
             room == Stamped(Cleared(d), t.scope)
  <1>1. t.ready => id \in Ids
    BY DEF Entry, Ids
  <1>2. CASE ~ t.ready
    <2>1. e = d
      BY <1>2 DEF Written
    <2> QED BY <2>1
  <1>3. CASE t.ready /\ value.text \in Oversized
    <2>1. e = Without(d, {id})
      BY <1>3 DEF Written
    <2> HIDE DEF e, id
    <2> QED BY <2>1, WithoutKeepsDisk DEF e, id
  <1>4. ASSUME t.ready, value.text \notin Oversized
        PROVE  value \in Stored
    BY <1>4 DEF Brought, Stored
  <1>5. CASE t.ready /\ value.text \notin Oversized /\ Fits(d, id)
    <2>1. e = With(d, id, value)
      BY <1>5 DEF Written
    <2> HIDE DEF e, id
    <2> QED BY <1>1, <1>4, <1>5, <2>1, WithKeepsDisk DEF e, id
  <1>6. CASE t.ready /\ value.text \notin Oversized /\ ~ Fits(d, id)
    <2>1. e = IF Fits(room, id) THEN With(room, id, value) ELSE room
      BY <1>6 DEF Written
    <2>2. MarkerFits(Cleared(d))
      BY <1>6 DEF WriteThrows
    <2>3. Disk(room) /\ room.marker = t.scope /\ DOMAIN room.items = {}
      <3>1. Disk(Cleared(d)) /\ DOMAIN Cleared(d).items = {}
        BY ClearedKeepsDisk
      <3> QED BY <1>6, <2>2, <3>1, StampedKeepsDisk
    <2>4. Full(d)
      BY <1>6 DEF Fits
    <2> HIDE DEF e, id, room
    <2>5. CASE Fits(room, id)
      <3>1. e = With(room, id, value)
        BY <2>1, <2>5
      <3> QED BY <1>1, <1>4, <1>6, <2>3, <2>4, <2>5, <3>1, WithKeepsDisk DEF e, id
    <2>6. CASE ~ Fits(room, id)
      <3>1. e = room
        BY <2>1, <2>6
      <3> QED BY <1>6, <2>3, <2>4, <3>1 DEF e, id
    <2> QED BY <2>5, <2>6
  <1> QED BY <1>2, <1>3, <1>5, <1>6

LEMMA ValidatedKeepsDisk ==
  ASSUME NEW d, Disk(d), NEW t, NEW s \in Scopes
  PROVE  LET e == Validated(t, d, s)
         IN  /\ Disk(e) /\ e.marker \in {d.marker, s}
             /\ \A x \in DOMAIN e.items : x \in DOMAIN d.items /\ e.items[x] = d.items[x]
             /\ d.marker \in {NoScope, s} => e.items = d.items
  <1> DEFINE e == Validated(t, d, s)
  <1>1. CASE e = d
    BY <1>1
  <1>2. CASE e = Stamped(Cleared(d), s) /\ d.marker \notin {NoScope, s}
    <2>1. /\ Disk(Cleared(d)) /\ DOMAIN Cleared(d).items = {}
          /\ Cleared(d).marker = d.marker
      BY ClearedKeepsDisk
    <2>2. MarkerFits(Cleared(d))
      BY <1>2, <2>1 DEF MarkerFits
    <2> HIDE DEF e
    <2> QED BY <1>2, <2>1, <2>2, StampedKeepsDisk DEF e
  <1>3. CASE e = Stamped(d, s) /\ MarkerFits(d)
    <2> HIDE DEF e
    <2> QED BY <1>3, StampedKeepsDisk DEF e
  <1> QED BY <1>1, <1>2, <1>3 DEF Validated

-----------------------------------------------------------------------------
(* What is on the screen of a component at each stage of its call          *)
Drew(r) == r.live /\ r.shown.text = r.lastData
Born(r) == r.phase \notin {"unborn", "stopped"}
HasText(r) == Born(r) => r.data.text \in Texts /\ r.initial.text \in Texts

(* A boot has drawn what it will compare its data with, or shows a         *)
(* snapshot, or is out of the document.                                    *)
BootStage(r) ==
  /\ r.phase = "gated" => r.call = "boot"
  /\ r.call = "boot" /\ r.phase \in {"gated", "loading", "loaded"} /\ ~r.detached /\ ~r.inert
       => Drew(r) /\ r.drawn = r.lastData

(* reload() and refresh() know what is on screen by lastData; after a hit  *)
(* in the cache that is the data before the load.                          *)
CallStage(r) ==
  /\ r.phase = "idle" \/ (r.call # "boot" /\ r.phase \in {"loading", "loaded"})
       => r.inert \/ Drew(r)
  /\ /\ r.phase \in {"loading", "loaded"} /\ r.call \in {"reload", "refresh"}
     /\ r.fromCache /\ ~r.inert
     => r.shown.text = r.before

Drawn(r) == Drew(r) /\ r.shown.text = r.data.text

LastStage(r) ==
  /\ r.phase = "children" => Drawn(r)
  /\ r.phase = "idle" /\ r.call # "load" /\ ~r.rejected =>
       r.ready /\ r.live /\ r.shown.text = r.data.text

CompOK(r) == r \in Component /\ HasText(r) /\ BootStage(r) /\ CallStage(r) /\ LastStage(r)

CompsOK == comp \in [Comps -> Component] /\ \A c \in Comps : CompOK(comp[c])

SInv == DiskOK /\ TabsOK /\ PagesOK /\ CompsOK

LEMMA KeysOfArgs ==
  ASSUME NEW a \in Args
  PROVE  KeyOf[a] \in Keys \cup {NoKey} /\ Identity[a] \in Sources
  BY DEF Keys, Sources

LEMMA DeadIsOK == CompOK(Dead) /\ CompOK(Nobody) /\ \A a \in Args : Unborn(a) \in Component
  <1>1. \A a \in Args : Unborn(a) \in Component /\ Unborn(a).phase = "unborn"
    BY ParametersAssumption
       DEF Unborn, Component, NoData, Data, NoText, Created, Sources, Phases, Calls
  <1>2. PICK a \in Args : a = CHOOSE x \in Args : TRUE
    BY ParametersAssumption
  <1>3. Nobody \in Component /\ Nobody.phase = "unborn"
    BY <1>1, <1>2 DEF Nobody
  <1>4. Dead \in Component /\ Dead.phase = "stopped"
    BY <1>3 DEF Dead, Component, Phases
  <1>5. \A r \in Component : r.phase \in {"unborn", "stopped"} => CompOK(r)
    BY DEF CompOK, HasText, Born, BootStage, CallStage, LastStage
  <1> QED BY <1>1, <1>3, <1>4, <1>5

LEMMA EndedFields ==
  ASSUME NEW r \in Component
  PROVE  LET q == Ended(r)
         IN  /\ q \in Component /\ q.phase = "idle" /\ q.call = r.call
             /\ q.inert = r.inert /\ q.live = r.live /\ q.shown = r.shown
             /\ q.lastData = r.lastData /\ q.data = r.data /\ q.initial = r.initial
             /\ q.rejected = r.rejected /\ q.due = r.due /\ q.key = r.key
  <1> DEFINE q == Ended(r)
  <1>1. /\ "idle" \in Phases /\ NoText \in Texts \cup {NoText} /\ Created \in Sources
        /\ FALSE \in BOOLEAN
    BY DEF Phases, Sources
  <1>2. q \in Component
    BY <1>1 DEF Ended, Component
  <1>3. /\ q.phase = "idle" /\ q.call = r.call /\ q.inert = r.inert /\ q.live = r.live
        /\ q.shown = r.shown /\ q.lastData = r.lastData /\ q.data = r.data
        /\ q.initial = r.initial /\ q.rejected = r.rejected /\ q.due = r.due
        /\ q.key = r.key
    BY DEF Ended, Component
  <1> QED BY <1>2, <1>3

LEMMA RejectedIsOK ==
  ASSUME NEW r \in Component, r.data.text \in Texts, r.initial.text \in Texts,
         r.call # "boot" => r.inert \/ Drew(r)
  PROVE  CompOK(Rejected(r))
  <1>1. CASE r.call = "boot"
    BY <1>1, DeadIsOK DEF Rejected
  <1>2. CASE r.call # "boot"
    <2> DEFINE q == Rejected(r)
    <2>1. /\ q \in Component /\ q.phase = "idle" /\ q.rejected /\ q.inert = r.inert
          /\ q.live = r.live /\ q.shown = r.shown /\ q.lastData = r.lastData
          /\ q.data = r.data /\ q.initial = r.initial
      <3> DEFINE e == Ended(r)
      <3>1. q = [e EXCEPT !.rejected = TRUE] \/ q = [e EXCEPT !.ready = r.wasReady, !.rejected = TRUE]
        BY <1>2 DEF Rejected
      <3> HIDE DEF e, q
      <3>2. /\ e \in Component /\ e.phase = "idle" /\ e.inert = r.inert
            /\ e.live = r.live /\ e.shown = r.shown /\ e.lastData = r.lastData
            /\ e.data = r.data /\ e.initial = r.initial
        BY EndedFields DEF e
      <3>3. r.wasReady \in BOOLEAN
        BY DEF Component
      <3>4. CASE q = [e EXCEPT !.rejected = TRUE]
        BY <3>2, <3>4 DEF Component
      <3>5. CASE q = [e EXCEPT !.ready = r.wasReady, !.rejected = TRUE]
        BY <3>2, <3>3, <3>5 DEF Component
      <3> QED BY <3>1, <3>4, <3>5
    <2> HIDE DEF q
    <2>2. CompOK(q)
      BY <1>2, <2>1 DEF CompOK, HasText, BootStage, CallStage, LastStage, Drew
    <2> QED BY <2>2 DEF q
  <1> QED BY <1>1, <1>2

LEMMA DataOfComponents ==
  ASSUME NEW r \in Component
  PROVE  /\ r.data \in Data /\ r.data.text \in Texts \cup {NoText}
         /\ r.initial \in Data /\ r.shown \in Data /\ r.args \in Args
         /\ r.shown.text \in Texts \cup {NoText}
         /\ r.key \in Keys \cup {NoKey} /\ r.lastData \in Texts \cup {NoText}
  BY DEF Component, Data

(* What the drawing of r leaves, and what it does not touch                *)
Untouched(q, r) ==
  /\ q.phase = r.phase /\ q.call = r.call /\ q.data = r.data /\ q.initial = r.initial
  /\ q.detached = r.detached /\ q.fromCache = r.fromCache /\ q.before = r.before
  /\ q.rejected = r.rejected /\ q.ready = r.ready /\ q.key = r.key /\ q.due = r.due
  /\ q.failed = r.failed /\ q.dynamic = r.dynamic /\ q.fetched = r.fetched
  /\ q.args = r.args

LEMMA RecordedFields ==
  ASSUME NEW r \in Component
  PROVE  LET q == Recorded(r)
         IN  /\ q \in Component /\ Untouched(q, r) /\ q.lastData = r.data.text
             /\ q.shown = r.shown /\ q.live = r.live /\ q.inert = r.inert /\ q.drawn = r.drawn
  <1> DEFINE q == Recorded(r)
  <1>1. q \in Component
    BY DataOfComponents DEF Recorded, Component
  <1>2. /\ q.lastData = r.data.text /\ q.shown = r.shown /\ q.live = r.live
        /\ q.inert = r.inert /\ q.drawn = r.drawn
    BY DEF Recorded, Component
  <1>3. Untouched(q, r)
    BY DEF Recorded, Component, Untouched
  <1> QED BY <1>1, <1>2, <1>3

LEMMA RenderedFields ==
  ASSUME NEW r \in Component
  PROVE  LET q == Rendered(r)
         IN  /\ q \in Component /\ Untouched(q, r) /\ Drew(q) /\ q.shown = r.data
             /\ q.lastData = r.data.text /\ q.inert = r.inert
             /\ q.drawn = IF r.drawn = NoText THEN r.data.text ELSE r.drawn
  <1> DEFINE x == IF r.drawn = NoText THEN r.data.text ELSE r.drawn
             p == [r EXCEPT !.shown = r.data, !.live = TRUE, !.drawn = x]
             q == Rendered(r)
  <1>1. q = Recorded(p)
    BY DEF Rendered
  <1>2. x \in Texts \cup {NoText}
    BY DataOfComponents DEF Component
  <1> HIDE DEF x
  <1>3. p \in Component
    BY <1>2, DataOfComponents DEF Component
  <1>4. /\ p.shown = r.data /\ p.live = TRUE /\ p.drawn = x /\ p.inert = r.inert
        /\ p.data = r.data
    BY DEF Component
  <1>5. Untouched(p, r)
    BY DEF Component, Untouched
  <1> HIDE DEF p, q
  <1>6. /\ q \in Component /\ Untouched(q, p) /\ q.lastData = p.data.text
        /\ q.shown = p.shown /\ q.live = p.live /\ q.inert = p.inert /\ q.drawn = p.drawn
    BY <1>1, <1>3, RecordedFields
  <1> QED BY <1>4, <1>5, <1>6 DEF Untouched, Drew, x, q

LEMMA InjectedFields ==
  ASSUME NEW r \in Component, NEW s \in Data
  PROVE  LET q == Injected(r, s)
         IN  q \in Component /\ Untouched(q, r) /\ q.inert = TRUE
  <1> DEFINE p == [r EXCEPT !.shown = s, !.live = FALSE, !.inert = TRUE]
             q == Injected(r, s)
  <1>1. q = Recorded(p)
    BY DEF Injected
  <1>2. p \in Component
    <2>1. [r EXCEPT !.shown = s] \in Component
      BY DEF Component
    <2>2. TRUE \in BOOLEAN /\ FALSE \in BOOLEAN
      OBVIOUS
    <2> QED BY <2>1, <2>2 DEF Component
  <1>3. Untouched(p, r) /\ p.inert = TRUE
    BY DEF Component, Untouched
  <1> HIDE DEF p, q
  <1>4. q \in Component /\ Untouched(q, p) /\ q.inert = p.inert
    BY <1>1, <1>2, RecordedFields
  <1> QED BY <1>3, <1>4 DEF Untouched, q

LEMMA AcceptedFields ==
  ASSUME NEW r \in Component, NEW d \in Data, NEW mode
  PROVE  LET q == Accepted(r, d, mode)
         IN  /\ q \in Component /\ q.phase = "loaded" /\ q.data = d /\ q.call = r.call
             /\ q.initial = r.initial /\ q.inert = r.inert /\ q.live = r.live
             /\ q.shown = r.shown /\ q.lastData = r.lastData /\ q.drawn = r.drawn
             /\ q.detached = r.detached /\ q.fromCache = r.fromCache
             /\ q.before = r.before /\ q.rejected = r.rejected /\ q.key = r.key
             /\ q.failed = r.failed /\ q.dynamic = Dynamic(r, d)
  <1> DEFINE x == CASE Filed(r, d) -> r.key
                    [] ~Filed(r, d) /\ Changed(r, d) -> NoKey
                    [] OTHER -> r.dataKey
             y == r.due \/ (Filed(r, d) /\ mode = "html")
             z == Dynamic(r, d)
             q == Accepted(r, d, mode)
  <1>1. q = [r EXCEPT !.phase = "loaded", !.data = d, !.dynamic = z, !.dataKey = x, !.due = y]
    BY DEF Accepted
  <1>2. x \in Keys \cup {NoKey} /\ "loaded" \in Phases
    BY DEF Component, Phases
  <1>3. y \in BOOLEAN
    BY DEF Component
  <1>4. z \in BOOLEAN
    BY DEF Dynamic, Changed, KeyMoved
  <1> HIDE DEF x, y, z, q
  <1>5. q \in Component
    <2> DEFINE p == [r EXCEPT !.phase = "loaded", !.data = d]
    <2>1. p \in Component
      BY <1>2 DEF Component
    <2>2. [p EXCEPT !.dataKey = x] \in Component
      <3> HIDE DEF p
      <3> QED BY <1>2, <2>1 DEF Component
    <2>3. q = [[p EXCEPT !.dataKey = x] EXCEPT !.dynamic = z, !.due = y]
      BY <1>1
    <2> DEFINE u == [p EXCEPT !.dataKey = x]
    <2> HIDE DEF p, u
    <2>4. \A b \in BOOLEAN, c \in BOOLEAN :
            [u EXCEPT !.dynamic = b, !.due = c] \in Component
      BY <2>2 DEF Component, u
    <2> QED BY <1>3, <1>4, <2>3, <2>4 DEF u
  <1>6. /\ q.phase = "loaded" /\ q.data = d /\ q.call = r.call
        /\ q.initial = r.initial /\ q.inert = r.inert /\ q.live = r.live
        /\ q.shown = r.shown /\ q.lastData = r.lastData /\ q.drawn = r.drawn
        /\ q.detached = r.detached /\ q.fromCache = r.fromCache
        /\ q.before = r.before /\ q.rejected = r.rejected /\ q.key = r.key
        /\ q.failed = r.failed /\ q.dynamic = z
    BY <1>1 DEF Component
  <1> QED BY <1>5, <1>6 DEF q, z

LEMMA FetchingFields ==
  ASSUME NEW r \in Component
  PROVE  LET q == Fetching(r)
         IN  /\ q \in Component /\ q.phase = "loading" /\ q.before = r.data.text
             /\ q.fetched = Identity[r.args] /\ q.call = r.call /\ q.data = r.data
             /\ q.initial = r.initial /\ q.inert = r.inert /\ q.live = r.live
             /\ q.shown = r.shown /\ q.lastData = r.lastData /\ q.drawn = r.drawn
             /\ q.detached = r.detached /\ q.fromCache = r.fromCache
             /\ q.rejected = r.rejected /\ q.key = r.key /\ q.args = r.args
  <1> DEFINE q == Fetching(r)
  <1>1. "loading" \in Phases /\ Identity[r.args] \in Sources
    BY KeysOfArgs, DataOfComponents DEF Phases
  <1>2. q \in Component
    BY <1>1, DataOfComponents DEF Fetching, Component
  <1>3. /\ q.phase = "loading" /\ q.before = r.data.text
        /\ q.fetched = Identity[r.args] /\ q.call = r.call /\ q.data = r.data
        /\ q.initial = r.initial /\ q.inert = r.inert /\ q.live = r.live
        /\ q.shown = r.shown /\ q.lastData = r.lastData /\ q.drawn = r.drawn
        /\ q.detached = r.detached /\ q.fromCache = r.fromCache
        /\ q.rejected = r.rejected /\ q.key = r.key /\ q.args = r.args
    BY DEF Fetching, Component
  <1> QED BY <1>2, <1>3

-----------------------------------------------------------------------------
(* What a component that waits for a load must have on screen, and that    *)
(* each step leaves a component in order                                   *)
Loadable(r) ==
  /\ r \in Component /\ r.initial.text \in Texts
  /\ r.call = "boot" /\ ~r.detached /\ ~r.inert => Drew(r) /\ r.drawn = r.lastData
  /\ r.call # "boot" => r.inert \/ Drew(r)
  /\ r.call \in {"reload", "refresh"} /\ r.fromCache /\ ~r.inert => r.shown.text = r.before

LEMMA LoadableIsOK ==
  ASSUME NEW r, Loadable(r), r.data.text \in Texts
  PROVE  /\ r.phase \in {"loading", "loaded"} => CompOK(r)
         /\ CompOK(Rejected(r))
  <1>1. r \in Component /\ r.initial.text \in Texts /\ (r.call # "boot" => r.inert \/ Drew(r))
    BY DEF Loadable
  <1>2. CompOK(Rejected(r))
    BY <1>1, RejectedIsOK
  <1>3. ASSUME r.phase \in {"loading", "loaded"}
        PROVE  CompOK(r)
    <2>1. HasText(r) /\ BootStage(r)
      BY <1>1, <1>3 DEF Loadable, HasText, BootStage
    <2>2. CallStage(r) /\ LastStage(r)
      BY <1>3 DEF Loadable, CallStage, LastStage
    <2> QED BY <1>1, <2>1, <2>2 DEF CompOK
  <1> QED BY <1>2, <1>3

LEMMA OKIsLoadable ==
  ASSUME NEW r, CompOK(r), r.phase \in {"gated", "loading"}
  PROVE  Loadable(r)
  <1>1. r \in Component /\ r.initial.text \in Texts
    BY DEF CompOK, HasText, Born
  <1> QED BY <1>1 DEF CompOK, BootStage, CallStage, Loadable

LEMMA DrawnIsOK ==
  ASSUME NEW r \in Component, Drawn(r), r.data.text \in Texts, r.initial.text \in Texts
  PROVE  /\ r.phase = "children" => CompOK(r)
         /\ r.phase = "idle" /\ r.ready => CompOK(r)
  <1>1. ASSUME r.phase = "children" \/ (r.phase = "idle" /\ r.ready)
        PROVE  CompOK(r)
    <2>1. HasText(r) /\ BootStage(r)
      BY <1>1 DEF HasText, BootStage
    <2>2. CallStage(r) /\ LastStage(r)
      BY <1>1 DEF Drawn, Drew, CallStage, LastStage
    <2> QED BY <2>1, <2>2 DEF CompOK
  <1> QED BY <1>1

LEMMA AcceptedIsOK ==
  ASSUME NEW r, Loadable(r), NEW d \in Data, d.text \in Texts, NEW mode
  PROVE  CompOK(Accepted(r, d, mode)) /\ CompOK(Rejected(Accepted(r, d, mode)))
  <1> DEFINE q == Accepted(r, d, mode)
  <1>1. r \in Component
    BY DEF Loadable
  <1>2. /\ q \in Component /\ q.phase = "loaded" /\ q.data = d /\ q.call = r.call
        /\ q.initial = r.initial /\ q.inert = r.inert /\ q.live = r.live
        /\ q.shown = r.shown /\ q.lastData = r.lastData /\ q.drawn = r.drawn
        /\ q.detached = r.detached /\ q.fromCache = r.fromCache /\ q.before = r.before
    BY <1>1, AcceptedFields
  <1> HIDE DEF q
  <1>3. Loadable(q)
    BY <1>2 DEF Loadable, Drew
  <1>4. CompOK(q) /\ CompOK(Rejected(q))
    BY <1>2, <1>3, LoadableIsOK
  <1> QED BY <1>4 DEF q

(* Fields of a load's bookkeeping do not matter to what is on screen.      *)
LEMMA KeyedIsLoadable ==
  ASSUME NEW r, Loadable(r), NEW k \in Keys \cup {NoKey}
  PROVE  /\ Loadable([r EXCEPT !.failed = TRUE])
         /\ r.call = "boot" => \A b \in Texts \cup {NoText} :
              Loadable([r EXCEPT !.key = k, !.before = b])
  <1>1. r \in Component
    BY DEF Loadable
  <1>2. Loadable([r EXCEPT !.failed = TRUE])
    <2> DEFINE q == [r EXCEPT !.failed = TRUE]
    <2>1. q \in Component
      BY <1>1 DEF Component
    <2>2. /\ q.call = r.call /\ q.initial = r.initial /\ q.inert = r.inert
          /\ q.live = r.live /\ q.shown = r.shown /\ q.lastData = r.lastData
          /\ q.drawn = r.drawn /\ q.detached = r.detached
          /\ q.fromCache = r.fromCache /\ q.before = r.before
      BY <1>1 DEF Component
    <2> HIDE DEF q
    <2>3. Loadable(q)
      BY <2>1, <2>2 DEF Loadable, Drew
    <2> QED BY <2>3 DEF q
  <1>3. ASSUME r.call = "boot", NEW b \in Texts \cup {NoText}
        PROVE  Loadable([r EXCEPT !.key = k, !.before = b])
    <2> DEFINE q == [r EXCEPT !.key = k, !.before = b]
    <2>1. q \in Component
      BY <1>1 DEF Component
    <2>2. /\ q.call = r.call /\ q.initial = r.initial /\ q.inert = r.inert
          /\ q.live = r.live /\ q.shown = r.shown /\ q.lastData = r.lastData
          /\ q.drawn = r.drawn /\ q.detached = r.detached
      BY <1>1 DEF Component
    <2> HIDE DEF q
    <2>3. Loadable(q)
      BY <1>3, <2>1, <2>2 DEF Loadable, Drew
    <2> QED BY <2>3 DEF q
  <1> QED BY <1>2, <1>3

LEMMA ReadyFields ==
  ASSUME NEW r \in Component
  PROVE  LET q == Ready(r)
         IN  /\ q \in Component /\ q.phase = "idle" /\ q.call = r.call /\ q.ready
             /\ q.inert = r.inert /\ q.live = r.live /\ q.shown = r.shown
             /\ q.lastData = r.lastData /\ q.data = r.data /\ q.initial = r.initial
             /\ q.due = r.due
  <1> DEFINE e == Ended(r)
             q == Ready(r)
  <1>1. q = [e EXCEPT !.ready = TRUE]
    BY DEF Ready
  <1>2. /\ e \in Component /\ e.phase = "idle" /\ e.call = r.call
        /\ e.inert = r.inert /\ e.live = r.live /\ e.shown = r.shown
        /\ e.lastData = r.lastData /\ e.data = r.data /\ e.initial = r.initial
        /\ e.due = r.due
    BY EndedFields
  <1> HIDE DEF e, q
  <1>3. q \in Component
    BY <1>1, <1>2 DEF Component
  <1>4. /\ q.phase = "idle" /\ q.call = r.call /\ q.ready
        /\ q.inert = r.inert /\ q.live = r.live /\ q.shown = r.shown
        /\ q.lastData = r.lastData /\ q.data = r.data /\ q.initial = r.initial
        /\ q.due = r.due
    BY <1>1, <1>2 DEF Component
  <1> QED BY <1>3, <1>4 DEF q

(* A call ends with the snapshot filed, or not, or rejected.               *)
LEMMA KeptIsOK ==
  ASSUME NEW r \in Component, Drawn(r), r.data.text \in Texts, r.initial.text \in Texts,
         NEW b \in BOOLEAN
  PROVE  LET kept == [Ready(r) EXCEPT !.due = b]
         IN  CompOK(Ready(r)) /\ CompOK(kept) /\ CompOK(Rejected(kept))
  <1> DEFINE e == Ready(r)
             q == [e EXCEPT !.due = b]
  <1>1. /\ e \in Component /\ e.phase = "idle" /\ e.ready
        /\ e.inert = r.inert /\ e.live = r.live /\ e.shown = r.shown
        /\ e.lastData = r.lastData /\ e.data = r.data /\ e.initial = r.initial
    BY ReadyFields
  <1> HIDE DEF e
  <1>2. q \in Component
    BY <1>1 DEF Component
  <1>3. /\ q.phase = "idle" /\ q.ready
        /\ q.inert = r.inert /\ q.live = r.live /\ q.shown = r.shown
        /\ q.lastData = r.lastData /\ q.data = r.data /\ q.initial = r.initial
    BY <1>1 DEF Component
  <1> HIDE DEF q
  <1>4. Drawn(e) /\ Drawn(q) /\ Drew(q)
    BY <1>1, <1>3 DEF Drawn, Drew
  <1>5. CompOK(e) /\ CompOK(q)
    BY <1>1, <1>2, <1>3, <1>4, DrawnIsOK
  <1>6. CompOK(Rejected(q))
    BY <1>2, <1>3, <1>4, RejectedIsOK
  <1> QED BY <1>5, <1>6 DEF e, q

LEMMA MarkupIsBrought ==
  ASSUME NEW r \in Component, r.shown.text \in Texts
  PROVE  Markup(r) \in Brought /\ Markup(r).text = r.shown.text
         /\ Markup(r).of = IF r.shown.text = r.data.text THEN r.data.of ELSE Mixed
  BY DEF Markup, Component, Data, Brought, Sources

-----------------------------------------------------------------------------
(* The parts of a step                                                     *)

(* A step of c moves no other component, and takes nothing of another      *)
(* scope from a storage that has room.                                     *)
Moved(c) == CompsOK' /\ \A d \in Comps \ {c} : comp'[d] = comp[d]
Kept(c) == ~Full(disk) => \A id \in Lost : id[3] = Module(c).scope
Stepped(c) == Moved(c) /\ DiskOK' /\ Kept(c)

LEMMA SetMoves ==
  ASSUME CompsOK, NEW c \in Comps, NEW r, CompOK(r), Set(c, r)
  PROVE  Moved(c)
  <1>1. comp' = [comp EXCEPT ![c] = r]
    BY DEF Set
  <1>2. r \in Component
    BY DEF CompOK
  <1>3. comp' \in [Comps -> Component]
    BY <1>1, <1>2 DEF CompsOK
  <1>4. \A d \in Comps : comp'[d] = IF d = c THEN r ELSE comp[d]
    BY <1>1 DEF CompsOK
  <1>5. \A d \in Comps : CompOK(comp'[d])
    BY <1>4 DEF CompsOK
  <1> QED BY <1>3, <1>4, <1>5 DEF Moved, CompsOK

LEMMA SameDisk ==
  ASSUME SInv, NEW c
  PROVE  UNCHANGED <<disk, used>> => DiskOK' /\ Kept(c)
  BY DEF SInv, DiskOK, Kept, Lost

LEMMA SameTabs ==
  ASSUME SInv
  PROVE  UNCHANGED <<tab, used>> => TabsOK'
  BY DEF SInv, TabsOK, TabState

LEMMA SamePages ==
  ASSUME SInv
  PROVE  UNCHANGED preload /\ (Event \/ UNCHANGED events) => PagesOK'
  BY ParametersAssumption DEF SInv, PagesOK, Event

LEMMA ModuleIs ==
  ASSUME SInv, NEW c \in Comps
  PROVE  /\ TabOf[c] \in Tabs /\ Module(c) = tab[TabOf[c]]
         /\ Module(c).mode \in {"data", "html"}
         /\ Module(c).ready => Module(c).scope \in used /\ Module(c).scope \in Scopes
  <1>1. TabOf[c] \in Tabs
    BY ParametersAssumption
  <1>2. tab[TabOf[c]] \in TabState
    BY <1>1 DEF SInv, TabsOK
  <1>3. tab[TabOf[c]].ready => tab[TabOf[c]].scope # NoScope
    BY <1>1 DEF SInv, TabsOK
  <1>4. used \subseteq Scopes
    BY DEF SInv, TabsOK
  <1> QED BY <1>1, <1>2, <1>3, <1>4 DEF Module, TabState

LEMMA GetIs ==
  ASSUME SInv, NEW t, NEW kind, NEW key, Holds(t, disk, kind, key)
  PROVE  /\ Get(t, disk, kind, key) \in Data /\ Get(t, disk, kind, key).text \in Texts
         /\ Entry(t, kind, key) \in DOMAIN disk.items
         /\ Get(t, disk, kind, key) = disk.items[Entry(t, kind, key)]
  <1>1. disk.items \in [DOMAIN disk.items -> Stored]
    BY ItemsAre DEF SInv, DiskOK, Disk
  <1>2. Entry(t, kind, key) \in DOMAIN disk.items
    BY DEF Holds
  <1>3. Get(t, disk, kind, key) \in Stored
    BY <1>1, <1>2 DEF Get
  <1> QED BY <1>2, <1>3 DEF Get, Stored, Data

LEMMA WriteStores ==
  ASSUME SInv, NEW c \in Comps, NEW r,
         NEW kind \in {"data", "html"}, NEW key \in Keys, NEW value \in Brought,
         Write(c, r, kind, key, value), used' = used
  PROVE  /\ DiskOK' /\ Kept(c) /\ (Set(c, r) \/ Set(c, Rejected(r)))
         /\ \A x \in DOMAIN disk'.items :
              \/ x \in DOMAIN disk.items /\ disk'.items[x] = disk.items[x]
              \/ x = Entry(Module(c), kind, key) /\ disk'.items[x] = value
  <1>1. PICK t : t = Module(c)
    OBVIOUS
  <1>2. Disk(disk) /\ disk.marker \in used \cup {NoScope}
    BY DEF SInv, DiskOK
  <1>3. t.ready => t.scope \in used /\ t.scope \in Scopes
    BY <1>1, ModuleIs
  <1>4. CASE WriteThrows(t, disk, kind, key, value)
    <2>1. disk' = Cleared(disk) /\ Set(c, Rejected(r))
      BY <1>1, <1>4 DEF Write
    <2>2. Disk(disk') /\ disk'.marker = disk.marker /\ DOMAIN disk'.items = {}
      BY <1>2, <2>1, ClearedKeepsDisk
    <2>3. Full(disk)
      BY <1>4 DEF WriteThrows, Fits
    <2>4. DiskOK' /\ Kept(c)
      BY <1>2, <2>2, <2>3 DEF DiskOK, Kept
    <2> QED BY <2>1, <2>2, <2>4
  <1>5. CASE ~ WriteThrows(t, disk, kind, key, value)
    <2>1. disk' = Written(t, disk, kind, key, value) /\ Set(c, r)
      BY <1>1, <1>5 DEF Write
    <2>2. /\ Disk(disk') /\ (disk'.marker = disk.marker \/ (t.ready /\ disk'.marker = t.scope))
          /\ \A x \in DOMAIN disk'.items :
               \/ x \in DOMAIN disk.items /\ disk'.items[x] = disk.items[x]
               \/ x = Entry(t, kind, key) /\ disk'.items[x] = value
          /\ ~ Full(disk) => DOMAIN disk.items \ DOMAIN disk'.items \subseteq {Entry(t, kind, key)}
      BY <1>2, <1>3, <1>5, <2>1, WrittenKeepsDisk
    <2>3. DiskOK'
      BY <1>2, <1>3, <2>2 DEF DiskOK
    <2>4. Kept(c)
      BY <1>1, <2>2 DEF Kept, Lost, Entry
    <2> QED BY <1>1, <2>1, <2>2, <2>3, <2>4
  <1> QED BY <1>4, <1>5

LEMMA WriteSteps ==
  ASSUME SInv, NEW c \in Comps, NEW r, CompOK(r), CompOK(Rejected(r)),
         NEW kind \in {"data", "html"}, NEW key \in Keys, NEW value \in Brought,
         Write(c, r, kind, key, value), used' = used
  PROVE  Stepped(c)
  BY WriteStores, SetMoves DEF SInv, Stepped

LEMMA ApplySteps ==
  ASSUME SInv, NEW c \in Comps, NEW r, Loadable(r), NEW d \in Brought,
         Apply(c, r, d), used' = used
  PROVE  Stepped(c)
  <1>1. PICK q : q = Accepted(r, d, Module(c).mode)
    OBVIOUS
  <1>2. d \in Data /\ d.text \in Texts
    BY DEF Brought, Data
  <1>3. CompOK(q) /\ CompOK(Rejected(q))
    BY <1>1, <1>2, AcceptedIsOK
  <1>4. CASE Filed(r, d) /\ Module(c).mode = "data"
    <2>1. Write(c, q, "data", r.key, d)
      BY <1>1, <1>4 DEF Apply
    <2>2. r.key \in Keys
      BY <1>4 DEF Filed, Loadable, Component
    <2> QED BY <1>3, <2>1, <2>2, WriteSteps
  <1>5. CASE ~ (Filed(r, d) /\ Module(c).mode = "data")
    <2>1. Set(c, q) /\ UNCHANGED disk
      BY <1>1, <1>5 DEF Apply
    <2> QED BY <1>3, <2>1, SetMoves, SameDisk DEF SInv, Stepped
  <1> QED BY <1>4, <1>5

LEMMA SnapshotSteps ==
  ASSUME SInv, NEW c \in Comps, NEW r \in Component, Drawn(r), r.data.text \in Texts,
         r.initial.text \in Texts, Snapshot(c, r, Ready(r)), used' = used
  PROVE  Stepped(c)
  <1>1. PICK q : q = [Ready(r) EXCEPT !.due = @ /\ r.key = NoKey]
    OBVIOUS
  <1>2. Ready(r).due \in BOOLEAN
    BY ReadyFields DEF Component
  <1>3. CompOK(q) /\ CompOK(Rejected(q))
    <2>1. PICK b \in BOOLEAN : b = (Ready(r).due /\ r.key = NoKey)
      OBVIOUS
    <2>2. q = [Ready(r) EXCEPT !.due = b]
      BY <1>1, <2>1
    <2> QED BY <2>2, KeptIsOK
  <1>4. CASE r.due /\ r.key # NoKey /\ ~r.failed /\ r.dynamic
    <2>1. Write(c, q, "html", r.key, Markup(r))
      BY <1>1, <1>4 DEF Snapshot
    <2>2. r.key \in Keys
      BY <1>4 DEF Component
    <2>3. Markup(r) \in Brought
      BY MarkupIsBrought DEF Drawn
    <2> QED BY <1>3, <2>1, <2>2, <2>3, WriteSteps
  <1>5. CASE ~ (r.due /\ r.key # NoKey /\ ~r.failed /\ r.dynamic)
    <2>1. Set(c, q) /\ UNCHANGED disk
      BY <1>1, <1>5 DEF Snapshot
    <2> QED BY <1>3, <2>1, SetMoves, SameDisk DEF SInv, Stepped
  <1> QED BY <1>4, <1>5

LEMMA ApplyLoadedSteps ==
  ASSUME SInv, NEW c \in Comps, NEW r, Loadable(r), NEW d \in Brought,
         ApplyLoaded(c, r, d), used' = used
  PROVE  Stepped(c)
  <1>1. PICK key : key = KeyOf[r.args]
    OBVIOUS
  <1>2. PICK files \in BOOLEAN :
          files = (r.before # d.text /\ ~r.failed /\ key # NoKey /\ Module(c).mode # "html")
    OBVIOUS
  <1>3. PICK x : x = CASE files -> key
                       [] r.before # d.text /\ ~files -> NoKey
                       [] OTHER -> r.dataKey
    OBVIOUS
  <1>4. PICK q : q = [r EXCEPT !.phase = "loaded", !.data = d, !.dataKey = x]
    OBVIOUS
  <1>5. IF files THEN Write(c, q, "data", key, d) ELSE Set(c, q) /\ UNCHANGED disk
    BY <1>1, <1>2, <1>3, <1>4 DEF ApplyLoaded
  <1>6. r \in Component /\ d \in Data /\ d.text \in Texts /\ "loaded" \in Phases
    BY DEF Loadable, Brought, Data, Phases
  <1>7. key \in Keys \cup {NoKey}
    BY <1>1, <1>6, KeysOfArgs DEF Component
  <1>8. x \in Keys \cup {NoKey}
    BY <1>3, <1>6, <1>7 DEF Component
  <1>9. q \in Component
    BY <1>4, <1>6, <1>8 DEF Component
  <1>10. /\ q.phase = "loaded" /\ q.data = d /\ q.call = r.call
         /\ q.initial = r.initial /\ q.inert = r.inert /\ q.live = r.live
         /\ q.shown = r.shown /\ q.lastData = r.lastData /\ q.drawn = r.drawn
         /\ q.detached = r.detached /\ q.fromCache = r.fromCache /\ q.before = r.before
    BY <1>4, <1>6 DEF Component
  <1>11. Loadable(q)
    BY <1>9, <1>10 DEF Loadable, Drew
  <1>12. CompOK(q) /\ CompOK(Rejected(q))
    BY <1>6, <1>10, <1>11, LoadableIsOK
  <1>13. CASE files
    <2>1. key \in Keys
      BY <1>2, <1>7, <1>13
    <2> QED BY <1>5, <1>12, <1>13, <2>1, WriteSteps
  <1>14. CASE ~ files
    BY <1>5, <1>12, <1>14, SetMoves, SameDisk DEF SInv, Stepped
  <1> QED BY <1>13, <1>14

LEMMA SettleSteps ==
  ASSUME SInv, NEW c \in Comps, NEW r, Loadable(r), NEW d \in Brought,
         Settle(c, r, d), used' = used
  PROVE  Stepped(c)
  BY ApplySteps, ApplyLoadedSteps DEF Settle

-----------------------------------------------------------------------------
(* The steps of a component                                                *)

(* The first render of a component that has drawn nothing                  *)
LEMMA FirstRenderIsOK ==
  ASSUME SInv, NEW c \in Comps, NEW r \in Component,
         r.phase = "gated", r.call = "boot", r.drawn = NoText, ~r.due,
         r.data.text \in Texts, r.initial.text \in Texts,
         NEW reads \in BOOLEAN, NEW useCached \in BOOLEAN
  PROVE  LET q == FirstRender(r, Module(c), reads, useCached)
         IN  CompOK(q) /\ q.phase = "gated" /\ ~q.due
  <1>1. PICK t : t = Module(c)
    OBVIOUS
  <1>2. PICK entry : entry = Get(t, disk, t.mode, r.key)
    OBVIOUS
  <1>3. PICK q : q = FirstRender(r, t, reads, useCached)
    OBVIOUS
  <1>4. ASSUME NEW p \in Component, p.data.text \in Texts, p.initial.text \in Texts,
               p.phase = "gated", p.call = "boot", p.inert \/ (Drew(p) /\ p.drawn = p.lastData)
        PROVE  CompOK(p)
    BY <1>4 DEF CompOK, HasText, BootStage, CallStage, LastStage
  <1>5. ASSUME NEW p \in Component, Untouched(p, r), p.data = r.data, p.inert = TRUE
        PROVE  CompOK(p) /\ p.phase = "gated" /\ ~p.due
    BY <1>4, <1>5 DEF Untouched
  <1>6. ASSUME NEW p \in Component, p.data.text \in Texts, p.initial = r.initial,
               p.phase = r.phase, p.call = r.call, p.drawn = r.drawn, p.due = r.due
        PROVE  CompOK(Rendered(p)) /\ Rendered(p).phase = "gated" /\ ~Rendered(p).due
    <2>1. PICK g : g = Rendered(p)
      OBVIOUS
    <2>2. /\ g \in Component /\ Untouched(g, p) /\ Drew(g) /\ g.lastData = p.data.text
          /\ g.drawn = IF p.drawn = NoText THEN p.data.text ELSE p.drawn
      BY <2>1, RenderedFields
    <2>3. CompOK(g) /\ g.phase = "gated" /\ ~g.due
      BY <1>4, <1>6, <2>2 DEF Untouched
    <2> QED BY <2>1, <2>3
  <1>7. CASE q = Rendered(r)
    BY <1>1, <1>3, <1>6, <1>7
  <1>8. CASE q = Injected(r, entry) /\ Holds(t, disk, t.mode, r.key)
    <2>1. entry \in Data
      BY <1>2, <1>8, GetIs
    <2>2. q \in Component /\ Untouched(q, r) /\ q.inert = TRUE
      BY <1>8, <2>1, InjectedFields
    <2>3. CompOK(q) /\ q.phase = "gated" /\ ~q.due
      BY <1>5, <2>2 DEF Untouched
    <2> QED BY <1>1, <1>3, <2>3
  <1>9. CASE /\ q = Rendered([r EXCEPT !.data = entry, !.dataKey = r.key, !.hit = useCached])
             /\ Holds(t, disk, t.mode, r.key)
    <2>1. entry \in Data /\ entry.text \in Texts
      BY <1>2, <1>9, GetIs
    <2>2. PICK p : p = [r EXCEPT !.data = entry, !.dataKey = r.key, !.hit = useCached]
      OBVIOUS
    <2>3. p \in Component
      <3>1. r.key \in Keys \cup {NoKey}
        BY DataOfComponents
      <3>2. PICK u : u = [r EXCEPT !.data = entry]
        OBVIOUS
      <3>3. u \in Component
        BY <2>1, <3>2 DEF Component
      <3>4. PICK v : v = [u EXCEPT !.dataKey = r.key]
        OBVIOUS
      <3>5. v \in Component
        BY <3>1, <3>3, <3>4 DEF Component
      <3>6. p = [v EXCEPT !.hit = useCached]
        BY <2>2, <3>2, <3>3, <3>4 DEF Component
      <3> QED BY <3>5, <3>6 DEF Component
    <2>4. /\ p.data = entry /\ p.initial = r.initial /\ p.phase = r.phase
          /\ p.call = r.call /\ p.drawn = r.drawn /\ p.due = r.due
      BY <2>2 DEF Component
    <2>5. CompOK(Rendered(p)) /\ Rendered(p).phase = "gated" /\ ~Rendered(p).due
      BY <1>6, <2>1, <2>3, <2>4
    <2> QED BY <1>1, <1>3, <1>9, <2>2, <2>5
  <1>10. \/ q = Rendered(r)
         \/ q = Injected(r, entry) /\ Holds(t, disk, t.mode, r.key)
         \/ /\ q = Rendered([r EXCEPT !.data = entry, !.dataKey = r.key, !.hit = useCached])
            /\ Holds(t, disk, t.mode, r.key)
    <2> DEFINE found == reads /\ r.key # NoKey /\ Holds(t, disk, t.mode, r.key)
    <2>1. q = CASE found /\ t.mode = "html" -> Injected(r, entry)
                [] found /\ t.mode = "data" ->
                     Rendered([r EXCEPT !.data = entry, !.dataKey = r.key, !.hit = useCached])
                [] OTHER -> Rendered(r)
      BY <1>2, <1>3 DEF FirstRender
    <2>2. found => Holds(t, disk, t.mode, r.key)
      OBVIOUS
    <2> HIDE DEF found
    <2> QED BY <2>1, <2>2
  <1> QED BY <1>7, <1>8, <1>9, <1>10

LEMMA CreateSteps ==
  ASSUME SInv, NEW c \in Comps, Create(c)
  PROVE  /\ SInv' /\ Stepped(c)
         /\ \E q : Set(c, q) /\ q.phase = "gated" /\ ~q.due
  <1>1. PICK b \in Boots[c] :
          LET data == [text |-> b.text, of |-> Created]
              new == [Unborn(b.args) EXCEPT !.phase = "gated", !.detached = b.detached,
                                            !.data = data, !.initial = data]
          IN Set(c, IF b.detached THEN new
                    ELSE FirstRender([new EXCEPT !.key = KeyOf[b.args]], Module(c),
                                     b.reads, b.useCached))
    BY DEF Create
  <1>2. PICK data : data = [text |-> b.text, of |-> Created]
    OBVIOUS
  <1>3. PICK new : new = [Unborn(b.args) EXCEPT !.phase = "gated", !.detached = b.detached,
                                                !.data = data, !.initial = data]
    OBVIOUS
  <1>4. PICK k : k = KeyOf[b.args]
    OBVIOUS
  <1>5. PICK r : r = [new EXCEPT !.key = k]
    OBVIOUS
  <1>6. Set(c, IF b.detached THEN new
               ELSE FirstRender(r, Module(c), b.reads, b.useCached))
    BY <1>1, <1>2, <1>3, <1>4, <1>5
  <1>7. /\ b.args \in Args /\ b.text \in Texts /\ b.detached \in BOOLEAN
        /\ b.reads \in BOOLEAN /\ b.useCached \in BOOLEAN
    BY ParametersAssumption DEF Boot
  <1>8. data \in Data /\ data.text \in Texts /\ "gated" \in Phases
    BY <1>2, <1>7 DEF Data, Sources, Phases
  <1>9. /\ Unborn(b.args) \in Component /\ Unborn(b.args).call = "boot"
        /\ Unborn(b.args).drawn = NoText /\ ~Unborn(b.args).due
    BY <1>7, DeadIsOK DEF Unborn
  <1>10. new \in Component
    <2>1. PICK u \in Component : u = Unborn(b.args)
      BY <1>9
    <2>2. [u EXCEPT !.data = data, !.initial = data] \in Component
      BY <1>8 DEF Component
    <2>3. PICK v \in Component : v = [u EXCEPT !.data = data, !.initial = data]
      BY <2>2
    <2>4. new = [v EXCEPT !.phase = "gated", !.detached = b.detached]
      BY <1>3, <2>1, <2>3 DEF Component
    <2> QED BY <1>7, <1>8, <2>4 DEF Component
  <1>11. /\ new.phase = "gated" /\ new.call = "boot" /\ new.drawn = NoText
         /\ new.data = data /\ new.initial = data /\ new.detached = b.detached
         /\ ~new.due
    BY <1>3, <1>9 DEF Component
  <1>12. k \in Keys \cup {NoKey}
    BY <1>4, <1>7, KeysOfArgs
  <1>13. /\ r \in Component /\ r.phase = "gated" /\ r.call = "boot" /\ r.drawn = NoText
         /\ r.data = data /\ r.initial = data /\ ~r.due
    <2>1. r \in Component
      BY <1>5, <1>10, <1>12 DEF Component
    <2>2. /\ r.phase = "gated" /\ r.call = "boot" /\ r.drawn = NoText
          /\ r.data = data /\ r.initial = data /\ ~r.due
      BY <1>5, <1>10, <1>11 DEF Component
    <2> QED BY <2>1, <2>2
  <1>14. CASE b.detached
    <2>1. CompOK(new)
      BY <1>8, <1>10, <1>11, <1>14
         DEF CompOK, HasText, BootStage, CallStage, LastStage
    <2>2. Set(c, new)
      BY <1>6, <1>14
    <2> QED BY <1>11, <2>1, <2>2, SetMoves, SameDisk, SameTabs, SamePages DEF Create, SInv, Stepped, Moved
  <1>15. CASE ~ b.detached
    <2>1. PICK q : q = FirstRender(r, Module(c), b.reads, b.useCached)
      OBVIOUS
    <2>2. CompOK(q) /\ q.phase = "gated" /\ ~q.due
      BY <1>7, <1>8, <1>13, <2>1, FirstRenderIsOK
    <2>3. Set(c, q)
      BY <1>6, <1>15, <2>1
    <2> QED BY <2>2, <2>3, SetMoves, SameDisk, SameTabs, SamePages DEF Create, SInv, Stepped, Moved
  <1> QED BY <1>14, <1>15

LEMMA ComponentIs ==
  ASSUME SInv, NEW c \in Comps
  PROVE  /\ CompOK(comp[c]) /\ comp[c] \in Component
         /\ Born(comp[c]) => comp[c].data.text \in Texts /\ comp[c].initial.text \in Texts
  BY DEF SInv, CompsOK, CompOK, HasText

LEMMA UseCachedSteps ==
  ASSUME SInv, NEW c \in Comps, UseCached(c)
  PROVE  SInv' /\ Stepped(c)
  <1>1. PICK r : r = comp[c]
    OBVIOUS
  <1>2. PICK q : q = [r EXCEPT !.phase = "loaded"]
    OBVIOUS
  <1>3. Set(c, q) /\ r.phase = "gated"
    BY <1>1, <1>2 DEF UseCached, Gated
  <1>4. Loadable(r) /\ r \in Component /\ r.data.text \in Texts
    BY <1>1, <1>3, ComponentIs, OKIsLoadable DEF Born
  <1>5. q \in Component
    BY <1>2, <1>4 DEF Component, Phases
  <1>6. /\ q.call = r.call /\ q.initial = r.initial /\ q.inert = r.inert /\ q.data = r.data
        /\ q.live = r.live /\ q.shown = r.shown /\ q.lastData = r.lastData
        /\ q.drawn = r.drawn /\ q.detached = r.detached /\ q.phase = "loaded"
        /\ q.fromCache = r.fromCache /\ q.before = r.before
    BY <1>2, <1>4 DEF Component
  <1>7. Loadable(q)
    BY <1>4, <1>5, <1>6 DEF Loadable, Drew
  <1>8. CompOK(q)
    BY <1>4, <1>6, <1>7, LoadableIsOK
  <1> QED BY <1>3, <1>8, SetMoves, SameDisk, SameTabs, SamePages
          DEF UseCached, SInv, Stepped, Moved

LEMMA UsePreloadedSteps ==
  ASSUME SInv, NEW c \in Comps, UsePreloaded(c)
  PROVE  SInv' /\ Stepped(c)
  <1>1. PICK t \in Tabs : t = TabOf[c]
    BY ParametersAssumption
  <1>2. PICK k : k = KeyOf[comp[c].args]
    OBVIOUS
  <1>3. PICK r : r = [comp[c] EXCEPT !.key = k, !.before = comp[c].data.text]
    OBVIOUS
  <1>4. PICK d : d = preload[t][k]
    OBVIOUS
  <1>5. Apply(c, r, d) /\ comp[c].phase = "gated" /\ k \in DOMAIN preload[t]
    BY <1>1, <1>2, <1>3, <1>4 DEF UsePreloaded, Gated, Preloaded
  <1>6. /\ Loadable(comp[c]) /\ comp[c].call = "boot" /\ comp[c] \in Component
        /\ comp[c].data.text \in Texts /\ comp[c].args \in Args
    BY <1>5, ComponentIs, OKIsLoadable, DataOfComponents DEF Born, CompOK, BootStage
  <1>7. k \in Keys \cup {NoKey}
    BY <1>2, <1>6, KeysOfArgs
  <1>8. Loadable(r)
    BY <1>3, <1>6, <1>7, KeyedIsLoadable
  <1>9. preload[t] \in Pages /\ preload \in [Tabs -> Pages]
    BY <1>1 DEF SInv, PagesOK
  <1>10. preload[t] \in [DOMAIN preload[t] -> Brought] /\ DOMAIN preload[t] \subseteq Keys
    BY <1>9 DEF Pages
  <1>11. d \in Brought
    BY <1>4, <1>5, <1>10
  <1>12. Stepped(c)
    BY <1>5, <1>8, <1>11, ApplySteps DEF UsePreloaded
  <1>13. PagesOK'
    <2>1. preload' = [preload EXCEPT ![t] = Restrict(preload[t], DOMAIN preload[t] \ {k})]
      BY <1>1, <1>2 DEF UsePreloaded
    <2>2. Restrict(preload[t], DOMAIN preload[t] \ {k}) \in Pages
      <3>1. PICK K \in SUBSET Keys : K = DOMAIN preload[t] \ {k}
        BY <1>10
      <3>2. Restrict(preload[t], K) \in [K -> Brought]
        BY <1>10, <3>1 DEF Restrict
      <3> QED BY <3>1, <3>2 DEF Pages
    <2>3. preload' \in [Tabs -> Pages]
      BY <1>9, <2>1, <2>2
    <2> QED BY <2>3 DEF UsePreloaded, SInv, PagesOK
  <1> QED BY <1>12, <1>13, SameTabs DEF UsePreloaded, SInv, Stepped, Moved

LEMMA StartLoadSteps ==
  ASSUME SInv, NEW c \in Comps, StartLoad(c)
  PROVE  SInv' /\ Stepped(c)
  <1>1. PICK r : r = comp[c]
    OBVIOUS
  <1>2. PICK p : p = [r EXCEPT !.key = KeyOf[r.args], !.before = r.data.text]
    OBVIOUS
  <1>3. PICK q : q = [p EXCEPT !.phase = "loading", !.fetched = Identity[r.args]]
    OBVIOUS
  <1>4. r.phase = "gated" /\ Loadable(r) /\ r \in Component /\ r.data.text \in Texts
        /\ r.args \in Args /\ r.call = "boot"
    BY <1>1, ComponentIs, OKIsLoadable, DataOfComponents
       DEF StartLoad, Gated, Born, CompOK, BootStage
  <1>5. q = [r EXCEPT !.phase = "loading", !.key = KeyOf[r.args],
                      !.before = r.data.text, !.fetched = Identity[r.args]]
    BY <1>2, <1>3, <1>4 DEF Component
  <1>6. Set(c, q)
    BY <1>1, <1>5 DEF StartLoad
  <1>7. Loadable(p)
    BY <1>2, <1>4, KeysOfArgs, KeyedIsLoadable
  <1>8. p \in Component /\ p.data.text \in Texts
    BY <1>2, <1>4, <1>7 DEF Loadable, Component
  <1>9. q \in Component
    BY <1>3, <1>4, <1>8, KeysOfArgs DEF Component, Phases
  <1>10. /\ q.call = p.call /\ q.initial = p.initial /\ q.inert = p.inert /\ q.data = p.data
         /\ q.live = p.live /\ q.shown = p.shown /\ q.lastData = p.lastData
         /\ q.drawn = p.drawn /\ q.detached = p.detached /\ q.phase = "loading"
         /\ q.fromCache = p.fromCache /\ q.before = p.before
    BY <1>3, <1>8 DEF Component
  <1>11. Loadable(q)
    BY <1>7, <1>9, <1>10 DEF Loadable, Drew
  <1>12. CompOK(q)
    BY <1>8, <1>10, <1>11, LoadableIsOK
  <1> QED BY <1>6, <1>12, SetMoves, SameDisk, SameTabs, SamePages
          DEF StartLoad, SInv, Stepped, Moved

LEMMA BootRenderSteps ==
  ASSUME SInv, NEW c \in Comps, BootRender(c)
  PROVE  SInv' /\ Stepped(c)
  <1>1. PICK r : r = comp[c]
    OBVIOUS
  <1>2. PICK after : after = [r EXCEPT !.phase = "children", !.inert = FALSE]
    OBVIOUS
  <1>3. PICK p : p = [after EXCEPT !.drawn = r.data.text]
    OBVIOUS
  <1>4. /\ r.phase = "loaded" /\ r.call = "boot" /\ CompOK(r) /\ r \in Component
        /\ r.data.text \in Texts /\ r.initial.text \in Texts
    BY <1>1, ComponentIs DEF BootRender, Born
  <1>5. Set(c, IF r.detached \/ ShouldRerender(r) THEN Rendered(p) ELSE after)
    BY <1>1, <1>2, <1>3 DEF BootRender
  <1>6. "children" \in Phases /\ FALSE \in BOOLEAN
    BY DEF Phases
  <1>7. after \in Component
    BY <1>2, <1>4, <1>6 DEF Component
  <1>8. /\ after.phase = "children" /\ after.data = r.data /\ after.initial = r.initial
        /\ after.live = r.live /\ after.shown = r.shown /\ after.lastData = r.lastData
    BY <1>2, <1>4 DEF Component
  <1>9. CASE r.detached \/ ShouldRerender(r)
    <2>1. p \in Component
      BY <1>3, <1>4, <1>7 DEF Component
    <2>2. p.phase = "children" /\ p.data = r.data /\ p.initial = r.initial
      BY <1>3, <1>7, <1>8 DEF Component
    <2>3. PICK q : q = Rendered(p)
      OBVIOUS
    <2>4. q \in Component /\ Untouched(q, p) /\ Drew(q) /\ q.shown = p.data
      BY <2>1, <2>3, RenderedFields
    <2>5. CompOK(q)
      BY <1>4, <2>2, <2>4, DrawnIsOK DEF Untouched, Drawn
    <2> QED BY <1>5, <1>9, <2>3, <2>5, SetMoves, SameDisk, SameTabs, SamePages
            DEF BootRender, SInv, Stepped, Moved
  <1>10. CASE ~ (r.detached \/ ShouldRerender(r))
    <2>1. Drew(r) /\ r.drawn = r.lastData /\ r.drawn = r.data.text
      BY <1>4, <1>10 DEF ShouldRerender, CompOK, BootStage
    <2>2. Drawn(after)
      BY <1>8, <2>1 DEF Drawn, Drew
    <2>3. CompOK(after)
      BY <1>4, <1>7, <1>8, <2>2, DrawnIsOK
    <2> QED BY <1>5, <1>10, <2>3, SetMoves, SameDisk, SameTabs, SamePages
            DEF BootRender, SInv, Stepped, Moved
  <1> QED BY <1>9, <1>10

LEMMA LoadSettles ==
  ASSUME SInv, NEW c \in Comps,
         LoadReturns(c) \/ LoadRecovers(c)
  PROVE  SInv' /\ Stepped(c)
  <1>1. /\ Loadable(comp[c]) /\ comp[c] \in Component /\ comp[c].fetched \in Sources
        /\ Brings[c] \subseteq Texts
    BY ComponentIs, OKIsLoadable, ParametersAssumption
       DEF LoadReturns, LoadRecovers, Loading, Component
  <1>2. CASE LoadReturns(c)
    <2>1. PICK x \in Brings[c] : Settle(c, comp[c], [text |-> x, of |-> comp[c].fetched])
      BY <1>2 DEF LoadReturns
    <2>2. [text |-> x, of |-> comp[c].fetched] \in Brought
      BY <1>1 DEF Brought
    <2>3. Stepped(c)
      BY <1>1, <1>2, <2>1, <2>2, SettleSteps DEF LoadReturns
    <2> QED BY <1>2, <2>3, SameTabs, SamePages DEF LoadReturns, SInv, Stepped, Moved
  <1>3. CASE LoadRecovers(c)
    <2>1. PICK x \in Brings[c] :
            Settle(c, [comp[c] EXCEPT !.failed = TRUE], [text |-> x, of |-> Fallback])
      BY <1>3 DEF LoadRecovers
    <2>2. [text |-> x, of |-> Fallback] \in Brought
      BY <1>1 DEF Brought, Sources
    <2>3. Loadable([comp[c] EXCEPT !.failed = TRUE])
      BY <1>1, KeyedIsLoadable
    <2>4. Stepped(c)
      BY <1>3, <2>1, <2>2, <2>3, SettleSteps DEF LoadRecovers
    <2> QED BY <1>3, <2>4, SameTabs, SamePages DEF LoadRecovers, SInv, Stepped, Moved
  <1> QED BY <1>2, <1>3

LEMMA LoadFailsSteps ==
  ASSUME SInv, NEW c \in Comps, LoadFails(c)
  PROVE  SInv' /\ Stepped(c)
  <1>1. PICK p : p = [comp[c] EXCEPT !.failed = TRUE]
    OBVIOUS
  <1>2. /\ Loadable(comp[c]) /\ comp[c] \in Component /\ comp[c].data.text \in Texts
    BY ComponentIs, OKIsLoadable DEF LoadFails, Loading, Born
  <1>3. Loadable(p)
    BY <1>1, <1>2, KeyedIsLoadable
  <1>4. p.data = comp[c].data
    BY <1>1, <1>2 DEF Component
  <1>5. CompOK(Rejected(p))
    BY <1>2, <1>3, <1>4, LoadableIsOK
  <1>6. Set(c, Rejected(p))
    BY <1>1 DEF LoadFails
  <1> QED BY <1>5, <1>6, SetMoves, SameDisk, SameTabs, SamePages
          DEF LoadFails, SInv, Stepped, Moved

LEMMA CalledFields ==
  ASSUME NEW c, comp[c] \in Component, NEW m \in Calls
  PROVE  LET q == Called(c, m)
             r == comp[c]
         IN  /\ q \in Component /\ q.call = m /\ ~q.rejected /\ q.phase = r.phase
             /\ q.args = r.args /\ q.data = r.data /\ q.initial = r.initial
             /\ q.key = r.key /\ q.dataKey = r.dataKey /\ q.failed = r.failed
             /\ q.inert = r.inert /\ q.due = r.due /\ q.dynamic = r.dynamic
             /\ q.detached = r.detached /\ q.live = r.live /\ q.shown = r.shown
             /\ q.lastData = r.lastData /\ q.drawn = r.drawn
  <1>1. PICK r \in Component : r = comp[c]
    OBVIOUS
  <1>2. PICK q : q = [r EXCEPT !.call = m, !.rejected = FALSE]
    OBVIOUS
  <1>3. q = Called(c, m)
    BY <1>1, <1>2 DEF Called
  <1>4. q \in Component
    BY <1>2 DEF Component
  <1>5. /\ q.call = m /\ ~q.rejected /\ q.phase = r.phase
        /\ q.args = r.args /\ q.data = r.data /\ q.initial = r.initial
        /\ q.key = r.key /\ q.dataKey = r.dataKey /\ q.failed = r.failed
        /\ q.inert = r.inert /\ q.due = r.due /\ q.dynamic = r.dynamic
        /\ q.detached = r.detached /\ q.live = r.live /\ q.shown = r.shown
        /\ q.lastData = r.lastData /\ q.drawn = r.drawn
    BY <1>2 DEF Component
  <1> QED BY <1>1, <1>3, <1>4, <1>5

(* A call that fetches, from what is on screen when it does                *)
LEMMA FetchingIsOK ==
  ASSUME NEW r \in Component, r.data.text \in Texts, r.initial.text \in Texts,
         r.call # "boot", r.inert \/ Drew(r),
         r.call \in {"reload", "refresh"} /\ r.fromCache /\ ~r.inert
           => r.shown.text = r.data.text
  PROVE  CompOK(Fetching(r))
  <1>1. PICK q : q = Fetching(r)
    OBVIOUS
  <1>2. /\ q \in Component /\ q.phase = "loading" /\ q.before = r.data.text
        /\ q.call = r.call /\ q.data = r.data
        /\ q.initial = r.initial /\ q.inert = r.inert /\ q.live = r.live
        /\ q.shown = r.shown /\ q.lastData = r.lastData /\ q.fromCache = r.fromCache
    BY <1>1, FetchingFields
  <1>3. Loadable(q)
    BY <1>2 DEF Loadable, Drew
  <1> QED BY <1>1, <1>2, <1>3, LoadableIsOK

LEMMA IdleIs ==
  ASSUME SInv, NEW c \in Comps, comp[c].phase = "idle"
  PROVE  /\ comp[c] \in Component /\ comp[c].data.text \in Texts
         /\ comp[c].initial.text \in Texts /\ comp[c].args \in Args
         /\ comp[c].inert \/ Drew(comp[c])
  BY ComponentIs, DataOfComponents DEF Born, CompOK, CallStage

LEMMA CallLoadSteps ==
  ASSUME SInv, NEW c \in Comps, CallLoad(c)
  PROVE  SInv' /\ Stepped(c)
  <1>1. PICK r : r = Called(c, "load")
    OBVIOUS
  <1>2. /\ comp[c] \in Component /\ comp[c].data.text \in Texts
        /\ comp[c].initial.text \in Texts /\ (comp[c].inert \/ Drew(comp[c]))
    BY IdleIs DEF CallLoad, MayCall, Idle
  <1>3. /\ r \in Component /\ r.call = "load" /\ r.data = comp[c].data
        /\ r.initial = comp[c].initial /\ r.inert = comp[c].inert
        /\ r.live = comp[c].live /\ r.shown = comp[c].shown
        /\ r.lastData = comp[c].lastData
    BY <1>1, <1>2, CalledFields DEF Calls
  <1>4. CompOK(Fetching(r))
    BY <1>2, <1>3, FetchingIsOK DEF Drew
  <1>5. Set(c, Fetching(r)) /\ Event
    BY <1>1 DEF CallLoad, MayCall
  <1> QED BY <1>4, <1>5, SetMoves, SameDisk, SameTabs, SamePages
          DEF CallLoad, SInv, Stepped, Moved

LEMMA LoadEndsSteps ==
  ASSUME SInv, NEW c \in Comps, LoadEnds(c)
  PROVE  SInv' /\ Stepped(c)
  <1>1. PICK r : r = comp[c]
    OBVIOUS
  <1>2. PICK q : q = Ended(r)
    OBVIOUS
  <1>3. /\ r \in Component /\ r.call = "load" /\ CompOK(r) /\ r.phase = "loaded"
        /\ r.data.text \in Texts /\ r.initial.text \in Texts
    BY <1>1, ComponentIs DEF LoadEnds, Born
  <1>4. /\ q \in Component /\ q.phase = "idle" /\ q.call = "load"
        /\ q.inert = r.inert /\ q.live = r.live /\ q.shown = r.shown
        /\ q.lastData = r.lastData /\ q.data = r.data /\ q.initial = r.initial
    BY <1>2, <1>3, EndedFields
  <1>5. q.inert \/ Drew(q)
    BY <1>3, <1>4 DEF CompOK, CallStage, Drew
  <1>6. CompOK(q)
    BY <1>3, <1>4, <1>5 DEF CompOK, HasText, BootStage, CallStage, LastStage
  <1>7. Set(c, q)
    BY <1>1, <1>2 DEF LoadEnds
  <1> QED BY <1>6, <1>7, SetMoves, SameDisk, SameTabs, SamePages
          DEF LoadEnds, SInv, Stepped, Moved

(* What reload() shows from the cache before it fetches                    *)
LEMMA FromCacheIs ==
  ASSUME SInv, NEW c \in Comps, NEW r \in Component, r.data.text \in Texts,
         NEW k, r.key = k, Holds(Module(c), disk, Module(c).mode, k)
  PROVE  LET q == FromCache(c, r)
         IN  /\ q \in Component /\ q.call = r.call /\ q.initial = r.initial
             /\ q.data.text \in Texts /\ (q.inert \/ Drew(q))
             /\ ~q.inert => q.shown.text = q.data.text
             /\ q.args = r.args /\ q.key = r.key /\ q.due = r.due /\ q.failed = r.failed
             /\ q.dynamic = r.dynamic
             /\ q.data \in {r.data, Get(Module(c), disk, Module(c).mode, k)}
  <1>1. PICK t : t = Module(c)
    OBVIOUS
  <1>2. PICK entry : entry = Get(t, disk, t.mode, k)
    OBVIOUS
  <1>3. entry \in Data /\ entry.text \in Texts
    BY <1>1, <1>2, GetIs
  <1>4. PICK q : q = FromCache(c, r)
    OBVIOUS
  <1>5. CASE t.mode = "html"
    <2>1. q = Injected(r, entry)
      BY <1>1, <1>2, <1>4, <1>5 DEF FromCache
    <2>2. q \in Component /\ Untouched(q, r) /\ q.inert = TRUE
      BY <1>3, <2>1, InjectedFields
    <2> QED BY <1>4, <2>2 DEF Untouched
  <1>6. CASE t.mode # "html"
    <2>1. PICK p : p = [r EXCEPT !.data = entry, !.dataKey = r.key]
      OBVIOUS
    <2>2. q = Rendered(p)
      BY <1>1, <1>2, <1>4, <1>6, <2>1 DEF FromCache
    <2>3. p \in Component
      <3>1. r.key \in Keys \cup {NoKey}
        BY DataOfComponents
      <3>2. [r EXCEPT !.data = entry] \in Component
        BY <1>3 DEF Component
      <3> QED BY <2>1, <3>1, <3>2 DEF Component
    <2>4. /\ p.data = entry /\ p.call = r.call /\ p.initial = r.initial
          /\ p.args = r.args /\ p.key = r.key /\ p.due = r.due /\ p.failed = r.failed
          /\ p.dynamic = r.dynamic
      BY <2>1 DEF Component
    <2>5. q \in Component /\ Untouched(q, p) /\ Drew(q) /\ q.shown = p.data
      BY <2>2, <2>3, RenderedFields
    <2> QED BY <1>1, <1>2, <1>3, <1>4, <2>4, <2>5 DEF Untouched
  <1> QED BY <1>5, <1>6

LEMMA CallReloadSteps ==
  ASSUME SInv, NEW c \in Comps, NEW m \in {"reload", "refresh"}, CallReload(c, m)
  PROVE  SInv' /\ Stepped(c)
  <1>1. PICK k : k = KeyOf[comp[c].args]
    OBVIOUS
  <1>2. PICK r : r = [Called(c, m) EXCEPT !.key = k, !.wasReady = comp[c].ready,
                                          !.ready = FALSE]
    OBVIOUS
  <1>3. \/ /\ Holds(Module(c), disk, Module(c).mode, k)
           /\ Set(c, Fetching([FromCache(c, r) EXCEPT !.fromCache = TRUE]))
        \/ Set(c, Fetching([r EXCEPT !.fromCache = FALSE]))
    <2> DEFINE found == /\ r.lastArgs # NoKey /\ <<r.args, r.lastArgs>> \notin SameJson
                        /\ k # NoKey /\ ~r.failed
                        /\ Holds(Module(c), disk, Module(c).mode, k)
                        /\ \/ Module(c).mode = "html"
                           \/ Get(Module(c), disk, Module(c).mode, k).text # Empty
    <2>1. PICK reads \in BOOLEAN :
            Set(c, IF found /\ reads
                   THEN Fetching([FromCache(c, r) EXCEPT !.fromCache = TRUE])
                   ELSE Fetching([r EXCEPT !.fromCache = FALSE]))
      BY <1>1, <1>2 DEF CallReload
    <2>2. found => Holds(Module(c), disk, Module(c).mode, k)
      OBVIOUS
    <2> HIDE DEF found
    <2> QED BY <2>1, <2>2
  <1>4. /\ comp[c] \in Component /\ comp[c].data.text \in Texts
        /\ comp[c].initial.text \in Texts /\ comp[c].args \in Args
        /\ comp[c].inert \/ Drew(comp[c])
    BY IdleIs DEF CallReload, MayCall, Idle
  <1>5. k \in Keys \cup {NoKey}
    BY <1>1, <1>4, KeysOfArgs
  <1>6. PICK q : q = Called(c, m)
    OBVIOUS
  <1>7. /\ q \in Component /\ q.call = m /\ q.data = comp[c].data
        /\ q.initial = comp[c].initial /\ q.inert = comp[c].inert
        /\ q.live = comp[c].live /\ q.shown = comp[c].shown
        /\ q.lastData = comp[c].lastData /\ comp[c].ready \in BOOLEAN
    BY <1>4, <1>6, CalledFields DEF Calls, Component
  <1>8. r \in Component
    <2>1. PICK p : p = [q EXCEPT !.key = k]
      OBVIOUS
    <2>2. p \in Component
      BY <1>5, <1>7, <2>1 DEF Component
    <2>3. r = [p EXCEPT !.wasReady = comp[c].ready, !.ready = FALSE]
      BY <1>2, <1>6, <1>7, <2>1 DEF Component
    <2>4. \A b \in BOOLEAN : [p EXCEPT !.wasReady = b, !.ready = FALSE] \in Component
      BY <2>2 DEF Component
    <2> QED BY <1>7, <2>3, <2>4
  <1>9. /\ r.call = m /\ r.data = q.data /\ r.initial = q.initial /\ r.inert = q.inert
        /\ r.live = q.live /\ r.shown = q.shown /\ r.lastData = q.lastData /\ r.key = k
    BY <1>2, <1>6, <1>7 DEF Component
  <1>10. CASE Set(c, Fetching([r EXCEPT !.fromCache = FALSE]))
    <2>1. PICK p : p = [r EXCEPT !.fromCache = FALSE]
      OBVIOUS
    <2>2. p \in Component
      BY <1>8, <2>1 DEF Component
    <2>3. /\ p.call = m /\ p.data = r.data /\ p.initial = r.initial /\ p.inert = r.inert
          /\ p.live = r.live /\ p.shown = r.shown /\ p.lastData = r.lastData /\ ~p.fromCache
      BY <1>8, <1>9, <2>1 DEF Component
    <2>4. CompOK(Fetching(p))
      BY <1>4, <1>7, <1>9, <2>2, <2>3, FetchingIsOK DEF Drew
    <2> QED BY <1>10, <2>1, <2>4, SetMoves, SameDisk, SameTabs, SamePages
            DEF CallReload, MayCall, SInv, Stepped, Moved
  <1>11. CASE /\ Holds(Module(c), disk, Module(c).mode, k)
              /\ Set(c, Fetching([FromCache(c, r) EXCEPT !.fromCache = TRUE]))
    <2>1. PICK f : f = FromCache(c, r)
      OBVIOUS
    <2>2. /\ f \in Component /\ f.call = r.call /\ f.initial = r.initial
          /\ f.data.text \in Texts /\ (f.inert \/ Drew(f))
          /\ ~f.inert => f.shown.text = f.data.text
      BY <1>4, <1>7, <1>8, <1>9, <1>11, <2>1, FromCacheIs
    <2>3. PICK p : p = [f EXCEPT !.fromCache = TRUE]
      OBVIOUS
    <2>4. p \in Component
      BY <2>2, <2>3 DEF Component
    <2>5. /\ p.call = f.call /\ p.data = f.data /\ p.initial = f.initial /\ p.inert = f.inert
          /\ p.live = f.live /\ p.shown = f.shown /\ p.lastData = f.lastData
      BY <2>2, <2>3 DEF Component
    <2>6. CompOK(Fetching(p))
      BY <1>4, <1>7, <1>9, <2>2, <2>4, <2>5, FetchingIsOK DEF Drew
    <2> QED BY <1>11, <2>1, <2>3, <2>6, SetMoves, SameDisk, SameTabs, SamePages
            DEF CallReload, MayCall, SInv, Stepped, Moved
  <1> QED BY <1>3, <1>10, <1>11

LEMMA ReloadRenderSteps ==
  ASSUME SInv, NEW c \in Comps, ReloadRender(c)
  PROVE  SInv' /\ Stepped(c)
  <1>1. PICK r : r = comp[c]
    OBVIOUS
  <1>2. PICK after : after = [r EXCEPT !.inert = FALSE]
    OBVIOUS
  <1>3. PICK p : p = [after EXCEPT !.phase = "children"]
    OBVIOUS
  <1>4. /\ r.phase = "loaded" /\ r.call \in {"reload", "refresh"} /\ CompOK(r)
        /\ r \in Component /\ r.data.text \in Texts /\ r.initial.text \in Texts
    BY <1>1, ComponentIs DEF ReloadRender, Born
  <1>5. /\ Rerenders(r) => Set(c, Rendered(p)) /\ UNCHANGED disk
        /\ ~Rerenders(r) /\ r.fromCache => Set(c, p) /\ UNCHANGED disk
        /\ ~Rerenders(r) /\ ~r.fromCache => Snapshot(c, after, Ready(after))
    BY <1>1, <1>2, <1>3 DEF ReloadRender
  <1>6. after \in Component /\ p \in Component
    <2>1. after \in Component
      BY <1>2, <1>4 DEF Component
    <2> QED BY <1>3, <2>1 DEF Component, Phases
  <1>7. /\ after.data = r.data /\ after.initial = r.initial /\ after.live = r.live
        /\ after.shown = r.shown /\ after.lastData = r.lastData /\ after.call = r.call
        /\ p.data = r.data /\ p.initial = r.initial /\ p.live = r.live
        /\ p.shown = r.shown /\ p.lastData = r.lastData /\ p.phase = "children"
    <2>1. /\ after.data = r.data /\ after.initial = r.initial /\ after.live = r.live
          /\ after.shown = r.shown /\ after.lastData = r.lastData /\ after.call = r.call
      BY <1>2, <1>4 DEF Component
    <2> QED BY <1>3, <1>6, <2>1 DEF Component
  <1>8. ~ Rerenders(r) => Drew(r) /\ r.shown.text = r.data.text
    BY <1>4 DEF Rerenders, CompOK, CallStage, Drew
  <1>9. CASE Rerenders(r)
    <2>1. PICK q : q = Rendered(p)
      OBVIOUS
    <2>2. q \in Component /\ Untouched(q, p) /\ Drew(q) /\ q.shown = p.data
      BY <1>6, <2>1, RenderedFields
    <2>3. CompOK(q)
      BY <1>4, <1>7, <2>2, DrawnIsOK DEF Untouched, Drawn
    <2>4. Set(c, q) /\ UNCHANGED disk
      BY <1>5, <1>9, <2>1
    <2> QED BY <2>3, <2>4, SetMoves, SameDisk, SameTabs, SamePages
            DEF ReloadRender, SInv, Stepped, Moved
  <1>10. CASE ~ Rerenders(r) /\ r.fromCache
    <2>1. CompOK(p)
      BY <1>4, <1>6, <1>7, <1>8, <1>10, DrawnIsOK DEF Drawn, Drew
    <2>2. Set(c, p) /\ UNCHANGED disk
      BY <1>5, <1>10
    <2> QED BY <2>1, <2>2, SetMoves, SameDisk, SameTabs, SamePages
            DEF ReloadRender, SInv, Stepped, Moved
  <1>11. CASE ~ Rerenders(r) /\ ~ r.fromCache
    <2>1. Snapshot(c, after, Ready(after))
      BY <1>5, <1>11
    <2>2. Drawn(after)
      BY <1>7, <1>8, <1>11 DEF Drawn, Drew
    <2>3. Stepped(c)
      BY <1>4, <1>6, <1>7, <2>1, <2>2, SnapshotSteps DEF ReloadRender
    <2> QED BY <2>3, SameTabs, SamePages DEF ReloadRender, SInv, Stepped, Moved
  <1> QED BY <1>9, <1>10, <1>11

LEMMA CallBlankSteps ==
  ASSUME SInv, NEW c \in Comps, CallBlank(c)
  PROVE  SInv' /\ Stepped(c)
  <1>1. PICK q : q = Called(c, "blank")
    OBVIOUS
  <1>2. PICK r : r = [q EXCEPT !.ready = FALSE, !.dataKey = NoKey,
                               !.data = comp[c].initial, !.phase = "children"]
    OBVIOUS
  <1>3. PICK k : k = KeyOf[r.args]
    OBVIOUS
  <1>4. /\ Set(c, Rendered(r)) /\ Event
        /\ disk' = IF k = NoKey THEN disk ELSE Removed(Module(c), disk, {"data", "html"}, k)
    BY <1>1, <1>2, <1>3 DEF CallBlank, MayCall
  <1>5. /\ comp[c] \in Component /\ comp[c].initial.text \in Texts
        /\ comp[c].initial \in Data
    BY IdleIs, DataOfComponents DEF CallBlank, MayCall, Idle
  <1>6. q \in Component /\ q.initial = comp[c].initial
    BY <1>1, <1>5, CalledFields DEF Calls
  <1>7. r \in Component
    <2>1. PICK v : v = [q EXCEPT !.data = comp[c].initial, !.phase = "children"]
      OBVIOUS
    <2>2. v \in Component
      BY <1>5, <1>6, <2>1 DEF Component, Phases
    <2>3. r = [v EXCEPT !.ready = FALSE, !.dataKey = NoKey]
      BY <1>2, <1>6, <2>1 DEF Component
    <2> QED BY <2>2, <2>3 DEF Component
  <1>8. r.data = comp[c].initial /\ r.initial = comp[c].initial /\ r.phase = "children"
    BY <1>2, <1>6 DEF Component
  <1>9. PICK g : g = Rendered(r)
    OBVIOUS
  <1>10. g \in Component /\ Untouched(g, r) /\ Drew(g) /\ g.shown = r.data
    BY <1>7, <1>9, RenderedFields
  <1>11. CompOK(g)
    BY <1>5, <1>8, <1>10, DrawnIsOK DEF Untouched, Drawn
  <1>12. Moved(c)
    BY <1>4, <1>9, <1>11, SetMoves DEF SInv
  <1>13. PICK S : /\ S \subseteq {id \in DOMAIN disk.items : id[3] = Module(c).scope}
                  /\ \/ disk' = disk /\ S = {}
                     \/ /\ Disk(disk') /\ disk'.marker = disk.marker
                        /\ DOMAIN disk'.items = DOMAIN disk.items \ S
    <2>1. CASE disk' = disk
      BY <2>1
    <2>2. CASE disk' = Without(disk, {Entry(Module(c), kind, k) : kind \in {"data", "html"}})
      <3>1. PICK T : T = {Entry(Module(c), kind, k) : kind \in {"data", "html"}}
        OBVIOUS
      <3>2. \A id \in T : id[3] = Module(c).scope
        BY <3>1 DEF Entry
      <3>3. /\ Disk(disk') /\ disk'.marker = disk.marker
            /\ DOMAIN disk'.items = DOMAIN disk.items \ T
        BY <2>2, <3>1, WithoutKeepsDisk DEF SInv, DiskOK
      <3>4. DOMAIN disk.items \ T = DOMAIN disk.items \ (DOMAIN disk.items \cap T)
        OBVIOUS
      <3> QED BY <3>2, <3>3, <3>4
    <2> QED BY <1>4, <2>1, <2>2 DEF Removed
  <1>14. DiskOK' /\ Kept(c)
    BY <1>13 DEF CallBlank, SInv, DiskOK, Kept, Lost
  <1> QED BY <1>4, <1>12, <1>14, SameTabs, SamePages
          DEF CallBlank, SInv, Stepped, Moved

LEMMA ChildrenReadySteps ==
  ASSUME SInv, NEW c \in Comps, ChildrenReady(c)
  PROVE  SInv' /\ Stepped(c)
  <1>1. PICK r : r = comp[c]
    OBVIOUS
  <1>2. /\ r.phase = "children" /\ r \in Component /\ Drawn(r)
        /\ r.data.text \in Texts /\ r.initial.text \in Texts
    BY <1>1, ComponentIs DEF ChildrenReady, Born, CompOK, LastStage
  <1>3. CASE r.call = "blank"
    <2>1. Set(c, Ready(r)) /\ UNCHANGED disk
      BY <1>1, <1>3 DEF ChildrenReady
    <2>2. CompOK(Ready(r))
      BY <1>2, KeptIsOK
    <2> QED BY <2>1, <2>2, SetMoves, SameDisk, SameTabs, SamePages
            DEF ChildrenReady, SInv, Stepped, Moved
  <1>4. CASE r.call # "blank"
    <2>1. Snapshot(c, r, Ready(r))
      BY <1>1, <1>4 DEF ChildrenReady
    <2>2. Stepped(c)
      BY <1>2, <2>1, SnapshotSteps DEF ChildrenReady
    <2> QED BY <2>2, SameTabs, SamePages DEF ChildrenReady, SInv, Stepped, Moved
  <1> QED BY <1>3, <1>4

LEMMA StopSteps ==
  ASSUME SInv, NEW c \in Comps, Stop(c)
  PROVE  SInv' /\ Stepped(c)
  BY DeadIsOK, SetMoves, SameDisk, SameTabs, SamePages
     DEF Stop, SInv, Stepped, Moved

LEMMA SetArgsSteps ==
  ASSUME SInv, NEW c \in Comps, SetArgs(c)
  PROVE  SInv' /\ Stepped(c)
  <1>1. PICK r : r = comp[c]
    OBVIOUS
  <1>2. PICK b \in Boots[c] : Set(c, [comp[c] EXCEPT !.args = b.args])
    BY DEF SetArgs
  <1>3. PICK q : q = [r EXCEPT !.args = b.args]
    OBVIOUS
  <1>4. b.args \in Args
    BY ParametersAssumption DEF Boot
  <1>5. CompOK(r) /\ r \in Component
    BY <1>1, ComponentIs
  <1>6. q \in Component
    BY <1>3, <1>4, <1>5 DEF Component
  <1>7. /\ q.phase = r.phase /\ q.call = r.call /\ q.data = r.data /\ q.initial = r.initial
        /\ q.detached = r.detached /\ q.inert = r.inert /\ q.live = r.live
        /\ q.shown = r.shown /\ q.lastData = r.lastData /\ q.drawn = r.drawn
        /\ q.fromCache = r.fromCache /\ q.before = r.before /\ q.rejected = r.rejected
        /\ q.ready = r.ready
    BY <1>3, <1>5 DEF Component
  <1>8. HasText(q) /\ BootStage(q)
    BY <1>5, <1>7 DEF CompOK, HasText, Born, BootStage, Drew
  <1>9. CallStage(q) /\ LastStage(q)
    BY <1>5, <1>7 DEF CompOK, CallStage, LastStage, Drew, Drawn
  <1>10. CompOK(q) /\ Set(c, q)
    BY <1>1, <1>2, <1>3, <1>6, <1>8, <1>9 DEF CompOK
  <1> QED BY <1>10, SetMoves, SameDisk, SameTabs, SamePages
          DEF SetArgs, SInv, Stepped, Moved

LEMMA TurnSteps ==
  ASSUME SInv, NEW c \in Comps, Turn(c)
  PROVE  SInv' /\ Stepped(c)
  BY CreateSteps, UseCachedSteps, UsePreloadedSteps, StartLoadSteps, BootRenderSteps,
     LoadSettles, LoadFailsSteps, CallLoadSteps, LoadEndsSteps, CallReloadSteps,
     ReloadRenderSteps, CallBlankSteps, ChildrenReadySteps, StopSteps, SetArgsSteps
     DEF Turn

-----------------------------------------------------------------------------
(* The steps around the components                                         *)

LEMMA PagesAre ==
  ASSUME NEW t \in Tabs, NEW p \in Preloads[t]
  PROVE  p \in Pages
  BY PreloadsAssumption DEF Pages, Brought

LEMMA InitEstablishes ==
  ASSUME Init
  PROVE  SInv
  <1>1. DiskOK
    <2>1. DOMAIN disk.items = {} /\ disk.items \in Items
      BY NoItems DEF Init, EmptyDisk
    <2>2. IsFiniteSet(DOMAIN disk.items) /\ Cardinality(DOMAIN disk.items) = 0
      BY <2>1, FS_EmptySet
    <2>3. Used(disk) = 0
      BY <2>2 DEF Init, EmptyDisk, Used
    <2> QED BY <2>1, <2>2, <2>3, StorageAssumption DEF Init, EmptyDisk, DiskOK, Disk
  <1>2. TabsOK
    <2>1. IsFiniteSet(used)
      BY FS_EmptySet DEF Init
    <2> QED BY <2>1 DEF Init, TabsOK, TabState, Fresh
  <1>3. PagesOK
    BY PagesAre, ParametersAssumption DEF Init, PagesOK
  <1>4. CompsOK
    BY DeadIsOK DEF Init, CompsOK, CompOK
  <1> QED BY <1>1, <1>2, <1>3, <1>4 DEF SInv

(* The storage under a scope: nothing is lost if it was the only one.      *)
LEMMA SetCacheKeySteps ==
  ASSUME SInv, NEW t \in Tabs, SetCacheKey(t)
  PROVE  SInv' /\ (Cardinality(used') <= 1 => Lost = {})
  <1>1. PICK s \in Scopes :
          /\ tab' = [tab EXCEPT ![t] = Configured(@, disk, s, ModeOf[s])]
          /\ disk' = Validated(tab[t], disk, s)
          /\ used' = used \cup {s}
    BY DEF SetCacheKey
  <1>2. Disk(disk) /\ disk.marker \in used \cup {NoScope}
    BY DEF SInv, DiskOK
  <1>3. /\ Disk(disk') /\ disk'.marker \in {disk.marker, s}
        /\ disk.marker \in {NoScope, s} => disk'.items = disk.items
    BY <1>1, <1>2, ValidatedKeepsDisk
  <1>4. DiskOK'
    BY <1>1, <1>2, <1>3 DEF DiskOK
  <1>5. used' \subseteq Scopes /\ IsFiniteSet(used')
    BY <1>1, FS_AddElement DEF SInv, TabsOK
  <1>6. TabsOK'
    <2>1. PICK q : q = Configured(tab[t], disk, s, ModeOf[s])
      OBVIOUS
    <2>2. ModeOf[s] \in {"data", "html"} /\ s # NoScope
      BY ParametersAssumption, StorageAssumption
    <2>3. tab \in [Tabs -> TabState] /\ (tab[t].ready => tab[t].available = "yes")
      BY DEF SInv, TabsOK
    <2>4. PICK a \in {"unknown", "yes", "no"} : a = Available(tab[t], disk)
      BY <2>3 DEF TabState, Available
    <2>5. PICK b \in BOOLEAN : b = (tab[t].ready \/ a = "yes")
      OBVIOUS
    <2>6. q = [scope |-> s, mode |-> ModeOf[s], available |-> a, ready |-> b]
      BY <2>1, <2>4, <2>5 DEF Configured
    <2>7. b => a = "yes"
      BY <2>3, <2>4, <2>5 DEF Available
    <2>8. /\ q \in [scope : used' \cup {NoScope}, mode : {"data", "html"},
                    available : {"unknown", "yes", "no"}, ready : BOOLEAN]
          /\ q.ready => q.scope # NoScope /\ q.available = "yes"
      BY <1>1, <2>2, <2>6, <2>7
    <2>9. tab' = [tab EXCEPT ![t] = q]
      BY <1>1, <2>1
    <2>10. \A u \in Tabs : tab[u] \in [scope : used' \cup {NoScope}, mode : {"data", "html"},
                                       available : {"unknown", "yes", "no"}, ready : BOOLEAN]
      BY <1>1, <2>3 DEF TabState
    <2>11. tab' \in [Tabs -> TabState]'
      BY <2>3, <2>8, <2>9, <2>10 DEF TabState
    <2>12. \A u \in Tabs : tab'[u].ready => tab'[u].scope # NoScope /\ tab'[u].available = "yes"
      BY <2>3, <2>8, <2>9 DEF SInv, TabsOK
    <2> QED BY <1>5, <2>11, <2>12 DEF TabsOK
  <1>7. ASSUME Cardinality(used') <= 1
        PROVE  Lost = {}
    <2>1. used \subseteq {s}
      <3>1. SUFFICES ASSUME NEW x \in used, x # s
                     PROVE  FALSE
        OBVIOUS
      <3>2. {x, s} \subseteq used'
        BY <1>1
      <3>3. Cardinality({x, s}) <= Cardinality(used')
        BY <1>5, <3>2, FS_Subset
      <3>4. Cardinality({x, s}) = 2
        <4>1. Cardinality({s}) = 1 /\ IsFiniteSet({s})
          BY FS_Singleton
        <4>2. {x, s} = {s} \cup {x} /\ x \notin {s}
          BY <3>1
        <4> QED BY <4>1, <4>2, FS_AddElement
      <3>5. Cardinality(used') \in Nat
        BY <1>5, FS_CardinalityType
      <3> QED BY <1>7, <3>3, <3>4, <3>5
    <2> QED BY <1>2, <1>3, <2>1 DEF Lost
  <1>8. PagesOK' /\ CompsOK'
    BY SamePages DEF SetCacheKey, SInv, CompsOK
  <1> QED BY <1>4, <1>6, <1>7, <1>8 DEF SInv

LEMMA PageLoadSteps ==
  ASSUME SInv, NEW t \in Tabs, PageLoad(t)
  PROVE  SInv'
  <1>1. TabsOK'
    <2>1. Fresh \in TabState /\ ~ Fresh.ready
      BY DEF Fresh, TabState
    <2>2. tab' \in [Tabs -> TabState]
      BY <2>1 DEF PageLoad, SInv, TabsOK
    <2>3. \A u \in Tabs : tab'[u].ready => tab'[u].scope # NoScope /\ tab'[u].available = "yes"
      BY <2>1 DEF PageLoad, SInv, TabsOK
    <2>4. TabState' = TabState
      BY DEF PageLoad, TabState
    <2> QED BY <2>2, <2>3, <2>4 DEF PageLoad, SInv, TabsOK
  <1>2. PagesOK'
    <2>1. PICK p \in Preloads[t] : preload' = [preload EXCEPT ![t] = p]
      BY DEF PageLoad
    <2>2. preload' \in [Tabs -> Pages]
      BY <2>1, PagesAre DEF SInv, PagesOK
    <2> QED BY <2>2, ParametersAssumption DEF PageLoad, SInv, PagesOK, Event
  <1>3. CompsOK'
    <2>1. comp' = [c \in Comps |-> IF TabOf[c] = t THEN Nobody ELSE comp[c]]
      BY DEF PageLoad
    <2>2. \A c \in Comps : comp'[c] = Nobody \/ comp'[c] = comp[c]
      BY <2>1
    <2>3. CompOK(Nobody) /\ Nobody \in Component
      BY DeadIsOK DEF CompOK
    <2>4. \A c \in Comps : CompOK(comp'[c]) /\ comp'[c] \in Component
      BY <2>2, <2>3 DEF SInv, CompsOK
    <2> QED BY <2>1, <2>4 DEF CompsOK
  <1>4. DiskOK'
    BY SameDisk DEF PageLoad
  <1> QED BY <1>1, <1>2, <1>3, <1>4 DEF SInv

LEMMA OthersSteps ==
  ASSUME SInv, OthersWrite \/ StorageCleared
  PROVE  SInv'
  <1>1. CASE OthersWrite
    <2>1. /\ disk' \in [items : Items, marker : Scopes \cup {NoScope}, foreign : Nat]
          /\ disk'.items = disk.items /\ disk'.marker = disk.marker
          /\ disk'.foreign = disk.foreign + 1
      BY <1>1 DEF OthersWrite, SInv, DiskOK, Disk
    <2>2. Cardinality(DOMAIN disk.items) \in Nat /\ disk.foreign \in Nat
      BY CardinalityOfItems DEF SInv, DiskOK, Disk
    <2>3. Used(disk') <= Capacity
      BY <1>1, <2>1, <2>2, StorageAssumption
         DEF OthersWrite, Full, Used
    <2>4. DiskOK'
      BY <1>1, <2>1, <2>3 DEF OthersWrite, SInv, DiskOK, Disk
    <2> QED BY <1>1, <2>4, SameTabs, SamePages DEF OthersWrite, SInv, CompsOK
  <1>2. CASE StorageCleared
    <2>1. DOMAIN disk'.items = {} /\ disk'.items \in Items
      BY <1>2, NoItems DEF StorageCleared, EmptyDisk
    <2>2. IsFiniteSet(DOMAIN disk'.items) /\ Cardinality(DOMAIN disk'.items) = 0
      BY <2>1, FS_EmptySet
    <2>3. Used(disk') = 0
      BY <1>2, <2>2 DEF StorageCleared, EmptyDisk, Used
    <2>4. DiskOK'
      BY <1>2, <2>1, <2>2, <2>3, StorageAssumption
         DEF StorageCleared, EmptyDisk, DiskOK, Disk
    <2> QED BY <1>2, <2>4, SameTabs, SamePages DEF StorageCleared, SInv, CompsOK
  <1> QED BY <1>1, <1>2

LEMMA NextKeeps ==
  ASSUME SInv, [Next]_vars
  PROVE  SInv'
  <1>1. CASE Next
    BY <1>1, TurnSteps, SetCacheKeySteps, PageLoadSteps, OthersSteps DEF Next
  <1>2. CASE UNCHANGED vars
    BY <1>2, SameDisk, SameTabs, SamePages DEF vars, SInv, CompsOK
  <1> QED BY <1>1, <1>2

(* Storage, tabs and components are in order: the storage within its       *)
(* quota, and what each component shows as its call has it.                *)
THEOREM Invariance == Spec => []SInv
  <1>1. Init => SInv
    BY InitEstablishes
  <1>2. SInv /\ [Next]_vars => SInv'
    BY NextKeeps
  <1> QED BY <1>1, <1>2, PTL DEF Spec

(* The types, and that jqhtml, its marker and the other users of the       *)
(* storage never take more than the quota                                  *)
THEOREM TypeCorrect == Spec => []TypeOK
  <1>1. SInv => TypeOK
    <2> SUFFICES ASSUME SInv PROVE TypeOK
      OBVIOUS
    <2>1. /\ disk.foreign \in Nat /\ Used(disk) <= Capacity
          /\ Cardinality(DOMAIN disk.items) \in Nat
      BY CardinalityOfItems DEF SInv, DiskOK, Disk
    <2>2. disk.foreign \in 0..Capacity
      BY <2>1, StorageAssumption DEF Used
    <2>3. \A id \in DOMAIN disk.items :
            id \in {"data", "html"} \X Keys \X Scopes /\ disk.items[id] \in Stored
      BY ItemsAre DEF SInv, DiskOK, Disk, Ids
    <2>4. \A t \in Tabs : tab[t].ready => tab[t].scope \in Scopes /\ tab[t].available = "yes"
      BY DEF SInv, TabsOK, TabState
    <2>5. \A t \in Tabs : DOMAIN preload[t] \subseteq Keys
      BY DEF SInv, PagesOK, Pages
    <2> QED BY <2>1, <2>2, <2>3, <2>4, <2>5
            DEF SInv, TypeOK, CompsOK, TabsOK, PagesOK, Stored
  <1> QED BY <1>1, Invariance, PTL

(* The data of a boot, reload() or refresh() that has ended is what the    *)
(* page shows, in live components, whatever the cache held.                *)
THEOREM DataIsOnScreen == Spec => []ShownIsCurrent
  <1>1. SInv => ShownIsCurrent
    BY DEF SInv, CompsOK, CompOK, LastStage, ShownIsCurrent, Idle
  <1> QED BY <1>1, Invariance, PTL

(* Entries are wiped for a reason: not by a page that starts under the     *)
(* only scope ever used, and not by a write of another scope that fits.    *)
THEOREM EntriesOutlivePages == Spec => EntriesKept
  <1> DEFINE Startup == used' # used \/ tab' # tab => (Cardinality(used') <= 1 => Lost = {})
             Storing == comp' # comp /\ ~Full(disk) =>
                          \A id \in Lost : \E c \in Comps :
                            comp'[c] # comp[c] /\ id[3] = tab[TabOf[c]].scope
  <1>1. ASSUME SInv, Next
        PROVE  Startup /\ Storing
    <2>1. ASSUME NEW c \in Comps, Turn(c)
          PROVE  Startup /\ Storing
      <3>1. UNCHANGED <<tab, used>>
        BY <2>1 DEF Turn, Create, UseCached, UsePreloaded, StartLoad, BootRender,
             LoadReturns, LoadRecovers, LoadFails, CallLoad, LoadEnds, CallReload,
             ReloadRender, CallBlank, ChildrenReady, Stop, SetArgs
      <3>2. Moved(c) /\ Kept(c)
        BY <1>1, <2>1, TurnSteps DEF Stepped
      <3>3. comp' # comp => comp'[c] # comp[c]
        BY <1>1, <3>2 DEF SInv, CompsOK, Moved
      <3> QED BY <3>1, <3>2, <3>3 DEF Kept, Module
    <2>2. ASSUME NEW t \in Tabs, SetCacheKey(t)
          PROVE  Startup /\ Storing
      BY <1>1, <2>2, SetCacheKeySteps DEF SetCacheKey
    <2>3. ASSUME NEW t \in Tabs, PageLoad(t)
          PROVE  Startup /\ Storing
      BY <2>3 DEF PageLoad, Lost
    <2>4. CASE OthersWrite \/ StorageCleared
      BY <2>4 DEF OthersWrite, StorageCleared
    <2> QED BY <1>1, <2>1, <2>2, <2>3, <2>4 DEF Next
  <1>2. SInv /\ [Next]_vars =>
          [/\ used' # used \/ tab' # tab => (Cardinality(used') <= 1 => Lost = {})
           /\ comp' # comp /\ ~Full(disk) =>
                \A id \in Lost : \E c \in Comps :
                  comp'[c] # comp[c] /\ id[3] = tab[TabOf[c]].scope]_vars
    BY <1>1
  <1> QED BY <1>2, Invariance, PTL DEF Spec, EntriesKept

-----------------------------------------------------------------------------
(* What the data on its way to the cache was loaded for                    *)
IsTrue(k, of) == \A a \in Args : KeyOf[a] = k => of = Identity[a]

(* Args of one key mean the same: what ArgKeys is checked to do.           *)
KeysIdentify ==
  \A a, b \in Args : KeyOf[a] = KeyOf[b] /\ KeyOf[a] # NoKey => Identity[a] = Identity[b]
PreloadsAreTrue ==
  \A t \in Tabs : \A p \in Preloads[t] : \A k \in DOMAIN p : IsTrue(k, p[k].of)

(* load() files under the key of the args it finds when it returns.        *)
ArgsKeptWhileLoading == "loading" \notin ArgsMove

(* A call knows what it has fetched, and an owed snapshot is of data that  *)
(* was loaded for the key it will be filed under.                          *)
CallIsTrue(r) ==
  /\ r.phase = "loading" /\ r.call # "load" /\ r.key # NoKey => IsTrue(r.key, r.fetched)
  /\ r.phase = "loading" /\ r.call = "load" => r.fetched = Identity[r.args]
  /\ /\ r.phase \in {"loaded", "children"} /\ r.call \notin {"load", "blank"}
     /\ r.due /\ r.key # NoKey /\ ~r.failed /\ r.dynamic
     => IsTrue(r.key, r.data.of)
  /\ r.phase = "gated" => ~r.due
  /\ r.phase = "children" => r.call # "load"

CallsAreTrue == \A c \in Comps : CallIsTrue(comp[c])
PagesAreTrue == \A t \in Tabs : \A k \in DOMAIN preload[t] : IsTrue(k, preload[t][k].of)
TInv == EntriesAreTrue /\ PagesAreTrue /\ CallsAreTrue

LEMMA EntriesAre ==
  EntriesAreTrue <=> \A id \in DOMAIN disk.items : IsTrue(id[2], disk.items[id].of)
  BY DEF EntriesAreTrue, IsTrue

LEMMA KeyIsTrue ==
  ASSUME KeysIdentify, NEW a \in Args, KeyOf[a] # NoKey
  PROVE  IsTrue(KeyOf[a], Identity[a])
  BY DEF KeysIdentify, IsTrue

LEMMA RestIsTrue ==
  ASSUME NEW r, r.phase \in {"idle", "stopped", "unborn"}
  PROVE  CallIsTrue(r)
  BY DEF CallIsTrue

LEMMA DeadIsTrue == CallIsTrue(Dead) /\ CallIsTrue(Nobody)
  <1>1. PICK a \in Args : a = CHOOSE x \in Args : TRUE
    BY ParametersAssumption
  <1>2. Nobody \in Component /\ Nobody.phase = "unborn"
    BY <1>1, DeadIsOK DEF Nobody, Unborn
  <1>3. Dead.phase = "stopped"
    BY <1>2 DEF Dead, Component
  <1> QED BY <1>2, <1>3, RestIsTrue

LEMMA RejectedIsTrue ==
  ASSUME NEW r \in Component
  PROVE  CallIsTrue(Rejected(r))
  <1>1. CASE r.call = "boot"
    BY <1>1, DeadIsTrue DEF Rejected
  <1>2. CASE r.call # "boot"
    <2>1. PICK e : e = Ended(r)
      OBVIOUS
    <2>2. e \in Component /\ e.phase = "idle"
      BY <2>1, EndedFields
    <2>3. PICK q : q = Rejected(r)
      OBVIOUS
    <2>4. q = [e EXCEPT !.rejected = TRUE] \/ q = [e EXCEPT !.ready = r.wasReady, !.rejected = TRUE]
      BY <1>2, <2>1, <2>3 DEF Rejected
    <2>5. q.phase = "idle"
      BY <2>2, <2>4 DEF Component
    <2> QED BY <2>3, <2>5, RestIsTrue
  <1> QED BY <1>1, <1>2

LEMMA SetIsTrue ==
  ASSUME CompsOK, CallsAreTrue, NEW c \in Comps, NEW r, CallIsTrue(r), Set(c, r)
  PROVE  CallsAreTrue'
  <1>1. \A d \in Comps : comp'[d] = IF d = c THEN r ELSE comp[d]
    BY DEF Set, CompsOK
  <1>2. \A d \in Comps : CallIsTrue(comp'[d])
    BY <1>1 DEF CallsAreTrue
  <1> QED BY <1>2 DEF CallsAreTrue

LEMMA SameEntries ==
  ASSUME EntriesAreTrue, UNCHANGED disk
  PROVE  EntriesAreTrue'
  BY DEF EntriesAreTrue

LEMMA WriteIsTrue ==
  ASSUME SInv, TInv, NEW c \in Comps, NEW r \in Component, CallIsTrue(r),
         NEW kind \in {"data", "html"}, NEW key \in Keys, NEW value \in Brought,
         IsTrue(key, value.of), Write(c, r, kind, key, value), used' = used
  PROVE  EntriesAreTrue' /\ CallsAreTrue'
  <1>1. /\ Set(c, r) \/ Set(c, Rejected(r))
        /\ \A x \in DOMAIN disk'.items :
             \/ x \in DOMAIN disk.items /\ disk'.items[x] = disk.items[x]
             \/ x = Entry(Module(c), kind, key) /\ disk'.items[x] = value
    BY WriteStores
  <1>2. CallsAreTrue'
    BY <1>1, RejectedIsTrue, SetIsTrue DEF SInv, TInv
  <1>3. Entry(Module(c), kind, key)[2] = key
    BY DEF Entry
  <1>4. \A x \in DOMAIN disk'.items : IsTrue(x[2], disk'.items[x].of)
    BY <1>1, <1>3, EntriesAre DEF TInv
  <1>5. EntriesAreTrue'
    BY <1>4 DEF EntriesAreTrue, IsTrue
  <1> QED BY <1>2, <1>5

LEMMA ApplyIsTrue ==
  ASSUME SInv, TInv, NEW c \in Comps, NEW r \in Component, NEW d \in Brought,
         r.key # NoKey /\ ~r.failed => IsTrue(r.key, d.of),
         Apply(c, r, d), used' = used
  PROVE  EntriesAreTrue' /\ CallsAreTrue'
  <1>1. PICK q : q = Accepted(r, d, Module(c).mode)
    OBVIOUS
  <1>2. d \in Data
    BY DEF Brought, Data
  <1>3. /\ q \in Component /\ q.phase = "loaded" /\ q.data = d
        /\ q.key = r.key /\ q.failed = r.failed
    BY <1>1, <1>2, AcceptedFields
  <1>4. CallIsTrue(q)
    BY <1>3 DEF CallIsTrue
  <1>5. CASE Filed(r, d) /\ Module(c).mode = "data"
    <2>1. Write(c, q, "data", r.key, d)
      BY <1>1, <1>5 DEF Apply
    <2>2. r.key \in Keys /\ IsTrue(r.key, d.of)
      BY <1>5, DataOfComponents DEF Filed
    <2> QED BY <1>3, <1>4, <2>1, <2>2, WriteIsTrue
  <1>6. CASE ~ (Filed(r, d) /\ Module(c).mode = "data")
    <2>1. Set(c, q) /\ UNCHANGED disk
      BY <1>1, <1>6 DEF Apply
    <2> QED BY <1>4, <2>1, SetIsTrue, SameEntries DEF SInv, TInv
  <1> QED BY <1>5, <1>6

LEMMA ApplyLoadedIsTrue ==
  ASSUME SInv, TInv, KeysIdentify, NEW c \in Comps, NEW r \in Component, NEW d \in Brought,
         ~r.failed => d.of = Identity[r.args], r.call = "load",
         ApplyLoaded(c, r, d), used' = used
  PROVE  EntriesAreTrue' /\ CallsAreTrue'
  <1>1. PICK key : key = KeyOf[r.args]
    OBVIOUS
  <1>2. PICK files \in BOOLEAN :
          files = (r.before # d.text /\ ~r.failed /\ key # NoKey /\ Module(c).mode # "html")
    OBVIOUS
  <1>3. PICK x : x = CASE files -> key
                       [] r.before # d.text /\ ~files -> NoKey
                       [] OTHER -> r.dataKey
    OBVIOUS
  <1>4. PICK q : q = [r EXCEPT !.phase = "loaded", !.data = d, !.dataKey = x]
    OBVIOUS
  <1>5. IF files THEN Write(c, q, "data", key, d) ELSE Set(c, q) /\ UNCHANGED disk
    BY <1>1, <1>2, <1>3, <1>4 DEF ApplyLoaded
  <1>6. d \in Data /\ d.text \in Texts /\ "loaded" \in Phases /\ r.args \in Args
    BY DataOfComponents DEF Brought, Data, Phases
  <1>7. key \in Keys \cup {NoKey}
    BY <1>1, <1>6, KeysOfArgs
  <1>8. x \in Keys \cup {NoKey}
    BY <1>3, <1>7 DEF Component
  <1>9. q \in Component
    BY <1>4, <1>6, <1>8 DEF Component
  <1>10. q.phase = "loaded" /\ q.call = "load"
    BY <1>4 DEF Component
  <1>11. CallIsTrue(q)
    BY <1>10 DEF CallIsTrue
  <1>12. CASE files
    <2>1. key \in Keys /\ IsTrue(key, d.of)
      BY <1>1, <1>2, <1>6, <1>7, <1>12, KeyIsTrue
    <2> QED BY <1>5, <1>9, <1>11, <1>12, <2>1, WriteIsTrue
  <1>13. CASE ~ files
    BY <1>5, <1>11, <1>13, SetIsTrue, SameEntries DEF SInv, TInv
  <1> QED BY <1>12, <1>13

LEMMA SnapshotIsTrue ==
  ASSUME SInv, TInv, NEW c \in Comps, NEW r \in Component, Drawn(r), r.data.text \in Texts,
         r.due /\ r.key # NoKey /\ ~r.failed /\ r.dynamic => IsTrue(r.key, r.data.of),
         Snapshot(c, r, Ready(r)), used' = used
  PROVE  EntriesAreTrue' /\ CallsAreTrue'
  <1>1. PICK e : e = Ready(r)
    OBVIOUS
  <1>2. e \in Component /\ e.phase = "idle"
    BY <1>1, ReadyFields
  <1>3. PICK b \in BOOLEAN : b = (e.due /\ r.key = NoKey)
    OBVIOUS
  <1>4. PICK q : q = [e EXCEPT !.due = b]
    OBVIOUS
  <1>5. q = [Ready(r) EXCEPT !.due = @ /\ r.key = NoKey]
    BY <1>1, <1>3, <1>4
  <1>6. q \in Component /\ q.phase = "idle"
    BY <1>2, <1>4 DEF Component
  <1>7. CallIsTrue(q)
    BY <1>6, RestIsTrue
  <1>8. CASE r.due /\ r.key # NoKey /\ ~r.failed /\ r.dynamic
    <2>1. Write(c, q, "html", r.key, Markup(r))
      BY <1>5, <1>8 DEF Snapshot
    <2>2. r.key \in Keys
      BY <1>8, DataOfComponents
    <2>3. Markup(r) \in Brought /\ Markup(r).of = r.data.of
      BY MarkupIsBrought DEF Drawn
    <2>4. IsTrue(r.key, Markup(r).of)
      BY <1>8, <2>3
    <2> QED BY <1>6, <1>7, <2>1, <2>2, <2>3, <2>4, WriteIsTrue
  <1>9. CASE ~ (r.due /\ r.key # NoKey /\ ~r.failed /\ r.dynamic)
    <2>1. Set(c, q) /\ UNCHANGED disk
      BY <1>5, <1>9 DEF Snapshot
    <2> QED BY <1>7, <2>1, SetIsTrue, SameEntries DEF SInv, TInv
  <1> QED BY <1>8, <1>9

LEMMA SamePreload ==
  ASSUME PagesAreTrue, UNCHANGED preload
  PROVE  PagesAreTrue'
  BY DEF PagesAreTrue

(* A step of the component alone: the fields that CallIsTrue reads         *)
LEMMA SetKeepsTrue ==
  ASSUME SInv, TInv, NEW c \in Comps, NEW r, Set(c, r), CallIsTrue(r),
         UNCHANGED <<disk, preload>>
  PROVE  TInv'
  BY SetIsTrue, SameEntries, SamePreload DEF SInv, TInv

LEMMA CreateIsTrue ==
  ASSUME SInv, TInv, NEW c \in Comps, Create(c)
  PROVE  TInv'
  <1>1. PICK q : Set(c, q) /\ q.phase = "gated" /\ ~q.due
    BY CreateSteps
  <1>2. CallIsTrue(q)
    BY <1>1 DEF CallIsTrue
  <1> QED BY <1>1, <1>2, SetKeepsTrue DEF Create

LEMMA UseCachedIsTrue ==
  ASSUME SInv, TInv, NEW c \in Comps, UseCached(c)
  PROVE  TInv'
  <1>1. PICK q : q = [comp[c] EXCEPT !.phase = "loaded"]
    OBVIOUS
  <1>2. comp[c] \in Component /\ ~comp[c].due
    BY ComponentIs DEF UseCached, Gated, TInv, CallsAreTrue, CallIsTrue
  <1>3. q.phase = "loaded" /\ ~q.due
    BY <1>1, <1>2 DEF Component
  <1>4. CallIsTrue(q)
    BY <1>3 DEF CallIsTrue
  <1> QED BY <1>1, <1>4, SetKeepsTrue DEF UseCached

LEMMA UsePreloadedIsTrue ==
  ASSUME SInv, TInv, NEW c \in Comps, UsePreloaded(c)
  PROVE  TInv'
  <1>1. PICK t \in Tabs : t = TabOf[c]
    BY ParametersAssumption
  <1>2. PICK k : k = KeyOf[comp[c].args]
    OBVIOUS
  <1>3. PICK r : r = [comp[c] EXCEPT !.key = k, !.before = comp[c].data.text]
    OBVIOUS
  <1>4. PICK d : d = preload[t][k]
    OBVIOUS
  <1>5. Apply(c, r, d) /\ comp[c].phase = "gated" /\ k \in DOMAIN preload[t]
    BY <1>1, <1>2, <1>3, <1>4 DEF UsePreloaded, Gated, Preloaded
  <1>6. comp[c] \in Component /\ comp[c].data.text \in Texts /\ comp[c].args \in Args
    BY <1>5, ComponentIs, DataOfComponents DEF Born
  <1>7. k \in Keys \cup {NoKey}
    BY <1>2, <1>6, KeysOfArgs
  <1>8. r \in Component /\ r.key = k
    BY <1>3, <1>6, <1>7 DEF Component
  <1>9. preload \in [Tabs -> Pages] /\ preload[t] \in Pages
    BY <1>1 DEF SInv, PagesOK
  <1>10. d \in Brought /\ IsTrue(k, d.of)
    BY <1>1, <1>4, <1>5, <1>9 DEF Pages, TInv, PagesAreTrue
  <1>11. EntriesAreTrue' /\ CallsAreTrue'
    BY <1>5, <1>8, <1>10, ApplyIsTrue DEF UsePreloaded
  <1>12. PagesAreTrue'
    <2>1. preload' = [preload EXCEPT ![t] = Restrict(preload[t], DOMAIN preload[t] \ {k})]
      BY <1>1, <1>2 DEF UsePreloaded
    <2>2. PICK p : p = Restrict(preload[t], DOMAIN preload[t] \ {k})
      OBVIOUS
    <2>3. DOMAIN p \subseteq DOMAIN preload[t] /\ \A x \in DOMAIN p : p[x] = preload[t][x]
      BY <2>2 DEF Restrict
    <2>4. \A u \in Tabs : preload'[u] = IF u = t THEN p ELSE preload[u]
      BY <1>9, <2>1, <2>2
    <2> QED BY <1>1, <2>3, <2>4 DEF TInv, PagesAreTrue
  <1> QED BY <1>11, <1>12 DEF TInv

LEMMA StartLoadIsTrue ==
  ASSUME SInv, TInv, KeysIdentify, NEW c \in Comps, StartLoad(c)
  PROVE  TInv'
  <1>1. PICK r : r = comp[c]
    OBVIOUS
  <1>2. PICK q : q = [r EXCEPT !.phase = "loading", !.key = KeyOf[r.args],
                               !.before = r.data.text, !.fetched = Identity[r.args]]
    OBVIOUS
  <1>3. r \in Component /\ r.args \in Args /\ r.call = "boot"
    BY <1>1, ComponentIs, DataOfComponents DEF StartLoad, Gated, CompOK, BootStage
  <1>4. /\ q.phase = "loading" /\ q.call = "boot" /\ q.key = KeyOf[r.args]
        /\ q.fetched = Identity[r.args]
    BY <1>2, <1>3 DEF Component
  <1>5. CallIsTrue(q)
    BY <1>3, <1>4, KeyIsTrue DEF CallIsTrue
  <1> QED BY <1>1, <1>2, <1>5, SetKeepsTrue DEF StartLoad

(* Drawing what was loaded leaves it to be filed as it was.                *)
LEMMA ChildrenAreTrue ==
  ASSUME NEW r, CallIsTrue(r), r.phase = "loaded", r.call # "load",
         NEW q, q.phase = "children", q.call = r.call, q.due = r.due, q.key = r.key,
         q.failed = r.failed, q.dynamic = r.dynamic, q.data = r.data
  PROVE  CallIsTrue(q)
  BY DEF CallIsTrue

LEMMA BootRenderIsTrue ==
  ASSUME SInv, TInv, NEW c \in Comps, BootRender(c)
  PROVE  TInv'
  <1>1. PICK r : r = comp[c]
    OBVIOUS
  <1>2. PICK after : after = [r EXCEPT !.phase = "children", !.inert = FALSE]
    OBVIOUS
  <1>3. PICK p : p = [after EXCEPT !.drawn = r.data.text]
    OBVIOUS
  <1>4. r.phase = "loaded" /\ r.call = "boot" /\ r \in Component /\ CallIsTrue(r)
    BY <1>1, ComponentIs DEF BootRender, TInv, CallsAreTrue
  <1>5. Set(c, Rendered(p)) \/ Set(c, after)
    BY <1>1, <1>2, <1>3 DEF BootRender
  <1>6. after \in Component
    <2>1. "children" \in Phases /\ FALSE \in BOOLEAN
      BY DEF Phases
    <2> QED BY <1>2, <1>4, <2>1 DEF Component
  <1>7. p \in Component
    BY <1>3, <1>4, <1>6, DataOfComponents DEF Component
  <1>8. /\ after.phase = "children" /\ after.call = r.call /\ after.due = r.due
        /\ after.key = r.key /\ after.failed = r.failed /\ after.dynamic = r.dynamic
        /\ after.data = r.data
    BY <1>2, <1>4 DEF Component
  <1>9. /\ p.phase = "children" /\ p.call = r.call /\ p.due = r.due
        /\ p.key = r.key /\ p.failed = r.failed /\ p.dynamic = r.dynamic
        /\ p.data = r.data
    BY <1>3, <1>6, <1>8 DEF Component
  <1>10. PICK q : q = Rendered(p)
    OBVIOUS
  <1>11. Untouched(q, p)
    BY <1>7, <1>10, RenderedFields
  <1>12. CallIsTrue(after) /\ CallIsTrue(q)
    BY <1>4, <1>8, <1>9, <1>11, ChildrenAreTrue DEF Untouched
  <1> QED BY <1>5, <1>10, <1>12, SetKeepsTrue DEF BootRender

LEMMA SettlingIsTrue ==
  ASSUME SInv, TInv, KeysIdentify, NEW c \in Comps,
         LoadReturns(c) \/ LoadRecovers(c)
  PROVE  TInv'
  <1>1. /\ comp[c] \in Component /\ comp[c].fetched \in Sources /\ Brings[c] \subseteq Texts
        /\ CallIsTrue(comp[c]) /\ comp[c].phase = "loading"
    BY ComponentIs, ParametersAssumption
       DEF LoadReturns, LoadRecovers, Loading, Component, TInv, CallsAreTrue
  <1>2. CASE LoadReturns(c)
    <2>1. PICK x \in Brings[c] : Settle(c, comp[c], [text |-> x, of |-> comp[c].fetched])
      BY <1>2 DEF LoadReturns
    <2>2. PICK d : d = [text |-> x, of |-> comp[c].fetched]
      OBVIOUS
    <2>3. d \in Brought /\ d.of = comp[c].fetched
      BY <1>1, <2>2 DEF Brought
    <2>4. CASE comp[c].call = "load"
      <3>1. ApplyLoaded(c, comp[c], d) /\ comp[c].fetched = Identity[comp[c].args]
        BY <1>1, <2>1, <2>2, <2>4 DEF Settle, CallIsTrue
      <3>2. EntriesAreTrue' /\ CallsAreTrue'
        BY <1>1, <1>2, <2>3, <2>4, <3>1, ApplyLoadedIsTrue DEF LoadReturns
      <3> QED BY <1>2, <3>2, SamePreload DEF LoadReturns, TInv
    <2>5. CASE comp[c].call # "load"
      <3>1. /\ Apply(c, comp[c], d)
            /\ comp[c].key # NoKey => IsTrue(comp[c].key, d.of)
        BY <1>1, <2>1, <2>2, <2>3, <2>5 DEF Settle, CallIsTrue
      <3>2. EntriesAreTrue' /\ CallsAreTrue'
        BY <1>1, <1>2, <2>3, <3>1, ApplyIsTrue DEF LoadReturns
      <3> QED BY <1>2, <3>2, SamePreload DEF LoadReturns, TInv
    <2> QED BY <2>4, <2>5
  <1>3. CASE LoadRecovers(c)
    <2>1. PICK x \in Brings[c] :
            Settle(c, [comp[c] EXCEPT !.failed = TRUE], [text |-> x, of |-> Fallback])
      BY <1>3 DEF LoadRecovers
    <2>2. PICK r : r = [comp[c] EXCEPT !.failed = TRUE]
      OBVIOUS
    <2>3. PICK d : d = [text |-> x, of |-> Fallback]
      OBVIOUS
    <2>4. d \in Brought
      BY <1>1, <2>3 DEF Brought, Sources
    <2>5. r \in Component /\ r.failed
      BY <1>1, <2>2 DEF Component
    <2>6. EntriesAreTrue' /\ CallsAreTrue'
      <3>1. CASE r.call = "load"
        <4>1. ApplyLoaded(c, r, d)
          BY <2>1, <2>2, <2>3, <3>1 DEF Settle
        <4> QED BY <1>3, <2>4, <2>5, <3>1, <4>1, ApplyLoadedIsTrue DEF LoadRecovers
      <3>2. CASE r.call # "load"
        <4>1. Apply(c, r, d)
          BY <2>1, <2>2, <2>3, <3>2 DEF Settle
        <4> QED BY <1>3, <2>4, <2>5, <4>1, ApplyIsTrue DEF LoadRecovers
      <3> QED BY <3>1, <3>2
    <2> QED BY <1>3, <2>6, SamePreload DEF LoadRecovers, TInv
  <1> QED BY <1>2, <1>3

LEMMA EndingsAreTrue ==
  ASSUME SInv, TInv, NEW c \in Comps, LoadFails(c) \/ LoadEnds(c) \/ Stop(c)
  PROVE  TInv'
  <1>1. comp[c] \in Component
    BY ComponentIs
  <1>2. CASE LoadFails(c)
    <2>1. PICK r : r = [comp[c] EXCEPT !.failed = TRUE]
      OBVIOUS
    <2>2. r \in Component
      BY <1>1, <2>1 DEF Component
    <2>3. Set(c, Rejected(r)) /\ CallIsTrue(Rejected(r))
      BY <1>2, <2>1, <2>2, RejectedIsTrue DEF LoadFails
    <2> QED BY <1>2, <2>3, SetKeepsTrue DEF LoadFails
  <1>3. CASE LoadEnds(c)
    <2>1. PICK q : q = Ended(comp[c])
      OBVIOUS
    <2>2. q.phase = "idle"
      BY <1>1, <2>1, EndedFields
    <2>3. Set(c, q) /\ CallIsTrue(q)
      BY <1>3, <2>1, <2>2, RestIsTrue DEF LoadEnds
    <2> QED BY <1>3, <2>3, SetKeepsTrue DEF LoadEnds
  <1>4. CASE Stop(c)
    BY <1>4, DeadIsTrue, SetKeepsTrue DEF Stop
  <1> QED BY <1>2, <1>3, <1>4

LEMMA CallLoadIsTrue ==
  ASSUME SInv, TInv, NEW c \in Comps, CallLoad(c)
  PROVE  TInv'
  <1>1. PICK r : r = Called(c, "load")
    OBVIOUS
  <1>2. r \in Component /\ r.call = "load"
    BY <1>1, ComponentIs, CalledFields DEF Calls
  <1>3. PICK q : q = Fetching(r)
    OBVIOUS
  <1>4. /\ q.phase = "loading" /\ q.call = "load" /\ q.fetched = Identity[r.args]
        /\ q.args = r.args
    BY <1>2, <1>3, FetchingFields
  <1>5. CallIsTrue(q)
    BY <1>4 DEF CallIsTrue
  <1> QED BY <1>1, <1>3, <1>5, SetKeepsTrue DEF CallLoad

(* reload() and refresh() fetch what their key is the key of.              *)
LEMMA CallReloadIsTrue ==
  ASSUME SInv, TInv, KeysIdentify, NEW c \in Comps, NEW m \in {"reload", "refresh"},
         CallReload(c, m)
  PROVE  TInv'
  <1>1. PICK k : k = KeyOf[comp[c].args]
    OBVIOUS
  <1>2. PICK r : r = [Called(c, m) EXCEPT !.key = k, !.wasReady = comp[c].ready,
                                          !.ready = FALSE]
    OBVIOUS
  <1>3. \/ /\ Holds(Module(c), disk, Module(c).mode, k)
           /\ Set(c, Fetching([FromCache(c, r) EXCEPT !.fromCache = TRUE]))
        \/ Set(c, Fetching([r EXCEPT !.fromCache = FALSE]))
    <2> DEFINE found == /\ r.lastArgs # NoKey /\ <<r.args, r.lastArgs>> \notin SameJson
                        /\ k # NoKey /\ ~r.failed
                        /\ Holds(Module(c), disk, Module(c).mode, k)
                        /\ \/ Module(c).mode = "html"
                           \/ Get(Module(c), disk, Module(c).mode, k).text # Empty
    <2>1. PICK reads \in BOOLEAN :
            Set(c, IF found /\ reads
                   THEN Fetching([FromCache(c, r) EXCEPT !.fromCache = TRUE])
                   ELSE Fetching([r EXCEPT !.fromCache = FALSE]))
      BY <1>1, <1>2 DEF CallReload
    <2>2. found => Holds(Module(c), disk, Module(c).mode, k)
      OBVIOUS
    <2> HIDE DEF found
    <2> QED BY <2>1, <2>2
  <1>4. comp[c] \in Component /\ comp[c].data.text \in Texts /\ comp[c].args \in Args
    BY IdleIs DEF CallReload, MayCall, Idle
  <1>5. k \in Keys \cup {NoKey}
    BY <1>1, <1>4, KeysOfArgs
  <1>6. PICK q : q = Called(c, m)
    OBVIOUS
  <1>7. /\ q \in Component /\ q.call = m /\ q.args = comp[c].args /\ q.data = comp[c].data
        /\ comp[c].ready \in BOOLEAN
    BY <1>4, <1>6, CalledFields DEF Calls, Component
  <1>8. r \in Component
    <2>1. PICK p : p = [q EXCEPT !.key = k]
      OBVIOUS
    <2>2. p \in Component
      BY <1>5, <1>7, <2>1 DEF Component
    <2>3. r = [p EXCEPT !.wasReady = comp[c].ready, !.ready = FALSE]
      BY <1>2, <1>6, <1>7, <2>1 DEF Component
    <2>4. \A b \in BOOLEAN : [p EXCEPT !.wasReady = b, !.ready = FALSE] \in Component
      BY <2>2 DEF Component
    <2> QED BY <1>7, <2>3, <2>4
  <1>9. r.call = m /\ r.data = comp[c].data /\ r.args = comp[c].args /\ r.key = k
    BY <1>2, <1>6, <1>7 DEF Component
  <1>10. ASSUME NEW p \in Component, p.call = m, p.args = comp[c].args, p.key = k
         PROVE  CallIsTrue(Fetching(p))
    <2>1. PICK f : f = Fetching(p)
      OBVIOUS
    <2>2. /\ f.phase = "loading" /\ f.call = m /\ f.key = k
          /\ f.fetched = Identity[comp[c].args]
      BY <1>10, <2>1, FetchingFields
    <2>3. CallIsTrue(f)
      BY <1>1, <1>4, <2>2, KeyIsTrue DEF CallIsTrue
    <2> QED BY <2>1, <2>3
  <1>11. CASE Set(c, Fetching([r EXCEPT !.fromCache = FALSE]))
    <2>1. PICK p : p = [r EXCEPT !.fromCache = FALSE]
      OBVIOUS
    <2>2. p \in Component
      BY <1>8, <2>1 DEF Component
    <2>3. p.call = m /\ p.args = comp[c].args /\ p.key = k
      BY <1>8, <1>9, <2>1 DEF Component
    <2>4. CallIsTrue(Fetching(p))
      BY <1>10, <2>2, <2>3
    <2> QED BY <1>11, <2>1, <2>4, SetKeepsTrue DEF CallReload
  <1>12. CASE /\ Holds(Module(c), disk, Module(c).mode, k)
              /\ Set(c, Fetching([FromCache(c, r) EXCEPT !.fromCache = TRUE]))
    <2>1. PICK f : f = FromCache(c, r)
      OBVIOUS
    <2>2. f \in Component /\ f.call = m /\ f.args = comp[c].args /\ f.key = k
      BY <1>4, <1>8, <1>9, <1>12, <2>1, FromCacheIs
    <2>3. PICK p : p = [f EXCEPT !.fromCache = TRUE]
      OBVIOUS
    <2>4. p \in Component
      BY <2>2, <2>3 DEF Component
    <2>5. p.call = m /\ p.args = comp[c].args /\ p.key = k
      BY <2>2, <2>3 DEF Component
    <2>6. CallIsTrue(Fetching(p))
      BY <1>10, <2>4, <2>5
    <2> QED BY <1>12, <2>1, <2>3, <2>6, SetKeepsTrue DEF CallReload
  <1> QED BY <1>3, <1>11, <1>12

LEMMA ReloadRenderIsTrue ==
  ASSUME SInv, TInv, NEW c \in Comps, ReloadRender(c)
  PROVE  TInv'
  <1>1. PICK r : r = comp[c]
    OBVIOUS
  <1>2. PICK after : after = [r EXCEPT !.inert = FALSE]
    OBVIOUS
  <1>3. PICK p : p = [after EXCEPT !.phase = "children"]
    OBVIOUS
  <1>4. /\ r.phase = "loaded" /\ r.call \in {"reload", "refresh"} /\ CompOK(r)
        /\ r \in Component /\ r.data.text \in Texts /\ CallIsTrue(r)
    BY <1>1, ComponentIs DEF ReloadRender, Born, TInv, CallsAreTrue
  <1>5. /\ Rerenders(r) => Set(c, Rendered(p)) /\ UNCHANGED disk
        /\ ~Rerenders(r) /\ r.fromCache => Set(c, p) /\ UNCHANGED disk
        /\ ~Rerenders(r) /\ ~r.fromCache => Snapshot(c, after, Ready(after))
    BY <1>1, <1>2, <1>3 DEF ReloadRender
  <1>6. after \in Component /\ p \in Component
    <2>1. after \in Component
      BY <1>2, <1>4 DEF Component
    <2> QED BY <1>3, <2>1 DEF Component, Phases
  <1>7. /\ after.data = r.data /\ after.live = r.live /\ after.shown = r.shown
        /\ after.lastData = r.lastData /\ after.call = r.call /\ after.due = r.due
        /\ after.key = r.key /\ after.failed = r.failed /\ after.dynamic = r.dynamic
    BY <1>2, <1>4 DEF Component
  <1>8. /\ p.phase = "children" /\ p.data = r.data /\ p.call = r.call /\ p.due = r.due
        /\ p.key = r.key /\ p.failed = r.failed /\ p.dynamic = r.dynamic
    BY <1>3, <1>6, <1>7 DEF Component
  <1>9. PICK q : q = Rendered(p)
    OBVIOUS
  <1>10. Untouched(q, p)
    BY <1>6, <1>9, RenderedFields
  <1>11. CallIsTrue(p) /\ CallIsTrue(q)
    BY <1>4, <1>8, <1>10, ChildrenAreTrue DEF Untouched
  <1>12. CASE ~ (~Rerenders(r) /\ ~r.fromCache)
    BY <1>5, <1>9, <1>11, <1>12, SetKeepsTrue DEF ReloadRender
  <1>13. CASE ~Rerenders(r) /\ ~r.fromCache
    <2>1. Drawn(after)
      BY <1>4, <1>7, <1>13 DEF Rerenders, CompOK, CallStage, Drew, Drawn
    <2>2. after.due /\ after.key # NoKey /\ ~after.failed /\ after.dynamic
            => IsTrue(after.key, after.data.of)
      BY <1>4, <1>7 DEF CallIsTrue
    <2>3. EntriesAreTrue' /\ CallsAreTrue'
      BY <1>4, <1>5, <1>6, <1>7, <1>13, <2>1, <2>2, SnapshotIsTrue DEF ReloadRender
    <2> QED BY <2>3, SamePreload DEF ReloadRender, TInv
  <1> QED BY <1>12, <1>13

LEMMA CallBlankIsTrue ==
  ASSUME SInv, TInv, NEW c \in Comps, CallBlank(c)
  PROVE  TInv'
  <1>1. PICK q : q = Called(c, "blank")
    OBVIOUS
  <1>2. PICK r : r = [q EXCEPT !.ready = FALSE, !.dataKey = NoKey,
                               !.data = comp[c].initial, !.phase = "children"]
    OBVIOUS
  <1>3. PICK k : k = KeyOf[r.args]
    OBVIOUS
  <1>4. /\ Set(c, Rendered(r))
        /\ disk' = IF k = NoKey THEN disk ELSE Removed(Module(c), disk, {"data", "html"}, k)
    BY <1>1, <1>2, <1>3 DEF CallBlank
  <1>5. comp[c] \in Component /\ comp[c].initial \in Data
    BY ComponentIs, DataOfComponents
  <1>6. q \in Component /\ q.call = "blank"
    BY <1>1, <1>5, CalledFields DEF Calls
  <1>7. r \in Component
    <2>1. PICK v : v = [q EXCEPT !.data = comp[c].initial, !.phase = "children"]
      OBVIOUS
    <2>2. v \in Component
      BY <1>5, <1>6, <2>1 DEF Component, Phases
    <2>3. r = [v EXCEPT !.ready = FALSE, !.dataKey = NoKey]
      BY <1>2, <1>6, <2>1 DEF Component
    <2> QED BY <2>2, <2>3 DEF Component
  <1>8. r.call = "blank" /\ r.phase = "children"
    BY <1>2, <1>6 DEF Component
  <1>9. PICK g : g = Rendered(r)
    OBVIOUS
  <1>10. g.call = "blank" /\ g.phase = "children"
    BY <1>7, <1>8, <1>9, RenderedFields DEF Untouched
  <1>11. CallIsTrue(g)
    BY <1>10 DEF CallIsTrue
  <1>12. CallsAreTrue'
    BY <1>4, <1>9, <1>11, SetIsTrue DEF SInv, TInv
  <1>13. EntriesAreTrue'
    <2>1. CASE disk' = disk
      BY <2>1, SameEntries DEF TInv
    <2>2. CASE disk' = Without(disk, {Entry(Module(c), kind, k) : kind \in {"data", "html"}})
      <3>1. \A id \in DOMAIN disk'.items :
              id \in DOMAIN disk.items /\ disk'.items[id] = disk.items[id]
        BY <2>2, WithoutKeepsDisk DEF SInv, DiskOK
      <3> QED BY <3>1 DEF TInv, EntriesAreTrue
    <2> QED BY <1>4, <2>1, <2>2 DEF Removed
  <1> QED BY <1>12, <1>13, SamePreload DEF CallBlank, TInv

LEMMA ChildrenReadyIsTrue ==
  ASSUME SInv, TInv, NEW c \in Comps, ChildrenReady(c)
  PROVE  TInv'
  <1>1. PICK r : r = comp[c]
    OBVIOUS
  <1>2. /\ r.phase = "children" /\ r \in Component /\ Drawn(r)
        /\ r.data.text \in Texts /\ CallIsTrue(r)
    BY <1>1, ComponentIs
       DEF ChildrenReady, Born, CompOK, LastStage, TInv, CallsAreTrue
  <1>3. CASE r.call = "blank"
    <2>1. PICK q : q = Ready(r)
      OBVIOUS
    <2>2. Set(c, q) /\ UNCHANGED disk
      BY <1>1, <1>3, <2>1 DEF ChildrenReady
    <2>3. CallIsTrue(q)
      BY <1>2, <2>1, ReadyFields, RestIsTrue
    <2> QED BY <2>2, <2>3, SetKeepsTrue DEF ChildrenReady
  <1>4. CASE r.call # "blank"
    <2>1. Snapshot(c, r, Ready(r))
      BY <1>1, <1>4 DEF ChildrenReady
    <2>2. r.due /\ r.key # NoKey /\ ~r.failed /\ r.dynamic => IsTrue(r.key, r.data.of)
      BY <1>2, <1>4 DEF CallIsTrue
    <2>3. EntriesAreTrue' /\ CallsAreTrue'
      BY <1>2, <2>1, <2>2, SnapshotIsTrue DEF ChildrenReady
    <2> QED BY <2>3, SamePreload DEF ChildrenReady, TInv
  <1> QED BY <1>3, <1>4

LEMMA SetArgsIsTrue ==
  ASSUME SInv, TInv, ArgsKeptWhileLoading, NEW c \in Comps, SetArgs(c)
  PROVE  TInv'
  <1>1. PICK b \in Boots[c] : Set(c, [comp[c] EXCEPT !.args = b.args])
    BY DEF SetArgs
  <1>2. PICK q : q = [comp[c] EXCEPT !.args = b.args]
    OBVIOUS
  <1>3. /\ comp[c] \in Component /\ CallIsTrue(comp[c]) /\ comp[c].phase # "loading"
    BY ComponentIs DEF SetArgs, ArgsKeptWhileLoading, TInv, CallsAreTrue
  <1>4. /\ q.phase = comp[c].phase /\ q.call = comp[c].call /\ q.due = comp[c].due
        /\ q.key = comp[c].key /\ q.failed = comp[c].failed
        /\ q.dynamic = comp[c].dynamic /\ q.data = comp[c].data
    BY <1>2, <1>3 DEF Component
  <1>5. CallIsTrue(q)
    BY <1>3, <1>4 DEF CallIsTrue
  <1> QED BY <1>1, <1>2, <1>5, SetKeepsTrue DEF SetArgs

LEMMA TurnIsTrue ==
  ASSUME SInv, TInv, KeysIdentify, ArgsKeptWhileLoading, NEW c \in Comps, Turn(c)
  PROVE  TInv'
  BY CreateIsTrue, UseCachedIsTrue, UsePreloadedIsTrue, StartLoadIsTrue, BootRenderIsTrue,
     SettlingIsTrue, EndingsAreTrue, CallLoadIsTrue, CallReloadIsTrue,
     ReloadRenderIsTrue, CallBlankIsTrue, ChildrenReadyIsTrue, SetArgsIsTrue
     DEF Turn

LEMMA PagesLoadTrue ==
  ASSUME PreloadsAreTrue, NEW t \in Tabs, NEW p \in Preloads[t]
  PROVE  \A k \in DOMAIN p : IsTrue(k, p[k].of)
  BY DEF PreloadsAreTrue

LEMMA AroundIsTrue ==
  ASSUME SInv, TInv, PreloadsAreTrue,
         \/ \E t \in Tabs : SetCacheKey(t) \/ PageLoad(t)
         \/ OthersWrite \/ StorageCleared
  PROVE  TInv'
  <1>1. ASSUME NEW t \in Tabs, SetCacheKey(t)
        PROVE  TInv'
    <2>1. PICK s \in Scopes : disk' = Validated(tab[t], disk, s)
      BY <1>1 DEF SetCacheKey
    <2>2. \A x \in DOMAIN disk'.items :
            x \in DOMAIN disk.items /\ disk'.items[x] = disk.items[x]
      BY <2>1, ValidatedKeepsDisk DEF SInv, DiskOK
    <2>3. EntriesAreTrue'
      BY <2>2 DEF TInv, EntriesAreTrue
    <2> QED BY <1>1, <2>3, SamePreload DEF SetCacheKey, TInv, CallsAreTrue
  <1>2. ASSUME NEW t \in Tabs, PageLoad(t)
        PROVE  TInv'
    <2>1. PICK p \in Preloads[t] : preload' = [preload EXCEPT ![t] = p]
      BY <1>2 DEF PageLoad
    <2>2. \A u \in Tabs : preload'[u] = IF u = t THEN p ELSE preload[u]
      BY <2>1 DEF SInv, PagesOK
    <2>3. \A k \in DOMAIN p : IsTrue(k, p[k].of)
      BY PagesLoadTrue
    <2>4. PagesAreTrue'
      BY <2>2, <2>3 DEF TInv, PagesAreTrue
    <2>5. \A c \in Comps : comp'[c] = Nobody \/ comp'[c] = comp[c]
      BY <1>2 DEF PageLoad
    <2>6. \A c \in Comps : CallIsTrue(comp'[c])
      BY <2>5, DeadIsTrue DEF TInv, CallsAreTrue
    <2> QED BY <1>2, <2>4, <2>6, SameEntries DEF PageLoad, TInv, CallsAreTrue
  <1>3. CASE OthersWrite
    <2>1. disk'.items = disk.items
      BY <1>3 DEF OthersWrite, SInv, DiskOK, Disk
    <2> QED BY <1>3, <2>1, SamePreload DEF OthersWrite, TInv, EntriesAreTrue, CallsAreTrue
  <1>4. CASE StorageCleared
    <2>1. DOMAIN disk'.items = {}
      BY <1>4, NoItems DEF StorageCleared, EmptyDisk
    <2> QED BY <1>4, <2>1, SamePreload DEF StorageCleared, TInv, EntriesAreTrue, CallsAreTrue
  <1> QED BY <1>1, <1>2, <1>3, <1>4

(* Every entry of the storage is data that was loaded for all the args     *)
(* that have its key, or markup drawn from it.  What this takes: args that *)
(* differ in meaning have different keys, as ArgKeys is checked to see to; *)
(* the server preloaded data under its own key; and nobody sets args while *)
(* on_load() runs, since load() asks for its key afterwards.               *)
THEOREM EntriesHoldTheirKeys ==
  ASSUME KeysIdentify, PreloadsAreTrue, ArgsKeptWhileLoading
  PROVE  Spec => []EntriesAreTrue
  <1>1. Init => TInv
    <2> SUFFICES ASSUME Init PROVE TInv
      OBVIOUS
    <2>1. EntriesAreTrue
      BY NoItems DEF Init, EmptyDisk, EntriesAreTrue
    <2>2. PagesAreTrue
      BY PagesLoadTrue DEF Init, PagesAreTrue
    <2>3. CallsAreTrue
      BY DeadIsTrue DEF Init, CallsAreTrue
    <2> QED BY <2>1, <2>2, <2>3 DEF TInv
  <1>2. SInv /\ TInv /\ [Next]_vars => TInv'
    <2> SUFFICES ASSUME SInv, TInv, [Next]_vars PROVE TInv'
      OBVIOUS
    <2>1. CASE Next
      BY <2>1, TurnIsTrue, AroundIsTrue DEF Next
    <2>2. CASE UNCHANGED vars
      BY <2>2, SameEntries, SamePreload DEF vars, TInv, CallsAreTrue
    <2> QED BY <2>1, <2>2
  <1>3. TInv => EntriesAreTrue
    BY DEF TInv
  <1> QED BY <1>1, <1>2, <1>3, Invariance, PTL DEF Spec
=============================================================================
