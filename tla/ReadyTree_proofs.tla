-------------------------- MODULE ReadyTree_proofs --------------------------
(***************************************************************************)
(* Proofs about ReadyTree, for any number of instances and calls: types,   *)
(* and that components become ready from the bottom up.                    *)
(***************************************************************************)
EXTENDS ReadyTree, FiniteSetTheorems, TLAPS

(* BottomUp is false where a reload fails after a render from the cache.   *)
NoCachedFailure == \A m \in Cycles : <<m, "cached">> \notin Failing

(* What holds of a component by itself: when it is alive, who has fired    *)
(* 'ready', and that it is out of the ready state while it waits for a new *)
(* render's children.                                                      *)
RecordOK(r) ==
  /\ r.phase = "none" <=> r.state \in {0, 99}
  /\ r.phase = "created" => r.state = 1 /\ r.cycle = "boot"
  /\ r.state = 4 \/ r.marker => r.everReady
  /\ r.phase = "idle" => ~r.fromCache
  /\ r.state = 4 => r.phase = "idle" \/ (r.phase = "load" /\ r.cycle # "boot")

(* The children of the last render have been waited for (a render of       *)
(* cached html, which leaves the state alone, has none).                   *)
Waited(r) ==
  \/ r.phase \in {"on_ready", "idle"}
  \/ r.phase = "load" /\ r.cycle # "boot" /\ (~r.fromCache \/ r.state = 4)

ChildrenOK(c, r) ==
  NoCachedFailure =>
    /\ r.phase = "children" =>
         \A k \in Children(c) : k \in r.waits \/ comp[k].everReady
    /\ Waited(r) => \A k \in Children(c) : comp[k].everReady

ComponentOK(c) ==
  /\ comp[c].parent < c
  /\ RecordOK(comp[c])
  /\ ChildrenOK(c, comp[c])

IInv == TypeOK /\ \A c \in Instances : ComponentOK(c)

-----------------------------------------------------------------------------
(* The operators on records                                                *)

LEMMA InstancesType == Instances \subseteq Nat \ {0}
  BY ParametersAssumption DEF Instances

LEMMA UnbornType == Unborn \in Component
  BY DEF Unborn, Component, NoParent, Phases, Cycles, Methods

LEMMA RenderedType ==
  ASSUME NEW r \in Component
  PROVE  /\ Rendered(r) \in Component
         /\ Rendered(r).state = IF r.state >= 2 THEN 3 ELSE r.state
         /\ \A f \in {"parent", "marker", "everReady", "phase", "cycle", "fromCache"} :
              Rendered(r)[f] = r[f]
<1> DEFINE s == IF r.state >= 2 THEN 3 ELSE r.state
           b == r.complete \/ r.state >= 2 \/ ~r.hasLoad
<1>1. s \in {0, 1, 2, 3, 4, 99} /\ b \in BOOLEAN
  BY DEF Component
<1>2. Rendered(r) = [r EXCEPT !.state = s, !.complete = b]
  BY DEF Rendered
<1> HIDE DEF s, b
<1> DEFINE t == [r EXCEPT !.state = s]
<1>5. t \in Component
  BY <1>1 DEF Component
<1>6. [t EXCEPT !.complete = b] \in Component
  BY <1>1, <1>5 DEF Component
<1>7. Rendered(r) = [t EXCEPT !.complete = b]
  BY <1>2
<1>8. t.state = s
  BY DEF Component
<1> HIDE DEF t
<1>3. Rendered(r) \in Component /\ Rendered(r).state = s
  BY <1>5, <1>6, <1>7, <1>8 DEF Component
<1>4. \A f \in {"parent", "marker", "everReady", "phase", "cycle", "fromCache"} :
        Rendered(r)[f] = r[f]
  BY <1>2 DEF Component
<1> QED
  BY <1>3, <1>4 DEF s

LEMMA IdleType ==
  ASSUME NEW r \in Component
  PROVE  /\ Idle(r) \in Component
         /\ Idle(r).phase = "idle" /\ ~Idle(r).fromCache
         /\ \A f \in {"state", "parent", "marker", "everReady"} : Idle(r)[f] = r[f]
  BY DEF Idle, Component, Phases

LEMMA ReadyType ==
  ASSUME NEW r \in Component
  PROVE  /\ Ready(r) \in Component
         /\ Ready(r).state = 4 /\ Ready(r).everReady
         /\ \A f \in {"parent", "phase", "cycle", "fromCache"} : Ready(r)[f] = r[f]
  BY DEF Ready, Component

LEMMA WaitsForType ==
  ASSUME NEW r \in Component, NEW S \in SUBSET Instances
  PROVE  /\ WaitsFor(r, S) \in Component
         /\ WaitsFor(r, S).phase = "children" /\ WaitsFor(r, S).waits = S
         /\ \A f \in {"state", "parent", "marker", "everReady", "cycle", "fromCache"} :
              WaitsFor(r, S)[f] = r[f]
  BY DEF WaitsFor, Component, Phases

LEMMA CreatedType ==
  ASSUME NEW p \in Instances \cup {NoParent}, NEW load \in BOOLEAN
  PROVE  LET r == Created(p, load) IN
         /\ r \in Component
         /\ r.state = 1 /\ r.parent = p /\ r.hasLoad = load
         /\ r.phase = "created" /\ r.cycle = "boot"
         /\ ~r.marker /\ ~r.everReady /\ ~r.fromCache
  BY UnbornType DEF Created, Unborn, Component, Phases, Cycles

LEMMA FirstRenderedType ==
  ASSUME NEW r \in Component, r.state = 1, r.cycle = "boot"
  PROVE  LET q == FirstRendered(r) IN
         /\ q \in Component
         /\ q.state = 1 /\ q.phase \in {"load", "yield"}
         /\ \A f \in {"parent", "marker", "everReady", "cycle", "fromCache"} : q[f] = r[f]
<1> DEFINE q == Rendered(r)
<1>1. /\ q \in Component /\ q.state = 1
      /\ \A f \in {"parent", "marker", "everReady", "cycle", "fromCache"} : q[f] = r[f]
  BY RenderedType
<1>2. FirstRendered(r) = [q EXCEPT !.phase = IF r.hasLoad THEN "load" ELSE "yield"]
  BY DEF FirstRendered
<1> HIDE DEF q
<1> QED
  BY <1>1, <1>2 DEF Component, Phases

LEMMA DeadType ==
  ASSUME NEW r \in Component
  PROVE  /\ Dead(r) \in Component
         /\ Dead(r).state = 99 /\ Dead(r).parent = r.parent
         /\ Dead(r).phase = "none" /\ ~Dead(r).marker /\ ~Dead(r).everReady
<1>1. r.parent \in Instances \cup {NoParent}
  BY DEF Component
<1>2. Dead(r) \in Component
  BY <1>1, UnbornType DEF Dead, Component
<1>3. Dead(r).state = 99 /\ Dead(r).parent = r.parent
  BY UnbornType DEF Dead, Component
<1>4. Dead(r).phase = "none" /\ ~Dead(r).marker /\ ~Dead(r).everReady
  BY DEF Dead, Unborn
<1> QED
  BY <1>2, <1>3, <1>4

(* A change of the whole tree keeps the invariant if it leaves parents     *)
(* alone and nobody's children get less ready.                             *)
LEMMA BecomesKeeps ==
  ASSUME IInv, NEW c \in Instances, NEW r \in Component, Becomes(c, r),
         r.parent = comp[c].parent, comp[c].everReady => r.everReady,
         comp[c].state \in 1..4, r.state \in 1..4,
         RecordOK(r), ChildrenOK(c, r),
         calls' \in Nat
  PROVE  IInv'
<1>1. /\ TypeOK /\ comp \in [Instances -> Component]
      /\ comp' = [comp EXCEPT ![c] = r]
  BY DEF IInv, TypeOK, Becomes
<1>2. TypeOK'
  BY <1>1 DEF TypeOK
<1>3. /\ comp'[c] = r
      /\ \A i \in Instances \ {c} : comp'[i] = comp[i]
  BY <1>1
<1>4. \A i \in Instances : /\ comp'[i].parent = comp[i].parent
                           /\ comp[i].everReady => comp'[i].everReady
                           /\ comp'[i].state \notin {0, 99} <=> comp[i].state \notin {0, 99}
  BY <1>3
<1>5. \A i \in Instances : Children(i)' = Children(i)
  BY <1>4 DEF Children, Live, Born, Stopped
<1> SUFFICES ASSUME NEW i \in Instances
             PROVE  ComponentOK(i)'
  BY <1>2 DEF IInv
<1>6. ComponentOK(i)
  BY DEF IInv
<1>7. CASE i = c
  <2>1. comp'[i].parent < i
    BY <1>4, <1>6 DEF ComponentOK
  <2>2. RecordOK(comp[i])'
    BY <1>3, <1>7 DEF RecordOK
  <2>3. ChildrenOK(i, comp[i])'
    BY <1>3, <1>4, <1>5, <1>7 DEF ChildrenOK, Waited, Children, Live, Born
  <2> QED
    BY <2>1, <2>2, <2>3 DEF ComponentOK
<1>8. CASE i # c
  <2>1. comp'[i] = comp[i]
    BY <1>3, <1>8
  <2>2. ChildrenOK(i, comp[i])'
    BY <1>4, <1>5, <1>6, <2>1 DEF ComponentOK, ChildrenOK, Waited, Children, Live, Born
  <2> QED
    BY <1>6, <2>1, <2>2 DEF ComponentOK, RecordOK
<1> QED
  BY <1>7, <1>8

(* 'ready' of c: no parent waits for c any longer, but c has been ready.   *)
LEMMA FiresKeeps ==
  ASSUME IInv, NEW c \in Instances, NEW r \in Component, FiresReady(c, r),
         r.parent = comp[c].parent, comp[c].state \in 1..4,
         r.phase = "idle", ~r.fromCache, ChildrenOK(c, r),
         calls' \in Nat
  PROVE  IInv'
<1>1. TypeOK /\ comp \in [Instances -> Component]
  BY DEF IInv, TypeOK
<1> DEFINE less(i) == [comp[i] EXCEPT !.waits = @ \ {c}]
<1>2. \A i \in Instances :
        /\ less(i) \in Component
        /\ less(i).waits = comp[i].waits \ {c}
        /\ \A f \in {"state", "parent", "marker", "everReady", "phase", "cycle", "fromCache"} :
             less(i)[f] = comp[i][f]
  BY <1>1 DEF Component
<1> HIDE DEF less
<1>3. comp' = [i \in Instances |->
                 IF i = c THEN Ready(r)
                 ELSE IF comp[i].phase = "children" THEN less(i) ELSE comp[i]]
  BY DEF FiresReady, less
<1>4. TypeOK'
  BY <1>1, <1>2, <1>3, ReadyType DEF TypeOK
<1>5. /\ comp'[c].state = 4 /\ comp'[c].everReady /\ comp'[c].phase = "idle"
      /\ ~comp'[c].fromCache /\ comp'[c].parent = comp[c].parent
  BY <1>3, ReadyType
<1>6. \A i \in Instances \ {c} :
        /\ comp[i].waits \ {c} \subseteq comp'[i].waits
        /\ \A f \in {"state", "parent", "marker", "everReady", "phase", "cycle", "fromCache"} :
             comp'[i][f] = comp[i][f]
  BY <1>2, <1>3
<1>7. \A i \in Instances : Children(i)' = Children(i)
  BY <1>5, <1>6 DEF Children, Live, Born, Stopped
<1>8. \A k \in Instances : k = c \/ comp[k].everReady => comp'[k].everReady
  BY <1>5, <1>6
<1> SUFFICES ASSUME NEW i \in Instances
             PROVE  ComponentOK(i)'
  BY <1>4 DEF IInv
<1>9. ComponentOK(i)
  BY DEF IInv
<1>10. Children(i) \subseteq Instances
  BY DEF Children, Live, Born
<1>11. CASE i = c
  <2>1. (comp[i].parent < i)' /\ RecordOK(comp[i])'
    BY <1>5, <1>9, <1>11 DEF ComponentOK, RecordOK
  <2>2. NoCachedFailure => \A k \in Children(c) : comp[k].everReady
    BY DEF ChildrenOK, Waited
  <2>3. ChildrenOK(i, comp[i])'
    BY <2>2, <1>5, <1>7, <1>8, <1>10, <1>11 DEF ChildrenOK, Waited
  <2> QED
    BY <2>1, <2>3 DEF ComponentOK
<1>12. CASE i # c
  <2>1. (comp[i].parent < i)' /\ RecordOK(comp[i])'
    BY <1>6, <1>9, <1>12 DEF ComponentOK, RecordOK
  <2>2. ChildrenOK(i, comp[i])'
    BY <1>6, <1>7, <1>8, <1>9, <1>10, <1>12 DEF ComponentOK, ChildrenOK, Waited
  <2> QED
    BY <2>1, <2>2 DEF ComponentOK
<1> QED
  BY <1>11, <1>12

(* A stopped component has nothing to keep, and is nobody's child.         *)
LEMMA StopsKeeps ==
  ASSUME IInv, NEW S, StopsAll(S), calls' \in Nat
  PROVE  IInv'
<1>1. TypeOK /\ comp \in [Instances -> Component]
  BY DEF IInv, TypeOK
<1>2. comp' = [i \in Instances |-> IF i \in S THEN Dead(comp[i]) ELSE comp[i]]
  BY DEF StopsAll
<1>3. TypeOK'
  BY <1>1, <1>2, DeadType DEF TypeOK
<1>4. \A i \in Instances \cap S :
        /\ comp'[i].state = 99 /\ comp'[i].parent = comp[i].parent
        /\ comp'[i].phase = "none" /\ ~comp'[i].marker
  BY <1>1, <1>2, DeadType
<1>5. \A i \in Instances \ S : comp'[i] = comp[i]
  BY <1>2
<1>6. \A i \in Instances : Children(i)' = Children(i) \ S
  BY <1>4, <1>5 DEF Children, Live, Born, Stopped
<1> SUFFICES ASSUME NEW i \in Instances
             PROVE  ComponentOK(i)'
  BY <1>3 DEF IInv
<1>7. ComponentOK(i)
  BY DEF IInv
<1>8. CASE i \in S
  <2>1. (comp[i].parent < i)' /\ RecordOK(comp[i])'
    BY <1>4, <1>7, <1>8 DEF ComponentOK, RecordOK
  <2>2. ChildrenOK(i, comp[i])'
    BY <1>4, <1>8 DEF ChildrenOK, Waited
  <2> QED
    BY <2>1, <2>2 DEF ComponentOK
<1>9. CASE i \notin S
  <2>1. (comp[i].parent < i)' /\ RecordOK(comp[i])'
    BY <1>5, <1>7, <1>9 DEF ComponentOK, RecordOK
  <2>2. ChildrenOK(i, comp[i])'
    BY <1>5, <1>6, <1>7, <1>9 DEF ComponentOK, ChildrenOK, Waited, Children, Live, Born
  <2> QED
    BY <2>1, <2>2 DEF ComponentOK
<1> QED
  BY <1>8, <1>9

(* The shape of a new tree                                                 *)
LEMMA NewTreesType ==
  ASSUME NEW c \in Instances, NEW shape \in NewTrees(c)
  PROVE  /\ DOMAIN shape \subseteq Instances
         /\ \A i \in DOMAIN shape :
              /\ shape[i].parent \in {c} \cup DOMAIN shape
              /\ shape[i].parent \in Instances
              /\ shape[i].parent < i
              /\ shape[i].hasLoad \in BOOLEAN
<1>1. IsFiniteSet(Instances) /\ Cardinality(Instances) = N
  BY FS_Interval, ParametersAssumption DEF Instances
<1>2. Born \subseteq Instances
  BY DEF Born
<1>3. Cardinality(Born) \in 0..N
  <2>1. IsFiniteSet(Born) /\ Cardinality(Born) <= Cardinality(Instances)
    BY <1>1, <1>2, FS_Subset
  <2>2. Cardinality(Born) \in Nat
    BY <2>1, FS_CardinalityType
  <2> QED
    BY <1>1, <2>1, <2>2, ParametersAssumption
<1> DEFINE b == Cardinality(Born)
           T(n) == {s \in [b + 1 .. n -> [parent : {c} \cup (b + 1 .. n), hasLoad : BOOLEAN]] :
                      \A i \in b + 1 .. n : s[i].parent < i}
<1>4. NewTrees(c) = UNION {T(n) : n \in b..N}
  <2> HIDE DEF b
  <2>1. b \in 0..N /\ NewTrees(c) = Templates[c][b]
    BY <1>3 DEF NewTrees, b
  <2> QED
    BY <2>1, Zenon DEF Templates
<1>5. PICK n \in b..N : shape \in T(n)
  BY <1>4
<1>6. DOMAIN shape = b + 1 .. n
  BY <1>5
<1>7. b + 1 .. n \subseteq Instances
  BY <1>3, <1>5, ParametersAssumption DEF Instances
<1>8. \A i \in DOMAIN shape : /\ shape[i].parent \in {c} \cup DOMAIN shape
                              /\ shape[i].parent < i
                              /\ shape[i].hasLoad \in BOOLEAN
  BY <1>5, <1>6
<1> QED
  BY <1>6, <1>7, <1>8

(* Inside(c) has at least the children of c.                               *)
LEMMA ChildrenInside ==
  ASSUME IInv, NEW c \in Instances
  PROVE  Children(c) \subseteq Inside(c)
<1> SUFFICES ASSUME NEW k \in Children(c)
             PROVE  k \in Inside(c)
  OBVIOUS
<1>1. k \in Instances /\ k \in Born /\ comp[k].parent = c
  BY DEF Children, Live, Born
<1>2. k > c
  BY <1>1, InstancesType DEF IInv, ComponentOK
<1> QED
  BY <1>1, <1>2, Zenon DEF Inside

(* A render of c: what was inside is stopped, and c waits for its new      *)
(* children, unless it is not yet time to wait.                            *)
LEMMA RendersKeeps ==
  ASSUME IInv, NEW c \in Instances, NEW shape \in NewTrees(c),
         NEW r \in Component, Renders(c, r, shape),
         r.parent = comp[c].parent, comp[c].everReady => r.everReady,
         comp[c].state \in 1..4, r.state \in 1..4, RecordOK(r),
         Waited(r) => DOMAIN shape = {},
         r.phase = "children" => ChildrenIn(c, shape) \subseteq r.waits,
         calls' \in Nat
  PROVE  IInv'
<1> DEFINE old == Inside(c)
           new(i) == FirstRendered(Created(shape[i].parent, shape[i].hasLoad))
<1>1. TypeOK /\ comp \in [Instances -> Component]
  BY DEF IInv, TypeOK
<1>2. /\ DOMAIN shape \subseteq Instances
      /\ \A i \in DOMAIN shape :
           /\ shape[i].parent \in {c} \cup DOMAIN shape
           /\ shape[i].parent \in Instances
           /\ shape[i].parent < i
           /\ shape[i].hasLoad \in BOOLEAN
  BY NewTreesType
<1>3. \A i \in DOMAIN shape :
        /\ new(i) \in Component
        /\ new(i).state = 1 /\ new(i).phase \in {"load", "yield"} /\ new(i).cycle = "boot"
        /\ new(i).parent = shape[i].parent /\ ~new(i).marker
  BY <1>2, CreatedType, FirstRenderedType
<1>4. Children(c) \subseteq old
  BY ChildrenInside
<1>5. comp' = [i \in Instances |->
                 IF i \in DOMAIN shape THEN new(i)
                 ELSE IF i = c THEN r
                 ELSE IF i \in old THEN Dead(comp[i])
                 ELSE comp[i]]
  BY DEF Renders
<1> HIDE DEF old, new
<1>6. TypeOK'
  BY <1>1, <1>3, <1>5, DeadType DEF TypeOK
<1>7. \A i \in DOMAIN shape :
        /\ comp'[i].state = 1 /\ comp'[i].phase \in {"load", "yield"}
        /\ comp'[i].cycle = "boot" /\ ~comp'[i].marker
        /\ comp'[i].parent = shape[i].parent
  BY <1>2, <1>3, <1>5
<1>8. c \notin DOMAIN shape => comp'[c] = r
  BY <1>5
<1>9. \A i \in (Instances \ {c}) \ DOMAIN shape : i \in old =>
        /\ comp'[i].state = 99 /\ comp'[i].parent = comp[i].parent
        /\ comp'[i].phase = "none" /\ ~comp'[i].marker
  BY <1>1, <1>5, DeadType
<1>10. \A i \in (Instances \ {c}) \ DOMAIN shape : i \notin old => comp'[i] = comp[i]
  BY <1>5
<1> SUFFICES ASSUME NEW i \in Instances
             PROVE  ComponentOK(i)'
  BY <1>6 DEF IInv
<1>11. ComponentOK(i) /\ ComponentOK(c)
  BY DEF IInv
<1>12. CASE i \in DOMAIN shape
  <2>1. (comp[i].parent < i)' /\ RecordOK(comp[i])'
    BY <1>2, <1>7, <1>12 DEF RecordOK
  <2>2. ChildrenOK(i, comp[i])'
    BY <1>7, <1>12 DEF ChildrenOK, Waited
  <2> QED
    BY <2>1, <2>2 DEF ComponentOK
<1>13. CASE i \notin DOMAIN shape /\ i = c
  <2>1. comp'[i] = r
    BY <1>8, <1>13
  <2>2. (comp[i].parent < i)' /\ RecordOK(comp[i])'
    BY <2>1, <1>11, <1>13 DEF ComponentOK, RecordOK
  <2>3. ASSUME NEW k \in Children(c)'
        PROVE  k \in ChildrenIn(c, shape)
    <3>1. k \in Instances /\ comp'[k].state \notin {0, 99} /\ comp'[k].parent = c
      BY DEF Children, Live, Born, Stopped
    <3>2. k # c
      BY <3>1, <2>2, <1>13, InstancesType
    <3>3. CASE k \in DOMAIN shape
      BY <3>1, <3>3, <1>7 DEF ChildrenIn
    <3>4. CASE k \notin DOMAIN shape
      <4>1. k \notin old /\ comp'[k] = comp[k]
        BY <3>1, <3>2, <3>4, <1>9, <1>10
      <4>2. k \in Children(c)
        BY <3>1, <4>1 DEF Children, Live, Born, Stopped
      <4> QED
        BY <4>1, <4>2, <1>4
    <3> QED
      BY <3>3, <3>4
  <2>4. ChildrenOK(i, comp[i])'
    <3>1. Children(c)' \subseteq ChildrenIn(c, shape)
      BY <2>3
    <3>2. Waited(r) => Children(c)' = {}
      BY <3>1 DEF ChildrenIn
    <3>3. r.phase = "children" => Children(c)' \subseteq r.waits
      BY <3>1
    <3>4. Waited(comp[i])' => Children(i)' = {}
      BY <2>1, <3>2, <1>13 DEF Waited
    <3> QED
      BY <2>1, <3>3, <3>4, <1>13 DEF ChildrenOK
  <2> QED
    BY <2>2, <2>4 DEF ComponentOK
<1>14. CASE i \notin DOMAIN shape /\ i # c /\ i \in old
  <2>1. (comp[i].parent < i)' /\ RecordOK(comp[i])'
    BY <1>9, <1>11, <1>14 DEF ComponentOK, RecordOK
  <2>2. ChildrenOK(i, comp[i])'
    BY <1>9, <1>14 DEF ChildrenOK, Waited
  <2> QED
    BY <2>1, <2>2 DEF ComponentOK
<1>15. CASE i \notin DOMAIN shape /\ i # c /\ i \notin old
  <2>1. comp'[i] = comp[i]
    BY <1>10, <1>15
  <2>2. (comp[i].parent < i)' /\ RecordOK(comp[i])'
    BY <2>1, <1>11 DEF ComponentOK, RecordOK
  <2>3. ASSUME NEW k \in Children(i)'
        PROVE  k \in Children(i) /\ (comp[k].everReady => comp'[k].everReady)
    <3>1. k \in Instances /\ comp'[k].state \notin {0, 99} /\ comp'[k].parent = i
      BY DEF Children, Live, Born, Stopped
    <3>2. k \notin DOMAIN shape
      BY <3>1, <1>2, <1>7, <1>15
    <3>3. CASE k = c
      BY <3>1, <3>2, <3>3, <1>8 DEF Children, Live, Born, Stopped
    <3>4. CASE k # c
      <4>1. comp'[k] = comp[k]
        BY <3>1, <3>2, <3>4, <1>9, <1>10
      <4> QED
        BY <3>1, <4>1 DEF Children, Live, Born, Stopped
    <3> QED
      BY <3>3, <3>4
  <2>4. ChildrenOK(i, comp[i])'
    BY <2>1, <2>3, <1>11 DEF ComponentOK, ChildrenOK, Waited
  <2> QED
    BY <2>2, <2>4 DEF ComponentOK
<1> QED
  BY <1>12, <1>13, <1>14, <1>15

-----------------------------------------------------------------------------
(* The steps                                                               *)

ChildrenReadyOnce(c) == NoCachedFailure => \A k \in Children(c) : comp[k].everReady

LEMMA AliveFacts ==
  ASSUME IInv, NEW c \in Instances, comp[c].phase # "none"
  PROVE  /\ comp[c] \in Component /\ comp[c].state \in 1..4
         /\ RecordOK(comp[c]) /\ ChildrenOK(c, comp[c])
<1>1. comp[c] \in Component /\ RecordOK(comp[c]) /\ ChildrenOK(c, comp[c])
  BY DEF IInv, TypeOK, ComponentOK
<1>2. comp[c].state \in {0, 1, 2, 3, 4, 99}
  BY <1>1 DEF Component
<1> QED
  BY <1>1, <1>2 DEF RecordOK

(* Whoever is not waited for has been ready once.                          *)
LEMMA NotReadyFacts ==
  ASSUME IInv, NEW c \in Instances
  PROVE  /\ NotReadyChildren(c) \in SUBSET Instances
         /\ \A k \in Children(c) : k \in NotReadyChildren(c) \/ comp[k].everReady
<1>1. \A k \in Children(c) : /\ k \in Instances /\ comp[k].state \in 1..4
                             /\ RecordOK(comp[k])
  <2> SUFFICES ASSUME NEW k \in Children(c)
               PROVE  k \in Instances /\ comp[k].state \in 1..4 /\ RecordOK(comp[k])
    OBVIOUS
  <2>1. k \in Instances /\ comp[k].state \notin {0, 99}
    BY DEF Children, Live, Born, Stopped
  <2>2. RecordOK(comp[k])
    BY <2>1 DEF IInv, ComponentOK
  <2> QED
    BY <2>1, <2>2, AliveFacts DEF RecordOK
<1> QED
  BY <1>1 DEF NotReadyChildren, RecordOK

LEMMA ReadyPointKeeps ==
  ASSUME IInv, NEW c \in Instances, NEW r \in Component, ReadyPoint(c, r),
         r.parent = comp[c].parent, r.marker = comp[c].marker,
         r.everReady = comp[c].everReady,
         comp[c].phase # "none", r.state \in 1..4,
         r.state = 4 => r.everReady, ChildrenReadyOnce(c),
         calls' \in Nat
  PROVE  IInv'
<1> DEFINE q == Idle(r)
<1>1. /\ q \in Component /\ q.phase = "idle" /\ ~q.fromCache
      /\ \A f \in {"state", "parent", "marker", "everReady"} : q[f] = r[f]
  BY IdleType
<1>2. /\ comp[c].state \in 1..4
      /\ RecordOK(comp[c])
  BY AliveFacts
<1>3. FiresNow(r) => FiresReady(c, q)
  BY DEF ReadyPoint
<1>4. ~FiresNow(r) => Becomes(c, [q EXCEPT !.owed = TRUE])
  BY DEF ReadyPoint
<1> HIDE DEF q
<1>5. CASE FiresNow(r)
  <2>1. ChildrenOK(c, q)
    BY <1>1 DEF ChildrenOK, ChildrenReadyOnce
  <2> QED
    BY <1>1, <1>2, <1>3, <1>5, <2>1, FiresKeeps
<1>6. CASE ~FiresNow(r)
  <2> DEFINE t == [q EXCEPT !.owed = TRUE]
  <2>1. t \in Component /\ t.phase = "idle" /\ ~t.fromCache
    BY <1>1 DEF Component
  <2>2. \A f \in {"state", "parent", "marker", "everReady"} : t[f] = r[f]
    BY <1>1 DEF Component
  <2>3. Becomes(c, t)
    BY <1>4, <1>6
  <2> HIDE DEF t
  <2>4. RecordOK(t)
    BY <2>1, <2>2, <1>2 DEF RecordOK
  <2>5. ChildrenOK(c, t)
    BY <2>1 DEF ChildrenOK, ChildrenReadyOnce
  <2> QED
    BY <1>2, <2>1, <2>2, <2>3, <2>4, <2>5, BecomesKeeps
<1> QED
  BY <1>5, <1>6

LEMMA FailsKeeps ==
  ASSUME IInv, NEW c \in Instances, Fails(c), comp[c].phase # "none",
         comp[c].cycle # "boot" => ChildrenReadyOnce(c),
         calls' \in Nat
  PROVE  IInv'
<1> DEFINE q == Idle(comp[c])
<1>1. comp[c] \in Component /\ comp[c].state \in 1..4 /\ RecordOK(comp[c])
  BY AliveFacts
<1>2. /\ q \in Component /\ q.phase = "idle" /\ ~q.fromCache
      /\ \A f \in {"state", "parent", "marker", "everReady"} : q[f] = comp[c][f]
  BY <1>1, IdleType
<1>3. \/ StopsAll({c})
      \/ comp[c].cycle # "boot" /\ FiresReady(c, q)
      \/ comp[c].cycle # "boot" /\ Becomes(c, q)
  BY DEF Fails
<1> HIDE DEF q
<1>4. comp[c].cycle # "boot" => ChildrenOK(c, q)
  BY <1>2 DEF ChildrenOK, ChildrenReadyOnce
<1>5. RecordOK(q)
  BY <1>1, <1>2 DEF RecordOK
<1>6. CASE StopsAll({c})
  BY <1>6, StopsKeeps
<1>7. CASE comp[c].cycle # "boot" /\ FiresReady(c, q)
  BY <1>1, <1>2, <1>4, <1>7, FiresKeeps
<1>8. CASE comp[c].cycle # "boot" /\ Becomes(c, q)
  BY <1>1, <1>2, <1>4, <1>5, <1>8, BecomesKeeps
<1> QED
  BY <1>3, <1>6, <1>7, <1>8

LEMMA BootStep ==
  ASSUME IInv, NEW c \in Instances, Boot(c), UNCHANGED calls
  PROVE  IInv'
<1> DEFINE r == FirstRendered(comp[c])
<1>1. PICK shape \in NewTrees(c) : Renders(c, r, shape)
  BY DEF Boot
<1>2. comp[c].phase = "created" /\ calls' \in Nat
  BY DEF Boot, IInv, TypeOK
<1>3. comp[c] \in Component /\ comp[c].state = 1 /\ comp[c].cycle = "boot" /\ RecordOK(comp[c])
  BY <1>2, AliveFacts DEF RecordOK
<1>4. /\ r \in Component /\ r.state = 1 /\ r.phase \in {"load", "yield"}
      /\ \A f \in {"parent", "marker", "everReady", "cycle", "fromCache"} : r[f] = comp[c][f]
  BY <1>3, FirstRenderedType
<1> HIDE DEF r
<1>5. RecordOK(r) /\ ~Waited(r)
  BY <1>3, <1>4 DEF RecordOK, Waited
<1> QED
  BY <1>1, <1>2, <1>3, <1>4, <1>5, RendersKeeps

LEMMA ReadyPhaseStep ==
  ASSUME IInv, NEW c \in Instances, ReadyPhase(c), UNCHANGED calls
  PROVE  IInv'
<1> DEFINE q == [comp[c] EXCEPT !.phase = "snapshot", !.waits = Children(c) \ Complete]
           w == WaitsFor(comp[c], NotReadyChildren(c))
<1>1. comp[c].phase = "yield" /\ calls' \in Nat
  BY DEF ReadyPhase, IInv, TypeOK
<1>2. comp[c] \in Component /\ comp[c].state \in 1..4 /\ RecordOK(comp[c])
  BY <1>1, AliveFacts
<1>3. Children(c) \subseteq Instances
  BY DEF Children, Live, Born
<1>4. /\ q \in Component /\ q.phase = "snapshot"
      /\ \A f \in {"state", "parent", "marker", "everReady"} : q[f] = comp[c][f]
  BY <1>2, <1>3 DEF Component, Phases
<1>5. /\ w \in Component /\ w.phase = "children" /\ w.waits = NotReadyChildren(c)
      /\ \A f \in {"state", "parent", "marker", "everReady"} : w[f] = comp[c][f]
  BY <1>2, NotReadyFacts, WaitsForType
<1>6. Becomes(c, q) \/ Becomes(c, w)
  BY DEF ReadyPhase
<1> HIDE DEF q, w
<1>7. RecordOK(q) /\ ChildrenOK(c, q)
  BY <1>1, <1>2, <1>4 DEF RecordOK, ChildrenOK, Waited
<1>8. RecordOK(w) /\ ChildrenOK(c, w)
  BY <1>1, <1>2, <1>5, NotReadyFacts DEF RecordOK, ChildrenOK, Waited
<1>9. CASE Becomes(c, q)
  BY <1>1, <1>2, <1>4, <1>7, <1>9, BecomesKeeps
<1>10. CASE Becomes(c, w)
  BY <1>1, <1>2, <1>5, <1>8, <1>10, BecomesKeeps
<1> QED
  BY <1>6, <1>9, <1>10

LEMMA SnapshotStep ==
  ASSUME IInv, NEW c \in Instances, Snapshot(c), UNCHANGED calls
  PROVE  IInv'
<1> DEFINE w == WaitsFor(comp[c], NotReadyChildren(c))
           q == [w EXCEPT !.due = FALSE]
<1>1. comp[c].phase = "snapshot" /\ calls' \in Nat /\ Becomes(c, q)
  BY DEF Snapshot, IInv, TypeOK
<1>2. comp[c] \in Component /\ comp[c].state \in 1..4 /\ RecordOK(comp[c])
  BY <1>1, AliveFacts
<1>3. /\ w \in Component /\ w.phase = "children" /\ w.waits = NotReadyChildren(c)
      /\ \A f \in {"state", "parent", "marker", "everReady"} : w[f] = comp[c][f]
  BY <1>2, NotReadyFacts, WaitsForType
<1> HIDE DEF w
<1>4. /\ q \in Component /\ q.phase = "children" /\ q.waits = NotReadyChildren(c)
      /\ \A f \in {"state", "parent", "marker", "everReady"} : q[f] = comp[c][f]
  BY <1>3 DEF Component
<1> HIDE DEF q
<1>5. RecordOK(q) /\ ChildrenOK(c, q)
  BY <1>1, <1>2, <1>4, NotReadyFacts DEF RecordOK, ChildrenOK, Waited
<1> QED
  BY <1>1, <1>2, <1>4, <1>5, BecomesKeeps

LEMMA ChildrenReadyStep ==
  ASSUME IInv, NEW c \in Instances, ChildrenReady(c), UNCHANGED calls
  PROVE  IInv'
<1> DEFINE d == comp[c].due /\ comp[c].cycle \notin {"reload", "refresh"}
           q == [comp[c] EXCEPT !.phase = "on_ready", !.waits = {}, !.due = d]
<1>1. /\ comp[c].phase = "children" /\ comp[c].waits \subseteq Stopped
      /\ calls' \in Nat
  BY DEF ChildrenReady, IInv, TypeOK
<1>2. /\ comp[c] \in Component /\ comp[c].state \in 1..4
      /\ RecordOK(comp[c]) /\ ChildrenOK(c, comp[c])
  BY <1>1, AliveFacts
<1>3. d \in BOOLEAN
  BY <1>2 DEF Component
<1>4. Becomes(c, q)
  BY <1>2 DEF ChildrenReady, Component
<1> HIDE DEF d
<1>5. /\ q \in Component /\ q.phase = "on_ready"
      /\ \A f \in {"state", "parent", "marker", "everReady"} : q[f] = comp[c][f]
  BY <1>2, <1>3 DEF Component, Phases
<1> HIDE DEF q
<1>6. NoCachedFailure => \A k \in Children(c) : comp[k].everReady
  BY <1>1, <1>2 DEF ChildrenOK, Children, Live
<1>7. RecordOK(q) /\ ChildrenOK(c, q)
  BY <1>1, <1>2, <1>5, <1>6 DEF RecordOK, ChildrenOK, Waited
<1> QED
  BY <1>1, <1>2, <1>4, <1>5, <1>7, BecomesKeeps

LEMMA HookStep ==
  ASSUME IInv, NEW c \in Instances, HookReturns(c) \/ HookThrows(c), UNCHANGED calls
  PROVE  IInv'
<1>1. comp[c].phase = "on_ready" /\ calls' \in Nat
  BY DEF HookReturns, HookThrows, IInv, TypeOK
<1>2. /\ comp[c] \in Component /\ comp[c].state \in 1..4
      /\ RecordOK(comp[c]) /\ ChildrenOK(c, comp[c])
  BY <1>1, AliveFacts
<1>3. ChildrenReadyOnce(c)
  BY <1>1, <1>2 DEF ChildrenOK, Waited, ChildrenReadyOnce
<1>4. comp[c].state = 4 => comp[c].everReady
  BY <1>2 DEF RecordOK
<1>5. CASE HookReturns(c)
  <2>1. ReadyPoint(c, comp[c])
    BY <1>5 DEF HookReturns
  <2> QED
    BY <1>1, <1>2, <1>3, <1>4, <2>1, ReadyPointKeeps
<1>6. CASE HookThrows(c)
  <2>1. Fails(c)
    BY <1>6 DEF HookThrows
  <2> QED
    BY <1>1, <1>3, <2>1, FailsKeeps
<1> QED
  BY <1>5, <1>6

-----------------------------------------------------------------------------
(* The steps that begin or load                                            *)

(* r is the idle component c, about to run a cycle of render(), reload()   *)
(* or refresh().                                                           *)
About(c, r) ==
  /\ r \in Component
  /\ comp[c].phase # "none"
  /\ r.parent = comp[c].parent /\ r.everReady = comp[c].everReady
  /\ r.state \in 1..4 /\ ~r.fromCache
  /\ r.state = 4 \/ r.marker => r.everReady
  /\ ChildrenReadyOnce(c)

LEMMA InvalidatedType ==
  ASSUME NEW r \in Component
  PROVE  /\ Invalidated(r) \in Component /\ ~Invalidated(r).marker
         /\ \A f \in {"state", "parent", "everReady", "phase", "cycle", "fromCache", "waits"} :
              Invalidated(r)[f] = r[f]
  BY DEF Invalidated, Component

LEMMA BeginRenderKeeps ==
  ASSUME IInv, NEW c \in Instances, NEW r, About(c, r),
         BeginRender(c, r), calls' \in Nat
  PROVE  IInv'
<1>1. PICK shape \in NewTrees(c) : Renders(c, WaitsFor(Rendered(r), ChildrenIn(c, shape)), shape)
  BY DEF BeginRender
<1> DEFINE t == Rendered(r)
           q == WaitsFor(t, ChildrenIn(c, shape))
<1>2. /\ t \in Component /\ t.state \in 1..3
      /\ \A f \in {"parent", "marker", "everReady"} : t[f] = r[f]
  BY RenderedType DEF About
<1>3. ChildrenIn(c, shape) \in SUBSET Instances
  BY <1>1, NewTreesType DEF ChildrenIn
<1>4. Renders(c, q, shape)
  BY <1>1
<1> HIDE DEF t
<1>5. /\ q \in Component /\ q.phase = "children" /\ q.waits = ChildrenIn(c, shape)
      /\ \A f \in {"state", "parent", "marker", "everReady"} : q[f] = t[f]
  BY <1>2, <1>3, WaitsForType
<1> HIDE DEF q
<1>6. q.state \in 1..3 /\ q.parent = comp[c].parent /\ q.everReady = comp[c].everReady
  BY <1>2, <1>5 DEF About
<1>7. RecordOK(q) /\ ~Waited(q)
  BY <1>2, <1>5, <1>6 DEF RecordOK, Waited, About
<1>8. comp[c].state \in 1..4
  BY AliveFacts DEF About
<1> QED
  BY <1>1, <1>4, <1>5, <1>6, <1>7, <1>8, RendersKeeps

LEMMA BeginLoadKeeps ==
  ASSUME IInv, NEW c \in Instances, NEW r, About(c, r), r.cycle # "boot",
         BeginLoad(c, r), calls' \in Nat
  PROVE  IInv'
<1> DEFINE q == [r EXCEPT !.phase = "load"]
<1>1. /\ q \in Component /\ q.phase = "load"
      /\ \A f \in {"state", "parent", "marker", "everReady", "cycle", "fromCache"} : q[f] = r[f]
  BY DEF About, Component, Phases
<1>2. Becomes(c, q)
  BY DEF BeginLoad
<1> HIDE DEF q
<1>3. RecordOK(q)
  BY <1>1 DEF About, RecordOK
<1>4. ChildrenOK(c, q)
  BY <1>1 DEF About, ChildrenOK, ChildrenReadyOnce
<1>5. comp[c].state \in 1..4
  BY AliveFacts DEF About
<1>6. /\ q.parent = comp[c].parent /\ q.everReady = comp[c].everReady
      /\ q.state \in 1..4
  BY <1>1 DEF About
<1> QED
  BY <1>1, <1>2, <1>3, <1>4, <1>5, <1>6, BecomesKeeps

LEMMA BeginCachedLoadKeeps ==
  ASSUME IInv, NEW c \in Instances, NEW r, About(c, r), r.cycle # "boot",
         BeginCachedLoad(c, r), calls' \in Nat
  PROVE  IInv'
<1> DEFINE t == IF c \in Html THEN r ELSE Rendered(r)
           q == [t EXCEPT !.phase = "load", !.fromCache = TRUE]
<1>1. PICK shape \in NewTrees(c) : (c \in Html => DOMAIN shape = {}) /\ Renders(c, q, shape)
  BY DEF BeginCachedLoad
<1>2. /\ t \in Component /\ t.state \in 1..4
      /\ \A f \in {"parent", "marker", "everReady", "cycle"} : t[f] = r[f]
  BY RenderedType DEF About
<1>3. t.state = 4 => c \in Html /\ r.state = 4
  BY RenderedType DEF About
<1> HIDE DEF t
<1>4. /\ q \in Component /\ q.phase = "load" /\ q.fromCache
      /\ \A f \in {"state", "parent", "marker", "everReady", "cycle"} : q[f] = t[f]
  BY <1>2 DEF Component, Phases
<1> HIDE DEF q
<1>5. /\ q.state \in 1..4 /\ q.parent = comp[c].parent
      /\ q.everReady = comp[c].everReady /\ q.cycle # "boot"
  BY <1>2, <1>4 DEF About
<1>6. RecordOK(q)
  BY <1>2, <1>3, <1>4, <1>5 DEF RecordOK, About
<1>7. Waited(q) => DOMAIN shape = {}
  BY <1>1, <1>3, <1>4 DEF Waited
<1>8. comp[c].state \in 1..4
  BY AliveFacts DEF About
<1> QED
  BY <1>1, <1>4, <1>5, <1>6, <1>7, <1>8, RendersKeeps

LEMMA BeginKeeps ==
  ASSUME IInv, NEW c \in Instances, NEW r, About(c, r),
         NEW method \in Methods, Begin(c, r, method), calls' \in Nat
  PROVE  IInv'
<1> DEFINE running == [r EXCEPT !.cycle = method]
           invalid == Invalidated(running)
<1>1. About(c, running) /\ running.cycle = method /\ running.state = r.state
  BY DEF About, Component, Cycles
<1>2. CASE method = "render"
  <2>1. BeginRender(c, running)
    BY <1>2 DEF Begin
  <2> QED
    BY <1>1, <2>1, BeginRenderKeeps
<1>3. CASE method # "render"
  <2>1. BeginReload(c, running)
    BY <1>3 DEF Begin
  <2> HIDE DEF running
  <2>2. About(c, invalid) /\ invalid.cycle = method
    <3>1. /\ invalid \in Component /\ ~invalid.marker
          /\ \A f \in {"state", "parent", "everReady", "cycle", "fromCache"} :
               invalid[f] = running[f]
      <4>1. running \in Component
        BY <1>1 DEF About
      <4> QED
        BY <4>1, InvalidatedType
    <3> HIDE DEF invalid
    <3> QED
      BY <1>1, <3>1 DEF About
  <2> HIDE DEF invalid
  <2>3. \A b \in BOOLEAN : /\ About(c, [invalid EXCEPT !.wasReady = b])
                           /\ [invalid EXCEPT !.wasReady = b].cycle = method
    BY <2>2 DEF About, Component
  <2>4. PICK b \in BOOLEAN :
          LET q == [invalid EXCEPT !.wasReady = b]
          IN BeginRender(c, q) \/ BeginLoad(c, q) \/ BeginCachedLoad(c, q)
    <3> DEFINE b == running.state >= 4 /\ running.marker
    <3>1. b \in BOOLEAN
      OBVIOUS
    <3>2. invalid = Invalidated(running)
      BY DEF invalid
    <3>3. LET q == [invalid EXCEPT !.wasReady = b]
          IN BeginRender(c, q) \/ BeginLoad(c, q) \/ BeginCachedLoad(c, q)
      BY <2>1, <3>2 DEF BeginReload
    <3> QED
      BY <3>1, <3>3
  <2> DEFINE q == [invalid EXCEPT !.wasReady = b]
  <2>5. BeginRender(c, q) \/ BeginLoad(c, q) \/ BeginCachedLoad(c, q)
    BY <2>4
  <2>6. About(c, q) /\ q.cycle # "boot"
    BY <2>3 DEF Methods
  <2> HIDE DEF q
  <2>7. CASE BeginRender(c, q)
    BY <2>6, <2>7, BeginRenderKeeps
  <2>8. CASE BeginLoad(c, q)
    BY <2>6, <2>8, BeginLoadKeeps
  <2>9. CASE BeginCachedLoad(c, q)
    BY <2>6, <2>9, BeginCachedLoadKeeps
  <2> QED
    BY <2>5, <2>7, <2>8, <2>9
<1> QED
  BY <1>2, <1>3

LEMMA CallStep ==
  ASSUME IInv, NEW c \in Instances, NEW method \in Methods, Call(c, method)
  PROVE  IInv'
<1> DEFINE r == AfterCall(comp[c], method)
<1>1. /\ comp[c].phase \notin {"none", "created"} /\ calls' \in Nat
      /\ IF comp[c].phase = "idle" THEN Begin(c, r, method)
         ELSE Becomes(c, [r EXCEPT !.pending = method])
  BY DEF Call, IInv, TypeOK
<1>2. /\ comp[c] \in Component /\ comp[c].state \in 1..4
      /\ RecordOK(comp[c]) /\ ChildrenOK(c, comp[c])
  BY <1>1, AliveFacts
<1>3. /\ r \in Component
      /\ r.marker => comp[c].marker
      /\ \A f \in {"state", "parent", "everReady", "phase", "cycle", "fromCache", "waits"} :
           r[f] = comp[c][f]
  BY <1>2, InvalidatedType DEF AfterCall
<1> HIDE DEF r
<1>4. CASE comp[c].phase = "idle"
  <2>1. ChildrenReadyOnce(c)
    BY <1>2, <1>4 DEF ChildrenOK, Waited, ChildrenReadyOnce
  <2>2. About(c, r)
    BY <1>2, <1>3, <1>4, <2>1 DEF About, RecordOK
  <2> QED
    BY <1>1, <1>4, <2>2, BeginKeeps
<1>5. CASE comp[c].phase # "idle"
  <2> DEFINE q == [r EXCEPT !.pending = method]
  <2>1. /\ q \in Component
        /\ q.marker => comp[c].marker
        /\ \A f \in {"state", "parent", "everReady", "phase", "cycle", "fromCache", "waits"} :
             q[f] = comp[c][f]
    BY <1>3 DEF Component
  <2>2. Becomes(c, q)
    BY <1>1, <1>5
  <2> HIDE DEF q
  <2>3. RecordOK(q)
    BY <1>2, <2>1 DEF RecordOK
  <2>4. ChildrenOK(c, q)
    BY <1>2, <2>1 DEF ChildrenOK, Waited
  <2> QED
    BY <1>1, <1>2, <2>1, <2>2, <2>3, <2>4, BecomesKeeps
<1> QED
  BY <1>4, <1>5

LEMMA StartPendingStep ==
  ASSUME IInv, NEW c \in Instances, StartPending(c), UNCHANGED calls
  PROVE  IInv'
<1> DEFINE r == [comp[c] EXCEPT !.pending = "none"]
<1>1. /\ comp[c].phase = "idle" /\ comp[c].pending # "none" /\ calls' \in Nat
      /\ Begin(c, r, comp[c].pending)
  BY DEF StartPending, IInv, TypeOK
<1>2. /\ comp[c] \in Component /\ comp[c].state \in 1..4
      /\ RecordOK(comp[c]) /\ ChildrenOK(c, comp[c])
  BY <1>1, AliveFacts
<1>3. /\ r \in Component
      /\ \A f \in {"state", "parent", "everReady", "marker", "fromCache"} : r[f] = comp[c][f]
  BY <1>2 DEF Component
<1> HIDE DEF r
<1>4. comp[c].pending \in Methods
  BY <1>1, <1>2 DEF Component
<1>5. ChildrenReadyOnce(c)
  BY <1>1, <1>2 DEF ChildrenOK, Waited, ChildrenReadyOnce
<1>6. About(c, r)
  BY <1>1, <1>2, <1>3, <1>5 DEF About, RecordOK
<1> QED
  BY <1>1, <1>4, <1>6, BeginKeeps

LEMMA LoadedType ==
  ASSUME NEW c \in Instances, comp[c] \in Component, NEW dynamic \in BOOLEAN
  PROVE  /\ Loaded(c, dynamic) \in Component /\ Loaded(c, dynamic).state = 2
         /\ \A f \in {"parent", "marker", "everReady", "phase", "cycle", "fromCache"} :
              Loaded(c, dynamic)[f] = comp[c][f]
<1> DEFINE d == comp[c].due \/ dynamic
           t == [comp[c] EXCEPT !.state = 2]
<1>1. d \in BOOLEAN /\ t \in Component /\ t.state = 2
  BY DEF Component
<1>2. \A f \in {"parent", "marker", "everReady", "phase", "cycle", "fromCache"} :
        t[f] = comp[c][f]
  BY DEF Component
<1>3. Loaded(c, dynamic) = [t EXCEPT !.due = d]
  BY DEF Loaded, Component
<1> HIDE DEF d, t
<1> QED
  BY <1>1, <1>2, <1>3 DEF Component

LEMMA LoadRerendersStep ==
  ASSUME IInv, NEW c \in Instances, comp[c].phase = "load",
         NEW dynamic \in BOOLEAN, LoadRerenders(c, Loaded(c, dynamic)), calls' \in Nat
  PROVE  IInv'
<1> DEFINE r == Rendered(Loaded(c, dynamic))
           b == [r EXCEPT !.phase = "yield"]
<1>1. comp[c] \in Component /\ comp[c].state \in 1..4 /\ RecordOK(comp[c])
  BY AliveFacts
<1>2. PICK shape \in NewTrees(c) :
        Renders(c, IF r.cycle = "boot" THEN b ELSE WaitsFor(r, ChildrenIn(c, shape)), shape)
  BY DEF LoadRerenders
<1> DEFINE w == WaitsFor(r, ChildrenIn(c, shape))
<1>3. ChildrenIn(c, shape) \in SUBSET Instances
  BY <1>2, NewTreesType DEF ChildrenIn
<1>4. /\ r \in Component /\ r.state = 3
      /\ \A f \in {"parent", "marker", "everReady", "cycle"} : r[f] = comp[c][f]
  BY <1>1, LoadedType, RenderedType
<1>5. Renders(c, b, shape) \/ Renders(c, w, shape)
  BY <1>2
<1> HIDE DEF r
<1>6. /\ b \in Component /\ b.phase = "yield"
      /\ \A f \in {"state", "parent", "marker", "everReady"} : b[f] = r[f]
  BY <1>4 DEF Component, Phases
<1>7. /\ w \in Component /\ w.phase = "children" /\ w.waits = ChildrenIn(c, shape)
      /\ \A f \in {"state", "parent", "marker", "everReady"} : w[f] = r[f]
  BY <1>3, <1>4, WaitsForType
<1> HIDE DEF b, w
<1>8. RecordOK(b) /\ ~Waited(b)
  BY <1>1, <1>4, <1>6 DEF RecordOK, Waited
<1>9. RecordOK(w) /\ ~Waited(w)
  BY <1>1, <1>4, <1>7 DEF RecordOK, Waited
<1>10. CASE Renders(c, b, shape)
  BY <1>1, <1>2, <1>4, <1>6, <1>8, <1>10, RendersKeeps
<1>11. CASE Renders(c, w, shape)
  BY <1>1, <1>2, <1>4, <1>7, <1>9, <1>11, RendersKeeps
<1> QED
  BY <1>5, <1>10, <1>11

LEMMA LoadKeepsRenderStep ==
  ASSUME IInv, NEW c \in Instances, comp[c].phase = "load",
         NEW dynamic \in BOOLEAN, LoadKeepsRender(c, Loaded(c, dynamic)), calls' \in Nat
  PROVE  IInv'
<1> DEFINE r == Loaded(c, dynamic)
           b == [r EXCEPT !.phase = "yield", !.complete = TRUE]
           w == WaitsFor(r, NotReadyChildren(c))
<1>1. comp[c] \in Component /\ comp[c].state \in 1..4 /\ RecordOK(comp[c])
  BY AliveFacts
<1>2. /\ r \in Component /\ r.state = 2
      /\ \A f \in {"parent", "marker", "everReady"} : r[f] = comp[c][f]
  BY <1>1, LoadedType
<1>3. Becomes(c, b) \/ Becomes(c, w)
  BY DEF LoadKeepsRender
<1> HIDE DEF r
<1>4. /\ b \in Component /\ b.phase = "yield"
      /\ \A f \in {"state", "parent", "marker", "everReady"} : b[f] = r[f]
  BY <1>2 DEF Component, Phases
<1>5. /\ w \in Component /\ w.phase = "children" /\ w.waits = NotReadyChildren(c)
      /\ \A f \in {"state", "parent", "marker", "everReady"} : w[f] = r[f]
  BY <1>2, NotReadyFacts, WaitsForType
<1> HIDE DEF b, w
<1>6. RecordOK(b) /\ ChildrenOK(c, b)
  BY <1>1, <1>2, <1>4 DEF RecordOK, ChildrenOK, Waited
<1>7. RecordOK(w) /\ ChildrenOK(c, w)
  BY <1>1, <1>2, <1>5, NotReadyFacts DEF RecordOK, ChildrenOK, Waited
<1>8. CASE Becomes(c, b)
  BY <1>1, <1>2, <1>4, <1>6, <1>8, BecomesKeeps
<1>9. CASE Becomes(c, w)
  BY <1>1, <1>2, <1>5, <1>7, <1>9, BecomesKeeps
<1> QED
  BY <1>3, <1>8, <1>9

LEMMA RefreshIsQuietStep ==
  ASSUME IInv, NEW c \in Instances, comp[c].phase = "load",
         NEW dynamic \in BOOLEAN, RefreshIsQuiet(c, Loaded(c, dynamic)), calls' \in Nat
  PROVE  IInv'
<1> DEFINE r == Loaded(c, dynamic)
           q == [r EXCEPT !.due = FALSE]
<1>1. comp[c] \in Component /\ RecordOK(comp[c]) /\ ChildrenOK(c, comp[c])
  BY AliveFacts
<1>2. /\ r \in Component /\ r.state = 2
      /\ \A f \in {"parent", "marker", "everReady", "phase", "cycle", "fromCache"} : r[f] = comp[c][f]
  BY <1>1, LoadedType
<1>3. r.cycle # "boot" /\ ~r.fromCache /\ ReadyPoint(c, q)
  BY DEF RefreshIsQuiet
<1> HIDE DEF r
<1>4. /\ q \in Component
      /\ \A f \in {"state", "parent", "marker", "everReady"} : q[f] = r[f]
  BY <1>2 DEF Component
<1> HIDE DEF q
<1>5. ChildrenReadyOnce(c)
  BY <1>1, <1>2, <1>3 DEF ChildrenOK, Waited, ChildrenReadyOnce
<1>6. q.state \in 1..4 /\ q.state # 4
  BY <1>2, <1>4
<1> QED
  BY <1>2, <1>3, <1>4, <1>5, <1>6, ReadyPointKeeps

LEMMA LoadStep ==
  ASSUME IInv, NEW c \in Instances, LoadReturns(c) \/ LoadThrows(c), UNCHANGED calls
  PROVE  IInv'
<1>1. comp[c].phase = "load" /\ calls' \in Nat
  BY DEF LoadReturns, LoadThrows, IInv, TypeOK
<1>2. CASE LoadReturns(c)
  <2>1. PICK dynamic \in BOOLEAN : \/ LoadRerenders(c, Loaded(c, dynamic))
                                   \/ LoadKeepsRender(c, Loaded(c, dynamic))
                                   \/ RefreshIsQuiet(c, Loaded(c, dynamic))
    BY <1>2 DEF LoadReturns
  <2> QED
    BY <1>1, <2>1, LoadRerendersStep, LoadKeepsRenderStep, RefreshIsQuietStep
<1>3. CASE LoadThrows(c)
  <2>1. /\ Fails(c)
        /\ <<comp[c].cycle, IF comp[c].fromCache THEN "cached" ELSE "load">> \in Failing
    BY <1>3 DEF LoadThrows
  <2>2. ChildrenOK(c, comp[c])
    BY <1>1, AliveFacts
  <2>3. comp[c].fromCache => ~NoCachedFailure
    <3>1. comp[c].fromCache => <<comp[c].cycle, "cached">> \in Failing
      BY <2>1
    <3>2. <<comp[c].cycle, "cached">> \in Failing => comp[c].cycle \in Cycles
      BY ParametersAssumption
    <3> QED
      BY <3>1, <3>2 DEF NoCachedFailure
  <2>4. comp[c].cycle # "boot" => ChildrenReadyOnce(c)
    BY <1>1, <2>2, <2>3 DEF ChildrenOK, Waited, ChildrenReadyOnce
  <2> QED
    BY <1>1, <2>1, <2>4, FailsKeeps
<1> QED
  BY <1>2, <1>3

LEMMA StopStep ==
  ASSUME IInv, NEW c \in Instances, Stop(c), UNCHANGED calls
  PROVE  IInv'
<1>1. StopsAll({c} \cup Inside(c)) /\ calls' \in Nat
  BY DEF Stop, IInv, TypeOK
<1> QED
  BY <1>1, StopsKeeps

-----------------------------------------------------------------------------
(* IInv holds in every state: components keep their types, and whoever     *)
(* has stopped waiting for the children of its last render has children    *)
(* that were ready.                                                        *)
THEOREM Invariance == Spec => []IInv
<1>1. Init => IInv
  <2> SUFFICES ASSUME Init PROVE IInv
    OBVIOUS
  <2>1. PICK load \in BOOLEAN :
          comp = [i \in Instances |-> IF i = 1 THEN Created(NoParent, load) ELSE Unborn]
    BY DEF Init
  <2>2. 1 \in Instances /\ calls = 0
    BY ParametersAssumption DEF Instances, Init
  <2> DEFINE root == Created(NoParent, load)
  <2>3. /\ root \in Component /\ root.state = 1 /\ root.parent = NoParent
        /\ root.phase = "created" /\ root.cycle = "boot" /\ ~root.marker
    BY CreatedType
  <2> HIDE DEF root
  <2>4. TypeOK
    BY <2>1, <2>2, <2>3, UnbornType DEF TypeOK, root
  <2>5. /\ Unborn.state = 0 /\ Unborn.parent = NoParent
        /\ Unborn.phase = "none" /\ ~Unborn.marker
    BY DEF Unborn
  <2>6. comp[1] = root /\ \A i \in Instances \ {1} : comp[i] = Unborn
    BY <2>1, <2>2 DEF root
  <2> SUFFICES ASSUME NEW i \in Instances
               PROVE  ComponentOK(i)
    BY <2>4 DEF IInv
  <2>7. comp[i].parent < i
    BY <2>3, <2>5, <2>6, InstancesType DEF NoParent
  <2>8. RecordOK(comp[i]) /\ ChildrenOK(i, comp[i])
    BY <2>3, <2>5, <2>6 DEF RecordOK, ChildrenOK, Waited
  <2> QED
    BY <2>7, <2>8 DEF ComponentOK
<1>2. IInv /\ [Next]_vars => IInv'
  <2> SUFFICES ASSUME IInv, [Next]_vars PROVE IInv'
    OBVIOUS
  <2>1. CASE UNCHANGED vars
    BY <2>1 DEF vars, IInv, TypeOK, ComponentOK, RecordOK, ChildrenOK, Waited,
                Children, Live, Born, Stopped
  <2>2. CASE Next
    <3>1. PICK c \in Instances :
            \/ Turn(c)
            \/ \E method \in Methods : Call(c, method)
            \/ Stop(c) /\ UNCHANGED calls
      BY <2>2 DEF Next
    <3>2. CASE Turn(c)
      BY <3>2, BootStep, ReadyPhaseStep, SnapshotStep, ChildrenReadyStep, HookStep,
         LoadStep, StartPendingStep DEF Turn
    <3>3. CASE \E method \in Methods : Call(c, method)
      BY <3>3, CallStep
    <3>4. CASE Stop(c) /\ UNCHANGED calls
      BY <3>4, StopStep
    <3> QED
      BY <3>1, <3>2, <3>3, <3>4
  <2> QED
    BY <2>1, <2>2
<1> QED
  BY <1>1, <1>2, PTL DEF Spec

(* Every reachable state of the tree is well typed.                        *)
THEOREM TypeCorrect == Spec => []TypeOK
<1>1. IInv => TypeOK
  BY DEF IInv
<1> QED
  BY <1>1, Invariance, PTL

(* Unless a load fails after a render from the cache, children become      *)
(* ready before their parents: whoever is in the ready state, or whose     *)
(* on_ready() runs, has only children that have been ready.                *)
THEOREM ChildrenBeforeParents ==
  ASSUME NoCachedFailure
  PROVE  Spec => []BottomUp
<1>1. IInv => BottomUp
  <2> SUFFICES ASSUME IInv, NEW c \in Live,
                      comp[c].phase = "on_ready" \/ comp[c].state = 4,
                      NEW k \in Children(c)
               PROVE  comp[k].everReady
    BY DEF BottomUp
  <2>1. c \in Instances
    BY DEF Live, Born
  <2>2. RecordOK(comp[c]) /\ ChildrenOK(c, comp[c])
    BY <2>1 DEF IInv, ComponentOK
  <2>3. Waited(comp[c])
    BY <2>2 DEF RecordOK, Waited
  <2> QED
    BY <2>2, <2>3 DEF ChildrenOK
<1> QED
  BY <1>1, Invariance, PTL

=============================================================================
