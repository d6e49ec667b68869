----------------------- MODULE ComponentCycles_proofs -----------------------
(***************************************************************************)
(* The cycles of a component use its queue as LifecycleQueue describes, so *)
(* what LifecycleQueue_proofs proves holds of them; on top of that, what   *)
(* 'ready' promises, and that a call awaited in on_ready() runs.           *)
(***************************************************************************)
EXTENDS ComponentCycles, SequenceTheorems, FiniteSetTheorems,
        WellFoundedInduction, TLAPS

-----------------------------------------------------------------------------
(* What adding and taking an element does to an array.                     *)
NoRepeats(s) == \A i, j \in DOMAIN s : s[i] = s[j] => i = j

LEMMA AppendElements ==
  ASSUME NEW S, NEW s \in Seq(S), NEW e \in S
  PROVE  /\ Append(s, e) \in Seq(S) /\ Append(s, e) # <<>>
         /\ ToSet(Append(s, e)) = ToSet(s) \cup {e}
         /\ NoRepeats(s) /\ e \notin ToSet(s) => NoRepeats(Append(s, e))
  <1> DEFINE t == Append(s, e)
  <1>1. /\ t \in Seq(S) /\ Len(t) = Len(s) + 1
        /\ \A i \in 1 .. Len(s) : t[i] = s[i]
        /\ t[Len(s) + 1] = e
    BY AppendProperties
  <1> HIDE DEF t
  <1>2. DOMAIN t = 1 .. (Len(s) + 1) /\ DOMAIN s = 1 .. Len(s) /\ Len(s) \in Nat
    BY <1>1
  <1>3. ToSet(t) = ToSet(s) \cup {e}
    <2>1. \A i \in DOMAIN t : t[i] \in ToSet(s) \cup {e}
      BY <1>1, <1>2 DEF ToSet
    <2>2. \A i \in DOMAIN s : s[i] \in ToSet(t)
      BY <1>1, <1>2 DEF ToSet
    <2>3. e \in ToSet(t)
      BY <1>1, <1>2 DEF ToSet
    <2> QED BY <2>1, <2>2, <2>3 DEF ToSet
  <1>4. NoRepeats(s) /\ e \notin ToSet(s) => NoRepeats(t)
    BY <1>1, <1>2 DEF NoRepeats, ToSet
  <1>5. t # <<>>
    BY <1>2
  <1> QED BY <1>1, <1>3, <1>4, <1>5 DEF t

LEMMA TailElements ==
  ASSUME NEW S, NEW s \in Seq(S), s # <<>>
  PROVE  /\ Tail(s) \in Seq(S) /\ Head(s) \in S
         /\ ToSet(s) = ToSet(Tail(s)) \cup {Head(s)}
  <1> DEFINE t == Tail(s)
  <1>1. /\ t \in Seq(S) /\ Len(t) = Len(s) - 1 /\ Head(s) = s[1] /\ Len(s) \in Nat
        /\ Len(s) > 0 /\ \A i \in 1 .. Len(t) : t[i] = s[i + 1]
    BY HeadTailProperties
  <1> HIDE DEF t
  <1>2. DOMAIN t = 1 .. (Len(s) - 1) /\ DOMAIN s = 1 .. Len(s)
    BY <1>1
  <1>3. \A i \in DOMAIN t : t[i] \in ToSet(s)
    BY <1>1, <1>2 DEF ToSet
  <1>4. \A i \in DOMAIN s : i # 1 => s[i] = t[i - 1] /\ i - 1 \in DOMAIN t
    BY <1>1, <1>2
  <1>5. s[1] \in ToSet(s) /\ s[1] \in S
    BY <1>1, <1>2 DEF ToSet
  <1>6. ToSet(s) \subseteq ToSet(t) \cup {s[1]}
    BY <1>4 DEF ToSet
  <1>7. ToSet(t) \subseteq ToSet(s)
    BY <1>3 DEF ToSet
  <1> QED BY <1>1, <1>5, <1>6, <1>7 DEF t

LEMMA TailOfDistinct ==
  ASSUME NEW S, NEW s \in Seq(S), s # <<>>, NoRepeats(s)
  PROVE  NoRepeats(Tail(s)) /\ Head(s) \notin ToSet(Tail(s))
  <1> DEFINE t == Tail(s)
  <1>1. /\ t \in Seq(S) /\ Len(t) = Len(s) - 1 /\ Head(s) = s[1] /\ Len(s) \in Nat
        /\ Len(s) > 0 /\ \A i \in 1 .. Len(t) : t[i] = s[i + 1]
    BY HeadTailProperties
  <1> HIDE DEF t
  <1>2. DOMAIN t = 1 .. (Len(s) - 1) /\ DOMAIN s = 1 .. Len(s)
    BY <1>1
  <1>3. NoRepeats(t)
    BY <1>1, <1>2 DEF NoRepeats
  <1>4. \A i \in DOMAIN t : t[i] # s[1]
    BY <1>1, <1>2 DEF NoRepeats
  <1> QED BY <1>1, <1>3, <1>4 DEF ToSet, t

-----------------------------------------------------------------------------
(* Induction on Nat, for a set instead of a predicate.                     *)
LEMMA NatSetInduction ==
  ASSUME NEW S, 0 \in S, \A n \in Nat : n \in S => n + 1 \in S
  PROVE  \A n \in Nat : n \in S
  <1> DEFINE T == {n \in Nat : n \notin S}
  <1>1. SUFFICES ASSUME T # {}
                 PROVE  FALSE
    OBVIOUS
  <1>2. PICK m \in T : \A k \in T : ~ (k < m)
    <2>1. \E x \in T : \A y \in T : <<y, x>> \notin OpToRel(<, Nat)
      BY <1>1, NatLessThanWellFounded, WFMin
    <2> QED BY <2>1 DEF OpToRel
  <1>3. m # 0 /\ m \in Nat
    OBVIOUS
  <1>4. m - 1 \in Nat /\ m - 1 < m /\ (m - 1) + 1 = m
    BY <1>3
  <1>5. m - 1 \in S
    BY <1>2, <1>4
  <1> QED BY <1>4, <1>5

(* There is a function defined by recursion on Nat: what unfolds the       *)
(* recursive function of a model.                                          *)
LEMMA RecursionOnNat ==
  ASSUME NEW H, NEW h0 \in H, NEW F \in [H -> H]
  PROVE  \E h \in [Nat -> H] : h[0] = h0 /\ \A n \in Nat : h[n + 1] = F[h[n]]
  <1> DEFINE Good(g, n) == g \in [0 .. n -> H] /\ g[0] = h0 /\ \A i \in Nat : i < n => g[i + 1] = F[g[i]]
  <1>1. \A n \in Nat : \E g \in [0 .. n -> H] : Good(g, n)
    <2> DEFINE S == {n \in Nat : \E g \in [0 .. n -> H] : Good(g, n)}
    <2>1. 0 \in S
      <3> DEFINE g0 == [i \in 0 .. 0 |-> h0]
      <3>1. g0 \in [0 .. 0 -> H] /\ g0[0] = h0
        OBVIOUS
      <3>2. \A i \in Nat : ~(i < 0)
        OBVIOUS
      <3>3. Good(g0, 0)
        BY <3>1, <3>2
      <3> QED BY <3>3
    <2>2. ASSUME NEW n \in Nat, n \in S
          PROVE  n + 1 \in S
      <3>1. PICK g \in [0 .. n -> H] : Good(g, n)
        BY <2>2
      <3> DEFINE k == [i \in 0 .. n + 1 |-> IF i = n + 1 THEN F[g[n]] ELSE g[i]]
      <3>2. g[n] \in H /\ F[g[n]] \in H
        OBVIOUS
      <3>3. k \in [0 .. n + 1 -> H]
        BY <3>2
      <3>4. k[0] = h0
        BY <3>1
      <3>5. ASSUME NEW i \in Nat, i < n + 1
            PROVE  k[i + 1] = F[k[i]]
        <4>1. CASE i = n
          BY <4>1
        <4>2. CASE i < n
          BY <3>1, <4>2
        <4> QED BY <3>5, <4>1, <4>2
      <3>6. Good(k, n + 1)
        BY <3>3, <3>4, <3>5
      <3>7. \E f \in [0 .. n + 1 -> H] : Good(f, n + 1)
        <4> HIDE DEF k, Good
        <4> QED BY <3>3, <3>6
      <3>8. n + 1 \in Nat
        OBVIOUS
      <3> HIDE DEF k, Good
      <3> QED BY <3>7, <3>8
    <2> HIDE DEF S
    <2>3. \A n \in Nat : n \in S
      BY <2>1, <2>2, NatSetInduction
    <2> QED BY <2>3 DEF S
  <1>2. ASSUME NEW n \in Nat, NEW m \in Nat, n <= m, NEW g, NEW k, Good(g, n), Good(k, m)
        PROVE  \A i \in Nat : i <= n => g[i] = k[i]
    <2> DEFINE S == {i \in Nat : i <= n => g[i] = k[i]}
    <2>1. 0 \in S
      BY <1>2
    <2>2. ASSUME NEW i \in Nat, i \in S
          PROVE  i + 1 \in S
      <3>1. SUFFICES ASSUME i + 1 <= n
                     PROVE  g[i + 1] = k[i + 1]
        OBVIOUS
      <3>2. i < n /\ i < m /\ i <= n
        BY <3>1, <1>2
      <3>3. g[i] = k[i] /\ g[i + 1] = F[g[i]] /\ k[i + 1] = F[k[i]]
        BY <1>2, <2>2, <3>2
      <3> QED BY <3>3
    <2> HIDE DEF S
    <2>3. \A i \in Nat : i \in S
      BY <2>1, <2>2, NatSetInduction
    <2> QED BY <2>3 DEF S
  <1> DEFINE G(n) == CHOOSE g \in [0 .. n -> H] : Good(g, n)
             h == [n \in Nat |-> G(n)[n]]
  <1>3. ASSUME NEW n \in Nat
        PROVE  Good(G(n), n)
    BY <1>1
  <1> HIDE DEF G
  <1>4. h \in [Nat -> H]
    <2>1. \A n \in Nat : G(n)[n] \in H
      BY <1>3
    <2> QED BY <2>1
  <1>5. h[0] = h0
    BY <1>3
  <1>6. ASSUME NEW n \in Nat
        PROVE  h[n + 1] = F[h[n]]
    <2>1. Good(G(n), n) /\ Good(G(n + 1), n + 1) /\ n + 1 \in Nat /\ n <= n + 1
      BY <1>3
    <2> HIDE DEF Good
    <2>2. G(n)[n] = G(n + 1)[n]
      BY <1>2, <2>1
    <2>3. G(n + 1)[n + 1] = F[G(n + 1)[n]]
      BY <2>1 DEF Good
    <2> QED BY <2>1, <2>2, <2>3
  <1> QED BY <1>4, <1>5, <1>6

-----------------------------------------------------------------------------
QP == INSTANCE LifecycleQueue_proofs

-----------------------------------------------------------------------------
(* Every step of the component is a step of its queue or leaves it alone.  *)
LEMMA QueueStep ==
  ASSUME [Next]_vars
  PROVE  [Q!Next]_queueVars
  <1>1. ASSUME NEW c \in Calls, NEW m \in Keys, Invoke(c, m)
        PROVE  Q!Next
    BY <1>1 DEF Invoke, Q!Next, Q!Enqueue
  <1>2. ASSUME NEW c \in Calls, ThenRuns(c)
        PROVE  [Q!Next]_queueVars
    <2>1. CASE Promotable(c)
      BY <1>2, <2>1 DEF ThenRuns, Q!Next
    <2>2. CASE ~Promotable(c)
      BY <1>2, <2>2 DEF ThenRuns
    <2> QED BY <2>1, <2>2
  <1>3. BootStarts \/ GapOver \/ BootEnds => Q!Next
    BY DEF BootStarts, GapOver, BootEnds, Q!Next
  <1>4. ASSUME NEW e \in Calls, CallEnds(e) \/ LockReturns(e)
        PROVE  Q!Next
    BY <1>4 DEF CallEnds, LockReturns, Q!Next, Q!Results
  <1>5. Stop => UNCHANGED queueVars
    BY DEF Stop
  <1>6. ASSUME NEW e \in Entries, HookSettles(e) \/ Continues(e)
        PROVE  UNCHANGED queueVars
    BY <1>6 DEF HookSettles, LoadSettles, LoadedSettles, ReadySettles,
                Continues, ResultArrives, Apply, ChildrenReady
  <1>7. ASSUME NEW e \in Entries, Ends(e)
        PROVE  Q!Next
    BY <1>3, <1>4, <1>7 DEF Ends, Entries
  <1>8. CASE Next
    BY <1>1, <1>2, <1>3, <1>5, <1>6, <1>7, <1>8 DEF Next, Call, AwaitedCall
  <1> QED BY <1>8 DEF vars

(* The cycles use the queue as LifecycleQueue describes it: whatever the   *)
(* hooks of a component do, its lock is taken and released, its calls are  *)
(* queued, merged, promoted and settled by the queue's own steps.          *)
(* (component.ts:515-562, component-queue.ts)                              *)
THEOREM CyclesUseTheQueue == Spec => QueueSpec
  <1>1. Init => Q!Init
    BY DEF Init
  <1>2. [Next]_vars => [Q!Next]_Q!queueVars
    BY QueueStep DEF Q!queueVars, queueVars
  <1> QED BY <1>1, <1>2, PTL DEF Spec, QueueSpec, Q!Spec

(* LifecycleQueue_proofs is about this queue.                              *)
LEMMA SameQueue ==
  /\ QP!CallsAssumption
  /\ Q!Spec => QP!Spec
  /\ \A S : QP!Cardinality(S) = Cardinality(S) /\ Q!Cardinality(S) = Cardinality(S)
  <1>1. QP!CallsAssumption
    BY EntriesAssumption DEF QP!CallsAssumption, QP!IsFiniteSet, IsFiniteSet, Entries
  <1>2. Q!Spec => QP!Spec
    <2>1. Q!Init => QP!Init
      BY DEF Q!Init, QP!Init, Q!Entries, QP!Entries
    <2>2. [Q!Next]_Q!queueVars => [QP!Next]_QP!queueVars
      BY DEF Q!Next, QP!Next, Q!queueVars, QP!queueVars,
         Q!BeginBoot, QP!BeginBoot, Q!EndBoot, QP!EndBoot, Q!GapOver, QP!GapOver,
         Q!Enqueue, QP!Enqueue, Q!EnqueueIdle, QP!EnqueueIdle, Q!EnqueueMerge, QP!EnqueueMerge,
         Q!EnqueueWait, QP!EnqueueWait, Q!Promote, QP!Promote, Q!Settle, QP!Settle,
         Q!ReleaseAfterRun, QP!ReleaseAfterRun, Q!ReturnFromPromoted, QP!ReturnFromPromoted,
         Q!NewCall, QP!NewCall, Q!SetPhase, QP!SetPhase, Q!Release, QP!Release,
         Q!HandOver, QP!HandOver, Q!CanMerge, QP!CanMerge, Q!Executing, QP!Executing,
         Q!InPhase, QP!InPhase, Q!Entries, QP!Entries, Q!Results, QP!Results,
         Q!Last, QP!Last, Q!RemoveAt, QP!RemoveAt
    <2> QED BY <2>1, <2>2, PTL DEF Q!Spec, QP!Spec
  <1>3. \A S : QP!Cardinality(S) = Cardinality(S) /\ Q!Cardinality(S) = Cardinality(S)
    BY DEF QP!Cardinality, Q!Cardinality, Cardinality
  <1> QED BY <1>1, <1>2, <1>3

LEMMA QueueInvariant == Spec => []QP!RInv
  <1>1. QP!CallsAssumption
    BY SameQueue
  <1>2. QP!Spec => []QP!RInv
    BY <1>1, QP!CallsAttributed
  <1> QED BY <1>2, SameQueue, CyclesUseTheQueue, PTL DEF QueueSpec

-----------------------------------------------------------------------------
(* What is known of the queue, in terms of this module.                    *)
Executing == {e \in Entries : phase[e] \in {"holding", "nested"}}
Nested == {e \in Entries : phase[e] = "nested"}

LEMMA QueueFacts ==
  ASSUME QP!RInv
  PROVE  /\ Q!TypeOK
         /\ phase \in [Entries -> Q!Phases] /\ pending \in Seq(Calls)
         /\ key \in [Calls -> Keys \cup {NoCall}]
         /\ entryOf \in [Calls -> Calls \cup {NoCall}]
         /\ outcome \in [Calls -> {"resolved", "rejected", "none"}]
         /\ promotedRunning \in Nat /\ timers \in Nat
         /\ \A c \in Calls : phase[c] = "new" => entryOf[c] = NoCall /\ outcome[c] = "none"
         /\ \A c \in Calls : phase[c] # "new" => entryOf[c] \in Calls
         /\ \A c \in Calls : phase[c] # "new" =>
              (outcome[c] = "none" <=> phase[entryOf[c]] \in {"pending", "holding", "nested"})
         /\ \A i \in DOMAIN pending : pending[i] \in Calls /\ phase[pending[i]] = "pending"
         /\ \A e \in Entries : phase[e] = "pending" => \E i \in DOMAIN pending : pending[i] = e
         /\ phase[Boot] \in {"new", "holding", "over"}
         /\ phase[Boot] = "new" => busy = FALSE /\ \A c \in Calls : phase[c] = "new"
  <1>1. QP!TypeOK /\ QP!PendingExact /\ QP!BootFirst /\ QP!CallersKept /\ QP!SettledByEntry
        /\ QP!Attributed
    BY DEF QP!RInv, QP!IInv
  <1>2. Q!TypeOK
    BY <1>1 DEF QP!TypeOK, Q!TypeOK, QP!Entries, Q!Entries, QP!Phases, Q!Phases, QP!Results, Q!Results
  <1>3. /\ phase \in [Entries -> Q!Phases] /\ pending \in Seq(Calls)
        /\ key \in [Calls -> Keys \cup {NoCall}]
        /\ entryOf \in [Calls -> Calls \cup {NoCall}]
        /\ outcome \in [Calls -> {"resolved", "rejected", "none"}]
        /\ promotedRunning \in Nat /\ timers \in Nat
    BY <1>2 DEF Q!TypeOK, Q!Entries, Entries, Q!Results
  <1>4. \A c \in Calls :
          /\ phase[c] = "new" => entryOf[c] = NoCall /\ outcome[c] = "none"
          /\ phase[c] # "new" => entryOf[c] \in Calls
          /\ phase[c] # "new" =>
               (outcome[c] = "none" <=> phase[entryOf[c]] \in {"pending", "holding", "nested"})
    BY <1>1 DEF QP!CallersKept, QP!SettledByEntry, QP!Attributed, QP!Attended
  <1>5. /\ \A i \in DOMAIN pending : pending[i] \in Calls /\ phase[pending[i]] = "pending"
        /\ \A e \in Entries : phase[e] = "pending" => \E i \in DOMAIN pending : pending[i] = e
    BY <1>1, <1>3 DEF QP!PendingExact, QP!Entries, Entries
  <1>6. /\ phase[Boot] \in {"new", "holding", "over"}
        /\ phase[Boot] = "new" => busy = FALSE /\ \A c \in Calls : phase[c] = "new"
    BY <1>1, <1>2 DEF QP!BootFirst, Q!TypeOK
  <1> QED BY <1>2, <1>3, <1>4, <1>5, <1>6

(* Who runs, by the lock: nobody while it is free or handed over, and the  *)
(* lock holder alone while no promoted entry does.                         *)
LEMMA LockFacts ==
  ASSUME QP!RInv
  PROVE  /\ busy = FALSE \/ timers > 0 => Executing = {}
         /\ promotedRunning = 0 => Nested = {} /\ Q!PromotedRuns = {}
         /\ \A e, f \in Entries : phase[e] \in {"holding", "releasing"}
                                  /\ phase[f] \in {"holding", "releasing"} => e = f
         /\ busy = FALSE \/ timers > 0 => promotedRunning = 0
         /\ \A e \in Entries : phase[e] \in {"holding", "releasing"} => ~releaseDeferred
  <1>1. /\ QP!TypeOK /\ QP!LockAccounted /\ QP!PromotedKeepLock
    BY DEF QP!RInv, QP!IInv
  <1>a. busy \in BOOLEAN /\ timers \in Nat /\ releaseDeferred \in BOOLEAN /\ promotedRunning \in Nat
    BY <1>1 DEF QP!TypeOK
  <1> DEFINE L == QP!LockRuns
             P == QP!PromotedRuns
  <1>2. /\ L = {e \in Entries : phase[e] \in {"holding", "releasing"}}
        /\ P = {e \in Entries : phase[e] \in {"nested", "returning"}}
        /\ Q!PromotedRuns = P
    BY DEF QP!LockRuns, QP!PromotedRuns, Q!PromotedRuns, QP!InPhase, Q!InPhase, QP!Entries,
           Q!Entries, Entries
  <1>3. IsFiniteSet(Entries)
    BY EntriesAssumption, FS_AddElement DEF Entries
  <1>4. /\ IsFiniteSet(L) /\ Cardinality(L) \in Nat /\ (Cardinality(L) = 0 <=> L = {})
        /\ IsFiniteSet(P) /\ Cardinality(P) \in Nat /\ (Cardinality(P) = 0 <=> P = {})
    <2>1. L \subseteq Entries /\ P \subseteq Entries
      BY <1>2
    <2> QED BY <2>1, <1>3, FS_Subset, FS_CardinalityType, FS_EmptySet
  <1>5. /\ Cardinality(L) + timers + (IF releaseDeferred THEN 1 ELSE 0) = IF busy THEN 1 ELSE 0
        /\ promotedRunning = Cardinality(P)
        /\ promotedRunning > 0 => L # {} \/ releaseDeferred
        /\ releaseDeferred => promotedRunning > 0
    BY <1>1, SameQueue DEF QP!LockAccounted, QP!PromotedKeepLock
  <1> HIDE DEF L, P
  <1>6. Cardinality(L) <= 1
    BY <1>a, <1>4, <1>5
  <1>7. \A e, f \in L : e = f
    <2>1. CASE L = {}
      BY <2>1
    <2>2. CASE Cardinality(L) = 1
      BY <2>2, <1>4, FS_Singleton
    <2> QED BY <2>1, <2>2, <1>4, <1>6
  <1>8. busy = FALSE \/ timers > 0 => L = {} /\ releaseDeferred = FALSE /\ promotedRunning = 0 /\ P = {}
    BY <1>a, <1>4, <1>5
  <1>9. L # {} => ~releaseDeferred
    BY <1>a, <1>4, <1>5
  <1>10. promotedRunning = 0 => P = {}
    BY <1>4, <1>5
  <1> QED BY <1>2, <1>7, <1>8, <1>9, <1>10 DEF Executing, Nested

-----------------------------------------------------------------------------
(* Types.  That the queue of loads is not empty when its head leaves takes *)
(* an invariant: it holds the loads that apply their result, once each,    *)
(* the one whose turn it is at its head.                                   *)
Applying == {e \in Entries : stage[e] \in {"apply", "on_loaded"} /\ Method(e) # "load"}

LoadsInTurn ==
  /\ NoRepeats(loadQueue)
  /\ ToSet(loadQueue) = Applying
  /\ \A e \in Entries : stage[e] = "on_loaded" /\ Method(e) # "load"
       => loadQueue # <<>> /\ Head(loadQueue) = e

CycleTypes ==
  /\ stage \in [Entries -> Stages]
  /\ asyncHook \in Runs \cup {NoRun}
  /\ previous \in [Runs -> Runs \cup {NoRun}]
  /\ owner \in [Calls -> Runs \cup {NoRun}]
  /\ awaited \in [Entries -> SUBSET Calls]
  /\ thenDue \subseteq Calls
  /\ latestRender \in Entries
  /\ loadSeq \in Nat /\ seqOf \in [Entries -> Nat]
  /\ isReady \in BOOLEAN /\ readyMarker \in BOOLEAN /\ readyOwed \in BOOLEAN /\ stopped \in BOOLEAN
  /\ wasReady \in [Entries -> BOOLEAN]

CallTypes ==
  /\ owner \in [Calls -> Runs \cup {NoRun}]
  /\ awaited \in [Entries -> SUBSET Calls]
  /\ thenDue \subseteq Calls

Queued == loadQueue \in Seq(Entries)

LEMMA TypeParts == TypeOK <=> Q!TypeOK /\ CycleTypes /\ Queued
  BY DEF TypeOK, CycleTypes, Queued

LEMMA HookTypes ==
  ASSUME CycleTypes, NEW e \in Entries, NEW h \in Hooks, StartHook(e, h) \/ EndHook(e, h)
  PROVE  asyncHook' \in Runs \cup {NoRun} /\ previous' \in [Runs -> Runs \cup {NoRun}]
  <1>1. <<e, h>> \in Runs
    BY DEF Runs
  <1>2. CASE StartHook(e, h)
    BY <1>1, <1>2 DEF StartHook, CycleTypes
  <1>3. CASE EndHook(e, h)
    BY <1>1, <1>3 DEF EndHook, CycleTypes
  <1> QED BY <1>2, <1>3

LEMMA StartTypes ==
  ASSUME CycleTypes, NEW e \in Entries, NEW m, NEW k \in BOOLEAN, Start(e, m, k), CallTypes'
  PROVE  CycleTypes' /\ UNCHANGED loadQueue
         /\ \E s \in {"returned", "threw", "children", "on_load"} : Goto(e, s)
  <1>0. /\ UNCHANGED <<loadQueue, readyOwed, stopped>>
        /\ owner' \in [Calls -> Runs \cup {NoRun}] /\ awaited' \in [Entries -> SUBSET Calls]
        /\ thenDue' \subseteq Calls
        /\ {"returned", "threw", "children", "on_load"} \subseteq Stages /\ "on_load" \in Hooks
    BY DEF Start, CallTypes, Stages, Hooks
  <1>1. CASE StartStopped(e, k)
    BY <1>0, <1>1
    DEF StartStopped, CycleTypes, Goto, hookVars, seqVars
  <1>2. CASE StartRender(e, m, k)
    BY <1>0, <1>2
    DEF StartRender, CycleTypes, Goto, hookVars, seqVars
  <1>3. ASSUME StartOnLoad(e)
        PROVE  /\ stage' \in [Entries -> Stages] /\ Goto(e, "on_load")
               /\ asyncHook' \in Runs \cup {NoRun} /\ previous' \in [Runs -> Runs \cup {NoRun}]
               /\ loadSeq' \in Nat /\ seqOf' \in [Entries -> Nat]
    BY <1>0, <1>3, HookTypes DEF StartOnLoad, CycleTypes, Goto
  <1>4. CASE StartLoad(e, m, k)
    BY <1>0, <1>3, <1>4 DEF StartLoad, CycleTypes
  <1>5. CASE StartReload(e, m, k)
    <2>1. (isReady /\ k) \in BOOLEAN
      OBVIOUS
    <2>2. wasReady' = [wasReady EXCEPT ![e] = isReady /\ k]
      BY <1>5 DEF StartReload
    <2>3. wasReady' \in [Entries -> BOOLEAN]
      BY <2>1, <2>2, Zenon DEF CycleTypes
    <2> QED BY <1>0, <1>3, <1>5, <2>3 DEF StartReload, CycleTypes
  <1> QED BY <1>1, <1>2, <1>4, <1>5 DEF Start

LEMMA ReadyTypes ==
  ASSUME CycleTypes,
         QueueIdle \/ UNCHANGED readyVars \/ \E e \in Entries : ReadyPoint(e)
  PROVE  isReady' \in BOOLEAN /\ readyMarker' \in BOOLEAN /\ readyOwed' \in BOOLEAN
  BY DEF QueueIdle, ReadyPoint, FireReady, readyVars, CycleTypes

(* The queue of loads across a step that neither joins nor leaves it.      *)
LEMMA LoadsUntouched ==
  ASSUME Queued, LoadsInTurn, UNCHANGED loadQueue, Applying' = Applying,
         \A e \in Entries : (stage[e] = "on_loaded" /\ Method(e) # "load")'
                            => stage[e] = "on_loaded" /\ Method(e) # "load"
  PROVE  Queued' /\ LoadsInTurn'
  BY DEF Queued, LoadsInTurn, NoRepeats

LEMMA MethodKept ==
  ASSUME QP!RInv, [Next]_vars
  PROVE  \A e \in Entries : phase[e] # "new" => Method(e)' = Method(e)
  <1>1. key' = key \/ \E c \in Calls, m \in Keys : phase[c] = "new" /\ key' = [key EXCEPT ![c] = m]
    BY QueueStep
    DEF Q!Next, Q!BeginBoot, Q!EndBoot, Q!GapOver, Q!Enqueue, Q!EnqueueIdle, Q!EnqueueMerge,
        Q!EnqueueWait, Q!NewCall, Q!Promote, Q!Settle, Q!ReleaseAfterRun, Q!ReturnFromPromoted,
        queueVars
  <1> QED BY <1>1, QueueFacts DEF Method, Entries

-----------------------------------------------------------------------------
(* Where an executor is fits where its entry is.                           *)
Working == Stages \ {"idle", "ended"}

StagesFit ==
  \A e \in Entries :
    /\ stage[e] = "idle" <=> phase[e] \in {"new", "merged", "pending"}
    /\ stage[e] \in Working <=> phase[e] \in {"holding", "nested"}

(* The kinds of steps, by what they do to who runs and what is awaited.    *)
FirstStages == {"returned", "threw", "children", "on_load"}

StartsOff(e) ==
  \E s \in FirstStages :
    /\ stage' = [stage EXCEPT ![e] = s]
    /\ IF s = "on_load" THEN StartHook(e, s) ELSE UNCHANGED hookVars

(* e starts while nothing else runs ...                                    *)
EntersAlone(e) ==
  /\ Executing = {}
  /\ phase[e] \in {"new", "pending"}
  /\ phase' = [phase EXCEPT ![e] = "holding"]
  /\ StartsOff(e)
  /\ entryOf' = entryOf \/ (phase[e] = "new" /\ e \in Calls /\ entryOf' = [entryOf EXCEPT ![e] = e])
  /\ UNCHANGED <<outcome, callVars>>

(* ... or because an on_ready() awaits its call c                          *)
EntersNested(e, c) ==
  /\ c \in thenDue /\ Promotable(c) /\ entryOf[c] = e
  /\ phase' = [phase EXCEPT ![e] = "nested"]
  /\ StartsOff(e)
  /\ thenDue' = thenDue \ {c}
  /\ UNCHANGED <<outcome, entryOf, owner, awaited>>

Awaits(e, c) ==
  /\ stage[e] = "on_ready" /\ Cardinality(Unsettled(e)) < MaxAwait
  /\ owner' = [owner EXCEPT ![c] = ReadyRun]
  /\ awaited' = [awaited EXCEPT ![e] = @ \cup {c}]
  /\ thenDue' = thenDue \cup {c}

JoinsQueue(c) ==
  /\ phase[c] = "new"
  /\ \E p \in {"merged", "pending"} : phase' = [phase EXCEPT ![c] = p]
  /\ \E d \in Calls : phase'[d] = "pending" /\ entryOf' = [entryOf EXCEPT ![c] = d]
  /\ UNCHANGED callVars \/ \E e \in Entries : Awaits(e, c)
  /\ UNCHANGED <<stage, hookVars, outcome>>

MovesOn(e) ==
  /\ stage[e] \in Working
  /\ stage[e] = "on_ready" => Unsettled(e) = {}
  /\ \E s \in Working :
       /\ stage' = [stage EXCEPT ![e] = s]
       /\ CASE stage[e] \in Hooks -> EndHook(e, stage[e]) /\ s \notin Hooks
            [] stage[e] \notin Hooks /\ s \in Hooks -> StartHook(e, s)
            [] OTHER -> UNCHANGED hookVars
  /\ UNCHANGED <<queueVars, callVars>>

Finishes(e) ==
  /\ stage[e] \in {"returned", "threw"}
  /\ stage' = [stage EXCEPT ![e] = "ended"]
  /\ \E p \in {"releasing", "returning", "over"} : phase' = [phase EXCEPT ![e] = p]
  /\ \A c \in Calls : outcome'[c] = "none" <=> outcome[c] = "none" /\ entryOf[c] # e
  /\ UNCHANGED <<hookVars, callVars, entryOf>>

NobodyMoves ==
  /\ \/ phase' = phase
     \/ \E e \in Entries : phase[e] \in {"releasing", "returning"} /\ phase' = [phase EXCEPT ![e] = "over"]
  /\ thenDue' = thenDue \/ \E c \in thenDue : ~Promotable(c) /\ thenDue' = thenDue \ {c}
  /\ UNCHANGED <<stage, hookVars, owner, awaited, entryOf, outcome>>

LEMMA StartsOffFrom ==
  ASSUME NEW e, NEW m, NEW k, Start(e, m, k)
  PROVE  StartsOff(e)
  BY DEF Start, StartStopped, StartRender, StartLoad, StartReload, StartOnLoad, StartsOff,
         FirstStages, Goto

LEMMA QueueMoves ==
  ASSUME QP!RInv
  PROVE  /\ Q!BeginBoot =>
              /\ phase[Boot] = "new" /\ Executing = {}
              /\ phase' = [phase EXCEPT ![Boot] = "holding"] /\ UNCHANGED <<entryOf, outcome>>
         /\ Q!EndBoot =>
              /\ phase[Boot] = "holding"
              /\ phase' = [phase EXCEPT ![Boot] = "over"] /\ UNCHANGED <<entryOf, outcome>>
         /\ Q!GapOver =>
              /\ Executing = {} /\ UNCHANGED <<entryOf, outcome>>
              /\ pending = <<>> => phase' = phase
              /\ pending # <<>> => /\ Head(pending) \in Calls /\ phase[Head(pending)] = "pending"
                                   /\ phase' = [phase EXCEPT ![Head(pending)] = "holding"]
         /\ \A c \in Calls, m \in Keys : Q!EnqueueIdle(c, m) =>
              /\ phase[c] = "new" /\ Executing = {}
              /\ phase' = [phase EXCEPT ![c] = "holding"]
              /\ entryOf' = [entryOf EXCEPT ![c] = c] /\ outcome' = outcome
         /\ \A c \in Calls, m \in Keys : Q!EnqueueMerge(c, m) \/ Q!EnqueueWait(c, m) =>
              /\ phase[c] = "new" /\ outcome' = outcome
              /\ \E p \in {"merged", "pending"} : phase' = [phase EXCEPT ![c] = p]
              /\ \E d \in Calls : phase'[d] = "pending" /\ entryOf' = [entryOf EXCEPT ![c] = d]
         /\ \A i \in DOMAIN pending : Q!Promote(i) =>
              /\ phase' = [phase EXCEPT ![pending[i]] = "nested"] /\ UNCHANGED <<entryOf, outcome>>
         /\ \A e \in Calls, r \in {"resolved", "rejected"} : Q!Settle(e, r) =>
              /\ \E p \in {"releasing", "returning"} : phase' = [phase EXCEPT ![e] = p]
              /\ outcome' = [c \in Calls |-> IF entryOf[c] = e THEN r ELSE outcome[c]]
              /\ entryOf' = entryOf
         /\ \A e \in Calls : Q!ReleaseAfterRun(e) \/ Q!ReturnFromPromoted(e) =>
              /\ phase[e] \in {"releasing", "returning"}
              /\ phase' = [phase EXCEPT ![e] = "over"] /\ UNCHANGED <<entryOf, outcome>>
  <1>1. Q!BeginBoot =>
          /\ phase[Boot] = "new" /\ Executing = {}
          /\ phase' = [phase EXCEPT ![Boot] = "holding"] /\ UNCHANGED <<entryOf, outcome>>
    BY QueueFacts, LockFacts DEF Q!BeginBoot, Q!SetPhase
  <1>2. Q!EndBoot =>
          /\ phase[Boot] = "holding"
          /\ phase' = [phase EXCEPT ![Boot] = "over"] /\ UNCHANGED <<entryOf, outcome>>
    BY DEF Q!EndBoot, Q!SetPhase, QP!RInv, QP!IInv, QP!BootFirst
  <1>3. Q!GapOver =>
          /\ Executing = {} /\ UNCHANGED <<entryOf, outcome>>
          /\ pending = <<>> => phase' = phase
          /\ pending # <<>> => /\ Head(pending) \in Calls /\ phase[Head(pending)] = "pending"
                               /\ phase' = [phase EXCEPT ![Head(pending)] = "holding"]
    <2>1. pending # <<>> => 1 \in DOMAIN pending /\ Head(pending) = pending[1]
      BY QueueFacts
    <2> QED BY <2>1, QueueFacts, LockFacts DEF Q!GapOver, Q!SetPhase
  <1>4. ASSUME NEW c \in Calls, NEW m \in Keys, Q!EnqueueIdle(c, m)
        PROVE  /\ phase[c] = "new" /\ Executing = {}
               /\ phase' = [phase EXCEPT ![c] = "holding"]
               /\ entryOf' = [entryOf EXCEPT ![c] = c] /\ outcome' = outcome
    <2>1. busy = FALSE
      BY <1>4, QueueFacts DEF Q!EnqueueIdle, Q!TypeOK
    <2> QED BY <2>1, <1>4, LockFacts DEF Q!EnqueueIdle, Q!NewCall, Q!SetPhase
  <1>5. ASSUME NEW c \in Calls, NEW m \in Keys, Q!EnqueueMerge(c, m) \/ Q!EnqueueWait(c, m)
        PROVE  /\ phase[c] = "new" /\ outcome' = outcome
               /\ \E p \in {"merged", "pending"} : phase' = [phase EXCEPT ![c] = p]
               /\ \E d \in Calls : phase'[d] = "pending" /\ entryOf' = [entryOf EXCEPT ![c] = d]
    <2>1. CASE Q!EnqueueMerge(c, m)
      <3>1. pending # <<>>
        BY <2>1 DEF Q!EnqueueMerge, Q!CanMerge
      <3>2. PICK d \in Calls : d = Q!Last(pending) /\ phase[d] = "pending"
        <4>1. Len(pending) \in DOMAIN pending
          BY <3>1, QueueFacts
        <4> QED BY <4>1, QueueFacts DEF Q!Last
      <3>3. phase[c] = "new" /\ phase' = [phase EXCEPT ![c] = "merged"]
            /\ entryOf' = [entryOf EXCEPT ![c] = d] /\ outcome' = outcome
        BY <2>1, <3>2 DEF Q!EnqueueMerge, Q!NewCall, Q!SetPhase
      <3>4. phase'[d] = "pending"
        BY <3>2, <3>3, QueueFacts DEF Entries
      <3> QED BY <3>3, <3>4
    <2>2. CASE Q!EnqueueWait(c, m)
      <3>1. phase[c] = "new" /\ phase' = [phase EXCEPT ![c] = "pending"]
            /\ entryOf' = [entryOf EXCEPT ![c] = c] /\ outcome' = outcome
        BY <2>2 DEF Q!EnqueueWait, Q!NewCall, Q!SetPhase
      <3>2. phase'[c] = "pending"
        BY <3>1, QueueFacts DEF Entries
      <3> QED BY <3>1, <3>2
    <2> QED BY <2>1, <2>2, <1>5
  <1>6. ASSUME NEW i \in DOMAIN pending, Q!Promote(i)
        PROVE  phase' = [phase EXCEPT ![pending[i]] = "nested"] /\ UNCHANGED <<entryOf, outcome>>
    BY <1>6 DEF Q!Promote, Q!SetPhase
  <1>7. ASSUME NEW e \in Calls, NEW r \in {"resolved", "rejected"}, Q!Settle(e, r)
        PROVE  /\ \E p \in {"releasing", "returning"} : phase' = [phase EXCEPT ![e] = p]
               /\ outcome' = [c \in Calls |-> IF entryOf[c] = e THEN r ELSE outcome[c]]
               /\ entryOf' = entryOf
    BY <1>7 DEF Q!Settle, Q!SetPhase
  <1>8. ASSUME NEW e \in Calls, Q!ReleaseAfterRun(e) \/ Q!ReturnFromPromoted(e)
        PROVE  /\ phase[e] \in {"releasing", "returning"}
               /\ phase' = [phase EXCEPT ![e] = "over"] /\ UNCHANGED <<entryOf, outcome>>
    BY <1>8 DEF Q!ReleaseAfterRun, Q!ReturnFromPromoted, Q!SetPhase
  <1> QED BY <1>1, <1>2, <1>3, <1>4, <1>5, <1>6, <1>7, <1>8

LEMMA ContinuesShape ==
  ASSUME NEW e \in Entries, HookSettles(e) \/ Continues(e)
  PROVE  MovesOn(e)
  <1>0. Hooks = {"on_load", "on_loaded", "on_ready"}
        /\ Working = {"on_load", "on_loaded", "on_ready", "fetched", "apply", "children",
                      "returned", "threw"}
    BY DEF Hooks, Working, Stages
  <1>1. CASE LoadSettles(e)
    <2>1. PICK s \in {"fetched", "threw"} : Goto(e, s)
      BY <1>1 DEF LoadSettles
    <2> QED BY <1>0, <1>1, <2>1 DEF LoadSettles, MovesOn, Goto
  <1>2. CASE LoadedSettles(e)
    <2>1. PICK s \in {"returned", "threw", "children"} : Goto(e, s)
      BY <1>2 DEF LoadedSettles
    <2> QED BY <1>0, <1>2, <2>1 DEF LoadedSettles, MovesOn, Goto
  <1>3. CASE ReadySettles(e)
    <2>1. PICK s \in {"returned", "threw"} : Goto(e, s)
      BY <1>3 DEF ReadySettles
    <2> QED BY <1>0, <1>3, <2>1 DEF ReadySettles, MovesOn, Goto
  <1>4. CASE ResultArrives(e)
    <2>1. \/ \E s \in {"returned", "apply"} : Goto(e, s) /\ UNCHANGED hookVars
          \/ Goto(e, "on_loaded") /\ StartHook(e, "on_loaded")
      BY <1>4 DEF ResultArrives
    <2> QED BY <1>0, <1>4, <2>1 DEF ResultArrives, MovesOn, Goto
  <1>5. CASE Apply(e)
    BY <1>0, <1>5 DEF Apply, MovesOn, Goto
  <1>6. CASE ChildrenReady(e)
    <2>1. \/ Goto(e, "returned") /\ UNCHANGED hookVars
          \/ Goto(e, "on_ready") /\ StartHook(e, "on_ready")
      BY <1>6 DEF ChildrenReady
    <2> QED BY <1>0, <1>6, <2>1 DEF ChildrenReady, MovesOn, Goto
  <1> QED BY <1>1, <1>2, <1>3, <1>4, <1>5, <1>6 DEF HookSettles, Continues

LEMMA Shapes ==
  ASSUME QP!RInv, StagesFit, CycleTypes, [Next]_vars
  PROVE  \/ \E e \in Entries : EntersAlone(e)
         \/ \E e \in Entries, c \in Calls : EntersNested(e, c)
         \/ \E c \in Calls : JoinsQueue(c)
         \/ \E e \in Entries : MovesOn(e) \/ Finishes(e)
         \/ NobodyMoves
  <1> USE QueueMoves
  <1>1. CASE BootStarts
    <2>1. StartsOff(Boot)
      BY <1>1 DEF BootStarts, StartOnLoad, StartsOff, FirstStages, Goto
    <2> QED BY <1>1, <2>1 DEF BootStarts, EntersAlone, Entries
  <1>2. CASE GapOver
    <2>1. CASE pending # <<>>
      <3>1. PICK e \in Calls : e = Head(pending)
        BY <1>2, <2>1 DEF GapOver
      <3>2. StartsOff(e)
        BY <1>2, <2>1, <3>1, StartsOffFrom DEF GapOver
      <3>3. EntersAlone(e)
        BY <1>2, <2>1, <3>1, <3>2 DEF GapOver, EntersAlone
      <3> QED BY <3>3 DEF Entries
    <2>2. CASE pending = <<>>
      BY <1>2, <2>2 DEF GapOver, NobodyMoves, callVars
    <2> QED BY <2>1, <2>2
  <1>3. CASE Stop
    BY <1>3 DEF Stop, NobodyMoves, queueVars, callVars
  <1>4. ASSUME NEW c \in Calls, NEW m \in Keys, Invoke(c, m),
               UNCHANGED callVars \/ \E e \in Entries : Awaits(e, c)
        PROVE  EntersAlone(c) \/ JoinsQueue(c)
    <2>1. CASE Q!EnqueueIdle(c, m)
      <3>1. StartsOff(c)
        BY <1>4, <2>1, StartsOffFrom DEF Invoke, Q!EnqueueIdle, Q!EnqueueMerge, Q!EnqueueWait
      <3>2. Executing = {}
        BY <2>1
      <3>3. UNCHANGED callVars
        <4>1. ASSUME NEW e \in Entries, Awaits(e, c)
              PROVE  FALSE
          BY <4>1, <3>2 DEF Awaits, Executing, StagesFit, Working, Stages, Hooks
        <4> QED BY <1>4, <4>1
      <3> QED BY <2>1, <3>1, <3>2, <3>3 DEF EntersAlone
    <2>2. CASE Q!EnqueueMerge(c, m) \/ Q!EnqueueWait(c, m)
      <3>1. UNCHANGED <<stage, hookVars>>
        BY <1>4, <2>2 DEF Invoke, Q!EnqueueIdle, Q!EnqueueMerge, Q!EnqueueWait
      <3> QED BY <1>4, <2>2, <3>1 DEF JoinsQueue
    <2> QED BY <1>4, <2>1, <2>2 DEF Invoke
  <1>5. ASSUME NEW c \in Calls, NEW m \in Keys,
               Call(c, m) \/ \E e \in Entries : AwaitedCall(e, c, m)
        PROVE  EntersAlone(c) \/ JoinsQueue(c)
    BY <1>4, <1>5 DEF Call, AwaitedCall, Awaits
  <1>6. ASSUME NEW c \in Calls, ThenRuns(c)
        PROVE  NobodyMoves \/ \E e \in Entries : EntersNested(e, c)
    <2>1. CASE Promotable(c)
      <3>1. PICK i \in DOMAIN pending : /\ pending[i] = entryOf[c]
                                        /\ Q!Promote(i)
                                        /\ Start(pending[i], key[pending[i]], readyMarker)
        BY <1>6, <2>1 DEF ThenRuns
      <3>2. PICK e \in Calls : e = pending[i]
        BY QueueFacts
      <3>3. StartsOff(e)
        BY <3>1, <3>2, StartsOffFrom
      <3>4. EntersNested(e, c)
        BY <1>6, <2>1, <3>1, <3>2, <3>3 DEF ThenRuns, EntersNested
      <3> QED BY <3>4 DEF Entries
    <2>2. CASE ~Promotable(c)
      BY <1>6, <2>2 DEF ThenRuns, NobodyMoves, queueVars
    <2> QED BY <2>1, <2>2
  <1>7. ASSUME BootEnds
        PROVE  Finishes(Boot)
    <2>1. \A c \in Calls : entryOf[c] # Boot
      BY QueueFacts, EntriesAssumption DEF Entries
    <2>2. outcome' = outcome /\ entryOf' = entryOf /\ phase' = [phase EXCEPT ![Boot] = "over"]
      BY <1>7 DEF BootEnds
    <2> QED BY <1>7, <2>1, <2>2 DEF BootEnds, Finishes, Goto
  <1>8. ASSUME NEW c \in Calls, CallEnds(c)
        PROVE  Finishes(c)
    <2>1. PICK r \in {"resolved", "rejected"} : Q!Settle(c, r)
      BY <1>8 DEF CallEnds
    <2>2. \A d \in Calls : outcome'[d] = "none" <=> outcome[d] = "none" /\ entryOf[d] # c
      BY <2>1
    <2> QED BY <1>8, <2>1, <2>2 DEF CallEnds, Finishes, Goto
  <1>9. ASSUME NEW c \in Calls, LockReturns(c)
        PROVE  NobodyMoves
    BY <1>9 DEF LockReturns, NobodyMoves, callVars, Entries
  <1>10. UNCHANGED vars => NobodyMoves
    BY DEF vars, NobodyMoves, cycleVars, queueVars, callVars
  <1>11. ASSUME NEW e \in Entries, HookSettles(e) \/ Continues(e) \/ Ends(e)
         PROVE  MovesOn(e) \/ Finishes(e) \/ NobodyMoves
    BY <1>7, <1>8, <1>9, <1>11, ContinuesShape DEF Ends, Entries
  <1> QED BY <1>1, <1>2, <1>3, <1>5, <1>6, <1>10, <1>11 DEF Next, Entries

-----------------------------------------------------------------------------
(* What is awaited.  An executor awaits calls in on_ready() only, and is   *)
(* not past it before they are settled; each call awaited was made.        *)
AwaitsKept ==
  /\ \A e \in Entries : /\ \A c \in awaited[e] : phase[c] # "new"
                        /\ Unsettled(e) # {} => stage[e] = "on_ready"
  /\ \A c \in thenDue : \E e \in Entries : c \in awaited[e]

(* The on_ready() of e awaits a call that f serves.                        *)
Hosts(e, f) == stage[e] = "on_ready" /\ \E c \in Unsettled(e) : entryOf[c] = f

(* No set of promoted entries hosts itself: one of them at least runs for  *)
(* an on_ready() outside it.  The entry that holds the lock is therefore   *)
(* at the root of them all.                                                *)
NestedAreHosted ==
  \A S \in SUBSET Nested : S # {} => \E f \in S, e \in Executing \ S : Hosts(e, f)

(* A step moves no entry back, and takes back no settlement.               *)
LEMMA OneWay ==
  ASSUME QP!RInv, StagesFit, CycleTypes, [Next]_vars
  PROVE  \A c \in Calls : /\ phase[c] # "new" => phase'[c] # "new" /\ entryOf'[c] = entryOf[c]
                          /\ outcome'[c] = "none" => outcome[c] = "none"
  <1>1. ASSUME NEW e \in Entries, EntersAlone(e)
        PROVE  \A c \in Calls : /\ phase[c] # "new" => phase'[c] # "new" /\ entryOf'[c] = entryOf[c]
                                /\ outcome'[c] = "none" => outcome[c] = "none"
    BY <1>1, QueueFacts DEF EntersAlone, Entries
  <1>2. ASSUME NEW e \in Entries, NEW d \in Calls, EntersNested(e, d)
        PROVE  \A c \in Calls : /\ phase[c] # "new" => phase'[c] # "new" /\ entryOf'[c] = entryOf[c]
                                /\ outcome'[c] = "none" => outcome[c] = "none"
    BY <1>2, QueueFacts DEF EntersNested, Entries
  <1>3. ASSUME NEW d \in Calls, JoinsQueue(d)
        PROVE  \A c \in Calls : /\ phase[c] # "new" => phase'[c] # "new" /\ entryOf'[c] = entryOf[c]
                                /\ outcome'[c] = "none" => outcome[c] = "none"
    BY <1>3, QueueFacts DEF JoinsQueue, Entries
  <1>4. ASSUME NEW e \in Entries, MovesOn(e)
        PROVE  UNCHANGED <<phase, entryOf, outcome>>
    BY <1>4 DEF MovesOn, queueVars
  <1>5. ASSUME NEW e \in Entries, Finishes(e)
        PROVE  \A c \in Calls : /\ phase[c] # "new" => phase'[c] # "new" /\ entryOf'[c] = entryOf[c]
                                /\ outcome'[c] = "none" => outcome[c] = "none"
    BY <1>5, QueueFacts DEF Finishes, Entries
  <1>6. CASE NobodyMoves
    BY <1>6, QueueFacts DEF NobodyMoves, Entries
  <1> QED BY Shapes, <1>1, <1>2, <1>3, <1>4, <1>5, <1>6

LEMMA StagesFitStep ==
  ASSUME QP!RInv, StagesFit, CycleTypes, [Next]_vars
  PROVE  StagesFit'
  <1>0. /\ \A s \in FirstStages : s \in Working /\ s # "idle"
        /\ "idle" \notin Working /\ "ended" \notin Working
        /\ "returned" \in Working /\ "threw" \in Working
    BY DEF FirstStages, Working, Stages, Hooks
  <1>1. ASSUME NEW e \in Entries, EntersAlone(e)
        PROVE  StagesFit'
    <2>1. PICK s \in FirstStages : stage' = [stage EXCEPT ![e] = s]
      BY <1>1 DEF EntersAlone, StartsOff
    <2> QED BY <1>0, <1>1, <2>1, QueueFacts DEF EntersAlone, StagesFit, CycleTypes
  <1>2. ASSUME NEW e \in Entries, NEW d \in Calls, EntersNested(e, d)
        PROVE  StagesFit'
    <2>1. PICK s \in FirstStages : stage' = [stage EXCEPT ![e] = s]
      BY <1>2 DEF EntersNested, StartsOff
    <2> QED BY <1>0, <1>2, <2>1, QueueFacts DEF EntersNested, StagesFit, CycleTypes
  <1>3. ASSUME NEW d \in Calls, JoinsQueue(d)
        PROVE  StagesFit'
    BY <1>3, QueueFacts DEF JoinsQueue, StagesFit, CycleTypes, Entries
  <1>4. ASSUME NEW e \in Entries, MovesOn(e)
        PROVE  StagesFit'
    BY <1>0, <1>4 DEF MovesOn, StagesFit, CycleTypes, queueVars
  <1>5. ASSUME NEW e \in Entries, Finishes(e)
        PROVE  StagesFit'
    BY <1>0, <1>5, QueueFacts DEF Finishes, StagesFit, CycleTypes
  <1>6. CASE NobodyMoves
    BY <1>6, QueueFacts DEF NobodyMoves, StagesFit
  <1> QED BY Shapes, <1>1, <1>2, <1>3, <1>4, <1>5, <1>6

LEMMA AwaitsKeptStep ==
  ASSUME QP!RInv, StagesFit, CycleTypes, AwaitsKept, [Next]_vars
  PROVE  AwaitsKept'
  <1>1. /\ \/ UNCHANGED <<awaited, thenDue>>
           \/ awaited' = awaited /\ \E c \in thenDue : thenDue' = thenDue \ {c}
           \/ \E c \in Calls, e \in Entries : JoinsQueue(c) /\ Awaits(e, c)
    <2>1. \A c \in Calls : JoinsQueue(c) => UNCHANGED <<awaited, thenDue>>
                                            \/ \E e \in Entries : JoinsQueue(c) /\ Awaits(e, c)
      BY DEF JoinsQueue, callVars
    <2> QED BY <2>1, Shapes DEF EntersAlone, EntersNested, MovesOn, Finishes, NobodyMoves, callVars
  <1>2. ASSUME NEW d \in Calls, NEW f \in Entries, JoinsQueue(d), Awaits(f, d)
        PROVE  /\ \A c \in awaited'[f] : c \in awaited[f] \/ c = d
               /\ awaited[f] \subseteq awaited'[f] /\ d \in awaited'[f]
               /\ \A e \in Entries : e # f => awaited'[e] = awaited[e]
               /\ thenDue' = thenDue \cup {d} /\ phase'[d] # "new"
               /\ stage' = stage /\ stage[f] = "on_ready"
    BY <1>2, QueueFacts DEF JoinsQueue, Awaits, CycleTypes, Entries
  <1>3. \A c \in thenDue' : \E e \in Entries : c \in awaited'[e]
    BY <1>1, <1>2 DEF AwaitsKept
  <1>4. \A e \in Entries : \A c \in awaited'[e] : phase'[c] # "new"
    BY <1>1, <1>2, OneWay DEF AwaitsKept, CycleTypes
  <1>5. ASSUME NEW e \in Entries, NEW c \in awaited'[e], outcome'[c] = "none"
        PROVE  stage'[e] = "on_ready"
    <2>1. CASE c \notin awaited[e]
      <3>1. PICK d \in Calls, f \in Entries : JoinsQueue(d) /\ Awaits(f, d)
        BY <1>1, <1>5, <2>1
      <3>2. e = f
        BY <1>2, <1>5, <2>1, <3>1
      <3> QED BY <1>2, <3>1, <3>2
    <2>2. CASE c \in awaited[e]
      <3>1. c \in Calls /\ outcome[c] = "none"
        BY <1>5, <2>2, OneWay DEF CycleTypes
      <3>2. c \in Unsettled(e) /\ stage[e] = "on_ready"
        BY <2>2, <3>1 DEF Unsettled, AwaitsKept
      <3>3. phase[e] \notin {"new", "pending"}
        BY <3>2 DEF StagesFit
      <3>4. ASSUME NEW f \in Entries, EntersAlone(f) \/ \E d \in Calls : EntersNested(f, d)
            PROVE  stage'[e] = stage[e]
        <4>1. phase[f] \in {"new", "pending"}
          BY <3>4 DEF EntersAlone, EntersNested, Promotable
        <4> QED BY <3>3, <3>4, <4>1 DEF EntersAlone, EntersNested, StartsOff, CycleTypes
      <3>5. ASSUME NEW f \in Entries, MovesOn(f) \/ Finishes(f)
            PROVE  stage'[e] = stage[e]
        BY <3>2, <3>5 DEF MovesOn, Finishes, CycleTypes
      <3> QED BY <3>2, <3>4, <3>5, Shapes DEF JoinsQueue, NobodyMoves
    <2> QED BY <2>1, <2>2
  <1>6. \A e \in Entries : Unsettled(e)' # {} => stage'[e] = "on_ready"
    BY <1>5 DEF Unsettled
  <1> QED BY <1>3, <1>4, <1>6 DEF AwaitsKept

(* What runs for an on_ready() keeps running for it until it ends.         *)
LEMMA HostsKept ==
  ASSUME QP!RInv, StagesFit, CycleTypes, AwaitsKept, [Next]_vars,
         NEW e \in Entries, NEW f \in Entries, Hosts(e, f), f \in Executing \/ phase[f] = "pending",
         f \in Executing' \/ phase'[f] = "pending"
  PROVE  Hosts(e, f)' /\ e \in Executing'
  <1>1. PICK c \in Unsettled(e) : entryOf[c] = f
    BY DEF Hosts
  <1>2. stage[e] = "on_ready" /\ c \in Calls /\ c \in awaited[e] /\ outcome[c] = "none"
        /\ phase[c] # "new"
    BY <1>1 DEF Hosts, Unsettled, CycleTypes, AwaitsKept
  <1>3. entryOf'[c] = f /\ phase'[c] # "new"
    BY <1>1, <1>2, OneWay
  <1>4. c \in awaited'[e]
    <2>1. awaited' = awaited \/ \E d \in Calls, g \in Entries : Awaits(g, d)
      BY Shapes DEF EntersAlone, EntersNested, JoinsQueue, MovesOn, Finishes, NobodyMoves, callVars
    <2> QED BY <1>2, <2>1 DEF Awaits, CycleTypes
  <1>5. outcome'[c] = "none"
    <2>1. ASSUME NEW g \in Entries, Finishes(g)
          PROVE  entryOf[c] # g
      BY <1>1, <2>1, QueueFacts DEF Finishes, Executing
    <2> QED BY <1>2, <2>1, Shapes DEF EntersAlone, EntersNested, JoinsQueue, MovesOn, Finishes,
                                     NobodyMoves, queueVars
  <1>6. c \in Unsettled(e)'
    BY <1>4, <1>5 DEF Unsettled
  <1>7. AwaitsKept' /\ StagesFit'
    BY AwaitsKeptStep, StagesFitStep
  <1>8. stage'[e] = "on_ready"
    BY <1>6, <1>7 DEF AwaitsKept
  <1>9. e \in Executing'
    BY <1>7, <1>8 DEF StagesFit, Executing, Working, Stages, Hooks
  <1> QED BY <1>3, <1>6, <1>8, <1>9 DEF Hosts

LEMMA HostedStep ==
  ASSUME QP!RInv, StagesFit, CycleTypes, AwaitsKept, NestedAreHosted, [Next]_vars
  PROVE  NestedAreHosted'
  <1>1. ASSUME NEW S \in SUBSET Nested, S # {}, S \subseteq Nested'
        PROVE  \E f \in S, e \in Executing' \ S : Hosts(e, f)'
    <2>1. PICK f \in S, e \in Executing \ S : Hosts(e, f)
      BY <1>1 DEF NestedAreHosted
    <2>2. e \in Entries /\ f \in Entries /\ f \in Executing /\ f \in Executing'
      BY <1>1, <2>1 DEF Nested, Executing
    <2>3. Hosts(e, f)' /\ e \in Executing'
      BY <2>1, <2>2, HostsKept
    <2> QED BY <2>1, <2>3
  <1>2. ASSUME NEW g \in Entries, NEW c \in Calls, EntersNested(g, c)
        PROVE  NestedAreHosted'
    <2>1. /\ phase[g] = "pending" /\ g \notin Executing /\ entryOf[c] = g /\ c \in thenDue
          /\ phase' = [phase EXCEPT ![g] = "nested"]
          /\ Nested' = Nested \cup {g} /\ g \in Executing' /\ g \notin Nested
      BY <1>2, QueueFacts DEF EntersNested, Promotable, Nested, Executing
    <2>2. PICK e \in Entries : c \in awaited[e]
      BY <2>1 DEF AwaitsKept
    <2>3. Hosts(e, g)
      <3>1. phase[c] # "new" /\ outcome[c] = "none"
        BY <2>1, <2>2, QueueFacts DEF AwaitsKept
      <3>2. c \in Unsettled(e)
        BY <2>2, <3>1 DEF Unsettled
      <3> QED BY <2>1, <3>2 DEF Hosts, AwaitsKept
    <2>4. Hosts(e, g)' /\ e \in Executing' /\ e # g /\ (e \in Nested' => e \in Nested)
      <3>1. Hosts(e, g)' /\ e \in Executing'
        BY <2>1, <2>3, HostsKept
      <3>2. e # g
        BY <2>1, <2>3 DEF Hosts, StagesFit
      <3> QED BY <2>1, <3>1, <3>2
    <2>5. ASSUME NEW S \in SUBSET Nested', S # {}
          PROVE  \E f \in S, h \in Executing' \ S : Hosts(h, f)'
      <3>1. CASE g \in S /\ e \notin S
        BY <2>4, <3>1
      <3>2. CASE g \notin S
        BY <1>1, <2>1, <2>5, <3>2
      <3>3. CASE g \in S /\ e \in S
        <4> DEFINE T == S \ {g}
        <4>1. T \in SUBSET Nested /\ T # {} /\ T \subseteq Nested'
          BY <2>1, <2>4, <2>5, <3>3
        <4>2. PICK f \in T, h \in Executing \ T : Hosts(h, f)
          BY <4>1 DEF NestedAreHosted
        <4>3. h # g /\ h \in Entries /\ f \in Entries /\ f \in Executing /\ f \in Executing'
          BY <2>1, <4>1, <4>2 DEF Executing, Nested
        <4>4. Hosts(h, f)' /\ h \in Executing'
          BY <4>2, <4>3, HostsKept
        <4> QED BY <4>2, <4>3, <4>4
      <3> QED BY <3>1, <3>2, <3>3
    <2> QED BY <2>5 DEF NestedAreHosted
  <1>3. CASE \A g \in Entries, c \in Calls : ~EntersNested(g, c)
    <2>1. Nested' \subseteq Nested
      <3>1. ASSUME NEW e \in Entries, EntersAlone(e)
            PROVE  Nested' \subseteq Nested
        BY <3>1, QueueFacts DEF EntersAlone, Nested
      <3>2. ASSUME NEW d \in Calls, JoinsQueue(d)
            PROVE  Nested' \subseteq Nested
        BY <3>2, QueueFacts DEF JoinsQueue, Nested, Entries
      <3>3. ASSUME NEW e \in Entries, MovesOn(e) \/ Finishes(e)
            PROVE  Nested' \subseteq Nested
        BY <3>3, QueueFacts DEF MovesOn, Finishes, Nested, queueVars
      <3>4. CASE NobodyMoves
        BY <3>4, QueueFacts DEF NobodyMoves, Nested
      <3> QED BY <1>3, <3>1, <3>2, <3>3, <3>4, Shapes
    <2> QED BY <1>1, <2>1 DEF NestedAreHosted
  <1> QED BY <1>2, <1>3

(* Nothing runs beside the holder of the lock unless it is in on_ready().  *)
LEMMA HolderAlone ==
  ASSUME QP!RInv, NestedAreHosted, NEW e \in Entries, phase[e] = "holding", stage[e] # "on_ready"
  PROVE  Executing = {e}
  <1>1. Nested = {}
    <2>1. SUFFICES ASSUME Nested # {}
                   PROVE  FALSE
      OBVIOUS
    <2>2. PICK f \in Nested, g \in Executing \ Nested : Hosts(g, f)
      BY <2>1 DEF NestedAreHosted
    <2>3. g = e
      BY LockFacts DEF Executing, Nested
    <2> QED BY <2>2, <2>3 DEF Hosts
  <1> QED BY <1>1, LockFacts DEF Executing, Nested

LEMMA RunsAlone ==
  ASSUME QP!RInv, NEW e \in Entries, e \in Executing, promotedRunning = 0
  PROVE  Executing = {e}
  BY LockFacts DEF Executing, Nested

-----------------------------------------------------------------------------
(* The on_ready() run a call is made from.                                 *)
Walks(w) ==
  w = [n \in Nat |->
         [r \in Runs \cup {NoRun} |->
            IF r = NoRun \/ n = 0 THEN NoRun
            ELSE IF r[2] = "on_ready" /\ ~Settled(r) THEN r
            ELSE w[n - 1][previous[r]]]]

LEMMA WalkExists ==
  ASSUME CycleTypes
  PROVE  \E w : Walks(w)
  <1> DEFINE D == Runs \cup {NoRun}
             H == [D -> D]
             h0 == [r \in D |-> NoRun]
             F == [g \in H |-> [r \in D |-> IF r = NoRun THEN NoRun
                                            ELSE IF r[2] = "on_ready" /\ ~Settled(r) THEN r
                                            ELSE g[previous[r]]]]
  <1>1. h0 \in H
    OBVIOUS
  <1>2. F \in [H -> H]
    <2>1. ASSUME NEW g \in H
          PROVE  F[g] \in H
      BY DEF CycleTypes
    <2> QED BY <2>1
  <1>3. PICK h \in [Nat -> H] : h[0] = h0 /\ \A n \in Nat : h[n + 1] = F[h[n]]
    <2> HIDE DEF H, F, h0
    <2> QED BY <1>1, <1>2, RecursionOnNat
  <1> DEFINE G(n) == [r \in D |-> IF r = NoRun \/ n = 0 THEN NoRun
                                  ELSE IF r[2] = "on_ready" /\ ~Settled(r) THEN r
                                  ELSE h[n - 1][previous[r]]]
  <1>4. ASSUME NEW n \in Nat
        PROVE  h[n] = G(n)
    <2>1. CASE n = 0
      BY <1>3, <2>1
    <2>2. CASE n # 0
      <3>1. n - 1 \in Nat /\ (n - 1) + 1 = n
        BY <2>2
      <3>2. h[n] = F[h[n - 1]] /\ h[n - 1] \in H
        BY <1>3, <3>1
      <3> QED BY <2>2, <3>2
    <2> QED BY <2>1, <2>2
  <1>5. h = [n \in Nat |-> G(n)]
    <2> HIDE DEF G, H
    <2> QED BY <1>4
  <1>6. Walks(h)
    BY <1>5 DEF Walks
  <1> QED BY <1>6

(* _queue_call() finds no run, or an on_ready() that is not settled; and   *)
(* the innermost hook itself when it is one.                               *)
LEMMA ReadyRunFound ==
  ASSUME CycleTypes
  PROVE  /\ ReadyRun \in Runs \cup {NoRun}
         /\ ReadyRun # NoRun => ReadyRun[2] = "on_ready" /\ ~Settled(ReadyRun)
         /\ asyncHook # NoRun /\ asyncHook[2] = "on_ready" /\ ~Settled(asyncHook)
              => ReadyRun = asyncHook
  <1> DEFINE w == CHOOSE f : Walks(f)
             D == Runs \cup {NoRun}
  <1>1. ReadyRun = w[Cardinality(Runs)][asyncHook]
    BY Zenon DEF ReadyRun, Walks
  <1>2. Walks(w)
    BY WalkExists
  <1>3. ASSUME NEW n \in Nat, NEW r \in D
        PROVE  w[n][r] = IF r = NoRun \/ n = 0 THEN NoRun
                         ELSE IF r[2] = "on_ready" /\ ~Settled(r) THEN r
                         ELSE w[n - 1][previous[r]]
    <2> HIDE DEF w
    <2>1. w[n] = [x \in D |-> IF x = NoRun \/ n = 0 THEN NoRun
                              ELSE IF x[2] = "on_ready" /\ ~Settled(x) THEN x
                              ELSE w[n - 1][previous[x]]]
      BY <1>2, Zenon DEF Walks
    <2> QED BY <2>1, Zenon
  <1> HIDE DEF w
  <1>4. Cardinality(Runs) \in Nat /\ (Runs # {} => Cardinality(Runs) # 0)
    <2>1. IsFiniteSet(Entries)
      BY EntriesAssumption, FS_AddElement DEF Entries
    <2>2. IsFiniteSet(Hooks)
      <3>1. Hooks = {"on_load"} \cup {"on_loaded"} \cup {"on_ready"}
        BY DEF Hooks
      <3> QED BY <3>1, FS_Singleton, FS_Union
    <2>3. IsFiniteSet(Runs)
      BY <2>1, <2>2, FS_Product DEF Runs
    <2> HIDE DEF Runs
    <2> QED BY <2>3, FS_CardinalityType, FS_EmptySet
  <1> DEFINE Found(r) == r \in D /\ (r # NoRun => r[2] = "on_ready" /\ ~Settled(r))
             S == {n \in Nat : \A r \in D : Found(w[n][r])}
  <1>5. \A n \in Nat : n \in S
    <2>1. 0 \in S
      BY <1>3
    <2>2. ASSUME NEW n \in Nat, n \in S
          PROVE  n + 1 \in S
      <3>1. \A r \in D : r # NoRun => previous[r] \in D
        BY DEF CycleTypes
      <3>2. n + 1 \in Nat /\ n + 1 # 0 /\ (n + 1) - 1 = n
        OBVIOUS
      <3>3. ASSUME NEW r \in D
            PROVE  Found(w[n + 1][r])
        <4>1. w[n + 1][r] = IF r = NoRun THEN NoRun
                            ELSE IF r[2] = "on_ready" /\ ~Settled(r) THEN r
                            ELSE w[n][previous[r]]
          BY <1>3, <3>2
        <4>2. r # NoRun => Found(w[n][previous[r]])
          BY <2>2, <3>1
        <4> QED BY <4>1, <4>2
      <3> QED BY <3>2, <3>3
    <2> HIDE DEF S
    <2> QED BY <2>1, <2>2, NatSetInduction
  <1>6. asyncHook \in D
    BY DEF CycleTypes
  <1>7. Found(w[Cardinality(Runs)][asyncHook])
    BY <1>4, <1>5, <1>6
  <1>8. ASSUME asyncHook # NoRun, asyncHook[2] = "on_ready", ~Settled(asyncHook)
        PROVE  w[Cardinality(Runs)][asyncHook] = asyncHook
    <2>1. Cardinality(Runs) # 0 /\ Cardinality(Runs) \in Nat
      BY <1>4, <1>6, <1>8
    <2> QED BY <1>3, <1>6, <1>8, <2>1
  <1> QED BY <1>1, <1>7, <1>8

-----------------------------------------------------------------------------
(* Types, action by action.                                                *)
LEMMA CycleTypesStep ==
  ASSUME QP!RInv, CycleTypes, [Next]_vars
  PROVE  CycleTypes'
  <1> DEFINE Kept == UNCHANGED <<stage, hookVars, callVars, latestRender, seqVars, wasReady, stopped>>
  <1>0. /\ \A e \in Entries, s \in Stages : Goto(e, s) => stage' \in [Entries -> Stages]
        /\ {"returned", "threw", "children", "on_load", "fetched", "apply", "on_loaded",
            "on_ready", "ended"} \subseteq Stages
        /\ {"on_load", "on_loaded", "on_ready"} \subseteq Hooks
    BY DEF Goto, CycleTypes, Stages, Hooks
  <1>u. UNCHANGED callVars => CallTypes'
    BY DEF callVars, CallTypes, CycleTypes
  <1>1. ASSUME Kept, QueueIdle \/ UNCHANGED readyVars
        PROVE  CycleTypes'
    BY <1>1, ReadyTypes DEF CycleTypes, hookVars, callVars, seqVars
  <1>2. CASE BootStarts
    <2>1. asyncHook' \in Runs \cup {NoRun} /\ previous' \in [Runs -> Runs \cup {NoRun}]
      BY <1>0, <1>2, HookTypes DEF BootStarts, StartOnLoad, Entries
    <2> QED BY <1>0, <1>2, <2>1 DEF BootStarts, StartOnLoad, CycleTypes, callVars, readyVars, Entries
  <1>3. CASE GapOver
    <2>1. CASE pending # <<>>
      <3>1. Head(pending) \in Entries /\ readyMarker \in BOOLEAN
        BY <2>1, <1>3, QueueMoves DEF GapOver, Entries, CycleTypes
      <3> QED BY <1>3, <1>u, <2>1, <3>1, StartTypes DEF GapOver
    <2>2. CASE pending = <<>>
      BY <1>1, <1>3, <2>2 DEF GapOver, loadVars
    <2> QED BY <2>1, <2>2
  <1>4. CASE Stop
    BY <1>4 DEF Stop, CycleTypes, hookVars, callVars, loadVars, seqVars
  <1>5. ASSUME NEW c \in Calls, NEW m \in Keys, Invoke(c, m), CallTypes'
        PROVE  CycleTypes'
    <2>1. (readyMarker /\ m # "render") \in BOOLEAN /\ c \in Entries
      BY DEF Entries
    <2>2. CASE Q!EnqueueIdle(c, m)
      <3>1. Start(c, m, readyMarker /\ m # "render")
        BY <1>5, <2>2 DEF Invoke, Q!EnqueueIdle, Q!EnqueueMerge, Q!EnqueueWait
      <3> QED BY <1>5, <2>1, <3>1, StartTypes
    <2>3. CASE Q!EnqueueMerge(c, m) \/ Q!EnqueueWait(c, m)
      <3>1. /\ readyMarker' = (readyMarker /\ m # "render")
            /\ UNCHANGED <<stage, hookVars, latestRender, loadVars, isReady, readyOwed, wasReady,
                           stopped>>
        BY <1>5, <2>3 DEF Invoke, Q!EnqueueIdle, Q!EnqueueMerge, Q!EnqueueWait
      <3>2. readyMarker' \in BOOLEAN
        BY <2>1, <3>1, Zenon
      <3> QED BY <1>5, <3>1, <3>2 DEF CycleTypes, CallTypes, hookVars, loadVars, seqVars
    <2> QED BY <1>5, <2>2, <2>3 DEF Invoke
  <1>6. ASSUME NEW c \in Calls, NEW m \in Keys, Call(c, m)
        PROVE  CycleTypes'
    BY <1>5, <1>6, <1>u DEF Call
  <1>7. ASSUME NEW c \in Calls, NEW e \in Entries, NEW m \in Keys, AwaitedCall(e, c, m)
        PROVE  CycleTypes'
    <2>1. ReadyRun \in Runs \cup {NoRun}
      BY ReadyRunFound
    <2>2. CallTypes'
      BY <1>7, <2>1 DEF AwaitedCall, CallTypes, CycleTypes
    <2> QED BY <1>5, <1>7, <2>2 DEF AwaitedCall
  <1>8. ASSUME NEW c \in Calls, ThenRuns(c)
        PROVE  CycleTypes'
    <2>1. CallTypes'
      BY <1>8 DEF ThenRuns, CallTypes, CycleTypes
    <2>2. CASE Promotable(c)
      <3>1. PICK i \in DOMAIN pending : Start(pending[i], key[pending[i]], readyMarker)
        BY <1>8, <2>2 DEF ThenRuns
      <3>2. pending[i] \in Entries /\ readyMarker \in BOOLEAN
        BY QueueFacts DEF Entries, CycleTypes
      <3> QED BY <2>1, <3>1, <3>2, StartTypes
    <2>3. CASE ~Promotable(c)
      BY <1>8, <2>1, <2>3
      DEF ThenRuns, CycleTypes, CallTypes, hookVars, loadVars, seqVars, readyVars
    <2> QED BY <2>2, <2>3
  <1>9. ASSUME NEW e \in Entries, HookSettles(e)
        PROVE  CycleTypes'
    <2>1. EndHook(e, "on_load") \/ EndHook(e, "on_loaded") \/ EndHook(e, "on_ready")
      BY <1>9 DEF HookSettles, LoadSettles, LoadedSettles, ReadySettles
    <2>2. asyncHook' \in Runs \cup {NoRun} /\ previous' \in [Runs -> Runs \cup {NoRun}]
      BY <1>0, <2>1, HookTypes
    <2>3. \E s \in {"fetched", "threw", "returned", "children"} : Goto(e, s)
      BY <1>9 DEF HookSettles, LoadSettles, LoadedSettles, ReadySettles
    <2>4. stage' \in [Entries -> Stages]
      BY <1>0, <2>3
    <2>5. CASE LoadSettles(e)
      BY <2>2, <2>4, <2>5
      DEF LoadSettles, CycleTypes, callVars, loadVars, seqVars, readyVars
    <2>6. CASE LoadedSettles(e)
      BY <2>2, <2>4, <2>6 DEF LoadedSettles, CycleTypes, callVars, seqVars
    <2>7. CASE ReadySettles(e)
      <3>1. isReady' \in BOOLEAN /\ readyMarker' \in BOOLEAN /\ readyOwed' \in BOOLEAN
        BY <2>7, ReadyTypes DEF ReadySettles
      <3> QED BY <2>2, <2>4, <2>7, <3>1 DEF ReadySettles, CycleTypes, callVars, loadVars, seqVars
    <2> QED BY <1>9, <2>5, <2>6, <2>7 DEF HookSettles
  <1>10. ASSUME NEW e \in Entries, Continues(e)
         PROVE  CycleTypes'
    <2>1. UNCHANGED hookVars \/ StartHook(e, "on_loaded") \/ StartHook(e, "on_ready")
      BY <1>10 DEF Continues, ResultArrives, Apply, ChildrenReady
    <2>2. asyncHook' \in Runs \cup {NoRun} /\ previous' \in [Runs -> Runs \cup {NoRun}]
      BY <1>0, <2>1, HookTypes DEF hookVars, CycleTypes
    <2>3. \E s \in {"returned", "on_loaded", "apply", "on_ready"} : Goto(e, s)
      BY <1>10 DEF Continues, ResultArrives, Apply, ChildrenReady
    <2>4. stage' \in [Entries -> Stages]
      BY <1>0, <2>3
    <2> QED BY <1>10, <2>2, <2>4
        DEF Continues, ResultArrives, Apply, ChildrenReady, CycleTypes, callVars, loadVars,
            seqVars, readyVars
  <1>11. CASE BootEnds
    <2>1. isReady' \in BOOLEAN /\ readyMarker' \in BOOLEAN /\ readyOwed' \in BOOLEAN
          /\ stopped' \in BOOLEAN
      BY <1>11, ReadyTypes DEF BootEnds, CycleTypes
    <2> QED BY <1>0, <1>11, <2>1 DEF BootEnds, CycleTypes, hookVars, callVars, loadVars, seqVars,
                                     Entries
  <1>12. ASSUME NEW c \in Calls, CallEnds(c)
         PROVE  CycleTypes'
    <2>1. isReady' \in BOOLEAN /\ readyMarker' \in BOOLEAN
      BY <1>12 DEF CallEnds, CycleTypes
    <2> QED BY <1>0, <1>12, <2>1 DEF CallEnds, CycleTypes, hookVars, callVars, loadVars, seqVars,
                                     Entries
  <1>13. ASSUME NEW c \in Calls, LockReturns(c)
         PROVE  CycleTypes'
    BY <1>1, <1>13 DEF LockReturns, loadVars
  <1>14. CASE UNCHANGED vars
    BY <1>14 DEF vars, cycleVars, CycleTypes, hookVars, callVars, loadVars, seqVars, readyVars
  <1>15. ASSUME NEW e \in Entries, Ends(e)
         PROVE  CycleTypes'
    BY <1>11, <1>12, <1>13, <1>15 DEF Ends, Entries
  <1> QED BY <1>2, <1>3, <1>4, <1>6, <1>7, <1>8, <1>9, <1>10, <1>14, <1>15 DEF Next


(* The loads take their turn: the one that applies its result is the head  *)
(* of the queue, until it has rendered or failed.                          *)
LEMMA LoadsStep ==
  ASSUME QP!RInv, StagesFit, CycleTypes, Queued, LoadsInTurn, [Next]_vars
  PROVE  Queued' /\ LoadsInTurn'
  <1> DEFINE On == {"apply", "on_loaded"}
  <1>0. \A e \in Entries : stage[e] \in On \cup {"fetched"} => Method(e)' = Method(e)
    BY MethodKept DEF StagesFit, Working, Stages, Hooks
  <1>1. ASSUME UNCHANGED loadQueue,
               \A e \in Entries : stage'[e] = stage[e] \/ (stage[e] \notin On /\ stage'[e] \notin On)
        PROVE  Queued' /\ LoadsInTurn'
    <2>1. Applying' = Applying
      BY <1>0, <1>1 DEF Applying
    <2>2. \A e \in Entries : (stage[e] = "on_loaded" /\ Method(e) # "load")'
                             => stage[e] = "on_loaded" /\ Method(e) # "load"
      BY <1>0, <1>1
    <2> QED BY <1>1, <2>1, <2>2, LoadsUntouched
  <1>2. ASSUME NEW e \in Entries, NEW s, Goto(e, s), stage[e] \notin On, s \notin On,
               UNCHANGED loadQueue
        PROVE  Queued' /\ LoadsInTurn'
    BY <1>1, <1>2 DEF Goto, CycleTypes
  <1>3. ASSUME NEW e \in Entries, NEW m, NEW k, Start(e, m, k), phase[e] \in {"new", "pending"}
        PROVE  Queued' /\ LoadsInTurn'
    <2>1. \E s \in {"returned", "threw", "children", "on_load"} : Goto(e, s)
      BY <1>3 DEF Start, StartStopped, StartRender, StartLoad, StartReload, StartOnLoad
    <2>2. stage[e] = "idle"
      BY <1>3 DEF StagesFit
    <2> QED BY <1>2, <1>3, <2>1, <2>2 DEF Start
  <1>4. ASSUME UNCHANGED <<stage, loadQueue>>
        PROVE  Queued' /\ LoadsInTurn'
    BY <1>1, <1>4
  <1>5. CASE BootStarts
    <2>1. stage[Boot] = "idle"
      BY <1>5, QueueMoves DEF BootStarts, StagesFit, Entries
    <2> QED BY <1>2, <1>5, <2>1 DEF BootStarts, StartOnLoad, Entries
  <1>6. CASE GapOver
    <2>1. CASE pending # <<>>
      <3>1. Head(pending) \in Entries /\ phase[Head(pending)] = "pending"
        BY <1>6, <2>1, QueueMoves DEF GapOver, Entries
      <3> QED BY <1>3, <1>6, <2>1, <3>1 DEF GapOver
    <2>2. CASE pending = <<>>
      BY <1>4, <1>6, <2>2 DEF GapOver, loadVars
    <2> QED BY <2>1, <2>2
  <1>7. ASSUME NEW c \in Calls, NEW m \in Keys, Invoke(c, m)
        PROVE  Queued' /\ LoadsInTurn'
    <2>1. CASE Q!EnqueueIdle(c, m)
      <3>1. Start(c, m, readyMarker /\ m # "render")
        BY <1>7, <2>1 DEF Invoke, Q!EnqueueIdle, Q!EnqueueMerge, Q!EnqueueWait
      <3> QED BY <1>3, <2>1, <3>1, QueueMoves DEF Entries
    <2>2. CASE Q!EnqueueMerge(c, m) \/ Q!EnqueueWait(c, m)
      <3>1. UNCHANGED <<stage, loadQueue>>
        BY <1>7, <2>2 DEF Invoke, Q!EnqueueIdle, Q!EnqueueMerge, Q!EnqueueWait, loadVars
      <3> QED BY <1>4, <3>1
    <2> QED BY <1>7, <2>1, <2>2 DEF Invoke
  <1>8. ASSUME NEW c \in Calls, ThenRuns(c)
        PROVE  Queued' /\ LoadsInTurn'
    <2>1. CASE Promotable(c)
      <3>1. PICK i \in DOMAIN pending : Start(pending[i], key[pending[i]], readyMarker)
        BY <1>8, <2>1 DEF ThenRuns
      <3>2. pending[i] \in Entries /\ phase[pending[i]] = "pending"
        BY QueueFacts DEF Entries
      <3> QED BY <1>3, <3>1, <3>2
    <2>2. CASE ~Promotable(c)
      BY <1>4, <1>8, <2>2 DEF ThenRuns, loadVars
    <2> QED BY <2>1, <2>2
  <1>9. ASSUME NEW e \in Entries, LoadSettles(e) \/ ReadySettles(e) \/ ChildrenReady(e)
        PROVE  Queued' /\ LoadsInTurn'
    <2>1. /\ \E s \in {"fetched", "threw", "returned", "on_ready"} : Goto(e, s)
          /\ stage[e] \in {"on_load", "on_ready", "children"} /\ UNCHANGED loadQueue
      BY <1>9 DEF LoadSettles, ReadySettles, ChildrenReady, loadVars
    <2> QED BY <1>2, <2>1
  <1>10. ASSUME NEW e \in Entries, ResultArrives(e)
         PROVE  Queued' /\ LoadsInTurn'
    <2>1. CASE Goto(e, "returned") /\ UNCHANGED loadQueue
      BY <1>2, <1>10, <2>1 DEF ResultArrives
    <2>2. CASE Goto(e, "on_loaded") /\ Method(e) = "load" /\ UNCHANGED loadQueue
      <3>1. \A f \in Entries : f # e => stage'[f] = stage[f]
        BY <2>2 DEF Goto, CycleTypes
      <3>2. stage'[e] = "on_loaded" /\ stage[e] = "fetched" /\ Method(e)' = "load"
        BY <1>0, <1>10, <2>2 DEF Goto, CycleTypes, ResultArrives
      <3>3. Applying' = Applying
        BY <1>0, <3>1, <3>2 DEF Applying
      <3>4. \A f \in Entries : (stage[f] = "on_loaded" /\ Method(f) # "load")'
                               => stage[f] = "on_loaded" /\ Method(f) # "load"
        BY <1>0, <3>1, <3>2
      <3> QED BY <2>2, <3>3, <3>4, LoadsUntouched
    <2>3. CASE Goto(e, "apply") /\ Method(e) # "load" /\ loadQueue' = Append(loadQueue, e)
      <3>1. \A f \in Entries : f # e => stage'[f] = stage[f]
        BY <2>3 DEF Goto, CycleTypes
      <3>2. stage'[e] = "apply" /\ stage[e] = "fetched" /\ Method(e)' # "load"
        BY <1>0, <1>10, <2>3 DEF Goto, CycleTypes, ResultArrives
      <3>3. Applying' = Applying \cup {e} /\ e \notin Applying
        BY <1>0, <3>1, <3>2 DEF Applying
      <3>4. /\ loadQueue' \in Seq(Entries) /\ loadQueue' # <<>>
            /\ ToSet(loadQueue') = ToSet(loadQueue) \cup {e}
            /\ NoRepeats(loadQueue')
        BY <2>3, <3>3, AppendElements DEF Queued, LoadsInTurn
      <3>5. loadQueue # <<>> => Head(loadQueue') = Head(loadQueue)
        BY <2>3 DEF Queued
      <3>6. \A f \in Entries : (stage[f] = "on_loaded" /\ Method(f) # "load")'
                               => stage[f] = "on_loaded" /\ Method(f) # "load"
        BY <1>0, <3>1, <3>2
      <3>7. \A f \in Entries : (stage[f] = "on_loaded" /\ Method(f) # "load")'
                               => loadQueue' # <<>> /\ Head(loadQueue') = f
        BY <3>4, <3>5, <3>6 DEF LoadsInTurn
      <3> QED BY <3>3, <3>4, <3>7 DEF Queued, LoadsInTurn
    <2> QED BY <1>10, <2>1, <2>2, <2>3 DEF ResultArrives
  <1>11. ASSUME NEW e \in Entries, Apply(e)
         PROVE  Queued' /\ LoadsInTurn'
    <2>1. \A f \in Entries : f # e => stage'[f] = stage[f]
      BY <1>11 DEF Apply, Goto, CycleTypes
    <2>2. stage'[e] = "on_loaded" /\ stage[e] = "apply" /\ loadQueue' = loadQueue
          /\ Head(loadQueue) = e
      BY <1>11 DEF Apply, Goto, CycleTypes
    <2>3. Applying' = Applying
      BY <1>0, <2>1, <2>2 DEF Applying
    <2>4. ASSUME NEW f \in Entries, (stage[f] = "on_loaded" /\ Method(f) # "load")'
          PROVE  loadQueue' # <<>> /\ Head(loadQueue') = f
      <3>1. CASE f = e
        <4>1. e \in ToSet(loadQueue)
          BY <1>0, <2>2, <2>4, <3>1 DEF LoadsInTurn, Applying
        <4> QED BY <2>2, <3>1, <4>1 DEF ToSet
      <3>2. CASE f # e
        BY <1>0, <2>1, <2>2, <2>4, <3>2 DEF LoadsInTurn
      <3> QED BY <3>1, <3>2
    <2> QED BY <2>2, <2>3, <2>4 DEF Queued, LoadsInTurn, NoRepeats
  <1>12. ASSUME NEW e \in Entries, LoadedSettles(e)
         PROVE  Queued' /\ LoadsInTurn'
    <2>1. \A f \in Entries : f # e => stage'[f] = stage[f]
      BY <1>12 DEF LoadedSettles, Goto, CycleTypes
    <2>2. stage'[e] \notin On /\ stage[e] = "on_loaded"
      BY <1>12 DEF LoadedSettles, Goto, CycleTypes
    <2>3. CASE Method(e) = "load"
      <3>1. loadQueue' = loadQueue
        BY <1>12, <2>3 DEF LoadedSettles
      <3>2. Applying' = Applying
        BY <1>0, <2>1, <2>2, <2>3 DEF Applying
      <3>3. \A f \in Entries : (stage[f] = "on_loaded" /\ Method(f) # "load")'
                               => stage[f] = "on_loaded" /\ Method(f) # "load"
        BY <1>0, <2>1, <2>2
      <3> QED BY <3>1, <3>2, <3>3, LoadsUntouched
    <2>4. CASE Method(e) # "load"
      <3>1. loadQueue # <<>> /\ Head(loadQueue) = e /\ loadQueue' = Tail(loadQueue)
        BY <1>12, <2>2, <2>4 DEF LoadedSettles, LoadsInTurn
      <3>2. /\ loadQueue' \in Seq(Entries) /\ NoRepeats(loadQueue')
            /\ ToSet(loadQueue) = ToSet(loadQueue') \cup {e} /\ e \notin ToSet(loadQueue')
        BY <3>1, TailElements, TailOfDistinct DEF Queued, LoadsInTurn
      <3>3. Applying' = Applying \ {e}
        BY <1>0, <2>1, <2>2 DEF Applying
      <3>4. ASSUME NEW f \in Entries, (stage[f] = "on_loaded" /\ Method(f) # "load")'
            PROVE  FALSE
        <4>1. f # e /\ stage[f] = "on_loaded" /\ Method(f) # "load"
          BY <1>0, <2>1, <2>2, <3>4
        <4> QED BY <3>1, <4>1 DEF LoadsInTurn
      <3> QED BY <3>2, <3>3, <3>4 DEF Queued, LoadsInTurn
    <2> QED BY <2>3, <2>4
  <1>13. ASSUME NEW e \in Entries, Ends(e)
         PROVE  Queued' /\ LoadsInTurn'
    <2>1. CASE e = Boot /\ BootEnds
      BY <1>2, <2>1 DEF BootEnds, loadVars
    <2>2. CASE e \in Calls /\ CallEnds(e)
      BY <1>2, <2>2 DEF CallEnds, loadVars
    <2>3. CASE e \in Calls /\ LockReturns(e)
      BY <1>4, <2>3 DEF LockReturns, loadVars
    <2> QED BY <1>13, <2>1, <2>2, <2>3 DEF Ends, Entries
  <1>14. CASE Stop \/ UNCHANGED vars
    BY <1>4, <1>14 DEF Stop, vars, cycleVars, loadVars
  <1> HIDE DEF On
  <1> QED BY <1>5, <1>6, <1>7, <1>8, <1>9, <1>10, <1>11, <1>12, <1>13, <1>14
      DEF Next, Call, AwaitedCall, HookSettles, Continues

-----------------------------------------------------------------------------
(* Together these hold in every state.                                     *)
CInv ==
  /\ QP!RInv
  /\ CycleTypes /\ Queued /\ LoadsInTurn
  /\ StagesFit /\ AwaitsKept /\ NestedAreHosted

LEMMA CInvInit ==
  ASSUME Init, QP!RInv
  PROVE  CInv
  <1>1. \A e \in Entries : phase[e] = "new" /\ stage[e] = "idle" /\ awaited[e] = {}
    BY DEF Init, Q!Init, Q!Entries, Entries
  <1>2. CycleTypes
    BY EntriesAssumption DEF Init, CycleTypes, Stages, Entries
  <1>3. Queued /\ LoadsInTurn
    <2>1. Applying = {}
      BY <1>1 DEF Applying
    <2>2. loadQueue = <<>>
      BY DEF Init
    <2>3. ToSet(loadQueue) = {} /\ NoRepeats(loadQueue) /\ loadQueue \in Seq(Entries)
      BY <2>2 DEF ToSet, NoRepeats
    <2> QED BY <1>1, <2>1, <2>3 DEF Queued, LoadsInTurn
  <1>4. StagesFit
    BY <1>1 DEF StagesFit, Working
  <1>5. AwaitsKept
    BY <1>1 DEF AwaitsKept, Unsettled, Init
  <1>6. NestedAreHosted
    BY <1>1 DEF NestedAreHosted, Nested
  <1> QED BY <1>2, <1>3, <1>4, <1>5, <1>6 DEF CInv

LEMMA CycleInvariant == Spec => []CInv
  <1>1. Init /\ QP!RInv => CInv
    BY CInvInit
  <1>2. CInv /\ [Next]_vars /\ QP!RInv' => CInv'
    BY CycleTypesStep, LoadsStep, StagesFitStep, AwaitsKeptStep, HostedStep DEF CInv
  <1> QED BY <1>1, <1>2, QueueInvariant, PTL DEF Spec

(* The state of a component is well formed: it is what the declarations of *)
(* Jqhtml_Component and Component_Queue say, the queue of loads included,  *)
(* which Tail() is only applied to when it is not empty.                   *)
(* (component.ts:515-660, 1400-1800)                                       *)
THEOREM TypeCorrect == Spec => []TypeOK
  <1>1. CInv => TypeOK
    BY TypeParts, QueueFacts DEF CInv
  <1> QED BY <1>1, CycleInvariant, PTL

-----------------------------------------------------------------------------
(* What 'ready' relies on.  While a cycle waits for its children or runs   *)
(* on_ready() the component is not ready, and a reload() that was nested   *)
(* in one found it not ready, so its failure gives nothing back.           *)
Finishing == {"children", "on_ready"}

ReadyKnown ==
  ~stopped =>
    /\ \A e \in Entries : stage[e] \in Finishing => ~isReady
    /\ \A e \in Entries : phase[e] \in {"new", "merged", "pending", "nested"} => ~wasReady[e]

NobodyWhenIdle ==
  /\ busy \in BOOLEAN
  /\ busy = FALSE => Executing = {} /\ promotedRunning = 0 /\ Q!PromotedRuns = {}

LEMMA IdleIsQuiet == QP!RInv => NobodyWhenIdle
  BY LockFacts, QueueFacts DEF NobodyWhenIdle, Q!TypeOK

(* The kinds of steps, by what they do to the ready state.                 *)
Quiet == /\ isReady' => isReady
         /\ readyMarker' => readyMarker
         /\ readyOwed => readyOwed'

Stops == stopped' = TRUE /\ UNCHANGED <<readyMarker, readyOwed>>

GoesIdle == busy' = FALSE /\ pending = <<>> /\ Executing \subseteq {Boot}

FiresAtEnd(e) ==
  /\ Executing = {e} /\ promotedRunning = 0 /\ stage'[e] = "returned" /\ phase' = phase
  /\ readyOwed => pending = <<>>

GivesBack(e) ==
  /\ Executing = {e} /\ stage' = [stage EXCEPT ![e] = "ended"] /\ readyOwed' = readyOwed

(* Who waits for its children is not ready; who starts a reload remembers  *)
(* whether it was.                                                         *)
Resets ==
  /\ \A e \in Entries : stage'[e] \in Finishing => stage[e] \in Finishing \/ isReady' = FALSE
  /\ stopped => stopped'

Remembers(e) ==
  /\ ~stopped /\ phase'[e] \in {"holding", "nested"}
  /\ \A f \in Entries : f # e => wasReady'[f] = wasReady[f] /\ stage'[f] = stage[f]
  /\ wasReady'[e] => isReady

LEMMA StartIsQuiet ==
  ASSUME CycleTypes, NEW e \in Entries, NEW m, NEW k \in BOOLEAN, Start(e, m, k),
         k => readyMarker, phase'[e] \in {"holding", "nested"}
  PROVE  Quiet /\ Resets /\ (wasReady' = wasReady \/ Remembers(e))
  <1>1. CASE StartStopped(e, k)
    BY <1>1 DEF Start, StartStopped, Quiet, Resets, Goto, CycleTypes, Finishing
  <1>2. CASE StartRender(e, m, k)
    <2>1. isReady' = FALSE /\ readyMarker' = k /\ wasReady' = wasReady
          /\ UNCHANGED <<readyOwed, stopped>>
      BY <1>2 DEF Start, StartRender
    <2> QED BY <2>1 DEF Quiet, Resets
  <1>3. CASE StartLoad(e, m, k)
    <2>1. stage' = [stage EXCEPT ![e] = "on_load"] /\ readyMarker' = k /\ wasReady' = wasReady
          /\ UNCHANGED <<isReady, readyOwed, stopped>>
      BY <1>3 DEF Start, StartLoad, StartOnLoad, Goto
    <2> QED BY <2>1 DEF Quiet, Resets, Finishing, CycleTypes
  <1>4. CASE StartReload(e, m, k)
    <2>1. stage' = [stage EXCEPT ![e] = "on_load"] /\ readyMarker' = FALSE
          /\ wasReady' = [wasReady EXCEPT ![e] = isReady /\ k]
          /\ UNCHANGED <<isReady, readyOwed, stopped>> /\ ~stopped
      BY <1>4 DEF Start, StartReload, StartOnLoad, Goto
    <2>2. Quiet /\ Resets
      BY <2>1 DEF Quiet, Resets, Finishing, CycleTypes
    <2>3. wasReady'[e] = (isReady /\ k) /\ \A f \in Entries : f # e => wasReady'[f] = wasReady[f]
      BY <2>1 DEF CycleTypes
    <2>4. \A f \in Entries : f # e => stage'[f] = stage[f]
      BY <2>1 DEF CycleTypes
    <2> QED BY <2>1, <2>2, <2>3, <2>4 DEF Remembers
  <1> QED BY <1>1, <1>2, <1>3, <1>4 DEF Start

ReadyMoves ==
  /\ Resets
  /\ wasReady' = wasReady \/ \E e \in Entries : Remembers(e)
  /\ Quiet \/ Stops \/ GoesIdle \/ \E e \in Entries : FiresAtEnd(e) \/ GivesBack(e)

LEMMA IdleMoves ==
  ASSUME CInv, QueueIdle, Executing \subseteq {Boot}, busy' \in BOOLEAN,
         busy' = FALSE => pending = <<>>,
         UNCHANGED <<wasReady, stopped>>,
         \A e \in Entries : stage'[e] \in Finishing => stage[e] \in Finishing
  PROVE  ReadyMoves
  <1>1. Resets
    BY DEF Resets
  <1>2. CASE busy /\ ~busy' /\ readyOwed /\ ~stopped
    <2>1. busy' = FALSE
      BY <1>2
    <2> QED BY <1>1, <2>1 DEF ReadyMoves, GoesIdle
  <1>3. CASE ~(busy /\ ~busy' /\ readyOwed /\ ~stopped)
    <2>1. UNCHANGED readyVars
      BY <1>3, Zenon DEF QueueIdle
    <2>2. Quiet
      BY <2>1 DEF readyVars, Quiet
    <2> QED BY <1>1, <2>2 DEF ReadyMoves
  <1> QED BY <1>2, <1>3

LEMMA ReadyStep ==
  ASSUME CInv, CInv', ReadyKnown, [Next]_vars
  PROVE  ReadyMoves
  <1>0. CycleTypes /\ QP!RInv /\ StagesFit /\ NestedAreHosted
    BY DEF CInv
  <1>q. NobodyWhenIdle /\ NobodyWhenIdle'
    <2>1. (QP!RInv => NobodyWhenIdle)'
      BY IdleIsQuiet, PTL
    <2> QED BY <1>0, <2>1, IdleIsQuiet DEF CInv
  <1>b. busy \in BOOLEAN /\ busy' \in BOOLEAN
    BY <1>q DEF NobodyWhenIdle
  <1>1. ASSUME UNCHANGED <<readyMarker, readyOwed, wasReady, stopped>>, isReady' => isReady,
               \A e \in Entries : stage'[e] \in Finishing => stage[e] \in Finishing \/ isReady' = FALSE
        PROVE  ReadyMoves
    BY <1>1 DEF ReadyMoves, Resets, Quiet
  <1>2. CASE BootStarts
    <2>1. UNCHANGED <<isReady, readyMarker, readyOwed, wasReady, stopped>>
      BY <1>2 DEF BootStarts, readyVars
    <2>2. stage' = [stage EXCEPT ![Boot] = "on_load"]
      BY <1>2 DEF BootStarts, StartOnLoad, Goto
    <2> QED BY <1>0, <1>1, <2>1, <2>2 DEF Finishing, CycleTypes
  <1>3. ASSUME NEW e \in Entries, NEW m, NEW k \in BOOLEAN, Start(e, m, k),
               k => readyMarker, phase'[e] \in {"holding", "nested"}
        PROVE  ReadyMoves
    BY <1>0, <1>3, StartIsQuiet DEF ReadyMoves
  <1>4. CASE GapOver
    <2>1. CASE pending # <<>>
      <3>1. /\ Head(pending) \in Entries /\ phase'[Head(pending)] = "holding"
            /\ Start(Head(pending), key[Head(pending)], readyMarker) /\ readyMarker \in BOOLEAN
        BY <1>0, <1>4, <2>1, QueueMoves, QueueFacts DEF GapOver, Entries, CycleTypes
      <3> QED BY <1>3, <3>1
    <2>2. CASE pending = <<>>
      <3>1. Executing = {} /\ QueueIdle /\ UNCHANGED <<stage, wasReady, stopped>>
        BY <1>0, <1>4, <2>2, QueueMoves DEF GapOver
      <3> QED BY <1>b, <2>2, <3>1, IdleMoves
    <2> QED BY <2>1, <2>2
  <1>5. CASE Stop
    <2>1. Stops /\ wasReady' = wasReady /\ stage' = stage
      BY <1>5 DEF Stop, Stops
    <2> QED BY <2>1 DEF ReadyMoves, Resets, Stops
  <1>6. ASSUME NEW c \in Calls, NEW m \in Keys, Invoke(c, m)
        PROVE  ReadyMoves
    <2> DEFINE marker == readyMarker /\ m # "render"
    <2>0. marker \in BOOLEAN /\ (marker => readyMarker) /\ c \in Entries
      BY DEF Entries
    <2>1. CASE Q!EnqueueIdle(c, m)
      <3>1. Start(c, m, marker)
        BY <1>6, <2>1 DEF Invoke, Q!EnqueueIdle, Q!EnqueueMerge, Q!EnqueueWait
      <3>2. phase'[c] = "holding"
        BY <1>0, <2>0, <2>1, QueueMoves, QueueFacts
      <3> QED BY <1>3, <2>0, <3>1, <3>2
    <2>2. CASE Q!EnqueueMerge(c, m) \/ Q!EnqueueWait(c, m)
      <3>1. readyMarker' = marker /\ UNCHANGED <<stage, isReady, readyOwed, wasReady, stopped>>
        BY <1>6, <2>2 DEF Invoke, Q!EnqueueIdle, Q!EnqueueMerge, Q!EnqueueWait
      <3> QED BY <2>0, <3>1 DEF ReadyMoves, Resets, Quiet
    <2> QED BY <1>6, <2>1, <2>2 DEF Invoke
  <1>7. ASSUME NEW c \in Calls, ThenRuns(c)
        PROVE  ReadyMoves
    <2>1. CASE Promotable(c)
      <3>1. PICK i \in DOMAIN pending : Q!Promote(i) /\ Start(pending[i], key[pending[i]], readyMarker)
        BY <1>7, <2>1 DEF ThenRuns
      <3>2. PICK e \in Entries : e = pending[i]
        BY <1>0, QueueFacts DEF Entries
      <3>3. phase'[e] = "nested" /\ readyMarker \in BOOLEAN
        BY <1>0, <3>1, <3>2, QueueMoves, QueueFacts DEF CycleTypes
      <3> QED BY <1>3, <3>1, <3>2, <3>3
    <2>2. CASE ~Promotable(c)
      BY <1>1, <1>7, <2>2 DEF ThenRuns, readyVars
    <2> QED BY <2>1, <2>2
  <1>8. ASSUME NEW e \in Entries, LoadSettles(e) \/ ResultArrives(e) \/ ChildrenReady(e)
        PROVE  ReadyMoves
    <2>1. UNCHANGED <<isReady, readyMarker, readyOwed, wasReady, stopped>>
      BY <1>8 DEF LoadSettles, ResultArrives, ChildrenReady, readyVars
    <2>2. \A f \in Entries : stage'[f] \in Finishing => stage[f] \in Finishing
      BY <1>0, <1>8 DEF LoadSettles, ResultArrives, ChildrenReady, Goto, CycleTypes, Finishing
    <2> QED BY <1>1, <2>1, <2>2
  <1>9. ASSUME NEW e \in Entries, Apply(e) \/ LoadedSettles(e)
        PROVE  ReadyMoves
    <2>1. UNCHANGED <<readyMarker, readyOwed, wasReady, stopped>> /\ (isReady' => isReady)
      BY <1>9 DEF Apply, LoadedSettles
    <2>2. \A f \in Entries : stage'[f] \in Finishing => stage[f] \in Finishing \/ isReady' = FALSE
      BY <1>0, <1>9 DEF Apply, LoadedSettles, Goto, CycleTypes, Finishing
    <2> QED BY <1>1, <2>1, <2>2
  <1>10. ASSUME NEW e \in Entries, ReadySettles(e)
         PROVE  ReadyMoves
    <2>1. /\ stage[e] = "on_ready" /\ UNCHANGED <<wasReady, stopped, phase>>
          /\ \E s \in {"threw", "returned"} : Goto(e, s)
      BY <1>10 DEF ReadySettles, queueVars
    <2>2. Resets
      BY <1>0, <2>1 DEF Resets, Goto, CycleTypes, Finishing
    <2>3. CASE UNCHANGED readyVars
      <3>1. Quiet
        BY <2>3 DEF Quiet, readyVars
      <3> QED BY <2>1, <2>2, <3>1 DEF ReadyMoves
    <2>4. CASE Goto(e, "returned") /\ ReadyPoint(e)
      <3>1. CASE readyOwed' = TRUE /\ UNCHANGED <<isReady, readyMarker>>
        <4>1. Quiet
          BY <3>1 DEF Quiet
        <4> QED BY <2>1, <2>2, <4>1 DEF ReadyMoves
      <3>2. CASE ~(promotedRunning > 0 \/ IF e = Boot THEN pending # <<>> ELSE readyOwed)
        <4>1. promotedRunning = 0 /\ (readyOwed => pending = <<>>)
          BY <1>0, <3>2, QueueFacts
        <4>2. e \in Executing
          BY <1>0, <2>1 DEF StagesFit, Working, Stages, Hooks, Executing
        <4>3. Executing = {e}
          BY <1>0, <4>1, <4>2, RunsAlone
        <4>4. stage'[e] = "returned"
          BY <1>0, <2>4 DEF Goto, CycleTypes
        <4> QED BY <2>1, <2>2, <4>1, <4>3, <4>4 DEF ReadyMoves, FiresAtEnd
      <3> QED BY <2>4, <3>1, <3>2 DEF ReadyPoint
    <2> QED BY <1>10, <2>3, <2>4 DEF ReadySettles
  <1>11. CASE BootEnds
    <2>1. phase[Boot] = "holding" /\ stage[Boot] \in {"returned", "threw"} /\ Boot \in Entries
          /\ wasReady' = wasReady /\ stage' = [stage EXCEPT ![Boot] = "ended"]
      BY <1>0, <1>11, QueueMoves DEF BootEnds, Goto, Entries
    <2>2. Executing = {Boot}
      BY <1>0, <2>1, HolderAlone
    <2>3. \A e \in Entries : stage'[e] \in Finishing => stage[e] \in Finishing
      BY <1>0, <2>1 DEF CycleTypes, Finishing
    <2>4. CASE stage[Boot] = "threw"
      <3>1. Stops
        BY <1>11, <2>4 DEF BootEnds, Stops
      <3> QED BY <2>1, <2>3, <3>1 DEF ReadyMoves, Resets, Stops
    <2>5. CASE stage[Boot] # "threw"
      <3>1. QueueIdle /\ stopped' = stopped
        BY <1>11, <2>5 DEF BootEnds
      <3>2. busy' = FALSE => pending = <<>>
        <4>1. busy = TRUE
          BY <1>b, <1>q, <2>1 DEF NobodyWhenIdle, Executing
        <4> QED BY <1>11, <4>1 DEF BootEnds, Q!EndBoot, Q!Release, Q!HandOver
      <3> QED BY <1>b, <2>1, <2>2, <2>3, <3>1, <3>2, IdleMoves
    <2> QED BY <2>4, <2>5
  <1>12. ASSUME NEW c \in Calls, CallEnds(c)
         PROVE  ReadyMoves
    <2>1. /\ c \in Entries /\ stage' = [stage EXCEPT ![c] = "ended"]
          /\ UNCHANGED <<readyOwed, wasReady, stopped>> /\ phase[c] \in {"holding", "nested"}
      BY <1>12 DEF CallEnds, Goto, Entries, Q!Settle
    <2>2. Resets
      BY <1>0, <2>1 DEF Resets, CycleTypes, Finishing
    <2>3. CASE UNCHANGED <<isReady, readyMarker>>
      <3>1. Quiet
        BY <2>1, <2>3 DEF Quiet
      <3> QED BY <2>1, <2>2, <3>1 DEF ReadyMoves
    <2>4. CASE stage[c] = "threw" /\ wasReady[c] /\ ~stopped
      <3>1. phase[c] = "holding"
        BY <2>1, <2>4 DEF ReadyKnown
      <3>2. Executing = {c}
        BY <1>0, <2>1, <2>4, <3>1, HolderAlone
      <3> QED BY <2>1, <2>2, <3>2 DEF ReadyMoves, GivesBack
    <2> QED BY <1>12, <2>3, <2>4 DEF CallEnds
  <1>13. ASSUME NEW c \in Calls, LockReturns(c)
         PROVE  ReadyMoves
    <2>1. /\ UNCHANGED <<stage, wasReady, stopped>> /\ QueueIdle
          /\ Q!ReleaseAfterRun(c) \/ Q!ReturnFromPromoted(c)
      BY <1>13 DEF LockReturns
    <2>2. Executing' = Executing
      <3>1. phase[c] \in {"releasing", "returning"} /\ phase' = [phase EXCEPT ![c] = "over"]
        BY <1>0, <2>1, QueueMoves
      <3> QED BY <1>0, <3>1, QueueFacts DEF Executing, Entries
    <2>3. CASE busy' = FALSE /\ busy = TRUE
      <3>1. pending = <<>>
        BY <2>1, <2>3 DEF Q!ReleaseAfterRun, Q!ReturnFromPromoted, Q!Release, Q!HandOver
      <3>2. Executing = {}
        BY <1>q, <2>2, <2>3 DEF NobodyWhenIdle
      <3> QED BY <1>b, <2>1, <3>1, <3>2, IdleMoves
    <2>4. CASE busy = FALSE \/ busy' = TRUE
      <3>1. UNCHANGED readyVars
        BY <2>1, <2>4 DEF QueueIdle
      <3> QED BY <1>1, <2>1, <3>1 DEF readyVars
    <2> QED BY <1>b, <2>3, <2>4
  <1>14. CASE UNCHANGED vars
    BY <1>1, <1>14 DEF vars, cycleVars, readyVars
  <1>15. ASSUME NEW e \in Entries, Ends(e)
         PROVE  ReadyMoves
    BY <1>11, <1>12, <1>13, <1>15 DEF Ends, Entries
  <1> QED BY <1>2, <1>4, <1>5, <1>6, <1>7, <1>8, <1>9, <1>10, <1>14, <1>15
      DEF Next, Call, AwaitedCall, HookSettles, Continues

LEMMA ReadyKnownStep ==
  ASSUME CInv, CInv', ReadyKnown, [Next]_vars
  PROVE  ReadyKnown'
  <1>0. CycleTypes /\ QP!RInv /\ StagesFit /\ StagesFit' /\ NestedAreHosted'
    BY DEF CInv
  <1>1. ReadyMoves
    BY ReadyStep
  <1>2. SUFFICES ASSUME ~stopped'
                 PROVE  /\ \A e \in Entries : stage'[e] \in Finishing => ~isReady'
                        /\ \A e \in Entries : phase'[e] \in {"new", "merged", "pending", "nested"}
                                              => ~wasReady'[e]
    BY DEF ReadyKnown
  <1>3. /\ \A e \in Entries : stage[e] \in Finishing => ~isReady
        /\ \A e \in Entries : phase[e] \in {"new", "merged", "pending", "nested"} => ~wasReady[e]
    BY <1>1, <1>2 DEF ReadyMoves, Resets, ReadyKnown
  <1>4. \A e \in Entries : /\ stage[e] \in Finishing => e \in Executing
                           /\ stage'[e] \in Finishing => e \in Executing'
    BY <1>0 DEF StagesFit, Executing, Working, Stages, Hooks, Finishing
  <1>5. ASSUME NEW e \in Entries, stage'[e] \in Finishing
        PROVE  ~isReady'
    <2>1. CASE stage[e] \notin Finishing
      BY <1>1, <1>5, <2>1 DEF ReadyMoves, Resets
    <2>2. CASE Quiet /\ stage[e] \in Finishing
      BY <1>3, <2>2 DEF Quiet
    <2>3. CASE GoesIdle
      <3>1. (QP!RInv => NobodyWhenIdle)'
        BY IdleIsQuiet, PTL
      <3> QED BY <1>4, <1>5, <2>3, <3>1 DEF CInv, NobodyWhenIdle, GoesIdle
    <2>4. ASSUME NEW f \in Entries, FiresAtEnd(f)
          PROVE  FALSE
      <3>1. Executing' = Executing
        BY <2>4 DEF FiresAtEnd, Executing
      <3> QED BY <1>4, <1>5, <2>4, <3>1 DEF FiresAtEnd, Finishing
    <2>5. ASSUME NEW f \in Entries, GivesBack(f), stage[e] \in Finishing
          PROVE  FALSE
      <3>1. e = f
        BY <1>4, <2>5 DEF GivesBack
      <3> QED BY <1>0, <1>5, <2>5, <3>1 DEF GivesBack, Finishing, CycleTypes
    <2> QED BY <1>1, <1>2, <2>1, <2>2, <2>3, <2>4, <2>5 DEF ReadyMoves, Stops
  <1>6. ASSUME NEW e \in Entries, phase'[e] \in {"new", "merged", "pending", "nested"}
        PROVE  ~wasReady'[e]
    <2>1. phase[e] \in {"new", "merged", "pending", "nested"}
      <3>1. phase' = phase
            \/ \E f \in Entries, p \in Q!Phases :
                 /\ phase' = [phase EXCEPT ![f] = p]
                 /\ \/ phase[f] \in {"new", "pending"}
                    \/ p \in {"releasing", "returning", "over"}
        <4>1. Q!Phases = {"new", "merged", "pending", "holding", "releasing", "nested", "returning",
                          "over"}
          BY DEF Q!Phases
        <4>2. ASSUME NEW f \in Entries, EntersAlone(f) \/ Finishes(f)
              PROVE  \E p \in Q!Phases :
                       /\ phase' = [phase EXCEPT ![f] = p]
                       /\ \/ phase[f] \in {"new", "pending"}
                          \/ p \in {"releasing", "returning", "over"}
          BY <4>1, <4>2 DEF EntersAlone, Finishes
        <4>3. ASSUME NEW f \in Entries, NEW c \in Calls, EntersNested(f, c)
              PROVE  phase' = [phase EXCEPT ![f] = "nested"] /\ phase[f] = "pending"
          BY <4>3 DEF EntersNested, Promotable
        <4>4. ASSUME NEW c \in Calls, JoinsQueue(c)
              PROVE  \E p \in Q!Phases :
                       /\ phase' = [phase EXCEPT ![c] = p]
                       /\ \/ phase[c] \in {"new", "pending"}
                          \/ p \in {"releasing", "returning", "over"}
          BY <4>1, <4>4 DEF JoinsQueue
        <4>5. ASSUME NEW f \in Entries, MovesOn(f)
              PROVE  phase' = phase
          BY <4>5 DEF MovesOn, queueVars
        <4>6. CASE NobodyMoves
          BY <4>1, <4>6 DEF NobodyMoves
        <4> QED BY <1>0, Shapes, <4>1, <4>2, <4>3, <4>4, <4>5, <4>6 DEF Entries
      <3> QED BY <1>0, <1>6, <3>1, QueueFacts
    <2>2. CASE wasReady' = wasReady
      BY <1>3, <2>1, <2>2
    <2>3. ASSUME NEW f \in Entries, Remembers(f)
          PROVE  ~wasReady'[e]
      <3>1. CASE e # f
        BY <1>3, <2>1, <2>3, <3>1 DEF Remembers
      <3>2. CASE e = f
        <4>1. e \in Nested'
          BY <1>6, <2>3, <3>2 DEF Remembers, Nested
        <4>2. PICK g \in Executing' \ {e} : Hosts(g, e)'
          <5>1. {e} \in SUBSET Nested' /\ {e} # {}
            BY <4>1
          <5>2. \E k \in {e}, g \in Executing' \ {e} : Hosts(g, k)'
            BY <1>0, <5>1 DEF NestedAreHosted
          <5> QED BY <5>2
        <4>3. g \in Entries /\ g # e /\ stage'[g] = "on_ready"
          BY <4>2 DEF Hosts, Executing
        <4>4. stage[g] = "on_ready"
          BY <2>3, <3>2, <4>3 DEF Remembers
        <4>5. ~isReady
          BY <1>3, <4>3, <4>4 DEF Finishing
        <4> QED BY <2>3, <3>2, <4>5 DEF Remembers
      <3> QED BY <3>1, <3>2
    <2> QED BY <1>1, <2>2, <2>3 DEF ReadyMoves
  <1> QED BY <1>5, <1>6

LEMMA ReadyInvariant == Spec => [](CInv /\ ReadyKnown)
  <1>1. Init => ReadyKnown
    BY DEF Init, ReadyKnown, Finishing, Q!Init, Q!Entries, Entries
  <1>2. CInv /\ CInv' /\ ReadyKnown /\ [Next]_vars => ReadyKnown'
    BY ReadyKnownStep
  <1> QED BY <1>1, <1>2, CycleInvariant, PTL DEF Spec

(* 'ready' fires outside every cycle, or at the end of the only one that   *)
(* runs: whoever is told that the component is ready does not find it in   *)
(* the middle of a cycle.  (_entry_ready_point(), component.ts:1918-1932)  *)
THEOREM ReadyFiresAlone == Spec => ReadyNotMidCycle
  <1>1. ASSUME CInv, CInv', ReadyKnown, [Next]_vars, ~readyMarker, readyMarker'
        PROVE  Cardinality(Q!Executing) <= 1
    <2>1. Q!Executing = Executing
      BY DEF Q!Executing, Q!InPhase, Q!Entries, Executing, Entries
    <2>2. ReadyMoves
      BY <1>1, ReadyStep
    <2>3. \E e \in Entries : Executing \subseteq {e}
      <3>1. ~Quiet /\ ~Stops
        BY <1>1 DEF Quiet, Stops
      <3> QED BY <2>2, <3>1 DEF ReadyMoves, GoesIdle, FiresAtEnd, GivesBack, Entries
    <2>4. PICK e \in Entries : Executing \subseteq {e}
      BY <2>3
    <2>5. Executing = {} \/ Executing = {e}
      BY <2>4
    <2> HIDE DEF Executing
    <2>6. Cardinality(Executing) = 0 \/ Cardinality(Executing) = 1
      BY <2>5, FS_EmptySet, FS_Singleton
    <2> QED BY <2>1, <2>6
  <1>2. CInv /\ CInv' /\ ReadyKnown /\ [Next]_vars
          => [~readyMarker /\ readyMarker' => Cardinality(Q!Executing) <= 1]_vars
    BY <1>1
  <1> QED BY <1>2, ReadyInvariant, PTL DEF Spec, ReadyNotMidCycle

(* A 'ready' that was owed is paid when the queue is empty and nothing     *)
(* promoted runs: no call made before it is left to make the state it      *)
(* announces stale.  (_entry_ready_point(), _on_queue_idle(), _ready():    *)
(* component.ts:1918-1976)                                                 *)
THEOREM OwedReadyPaidLast == Spec => OwedReadyIsFinal
  <1>1. ASSUME CInv, CInv', ReadyKnown, [Next]_vars, readyOwed, ~readyOwed'
        PROVE  pending = <<>> /\ Q!PromotedRuns' = {}
    <2>1. ReadyMoves /\ QP!RInv
      BY <1>1, ReadyStep DEF CInv
    <2>2. CASE GoesIdle
      <3>1. (QP!RInv => NobodyWhenIdle)'
        BY IdleIsQuiet, PTL
      <3> QED BY <1>1, <2>2, <3>1 DEF CInv, NobodyWhenIdle, GoesIdle
    <2>3. ASSUME NEW e \in Entries, FiresAtEnd(e)
          PROVE  pending = <<>> /\ Q!PromotedRuns' = {}
      <3>1. Q!PromotedRuns' = Q!PromotedRuns
        BY <2>3 DEF FiresAtEnd, Q!PromotedRuns, Q!InPhase
      <3> QED BY <1>1, <2>1, <2>3, <3>1, LockFacts DEF FiresAtEnd
    <2> QED BY <1>1, <2>1, <2>2, <2>3 DEF ReadyMoves, Quiet, Stops, GivesBack
  <1>2. CInv /\ CInv' /\ ReadyKnown /\ [Next]_vars
          => [readyOwed /\ ~readyOwed' => pending = <<>> /\ Q!PromotedRuns' = {}]_vars
    BY <1>1
  <1> QED BY <1>2, ReadyInvariant, PTL DEF Spec, OwedReadyIsFinal

-----------------------------------------------------------------------------
(* Awaited calls.  While each on_ready() awaits one call at a time, what   *)
(* runs is a chain: each entry runs for the on_ready() of the one before,  *)
(* only the last one moves, and the hooks of the chain are linked in its   *)
(* order by `previous`, from `asyncHook` back.                             *)
Over(e, f) == f \in Executing /\ Hosts(e, f)

Innermost(e) == e \in Executing /\ \A f \in Entries : ~Over(e, f)

Under(e, r) ==
  \/ r = NoRun /\ \A g \in Entries : ~Over(g, e)
  \/ \E g \in Entries : Over(g, e) /\ r = <<g, "on_ready">>

AwaitsOne == \A e \in Entries : \A c, d \in Unsettled(e) : c = d

IsChain ==
  /\ \A e, f \in Entries : Innermost(e) /\ Innermost(f) => e = f
  /\ \A e, f, g \in Entries : Over(e, g) /\ Over(f, g) => e = f

HooksLinked ==
  /\ \A e \in Entries : Innermost(e) =>
       IF stage[e] \in Hooks THEN asyncHook = <<e, stage[e]>> ELSE Under(e, asyncHook)
  /\ \A e \in Entries : stage[e] \in Hooks => Under(e, previous[<<e, stage[e]>>])
  /\ Executing = {} => asyncHook = NoRun

(* Each call awaited is watched by the on_ready() that awaits it, and its  *)
(* .then() is due while its entry waits.                                   *)
Watched ==
  \A e \in Entries : \A c \in Unsettled(e) :
    /\ owner[c] = <<e, "on_ready">>
    /\ phase[entryOf[c]] = "pending" => c \in thenDue

Chained == AwaitsOne /\ IsChain /\ HooksLinked /\ Watched

LEMMA UnsettledMoves ==
  ASSUME CInv, [Next]_vars
  PROVE  /\ \A c \in Calls, e \in Entries : JoinsQueue(c) /\ Awaits(e, c) =>
              /\ Unsettled(e)' = Unsettled(e) \cup {c}
              /\ \A f \in Entries : f # e => Unsettled(f)' = Unsettled(f)
         /\ \A e \in Entries : Finishes(e) =>
              \A f \in Entries : Unsettled(f)' = {c \in Unsettled(f) : entryOf[c] # e}
         /\ (\A c \in Calls, e \in Entries : ~(JoinsQueue(c) /\ Awaits(e, c)))
            /\ (\A e \in Entries : ~Finishes(e))
              => \A f \in Entries : Unsettled(f)' = Unsettled(f)
  <1>0. QP!RInv /\ CycleTypes /\ StagesFit /\ AwaitsKept
    BY DEF CInv
  <1>1. ASSUME NEW c \in Calls, NEW e \in Entries, JoinsQueue(c), Awaits(e, c)
        PROVE  /\ Unsettled(e)' = Unsettled(e) \cup {c}
               /\ \A f \in Entries : f # e => Unsettled(f)' = Unsettled(f)
    <2>1. awaited' = [awaited EXCEPT ![e] = @ \cup {c}] /\ outcome' = outcome /\ outcome[c] = "none"
      BY <1>0, <1>1, QueueFacts DEF JoinsQueue, Awaits
    <2> QED BY <1>0, <2>1 DEF Unsettled, CycleTypes
  <1>2. ASSUME NEW e \in Entries, Finishes(e)
        PROVE  \A f \in Entries : Unsettled(f)' = {c \in Unsettled(f) : entryOf[c] # e}
    <2>1. awaited' = awaited
          /\ \A c \in Calls : outcome'[c] = "none" <=> outcome[c] = "none" /\ entryOf[c] # e
      BY <1>2 DEF Finishes, callVars
    <2> QED BY <1>0, <2>1 DEF Unsettled, CycleTypes
  <1>3. ASSUME \A c \in Calls, e \in Entries : ~(JoinsQueue(c) /\ Awaits(e, c)),
               \A e \in Entries : ~Finishes(e)
        PROVE  \A f \in Entries : Unsettled(f)' = Unsettled(f)
    <2>1. awaited' = awaited /\ outcome' = outcome
      BY <1>0, <1>3, Shapes
      DEF EntersAlone, EntersNested, JoinsQueue, MovesOn, NobodyMoves, callVars, queueVars
    <2> QED BY <2>1 DEF Unsettled
  <1> QED BY <1>1, <1>2, <1>3

(* How a step changes who runs for whom.                                   *)
LEMMA OverMoves ==
  ASSUME CInv, CInv', [Next]_vars
  PROVE  /\ \A e \in Entries : EntersAlone(e) =>
              Executing' = {e} /\ \A x, y \in Entries : ~Over(x, y)'
         /\ \A e \in Entries, c \in Calls : EntersNested(e, c) =>
              /\ Executing' = Executing \cup {e} /\ e \notin Executing
              /\ \A x, y \in Entries : Over(x, y)' <=> Over(x, y) \/ (y = e /\ Hosts(x, e))
         /\ \A e \in Entries : Finishes(e) =>
              /\ Executing' = Executing \ {e} /\ e \in Executing
              /\ \A x, y \in Entries : Over(x, y)' <=> Over(x, y) /\ y # e
         /\ (NobodyMoves \/ (\E c \in Calls : JoinsQueue(c)) \/ \E e \in Entries : MovesOn(e)) =>
              /\ Executing' = Executing
              /\ \A x, y \in Entries : Over(x, y)' <=> Over(x, y)
  <1>0. /\ QP!RInv /\ CycleTypes /\ StagesFit /\ AwaitsKept
        /\ AwaitsKept' /\ CycleTypes'
    BY DEF CInv
  <1>1. \A x, y \in Entries : Hosts(x, y) <=> \E c \in Unsettled(x) : entryOf[c] = y
    BY <1>0 DEF Hosts, AwaitsKept
  <1>2. \A x, y \in Entries : Hosts(x, y)' <=> \E c \in Unsettled(x)' : entryOf'[c] = y
    BY <1>0 DEF Hosts, AwaitsKept
  <1>3. \A x \in Entries : \A c \in Unsettled(x) : c \in Calls /\ phase[c] # "new"
                                                   /\ entryOf'[c] = entryOf[c]
    BY <1>0, OneWay DEF Unsettled, AwaitsKept, CycleTypes
  <1>s. ASSUME \A f \in Entries : Unsettled(f)' = Unsettled(f)
        PROVE  \A x, y \in Entries : Hosts(x, y)' <=> Hosts(x, y)
    BY <1>1, <1>2, <1>3, <1>s
  <1>4. ASSUME NEW e \in Entries, EntersAlone(e)
        PROVE  Executing' = {e} /\ \A x, y \in Entries : ~Over(x, y)'
    <2>1. Executing' = {e}
      BY <1>0, <1>4, QueueFacts DEF EntersAlone, Executing
    <2>2. stage[e] = "idle" /\ stage'[e] # "on_ready" /\ \A x \in Entries : stage[x] # "on_ready"
      BY <1>0, <1>4
      DEF EntersAlone, StartsOff, FirstStages, StagesFit, Executing, Working, Stages, Hooks,
          CycleTypes
    <2>3. \A x \in Entries : stage'[x] # "on_ready"
      BY <1>0, <1>4, <2>2 DEF EntersAlone, StartsOff, CycleTypes
    <2> QED BY <2>1, <2>3 DEF Over, Hosts
  <1>5. ASSUME NEW e \in Entries, NEW c \in Calls, EntersNested(e, c)
        PROVE  /\ Executing' = Executing \cup {e} /\ e \notin Executing
               /\ \A x, y \in Entries : Over(x, y)' <=> Over(x, y) \/ (y = e /\ Hosts(x, e))
    <2>1. Executing' = Executing \cup {e} /\ e \notin Executing
      BY <1>0, <1>5, QueueFacts DEF EntersNested, Promotable, Executing
    <2>2. \A f \in Entries : Unsettled(f)' = Unsettled(f)
      BY <1>5 DEF EntersNested, Unsettled
    <2> QED BY <1>s, <2>1, <2>2 DEF Over
  <1>6. ASSUME NEW e \in Entries, Finishes(e)
        PROVE  /\ Executing' = Executing \ {e} /\ e \in Executing
               /\ \A x, y \in Entries : Over(x, y)' <=> Over(x, y) /\ y # e
    <2>1. Executing' = Executing \ {e} /\ e \in Executing
      BY <1>0, <1>6, QueueFacts DEF Finishes, Executing, StagesFit, Working, Stages
    <2>2. \A f \in Entries : Unsettled(f)' = {c \in Unsettled(f) : entryOf[c] # e}
      BY <1>6, UnsettledMoves
    <2>3. \A x, y \in Entries : Hosts(x, y)' <=> Hosts(x, y) /\ y # e
      BY <1>1, <1>2, <1>3, <2>2
    <2> QED BY <2>1, <2>3 DEF Over
  <1>7. ASSUME NEW e \in Entries, MovesOn(e)
        PROVE  Executing' = Executing /\ \A x, y \in Entries : Over(x, y)' <=> Over(x, y)
    <2>1. Executing' = Executing
      BY <1>7 DEF MovesOn, Executing, queueVars
    <2>2. \A f \in Entries : Unsettled(f)' = Unsettled(f)
      BY <1>7 DEF MovesOn, Unsettled, queueVars, callVars
    <2> QED BY <1>s, <2>1, <2>2 DEF Over
  <1>8. ASSUME NobodyMoves
        PROVE  Executing' = Executing /\ \A x, y \in Entries : Over(x, y)' <=> Over(x, y)
    <2>1. Executing' = Executing
      BY <1>0, <1>8, QueueFacts DEF NobodyMoves, Executing
    <2>2. \A f \in Entries : Unsettled(f)' = Unsettled(f)
      BY <1>8 DEF NobodyMoves, Unsettled
    <2> QED BY <1>s, <2>1, <2>2 DEF Over
  <1>9. ASSUME NEW c \in Calls, JoinsQueue(c)
        PROVE  Executing' = Executing /\ \A x, y \in Entries : Over(x, y)' <=> Over(x, y)
    <2>1. Executing' = Executing
      BY <1>0, <1>9, QueueFacts DEF JoinsQueue, Executing, Entries
    <2>2. CASE UNCHANGED callVars
      <3>1. \A f \in Entries : Unsettled(f)' = Unsettled(f)
        BY <1>9, <2>2 DEF JoinsQueue, Unsettled, callVars
      <3> QED BY <1>s, <2>1, <3>1 DEF Over
    <2>3. ASSUME NEW e \in Entries, Awaits(e, c)
          PROVE  \A x, y \in Entries : Over(x, y)' <=> Over(x, y)
      <3>1. /\ Unsettled(e)' = Unsettled(e) \cup {c}
            /\ \A f \in Entries : f # e => Unsettled(f)' = Unsettled(f)
        BY <1>9, <2>3, UnsettledMoves
      <3>2. entryOf'[c] \notin Executing'
        BY <1>0, <1>9, QueueFacts DEF JoinsQueue, Executing
      <3>3. \A x, y \in Entries : y \in Executing => (Hosts(x, y)' <=> Hosts(x, y))
        BY <1>1, <1>2, <1>3, <2>1, <3>1, <3>2
      <3> QED BY <2>1, <3>3 DEF Over
    <2> QED BY <1>9, <2>1, <2>2, <2>3 DEF JoinsQueue
  <1> QED BY <1>4, <1>5, <1>6, <1>7, <1>8, <1>9

LEMMA NothingAwaited ==
  ASSUME CInv, NEW e \in Entries, stage[e] \in Working, Unsettled(e) = {}
  PROVE  Innermost(e)
  BY DEF CInv, Innermost, Over, Hosts, Executing, StagesFit

(* Only the innermost entry moves, awaits or has its call promoted.        *)
LEMMA InnermostMoves ==
  ASSUME CInv, MaxAwait = 1, AwaitsOne
  PROVE  /\ \A e \in Entries : MovesOn(e) \/ Finishes(e) => Unsettled(e) = {} /\ Innermost(e)
         /\ \A e \in Entries, c \in Calls : Awaits(e, c) => Unsettled(e) = {} /\ Innermost(e)
         /\ \A f \in Entries, c \in Calls : EntersNested(f, c) =>
              \E e \in Entries : /\ stage[e] = "on_ready" /\ Innermost(e) /\ Hosts(e, f)
                                 /\ c \in Unsettled(e)
         /\ \A e, f \in Entries : Hosts(e, f) /\ f \notin Executing => Innermost(e)
  <1>0. QP!RInv /\ CycleTypes /\ StagesFit /\ AwaitsKept
    BY DEF CInv
  <1>1. ASSUME NEW e \in Entries, MovesOn(e) \/ Finishes(e)
        PROVE  Unsettled(e) = {} /\ Innermost(e)
    <2>1. Unsettled(e) = {} /\ stage[e] \in Working
      BY <1>0, <1>1 DEF MovesOn, Finishes, AwaitsKept, Working, Stages
    <2> QED BY <2>1, NothingAwaited
  <1>2. ASSUME NEW e \in Entries, NEW c \in Calls, Awaits(e, c)
        PROVE  Unsettled(e) = {} /\ Innermost(e)
    <2> DEFINE U == Unsettled(e)
    <2>1. IsFiniteSet(U)
      <3>1. U \subseteq Calls
        BY <1>0 DEF Unsettled, CycleTypes
      <3> QED BY <3>1, EntriesAssumption, FS_Subset
    <2>2. Cardinality(U) < 1
      BY <1>2 DEF Awaits
    <2> HIDE DEF U
    <2>3. U = {}
      BY <2>1, <2>2, FS_CardinalityType, FS_EmptySet
    <2>4. stage[e] \in Working
      BY <1>2 DEF Awaits, Working, Stages, Hooks
    <2> QED BY <2>3, <2>4, NothingAwaited DEF U
  <1>3. ASSUME NEW e \in Entries, NEW f \in Entries, Hosts(e, f), f \notin Executing
        PROVE  Innermost(e)
    <2>1. e \in Executing
      BY <1>0, <1>3 DEF Hosts, StagesFit, Executing, Working, Stages, Hooks
    <2>2. \A g \in Entries : Hosts(e, g) => g = f
      BY <1>3 DEF Hosts, AwaitsOne
    <2> QED BY <1>3, <2>1, <2>2 DEF Innermost, Over
  <1>4. ASSUME NEW f \in Entries, NEW c \in Calls, EntersNested(f, c)
        PROVE  \E e \in Entries : /\ stage[e] = "on_ready" /\ Innermost(e) /\ Hosts(e, f)
                                  /\ c \in Unsettled(e)
    <2>1. phase[f] = "pending" /\ f \notin Executing /\ entryOf[c] = f /\ c \in thenDue
      BY <1>4 DEF EntersNested, Promotable, Executing
    <2>2. PICK e \in Entries : c \in awaited[e]
      BY <1>0, <2>1 DEF AwaitsKept
    <2>3. phase[c] # "new" /\ outcome[c] = "none"
      BY <1>0, <2>1, <2>2, QueueFacts DEF AwaitsKept
    <2>4. c \in Unsettled(e)
      BY <2>2, <2>3 DEF Unsettled
    <2>5. stage[e] = "on_ready" /\ Hosts(e, f)
      BY <1>0, <2>1, <2>4 DEF Hosts, AwaitsKept
    <2> QED BY <1>3, <2>1, <2>4, <2>5
  <1> QED BY <1>1, <1>2, <1>3, <1>4

LEMMA AwaitsOneStep ==
  ASSUME CInv, MaxAwait = 1, AwaitsOne, [Next]_vars
  PROVE  AwaitsOne'
  <1>1. ASSUME NEW c \in Calls, NEW e \in Entries, JoinsQueue(c), Awaits(e, c)
        PROVE  AwaitsOne'
    <2>1. Unsettled(e) = {}
      BY <1>1, InnermostMoves
    <2> QED BY <1>1, <2>1, UnsettledMoves DEF AwaitsOne
  <1>2. ASSUME NEW e \in Entries, Finishes(e)
        PROVE  AwaitsOne'
    BY <1>2, UnsettledMoves DEF AwaitsOne
  <1>3. CASE /\ \A c \in Calls, e \in Entries : ~(JoinsQueue(c) /\ Awaits(e, c))
             /\ \A e \in Entries : ~Finishes(e)
    BY <1>3, UnsettledMoves DEF AwaitsOne
  <1> QED BY <1>1, <1>2, <1>3

LEMMA ChainStep ==
  ASSUME CInv, CInv', MaxAwait = 1, AwaitsOne, IsChain, [Next]_vars
  PROVE  IsChain'
  <1>1. ASSUME NEW e \in Entries, EntersAlone(e)
        PROVE  IsChain'
    BY <1>1, OverMoves DEF IsChain, Innermost
  <1>2. ASSUME NEW f \in Entries, NEW c \in Calls, EntersNested(f, c)
        PROVE  IsChain'
    <2>1. PICK e \in Entries : Innermost(e) /\ Hosts(e, f)
      BY <1>2, InnermostMoves
    <2>2. \A x \in Entries : Hosts(x, f) => x = e
      BY <1>2, <2>1, InnermostMoves, OverMoves DEF IsChain
    <2>3. /\ Executing' = Executing \cup {f} /\ f \notin Executing
          /\ \A x, y \in Entries : Over(x, y)' <=> Over(x, y) \/ (y = f /\ x = e)
      BY <1>2, <2>1, <2>2, OverMoves
    <2>4. \A x \in Entries : Innermost(x)' => x = f
      BY <2>1, <2>3 DEF Innermost, IsChain
    <2>5. \A x \in Entries : ~Over(x, f)
      BY <2>3 DEF Over
    <2>6. \A x, y, z \in Entries : Over(x, z)' /\ Over(y, z)' => x = y
      BY <2>3, <2>5 DEF IsChain
    <2> QED BY <2>4, <2>6 DEF IsChain
  <1>3. ASSUME NEW e \in Entries, Finishes(e)
        PROVE  IsChain'
    <2>1. Innermost(e)
      BY <1>3, InnermostMoves
    <2>2. /\ Executing' = Executing \ {e}
          /\ \A x, y \in Entries : Over(x, y)' <=> Over(x, y) /\ y # e
      BY <1>3, OverMoves
    <2>3. ASSUME NEW x \in Entries, Innermost(x)'
          PROVE  Over(x, e)
      <3>1. ~Innermost(x) /\ x \in Executing
        BY <2>1, <2>2, <2>3 DEF IsChain, Innermost
      <3> QED BY <2>2, <2>3, <3>1 DEF Innermost
    <2> QED BY <2>2, <2>3 DEF IsChain
  <1>4. CASE NobodyMoves \/ (\E c \in Calls : JoinsQueue(c)) \/ \E e \in Entries : MovesOn(e)
    BY <1>4, OverMoves DEF IsChain, Innermost
  <1>5. QP!RInv /\ CycleTypes /\ StagesFit
    BY DEF CInv
  <1> QED BY <1>1, <1>2, <1>3, <1>4, <1>5, Shapes

LEMMA HooksLinkedStep ==
  ASSUME CInv, CInv', MaxAwait = 1, AwaitsOne, IsChain, HooksLinked, [Next]_vars
  PROVE  HooksLinked'
  <1> DEFINE UnderNext(x, r) == \/ r = NoRun /\ \A g \in Entries : ~Over(g, x)'
                                \/ \E g \in Entries : Over(g, x)' /\ r = <<g, "on_ready">>
  <1>h. ASSUME \A x \in Entries : Innermost(x)' =>
                 IF stage'[x] \in Hooks THEN asyncHook' = <<x, stage'[x]>>
                 ELSE UnderNext(x, asyncHook'),
               \A x \in Entries : stage'[x] \in Hooks => UnderNext(x, previous'[<<x, stage'[x]>>]),
               Executing' = {} => asyncHook' = NoRun
        PROVE  HooksLinked'
    BY <1>h DEF HooksLinked, Under
  <1> HIDE DEF UnderNext
  <1>0. /\ QP!RInv /\ CycleTypes /\ StagesFit /\ AwaitsKept /\ StagesFit'
        /\ \A x, y \in Entries : Over(x, y) => stage[x] = "on_ready" /\ x \in Executing
    BY DEF CInv, Over, Hosts, StagesFit, Executing, Working, Stages, Hooks
  <1>w. \A h \in Hooks : h \in Working
    BY DEF Working, Stages, Hooks
  <1>a. \A x \in Entries : /\ stage[x] \in Hooks => x \in Executing
                           /\ stage'[x] \in Hooks => x \in Executing'
    BY <1>0, <1>w DEF StagesFit, Executing
  <1>1. ASSUME NEW e \in Entries, EntersAlone(e)
        PROVE  HooksLinked'
    <2>1. Executing = {} /\ Executing' = {e} /\ asyncHook = NoRun
          /\ \A x, y \in Entries : ~Over(x, y)'
      BY <1>1, OverMoves DEF EntersAlone, HooksLinked
    <2>2. PICK s \in FirstStages : /\ stage' = [stage EXCEPT ![e] = s]
                                   /\ IF s = "on_load" THEN StartHook(e, s) ELSE UNCHANGED hookVars
      BY <1>1 DEF EntersAlone, StartsOff
    <2>3. stage'[e] = s /\ \A x \in Entries : stage'[x] \in Hooks => x = e
      BY <1>0, <1>a, <2>1, <2>2 DEF CycleTypes
    <2>4. CASE s = "on_load"
      <3>1. asyncHook' = <<e, s>> /\ previous'[<<e, s>>] = NoRun
        BY <1>0, <2>1, <2>2, <2>4 DEF StartHook, CycleTypes, Runs, Hooks
      <3>2. UnderNext(e, NoRun)
        BY <2>1 DEF UnderNext
      <3>3. \A x \in Entries : Innermost(x)' => x = e
        BY <2>1 DEF Innermost
      <3> QED BY <1>h, <2>1, <2>3, <2>4, <3>1, <3>2, <3>3 DEF Hooks
    <2>5. CASE s # "on_load"
      <3>1. asyncHook' = NoRun /\ s \notin Hooks
        BY <2>1, <2>2, <2>5 DEF hookVars, FirstStages, Hooks
      <3>2. \A x \in Entries : UnderNext(x, NoRun)
        BY <2>1 DEF UnderNext
      <3>3. \A x \in Entries : stage'[x] \notin Hooks
        BY <2>3, <3>1
      <3> QED BY <1>h, <3>1, <3>2, <3>3
    <2> QED BY <2>4, <2>5
  <1>2. ASSUME NEW f \in Entries, NEW c \in Calls, EntersNested(f, c)
        PROVE  HooksLinked'
    <2>1. PICK e \in Entries : Innermost(e) /\ Hosts(e, f) /\ stage[e] = "on_ready"
      BY <1>2, InnermostMoves
    <2>2. /\ Executing' = Executing \cup {f} /\ f \notin Executing
          /\ \A x, y \in Entries : Over(x, y)' <=> Over(x, y) \/ (y = f /\ Hosts(x, f))
      BY <1>2, OverMoves
    <2>3. asyncHook = <<e, "on_ready">>
      BY <2>1 DEF HooksLinked, Hooks
    <2>4. PICK s \in FirstStages : /\ stage' = [stage EXCEPT ![f] = s]
                                   /\ IF s = "on_load" THEN StartHook(f, s) ELSE UNCHANGED hookVars
      BY <1>2 DEF EntersNested, StartsOff
    <2>5. stage'[f] = s /\ \A x \in Entries : x # f => stage'[x] = stage[x]
      BY <1>0, <2>4 DEF CycleTypes
    <2>6. \A x \in Entries : Innermost(x)' => x = f
      <3>1. Innermost(e) /\ Over(e, f)'
        BY <2>1, <2>2
      <3> QED BY <2>2, <3>1 DEF Innermost, IsChain
    <2>7. UnderNext(f, <<e, "on_ready">>)
      BY <2>1, <2>2 DEF UnderNext
    <2>8. \A x \in Entries : \A r : x # f /\ Under(x, r) => UnderNext(x, r)
      BY <2>2 DEF Under, UnderNext
    <2>9. ASSUME NEW x \in Entries, x # f, stage'[x] \in Hooks
          PROVE  UnderNext(x, previous'[<<x, stage'[x]>>])
      <3>1. stage'[x] = stage[x] /\ <<x, stage[x]>> \in Runs /\ <<x, stage[x]>> # <<f, s>>
        BY <2>5, <2>9 DEF Runs
      <3>2. previous'[<<x, stage[x]>>] = previous[<<x, stage[x]>>]
        BY <1>0, <2>4, <3>1 DEF StartHook, hookVars, CycleTypes
      <3>3. Under(x, previous[<<x, stage[x]>>])
        BY <2>9, <3>1 DEF HooksLinked
      <3> QED BY <2>8, <2>9, <3>1, <3>2, <3>3
    <2>10. Executing' # {}
      BY <2>2
    <2>11. CASE s = "on_load"
      <3>1. asyncHook' = <<f, s>> /\ previous'[<<f, s>>] = <<e, "on_ready">>
        <4>1. <<f, s>> \in Runs
          BY <2>11 DEF Runs, Hooks
        <4> QED BY <1>0, <2>3, <2>4, <2>11, <4>1 DEF StartHook, CycleTypes
      <3>2. s \in Hooks
        BY <2>11 DEF Hooks
      <3> QED BY <1>h, <2>5, <2>6, <2>7, <2>9, <2>10, <3>1, <3>2
    <2>12. CASE s # "on_load"
      <3>1. asyncHook' = <<e, "on_ready">> /\ s \notin Hooks
        BY <2>3, <2>4, <2>12 DEF hookVars, FirstStages, Hooks
      <3> QED BY <1>h, <2>5, <2>6, <2>7, <2>9, <2>10, <3>1
    <2> QED BY <2>11, <2>12
  <1>3. ASSUME NEW e \in Entries, MovesOn(e)
        PROVE  HooksLinked'
    <2>1. Innermost(e)
      BY <1>3, InnermostMoves
    <2>2. Executing' = Executing /\ \A x, y \in Entries : Over(x, y)' <=> Over(x, y)
      BY <1>3, OverMoves
    <2>3. \A x \in Entries : Innermost(x)' <=> Innermost(x)
      BY <2>2 DEF Innermost
    <2>4. \A x \in Entries : Innermost(x)' => x = e
      BY <2>1, <2>3 DEF IsChain
    <2>5. \A x \in Entries : \A r : Under(x, r) <=> UnderNext(x, r)
      BY <2>2 DEF Under, UnderNext
    <2>6. PICK s \in Working :
            /\ stage' = [stage EXCEPT ![e] = s]
            /\ stage[e] \in Hooks => EndHook(e, stage[e]) /\ s \notin Hooks
            /\ stage[e] \notin Hooks /\ s \in Hooks => StartHook(e, s)
            /\ stage[e] \notin Hooks /\ s \notin Hooks => UNCHANGED hookVars
      BY <1>3 DEF MovesOn
    <2>7. stage'[e] = s /\ \A x \in Entries : x # e => stage'[x] = stage[x]
      BY <1>0, <2>6 DEF CycleTypes
    <2>8. ASSUME NEW x \in Entries, x # e, stage'[x] \in Hooks
          PROVE  UnderNext(x, previous'[<<x, stage'[x]>>])
      <3>1. stage'[x] = stage[x] /\ <<x, stage[x]>> \in Runs /\ <<x, stage[x]>> # <<e, s>>
        BY <2>7, <2>8 DEF Runs
      <3>2. previous'[<<x, stage[x]>>] = previous[<<x, stage[x]>>]
        BY <1>0, <2>6, <3>1 DEF StartHook, EndHook, hookVars, CycleTypes
      <3>3. Under(x, previous[<<x, stage[x]>>])
        BY <2>8, <3>1 DEF HooksLinked
      <3> QED BY <2>5, <3>1, <3>2, <3>3
    <2>9. Executing' # {}
      BY <2>1, <2>2 DEF Innermost
    <2>10. CASE stage[e] \in Hooks
      <3>1. asyncHook = <<e, stage[e]>> /\ Under(e, previous[<<e, stage[e]>>]) /\ s \notin Hooks
        BY <2>1, <2>6, <2>10 DEF HooksLinked
      <3>2. PICK p : p = previous[<<e, stage[e]>>]
        OBVIOUS
      <3>3. asyncHook' = IF p # NoRun /\ ~Settled(p) THEN p ELSE NoRun
        BY <2>6, <2>10, <3>1, <3>2 DEF EndHook
      <3>4. asyncHook' = p
        <4>1. ASSUME NEW g \in Entries, Over(g, e), p = <<g, "on_ready">>
              PROVE  p # NoRun /\ ~Settled(p)
          <5>1. p \in Runs
            BY <4>1 DEF Runs, Hooks
          <5> QED BY <1>0, <4>1, <5>1, EntriesAssumption DEF Settled
        <4> QED BY <3>1, <3>2, <3>3, <4>1 DEF Under
      <3> QED BY <1>h, <2>4, <2>5, <2>7, <2>8, <2>9, <3>1, <3>2, <3>4
    <2>11. CASE stage[e] \notin Hooks /\ s \in Hooks
      <3>1. asyncHook' = <<e, s>> /\ previous'[<<e, s>>] = asyncHook
        <4>1. <<e, s>> \in Runs
          BY <2>11 DEF Runs
        <4> QED BY <1>0, <2>6, <2>11, <4>1 DEF StartHook, CycleTypes
      <3>2. Under(e, asyncHook)
        BY <2>1, <2>11 DEF HooksLinked
      <3> QED BY <1>h, <2>4, <2>5, <2>7, <2>8, <2>9, <2>11, <3>1, <3>2
    <2>12. CASE stage[e] \notin Hooks /\ s \notin Hooks
      <3>1. asyncHook' = asyncHook
        BY <2>6, <2>12 DEF hookVars
      <3>2. Under(e, asyncHook)
        BY <2>1, <2>12 DEF HooksLinked
      <3> QED BY <1>h, <2>4, <2>5, <2>7, <2>8, <2>9, <2>12, <3>1, <3>2
    <2> QED BY <2>10, <2>11, <2>12
  <1>4. ASSUME NEW e \in Entries, Finishes(e)
        PROVE  HooksLinked'
    <2>1. Innermost(e) /\ stage[e] \in {"returned", "threw"} /\ stage[e] \notin Hooks
      BY <1>4, InnermostMoves DEF Finishes, Hooks
    <2>2. /\ Executing' = Executing \ {e}
          /\ \A x, y \in Entries : Over(x, y)' <=> Over(x, y) /\ y # e
      BY <1>4, OverMoves
    <2>3. stage' = [stage EXCEPT ![e] = "ended"] /\ asyncHook' = asyncHook /\ previous' = previous
      BY <1>4 DEF Finishes, hookVars
    <2>4. stage'[e] \notin Hooks /\ \A x \in Entries : x # e => stage'[x] = stage[x]
      BY <1>0, <2>3 DEF CycleTypes, Hooks
    <2>5. \A x \in Entries : \A r : x # e /\ Under(x, r) => UnderNext(x, r)
      BY <2>2 DEF Under, UnderNext
    <2>6. Under(e, asyncHook)
      BY <2>1 DEF HooksLinked
    <2>7. \A x \in Entries : Over(x, e) => asyncHook = <<x, "on_ready">> /\ x # e /\ x \in Executing
      BY <1>0, <2>1, <2>6 DEF Under, IsChain
    <2>8. ASSUME NEW x \in Entries, Innermost(x)'
          PROVE  stage'[x] \in Hooks /\ asyncHook' = <<x, stage'[x]>>
      <3>1. x # e /\ ~Innermost(x) /\ x \in Executing
        BY <2>1, <2>2, <2>8 DEF Innermost, IsChain
      <3>2. Over(x, e)
        BY <2>2, <2>8, <3>1 DEF Innermost
      <3>3. stage'[x] = "on_ready"
        BY <1>0, <2>4, <3>1, <3>2
      <3> QED BY <2>3, <2>7, <3>2, <3>3 DEF Hooks
    <2>9. Executing' = {} => asyncHook' = NoRun
      BY <2>2, <2>3, <2>6, <2>7 DEF Under
    <2>10. ASSUME NEW x \in Entries, stage'[x] \in Hooks
           PROVE  UnderNext(x, previous'[<<x, stage'[x]>>])
      <3>1. x # e /\ stage'[x] = stage[x]
        BY <2>4, <2>10
      <3>2. Under(x, previous[<<x, stage[x]>>])
        BY <2>10, <3>1 DEF HooksLinked
      <3> QED BY <2>3, <2>5, <3>1, <3>2
    <2> QED BY <1>h, <2>8, <2>9, <2>10
  <1>5. CASE NobodyMoves \/ \E c \in Calls : JoinsQueue(c)
    <2>1. Executing' = Executing /\ \A x, y \in Entries : Over(x, y)' <=> Over(x, y)
      BY <1>5, OverMoves
    <2>2. UNCHANGED <<stage, asyncHook, previous>>
      BY <1>5 DEF NobodyMoves, JoinsQueue, hookVars
    <2>3. \A x \in Entries : \A r : Under(x, r) <=> UnderNext(x, r)
      BY <2>1 DEF Under, UnderNext
    <2>4. \A x \in Entries : Innermost(x)' <=> Innermost(x)
      BY <2>1 DEF Innermost
    <2> QED BY <1>h, <2>1, <2>2, <2>3, <2>4 DEF HooksLinked
  <1> QED BY <1>0, <1>1, <1>2, <1>3, <1>4, <1>5, Shapes

LEMMA WatchedStep ==
  ASSUME CInv, CInv', MaxAwait = 1, AwaitsOne, HooksLinked, Watched, [Next]_vars
  PROVE  Watched'
  <1>0. QP!RInv /\ CycleTypes /\ StagesFit /\ AwaitsKept
    BY DEF CInv
  <1>1. \A e \in Entries : \A c \in Unsettled(e) :
          /\ c \in Calls /\ phase[c] # "new" /\ entryOf[c] \in Calls /\ entryOf'[c] = entryOf[c]
          /\ phase[entryOf[c]] \in {"pending", "holding", "nested"} /\ stage[e] = "on_ready"
    BY <1>0, OneWay, QueueFacts DEF Unsettled, AwaitsKept, CycleTypes
  <1>2. \A e \in Entries : <<e, "on_ready">> \in Runs /\ <<e, "on_ready">> # NoRun
    BY EntriesAssumption DEF Runs, Hooks
  <1>3. ASSUME NEW c \in Calls, NEW e \in Entries, JoinsQueue(c), Awaits(e, c)
        PROVE  Watched'
    <2>1. Innermost(e) /\ stage[e] = "on_ready"
      BY <1>3, InnermostMoves DEF Awaits
    <2>2. asyncHook = <<e, "on_ready">>
      BY <2>1 DEF HooksLinked, Hooks
    <2>3. ReadyRun = <<e, "on_ready">>
      <3>1. ~Settled(asyncHook)
        BY <2>1, <2>2 DEF Settled
      <3> QED BY <1>0, <1>2, <2>2, <3>1, ReadyRunFound
    <2>4. /\ owner'[c] = <<e, "on_ready">> /\ c \in thenDue'
          /\ \A d \in Calls : d # c => owner'[d] = owner[d]
          /\ thenDue \subseteq thenDue'
      BY <1>0, <1>3, <2>3 DEF Awaits, CycleTypes
    <2>5. \A d \in Calls : d # c => (phase'[d] = "pending" => phase[d] = "pending")
      BY <1>0, <1>3, QueueFacts DEF JoinsQueue, Entries
    <2>6. phase[c] = "new"
      BY <1>3 DEF JoinsQueue
    <2>7. ASSUME NEW f \in Entries, NEW d \in Unsettled(f)'
          PROVE  owner'[d] = <<f, "on_ready">> /\ (phase'[entryOf'[d]] = "pending" => d \in thenDue')
      <3>1. CASE d \in Unsettled(f)
        <4>1. d # c /\ entryOf[d] # c /\ entryOf[d] \in Calls /\ entryOf'[d] = entryOf[d] /\ d \in Calls
          BY <1>1, <2>6, <3>1
        <4> QED BY <2>4, <2>5, <3>1, <4>1 DEF Watched
      <3>2. CASE d \notin Unsettled(f)
        <4>1. d = c /\ f = e
          BY <1>3, <2>7, <3>2, UnsettledMoves
        <4> QED BY <2>4, <4>1
      <3> QED BY <3>1, <3>2
    <2> QED BY <2>7 DEF Watched
  <1>4. CASE \A c \in Calls, e \in Entries : ~(JoinsQueue(c) /\ Awaits(e, c))
    <2>1. owner' = owner
      BY <1>0, <1>4, Shapes
      DEF EntersAlone, EntersNested, JoinsQueue, MovesOn, Finishes, NobodyMoves, callVars
    <2>2. \A f \in Entries : Unsettled(f)' \subseteq Unsettled(f)
      <3>1. CASE \E e \in Entries : Finishes(e)
        BY <3>1, UnsettledMoves
      <3>2. CASE \A e \in Entries : ~Finishes(e)
        BY <1>4, <3>2, UnsettledMoves
      <3> QED BY <3>1, <3>2
    <2>3. \A d \in Calls : phase[d] # "new" => (phase'[d] = "pending" => phase[d] = "pending")
      <3>1. ASSUME NEW e \in Entries, EntersAlone(e) \/ Finishes(e) \/ \E c \in Calls : EntersNested(e, c)
            PROVE  \A d \in Calls : phase'[d] = "pending" => phase[d] = "pending"
        BY <1>0, <3>1, QueueFacts DEF EntersAlone, EntersNested, Finishes, Entries
      <3>2. ASSUME NEW c \in Calls, JoinsQueue(c)
            PROVE  \A d \in Calls : phase[d] # "new" => (phase'[d] = "pending" => phase[d] = "pending")
        BY <1>0, <3>2, QueueFacts DEF JoinsQueue, Entries
      <3>3. ASSUME NEW e \in Entries, MovesOn(e)
            PROVE  phase' = phase
        BY <3>3 DEF MovesOn, queueVars
      <3>4. CASE NobodyMoves
        BY <1>0, <3>4, QueueFacts DEF NobodyMoves, Entries
      <3> QED BY <1>0, <3>1, <3>2, <3>3, <3>4, Shapes
    <2>4. ASSUME NEW f \in Entries, NEW d \in Unsettled(f), phase'[entryOf[d]] = "pending",
                 d \in thenDue
          PROVE  d \in thenDue'
      <3>1. SUFFICES ASSUME d \notin thenDue'
                     PROVE  FALSE
        OBVIOUS
      <3>2. ASSUME NEW e \in Entries, EntersNested(e, d)
            PROVE  FALSE
        BY <1>0, <2>4, <3>2, QueueFacts DEF EntersNested
      <3>3. Promotable(d)
        <4>1. phase[entryOf[d]] = "pending" /\ owner[d] = <<f, "on_ready">> /\ stage[f] = "on_ready"
          BY <1>1, <2>3, <2>4, QueueFacts DEF Watched
        <4> QED BY <1>2, <4>1 DEF Promotable, Settled
      <3>4. ~NobodyMoves
        BY <2>4, <3>1, <3>3 DEF NobodyMoves
      <3>5. UNCHANGED thenDue \/ \E e \in Entries, c \in Calls : EntersNested(e, c) /\ d = c
        BY <1>0, <1>4, <2>4, <3>1, <3>4, Shapes
        DEF EntersAlone, EntersNested, JoinsQueue, MovesOn, Finishes, callVars
      <3> QED BY <2>4, <3>1, <3>2, <3>5
    <2>5. ASSUME NEW f \in Entries, NEW d \in Unsettled(f)'
          PROVE  owner'[d] = <<f, "on_ready">> /\ (phase'[entryOf'[d]] = "pending" => d \in thenDue')
      <3>1. d \in Unsettled(f)
        BY <2>2
      <3>2. entryOf'[d] = entryOf[d] /\ entryOf[d] \in Calls /\ phase[entryOf[d]] # "new"
        BY <1>1, <3>1
      <3>3. phase'[entryOf[d]] = "pending" => d \in thenDue
        BY <2>3, <3>1, <3>2 DEF Watched
      <3> QED BY <2>1, <2>4, <3>1, <3>2, <3>3 DEF Watched
    <2> QED BY <2>5 DEF Watched
  <1> QED BY <1>3, <1>4

LEMMA ChainedInit ==
  ASSUME Init
  PROVE  Chained
  <1>1. /\ \A e \in Entries : phase[e] = "new" /\ stage[e] = "idle" /\ awaited[e] = {}
        /\ asyncHook = NoRun
    BY DEF Init, Q!Init, Q!Entries, Entries
  <1>2. Executing = {} /\ \A e \in Entries : Unsettled(e) = {}
    BY <1>1 DEF Executing, Unsettled
  <1>3. \A e, f \in Entries : ~Over(e, f) /\ ~Innermost(e)
    BY <1>2 DEF Over, Innermost
  <1> QED BY <1>1, <1>2, <1>3 DEF Chained, AwaitsOne, IsChain, HooksLinked, Watched, Hooks

LEMMA ChainedInvariant ==
  ASSUME MaxAwait = 1
  PROVE  Spec => [](CInv /\ Chained)
  <1>1. Init => Chained
    BY ChainedInit
  <1>2. CInv /\ CInv' /\ Chained /\ [Next]_vars => Chained'
    BY AwaitsOneStep, ChainStep, HooksLinkedStep, WatchedStep DEF Chained
  <1> QED BY <1>1, <1>2, CycleInvariant, PTL DEF Spec

(* While each on_ready() awaits its calls one by one, a call it awaits is  *)
(* watched by it, and never waits in the queue for the lock that the same  *)
(* on_ready() keeps: it runs, or its .then() is about to pull it forward.  *)
(* (With two calls awaited together it fails: their hooks settle out of    *)
(* order, and a call made afterwards finds no on_ready() to watch.)        *)
(* (component.ts:515-537, 1978-2035)                                       *)
THEOREM AwaitedOneByOneRuns ==
  ASSUME MaxAwait = 1
  PROVE  Spec => [](AwaitedCallRuns /\ AwaitedCallIsWatched)
  <1>1. \A e \in Entries : <<e, "on_ready">> # NoRun
    BY EntriesAssumption DEF Runs, Hooks
  <1>2. ASSUME Chained
        PROVE  AwaitedCallRuns
    <2>1. ASSUME NEW e \in Entries, stage[e] = "on_ready", NEW c \in Unsettled(e),
                 phase[entryOf[c]] = "pending"
          PROVE  c \in thenDue /\ Promotable(c)
      <3>1. owner[c] = <<e, "on_ready">> /\ c \in thenDue
        BY <1>2, <2>1 DEF Chained, Watched
      <3> QED BY <1>1, <2>1, <3>1 DEF Promotable, Settled
    <2> QED BY <2>1 DEF AwaitedCallRuns
  <1>3. Chained => AwaitedCallIsWatched
    BY <1>1 DEF Chained, Watched, AwaitedCallIsWatched
  <1>4. Chained => AwaitedCallRuns /\ AwaitedCallIsWatched
    BY <1>2, <1>3
  <1> QED BY <1>4, ChainedInvariant, PTL
=============================================================================
