----------------------- MODULE LifecycleQueue_proofs -----------------------
(***************************************************************************)
(* Component_Queue is correct for every number of calls and every set of   *)
(* keys.  The invariants the runs check are proved from one inductive      *)
(* invariant, IInv, by one lemma per action of LifecycleQueue.             *)
(***************************************************************************)
EXTENDS LifecycleQueue, SequenceTheorems, FiniteSetTheorems, TLAPS

-----------------------------------------------------------------------------
(* What adding and taking an element does to an array.                     *)
LEMMA RemoveAtPositions ==
  ASSUME NEW S, NEW s \in Seq(S), NEW i \in DOMAIN s
  PROVE  /\ RemoveAt(s, i) \in Seq(S)
         /\ Len(RemoveAt(s, i)) = Len(s) - 1
         /\ \A j \in DOMAIN RemoveAt(s, i) :
              RemoveAt(s, i)[j] = IF j < i THEN s[j] ELSE s[j + 1]
  <1> DEFINE l == SubSeq(s, 1, i - 1)
             r == SubSeq(s, i + 1, Len(s))
  <1>1. l \in Seq(S) /\ Len(l) = i - 1 /\ \A j \in 1 .. (i - 1) : l[j] = s[j]
    BY SubSeqProperties
  <1>2. /\ r \in Seq(S) /\ Len(r) = Len(s) - i
        /\ \A j \in 1 .. (Len(s) - i) : r[j] = s[i + j]
    BY SubSeqProperties
  <1> HIDE DEF l, r
  <1>3. /\ l \o r \in Seq(S)
        /\ Len(l \o r) = Len(s) - 1
        /\ \A j \in 1 .. (Len(s) - 1) :
             (l \o r)[j] = IF j < i THEN s[j] ELSE s[j + 1]
    BY <1>1, <1>2
  <1>4. RemoveAt(s, i) = l \o r
    BY DEF RemoveAt, l, r
  <1> QED BY <1>3, <1>4

-----------------------------------------------------------------------------
NoDuplicates == \A i, j \in DOMAIN pending : pending[i] = pending[j] => i = j

PendingExact ==
  \A e \in Entries : phase[e] = "pending" <=> \E i \in DOMAIN pending : pending[i] = e

BootFirst ==
  /\ phase[Boot] \in {"new", "holding", "over"}
  /\ booting <=> phase[Boot] = "holding"
  /\ phase[Boot] = "new" => ~busy /\ \A c \in Calls : phase[c] = "new"

Attended(c) == phase[entryOf[c]] \in {"pending", "holding", "nested"}

CallersKept ==
  \A c \in Calls :
    /\ phase[c] # "new" /\ outcome[c] = "none"
         => entryOf[c] \in Calls /\ Attended(c)
    /\ phase[c] = "new" => entryOf[c] = NoCall

IInv ==
  /\ TypeOK
  /\ NoDuplicates
  /\ PendingExact
  /\ BootFirst
  /\ CallersKept
  /\ LockAccounted
  /\ PromotedKeepLock

-----------------------------------------------------------------------------
(* Counting the entries in a set of phases when one entry changes phase.   *)
LEMMA EntriesFinite == IsFiniteSet(Entries)
  BY FS_AddElement, CallsAssumption DEF Entries

LEMMA RunsFinite ==
  ASSUME NEW S
  PROVE  IsFiniteSet(InPhase(S)) /\ Cardinality(InPhase(S)) \in Nat
  <1>1. InPhase(S) \subseteq Entries
    BY DEF InPhase
  <1> QED
    BY <1>1, EntriesFinite, FS_Subset, FS_CardinalityType

LEMMA PhaseMove ==
  ASSUME phase \in [Entries -> Phases], NEW e \in Entries, NEW p \in Phases,
         SetPhase(e, p), NEW S
  PROVE  Cardinality(InPhase(S)') =
           Cardinality(InPhase(S)) + (IF p \in S THEN 1 ELSE 0)
                                   - (IF phase[e] \in S THEN 1 ELSE 0)
  <1>1. IsFiniteSet(InPhase(S)) /\ Cardinality(InPhase(S)) \in Nat
    BY RunsFinite
  <1>2. CASE p \in S /\ phase[e] \in S
    <2>1. InPhase(S)' = InPhase(S)
      BY <1>2 DEF InPhase, SetPhase
    <2> QED BY <2>1, <1>1, <1>2
  <1>3. CASE p \in S /\ phase[e] \notin S
    <2>1. InPhase(S)' = InPhase(S) \cup {e} /\ e \notin InPhase(S)
      BY <1>3 DEF InPhase, SetPhase
    <2>2. Cardinality(InPhase(S) \cup {e}) = Cardinality(InPhase(S)) + 1
      BY <2>1, <1>1, FS_AddElement
    <2> QED BY <2>1, <2>2, <1>1, <1>3
  <1>4. CASE p \notin S /\ phase[e] \in S
    <2>1. InPhase(S)' = InPhase(S) \ {e} /\ e \in InPhase(S)
      BY <1>4 DEF InPhase, SetPhase
    <2>2. Cardinality(InPhase(S) \ {e}) = Cardinality(InPhase(S)) - 1
      BY <2>1, <1>1, FS_RemoveElement
    <2> QED BY <2>1, <2>2, <1>1, <1>4
  <1>5. CASE p \notin S /\ phase[e] \notin S
    <2>1. InPhase(S)' = InPhase(S)
      BY <1>5 DEF InPhase, SetPhase
    <2> QED BY <2>1, <1>1, <1>5
  <1> QED BY <1>2, <1>3, <1>4, <1>5

LEMMA RunsFiniteNext ==
  ASSUME NEW S
  PROVE  IsFiniteSet(InPhase(S)') /\ Cardinality(InPhase(S)') \in Nat
  <1>1. InPhase(S)' \subseteq Entries
    BY DEF InPhase
  <1> QED
    BY <1>1, EntriesFinite, FS_Subset, FS_CardinalityType

(* Both for the two sets of phases the lock accounting is about.           *)
LEMMA NoRuns ==
  /\ Cardinality(LockRuns) \in Nat /\ Cardinality(LockRuns') \in Nat
  /\ Cardinality(PromotedRuns) \in Nat /\ Cardinality(PromotedRuns') \in Nat
  /\ Cardinality(LockRuns) = 0 <=> LockRuns = {}
  /\ Cardinality(LockRuns') = 0 <=> LockRuns' = {}
  /\ Cardinality(PromotedRuns) = 0 <=> PromotedRuns = {}
  BY RunsFinite, RunsFiniteNext, FS_EmptySet DEF LockRuns, PromotedRuns

LEMMA RunsMove ==
  ASSUME phase \in [Entries -> Phases], NEW e \in Entries, NEW p \in Phases,
         SetPhase(e, p)
  PROVE  /\ Cardinality(LockRuns') = Cardinality(LockRuns)
              + (IF p \in {"holding", "releasing"} THEN 1 ELSE 0)
              - (IF phase[e] \in {"holding", "releasing"} THEN 1 ELSE 0)
         /\ Cardinality(PromotedRuns') = Cardinality(PromotedRuns)
              + (IF p \in {"nested", "returning"} THEN 1 ELSE 0)
              - (IF phase[e] \in {"nested", "returning"} THEN 1 ELSE 0)
  BY PhaseMove DEF LockRuns, PromotedRuns

-----------------------------------------------------------------------------
(* Boot starts on an idle queue that nobody has called yet.                *)
LEMMA BeginBootStep ==
  ASSUME IInv, BeginBoot
  PROVE  IInv'
  <1>0. /\ TypeOK /\ phase[Boot] = "new" /\ Boot \in Entries /\ "holding" \in Phases
        /\ SetPhase(Boot, "holding")
    BY DEF IInv, BeginBoot, Entries, Phases
  <1>1. TypeOK'
    BY <1>0 DEF BeginBoot, TypeOK, SetPhase
  <1>2. NoDuplicates' /\ PendingExact'
    BY <1>0 DEF IInv, BeginBoot, TypeOK, SetPhase, NoDuplicates, PendingExact
  <1>3. BootFirst' /\ CallersKept'
    BY <1>0, CallsAssumption
    DEF IInv, BeginBoot, TypeOK, SetPhase, BootFirst, CallersKept, Attended, Entries
  <1>4. /\ Cardinality(LockRuns') = Cardinality(LockRuns) + 1
        /\ Cardinality(PromotedRuns') = Cardinality(PromotedRuns)
    <2>1. phase \in [Entries -> Phases] /\ phase[Boot] = "new"
      BY <1>0 DEF TypeOK
    <2> QED BY <2>1, <1>0, RunsMove, NoRuns
  <1>5. LockAccounted' /\ PromotedKeepLock'
    BY <1>0, <1>4, NoRuns
    DEF IInv, BeginBoot, TypeOK, LockAccounted, PromotedKeepLock, BootFirst
  <1> QED BY <1>1, <1>2, <1>3, <1>5 DEF IInv

LEMMA ReleaseType ==
  ASSUME TypeOK, Release
  PROVE  busy' \in BOOLEAN /\ timers' \in Nat /\ releaseDeferred' \in BOOLEAN
  <1>1. CASE promotedRunning > 0
    BY <1>1 DEF TypeOK, Release
  <1>2. CASE ~(promotedRunning > 0) /\ pending = <<>>
    BY <1>2 DEF TypeOK, Release, HandOver
  <1>3. CASE ~(promotedRunning > 0) /\ pending # <<>>
    <2>1. timers' = timers + 1 /\ busy' = busy /\ releaseDeferred' = releaseDeferred
      BY <1>3 DEF Release, HandOver
    <2> QED BY <2>1 DEF TypeOK
  <1> QED BY <1>1, <1>2, <1>3

(* Boot ends: the lock goes to the promoted entries still running, to the  *)
(* gap, or comes free.                                                     *)
LEMMA EndBootStep ==
  ASSUME IInv, EndBoot
  PROVE  IInv'
  <1>0. /\ TypeOK /\ phase[Boot] = "holding" /\ Boot \in Entries /\ "over" \in Phases
        /\ SetPhase(Boot, "over")
    BY DEF IInv, EndBoot, BootFirst, Entries, Phases
  <1>1. TypeOK'
    BY <1>0, ReleaseType DEF EndBoot, TypeOK, SetPhase
  <1>2. NoDuplicates' /\ PendingExact'
    BY <1>0 DEF IInv, EndBoot, TypeOK, SetPhase, NoDuplicates, PendingExact
  <1>3. BootFirst' /\ CallersKept'
    BY <1>0, CallsAssumption
    DEF IInv, EndBoot, TypeOK, SetPhase, BootFirst, CallersKept, Attended, Entries
  <1>4. /\ Cardinality(LockRuns') = Cardinality(LockRuns) - 1
        /\ Cardinality(PromotedRuns') = Cardinality(PromotedRuns)
    <2>1. phase \in [Entries -> Phases] /\ phase[Boot] = "holding"
      BY <1>0 DEF TypeOK
    <2> QED BY <2>1, <1>0, RunsMove, NoRuns
  <1>5. LockAccounted' /\ PromotedKeepLock'
    BY <1>0, <1>4, NoRuns
    DEF IInv, EndBoot, TypeOK, LockAccounted, PromotedKeepLock, Release, HandOver
  <1> QED BY <1>1, <1>2, <1>3, <1>5 DEF IInv

(* A call on an idle component: nothing is pending, running or handed over. *)
LEMMA EnqueueIdleStep ==
  ASSUME IInv, NEW c \in Calls, NEW k \in Keys, EnqueueIdle(c, k)
  PROVE  IInv'
  <1>0. /\ TypeOK /\ phase[c] = "new" /\ c \in Entries /\ "holding" \in Phases
        /\ SetPhase(c, "holding") /\ c # Boot /\ phase[Boot] # "new"
    BY CallsAssumption DEF IInv, EnqueueIdle, NewCall, Entries, Phases
  <1>1. TypeOK'
    BY <1>0 DEF EnqueueIdle, NewCall, TypeOK, SetPhase
  <1>2. NoDuplicates' /\ PendingExact'
    BY <1>0 DEF IInv, EnqueueIdle, NewCall, TypeOK, SetPhase, NoDuplicates, PendingExact
  <1>3. BootFirst' /\ CallersKept'
    BY <1>0, CallsAssumption
    DEF IInv, EnqueueIdle, NewCall, TypeOK, SetPhase, BootFirst, CallersKept, Attended, Entries
  <1>4. /\ Cardinality(LockRuns') = Cardinality(LockRuns) + 1
        /\ Cardinality(PromotedRuns') = Cardinality(PromotedRuns)
    <2>1. phase \in [Entries -> Phases] /\ phase[c] = "new"
      BY <1>0 DEF TypeOK
    <2> QED BY <2>1, <1>0, RunsMove, NoRuns
  <1>5. LockAccounted' /\ PromotedKeepLock'
    BY <1>0, <1>4, NoRuns
    DEF IInv, EnqueueIdle, NewCall, TypeOK, LockAccounted, PromotedKeepLock
  <1> QED BY <1>1, <1>2, <1>3, <1>5 DEF IInv

(* A merged call is settled by an entry that is still waiting.             *)
LEMMA EnqueueMergeStep ==
  ASSUME IInv, NEW c \in Calls, NEW k \in Keys, EnqueueMerge(c, k)
  PROVE  IInv'
  <1>0. /\ TypeOK /\ phase[c] = "new" /\ c \in Entries /\ "merged" \in Phases
        /\ SetPhase(c, "merged") /\ c # Boot /\ phase[Boot] # "new"
    BY CallsAssumption DEF IInv, EnqueueMerge, NewCall, Entries, Phases
  <1>a. /\ Last(pending) \in Calls /\ Last(pending) = pending[Len(pending)]
        /\ Len(pending) \in DOMAIN pending
    BY <1>0 DEF TypeOK, EnqueueMerge, CanMerge, Last
  <1>b. phase[Last(pending)] = "pending"
    BY <1>0, <1>a DEF IInv, PendingExact, Entries
  <1>1. TypeOK'
    BY <1>0, <1>a DEF EnqueueMerge, NewCall, TypeOK, SetPhase
  <1>2. NoDuplicates' /\ PendingExact'
    BY <1>0 DEF IInv, EnqueueMerge, NewCall, TypeOK, SetPhase, NoDuplicates, PendingExact
  <1>3. BootFirst' /\ CallersKept'
    BY <1>0, <1>a, <1>b, CallsAssumption
    DEF IInv, EnqueueMerge, NewCall, TypeOK, SetPhase, BootFirst, CallersKept, Attended, Entries
  <1>4. /\ Cardinality(LockRuns') = Cardinality(LockRuns)
        /\ Cardinality(PromotedRuns') = Cardinality(PromotedRuns)
    <2>1. phase \in [Entries -> Phases] /\ phase[c] = "new"
      BY <1>0 DEF TypeOK
    <2> QED BY <2>1, <1>0, RunsMove, NoRuns
  <1>5. LockAccounted' /\ PromotedKeepLock'
    BY <1>0, <1>4, NoRuns
    DEF IInv, EnqueueMerge, NewCall, TypeOK, LockAccounted, PromotedKeepLock
  <1> QED BY <1>1, <1>2, <1>3, <1>5 DEF IInv

(* A call that waits is appended once.                                     *)
LEMMA EnqueueWaitStep ==
  ASSUME IInv, NEW c \in Calls, NEW k \in Keys, EnqueueWait(c, k)
  PROVE  IInv'
  <1>0. /\ TypeOK /\ phase[c] = "new" /\ c \in Entries /\ "pending" \in Phases
        /\ SetPhase(c, "pending") /\ c # Boot /\ phase[Boot] # "new"
    BY CallsAssumption DEF IInv, EnqueueWait, NewCall, Entries, Phases
  <1>a. /\ pending' \in Seq(Calls) /\ Len(pending') = Len(pending) + 1
        /\ \A i \in 1 .. Len(pending) : pending'[i] = pending[i]
        /\ pending'[Len(pending) + 1] = c
    BY <1>0, AppendProperties DEF EnqueueWait, TypeOK
  <1>b. \A i \in DOMAIN pending : pending[i] # c
    BY <1>0 DEF IInv, PendingExact, Entries
  <1>1. TypeOK'
    BY <1>0, <1>a DEF EnqueueWait, NewCall, TypeOK, SetPhase
  <1>2. NoDuplicates' /\ PendingExact'
    <2>1. NoDuplicates'
      <3> SUFFICES ASSUME NEW i \in DOMAIN pending', NEW j \in DOMAIN pending',
                          pending'[i] = pending'[j]
                   PROVE  i = j
        BY DEF NoDuplicates
      <3>1. DOMAIN pending' = 1 .. (Len(pending) + 1) /\ DOMAIN pending = 1 .. Len(pending)
        BY <1>0, <1>a DEF TypeOK
      <3> QED BY <3>1, <1>0, <1>a, <1>b DEF IInv, TypeOK, NoDuplicates
    <2>2. ASSUME NEW e \in Entries, phase'[e] = "pending"
          PROVE  \E i \in DOMAIN pending' : pending'[i] = e
      <3>1. CASE e = c
        BY <3>1, <1>0, <1>a DEF TypeOK
      <3>2. CASE e # c
        <4>1. PICK i \in DOMAIN pending : pending[i] = e
          BY <3>2, <2>2, <1>0 DEF IInv, TypeOK, SetPhase, PendingExact
        <4> QED BY <4>1, <1>0, <1>a DEF TypeOK
      <3> QED BY <3>1, <3>2
    <2>3. ASSUME NEW e \in Entries, NEW i \in DOMAIN pending', pending'[i] = e
          PROVE  phase'[e] = "pending"
      <3>1. CASE i = Len(pending) + 1
        BY <3>1, <2>3, <1>0, <1>a DEF TypeOK, SetPhase
      <3>2. CASE i \in DOMAIN pending
        BY <3>2, <2>3, <1>0, <1>a, <1>b DEF IInv, TypeOK, SetPhase, PendingExact
      <3> QED BY <3>1, <3>2, <1>0, <1>a DEF TypeOK
    <2> QED BY <2>1, <2>2, <2>3 DEF PendingExact
  <1>3. BootFirst' /\ CallersKept'
    BY <1>0, CallsAssumption
    DEF IInv, EnqueueWait, NewCall, TypeOK, SetPhase, BootFirst, CallersKept, Attended, Entries
  <1>4. /\ Cardinality(LockRuns') = Cardinality(LockRuns)
        /\ Cardinality(PromotedRuns') = Cardinality(PromotedRuns)
    <2>1. phase \in [Entries -> Phases] /\ phase[c] = "new"
      BY <1>0 DEF TypeOK
    <2> QED BY <2>1, <1>0, RunsMove, NoRuns
  <1>5. LockAccounted' /\ PromotedKeepLock'
    BY <1>0, <1>4, NoRuns
    DEF IInv, EnqueueWait, NewCall, TypeOK, LockAccounted, PromotedKeepLock
  <1> QED BY <1>1, <1>2, <1>3, <1>5 DEF IInv

(* A promoted entry leaves the queue; the cycle it is nested in, or one it *)
(* is itself nested in, still owns the lock.                               *)
LEMMA PromoteStep ==
  ASSUME IInv, NEW i \in DOMAIN pending, Promote(i)
  PROVE  IInv'
  <1> DEFINE e == pending[i]
  <1>0. /\ TypeOK /\ e \in Calls /\ e \in Entries /\ "nested" \in Phases
        /\ SetPhase(e, "nested") /\ e # Boot /\ phase[e] = "pending"
    BY CallsAssumption DEF IInv, Promote, PendingExact, TypeOK, Entries, Phases
  <1>a. /\ pending' \in Seq(Calls) /\ Len(pending') = Len(pending) - 1
        /\ \A j \in DOMAIN pending' :
             pending'[j] = IF j < i THEN pending[j] ELSE pending[j + 1]
    BY <1>0, RemoveAtPositions DEF Promote, TypeOK
  <1>b. DOMAIN pending' = 1 .. (Len(pending) - 1) /\ DOMAIN pending = 1 .. Len(pending)
    BY <1>0, <1>a DEF TypeOK
  <1> HIDE DEF e
  <1>1. TypeOK'
    BY <1>0, <1>a DEF Promote, TypeOK, SetPhase
  <1>2. NoDuplicates' /\ PendingExact'
    <2>1. NoDuplicates'
      BY <1>0, <1>a, <1>b DEF IInv, NoDuplicates
    <2>2. ASSUME NEW f \in Entries, phase'[f] = "pending"
          PROVE  \E j \in DOMAIN pending' : pending'[j] = f
      <3>1. phase[f] = "pending" /\ f # e
        BY <2>2, <1>0 DEF TypeOK, SetPhase
      <3>2. PICK j \in DOMAIN pending : pending[j] = f
        BY <3>1 DEF IInv, PendingExact
      <3>3. j # i
        BY <3>1, <3>2 DEF e
      <3>4. CASE j < i
        BY <3>4, <3>2, <1>a, <1>b
      <3>5. CASE j > i
        <4>1. j - 1 \in DOMAIN pending' /\ pending'[j - 1] = pending[j]
          BY <3>5, <1>a, <1>b
        <4> QED BY <4>1, <3>2
      <3> QED BY <3>3, <3>4, <3>5, <1>b
    <2>3. ASSUME NEW f \in Entries, NEW j \in DOMAIN pending', pending'[j] = f
          PROVE  phase'[f] = "pending"
      <3>1. PICK l \in DOMAIN pending : l # i /\ pending[l] = f
        <4>1. CASE j < i
          BY <4>1, <2>3, <1>a, <1>b
        <4>2. CASE ~(j < i)
          <5>1. j + 1 \in DOMAIN pending /\ j + 1 # i /\ pending[j + 1] = f
            BY <4>2, <2>3, <1>a, <1>b
          <5> QED BY <5>1
        <4> QED BY <4>1, <4>2
      <3>2. f # e /\ phase[f] = "pending"
        BY <3>1 DEF IInv, NoDuplicates, PendingExact, e
      <3> QED BY <3>2, <1>0 DEF TypeOK, SetPhase
    <2> QED BY <2>1, <2>2, <2>3 DEF PendingExact
  <1>3. BootFirst' /\ CallersKept'
    BY <1>0, CallsAssumption
    DEF IInv, Promote, TypeOK, SetPhase, BootFirst, CallersKept, Attended, Entries
  <1>4. /\ Cardinality(LockRuns') = Cardinality(LockRuns)
        /\ Cardinality(PromotedRuns') = Cardinality(PromotedRuns) + 1
    <2>1. phase \in [Entries -> Phases] /\ phase[e] = "pending"
      BY <1>0 DEF TypeOK
    <2>2. Cardinality(LockRuns') = Cardinality(LockRuns)
      BY <2>1, <1>0, RunsMove, NoRuns
    <2>3. Cardinality(PromotedRuns') = Cardinality(PromotedRuns) + 1
      <3>1. Cardinality(PromotedRuns') = Cardinality(PromotedRuns)
              + (IF "nested" \in {"nested", "returning"} THEN 1 ELSE 0)
              - (IF phase[e] \in {"nested", "returning"} THEN 1 ELSE 0)
        BY <2>1, <1>0, RunsMove
      <3> QED BY <3>1, <2>1, NoRuns
    <2> QED BY <2>2, <2>3
  <1>5. LockRuns # {} \/ releaseDeferred
    <2>1. PICK f \in Executing : TRUE
      BY DEF Promote
    <2>2. CASE phase[f] = "holding"
      BY <2>1, <2>2 DEF Executing, LockRuns, InPhase
    <2>3. CASE phase[f] = "nested"
      <3>1. PromotedRuns # {}
        BY <2>1, <2>3 DEF Executing, PromotedRuns, InPhase
      <3> QED BY <3>1, NoRuns, <1>0 DEF IInv, PromotedKeepLock
    <2> QED BY <2>1, <2>2, <2>3 DEF Executing, InPhase
  <1>6. LockAccounted' /\ PromotedKeepLock'
    BY <1>0, <1>4, <1>5, NoRuns
    DEF IInv, Promote, TypeOK, LockAccounted, PromotedKeepLock
  <1> QED BY <1>1, <1>2, <1>3, <1>6 DEF IInv

(* An entry settles all its callers, and still counts as a run.            *)
LEMMA SettleStep ==
  ASSUME IInv, NEW e \in Calls, NEW r \in Results, Settle(e, r)
  PROVE  IInv'
  <1> DEFINE p == IF phase[e] = "holding" THEN "releasing" ELSE "returning"
  <1>0. /\ TypeOK /\ e \in Entries /\ e # Boot /\ p \in Phases /\ SetPhase(e, p)
        /\ phase[e] \in {"holding", "nested"}
    BY CallsAssumption DEF IInv, Settle, Entries, Phases
  <1>1. TypeOK'
    BY <1>0 DEF Settle, TypeOK, SetPhase
  <1>2. NoDuplicates' /\ PendingExact'
    BY <1>0 DEF IInv, Settle, TypeOK, SetPhase, NoDuplicates, PendingExact
  <1>3. BootFirst'
    BY <1>0, CallsAssumption DEF IInv, Settle, TypeOK, SetPhase, BootFirst, Entries
  <1>4. CallersKept'
    <2> SUFFICES ASSUME NEW c \in Calls
                 PROVE  /\ phase'[c] # "new" /\ outcome'[c] = "none"
                              => entryOf'[c] \in Calls /\ Attended(c)'
                        /\ phase'[c] = "new" => entryOf'[c] = NoCall
      BY DEF CallersKept
    <2>1. CASE entryOf[c] = e
      BY <2>1, <1>0 DEF IInv, Settle, TypeOK, SetPhase, CallersKept, Entries, Results
    <2>2. CASE entryOf[c] # e
      BY <2>2, <1>0 DEF IInv, Settle, TypeOK, SetPhase, CallersKept, Attended, Entries
    <2> QED BY <2>1, <2>2
  <1>5. CASE phase[e] = "holding"
    <2>1. /\ Cardinality(LockRuns') = Cardinality(LockRuns)
          /\ Cardinality(PromotedRuns') = Cardinality(PromotedRuns)
      <3>1. phase \in [Entries -> Phases] /\ phase[e] = "holding" /\ p = "releasing"
        BY <1>0, <1>5 DEF TypeOK
      <3> QED BY <3>1, <1>0, RunsMove, NoRuns
    <2> QED BY <2>1, <1>0, NoRuns, <1>1, <1>2, <1>3, <1>4
            DEF IInv, Settle, TypeOK, LockAccounted, PromotedKeepLock
  <1>6. CASE phase[e] = "nested"
    <2>1. /\ Cardinality(LockRuns') = Cardinality(LockRuns)
          /\ Cardinality(PromotedRuns') = Cardinality(PromotedRuns)
      <3>1. phase \in [Entries -> Phases] /\ phase[e] = "nested" /\ p = "returning"
        BY <1>0, <1>6 DEF TypeOK
      <3> QED BY <3>1, <1>0, RunsMove, NoRuns
    <2> QED BY <2>1, <1>0, NoRuns, <1>1, <1>2, <1>3, <1>4
            DEF IInv, Settle, TypeOK, LockAccounted, PromotedKeepLock
  <1> QED BY <1>0, <1>5, <1>6

(* The lock holder is done: as for boot.                                   *)
LEMMA ReleaseAfterRunStep ==
  ASSUME IInv, NEW e \in Calls, ReleaseAfterRun(e)
  PROVE  IInv'
  <1>0. /\ TypeOK /\ phase[e] = "releasing" /\ e \in Entries /\ "over" \in Phases
        /\ SetPhase(e, "over") /\ e # Boot
    BY CallsAssumption DEF IInv, ReleaseAfterRun, Entries, Phases
  <1>1. TypeOK'
    BY <1>0, ReleaseType DEF ReleaseAfterRun, TypeOK, SetPhase
  <1>2. NoDuplicates' /\ PendingExact'
    BY <1>0 DEF IInv, ReleaseAfterRun, TypeOK, SetPhase, NoDuplicates, PendingExact
  <1>3. BootFirst' /\ CallersKept'
    BY <1>0, CallsAssumption
    DEF IInv, ReleaseAfterRun, TypeOK, SetPhase, BootFirst, CallersKept, Attended, Entries
  <1>4. /\ Cardinality(LockRuns') = Cardinality(LockRuns) - 1
        /\ Cardinality(PromotedRuns') = Cardinality(PromotedRuns)
    <2>1. phase \in [Entries -> Phases] /\ phase[e] = "releasing"
      BY <1>0 DEF TypeOK
    <2> QED BY <2>1, <1>0, RunsMove, NoRuns
  <1>5. LockAccounted' /\ PromotedKeepLock'
    BY <1>0, <1>4, NoRuns
    DEF IInv, ReleaseAfterRun, TypeOK, LockAccounted, PromotedKeepLock, Release, HandOver
  <1> QED BY <1>1, <1>2, <1>3, <1>5 DEF IInv

(* A promoted entry is done; the last one hands over a deferred release.   *)
LEMMA ReturnFromPromotedStep ==
  ASSUME IInv, NEW e \in Calls, ReturnFromPromoted(e)
  PROVE  IInv'
  <1>0. /\ TypeOK /\ phase[e] = "returning" /\ e \in Entries /\ "over" \in Phases
        /\ SetPhase(e, "over") /\ e # Boot
    BY CallsAssumption DEF IInv, ReturnFromPromoted, Entries, Phases
  <1>a. promotedRunning > 0 /\ promotedRunning' = promotedRunning - 1
    <2>1. PromotedRuns # {}
      BY <1>0 DEF PromotedRuns, InPhase
    <2> QED BY <2>1, NoRuns, <1>0 DEF IInv, PromotedKeepLock, ReturnFromPromoted
  <1>1. TypeOK'
    <2>1. \/ busy' = FALSE /\ timers' = timers /\ releaseDeferred' = FALSE
          \/ busy' = busy /\ timers' = timers + 1 /\ releaseDeferred' = FALSE
          \/ busy' = busy /\ timers' = timers /\ releaseDeferred' = releaseDeferred
      BY Zenon DEF ReturnFromPromoted, HandOver
    <2>2. busy' \in BOOLEAN /\ timers' \in Nat /\ releaseDeferred' \in BOOLEAN
      <3>1. busy \in BOOLEAN /\ timers \in Nat /\ releaseDeferred \in BOOLEAN
        BY <1>0 DEF TypeOK
      <3>2. timers + 1 \in Nat
        BY <3>1
      <3> QED BY <2>1, <3>1, <3>2, Zenon
    <2>3. /\ promotedRunning' \in Nat
          /\ UNCHANGED <<booting, pending, key, entryOf, outcome>>
      BY <1>0, <1>a DEF TypeOK, ReturnFromPromoted
    <2> QED BY <2>2, <2>3, <1>0 DEF TypeOK, SetPhase
  <1>2. NoDuplicates' /\ PendingExact'
    BY <1>0 DEF IInv, ReturnFromPromoted, TypeOK, SetPhase, NoDuplicates, PendingExact
  <1>3. BootFirst' /\ CallersKept'
    BY <1>0, CallsAssumption
    DEF IInv, ReturnFromPromoted, TypeOK, SetPhase, BootFirst, CallersKept, Attended, Entries
  <1>4. /\ Cardinality(LockRuns') = Cardinality(LockRuns)
        /\ Cardinality(PromotedRuns') = Cardinality(PromotedRuns) - 1
    <2>1. phase \in [Entries -> Phases] /\ phase[e] = "returning"
      BY <1>0 DEF TypeOK
    <2>2. Cardinality(LockRuns') = Cardinality(LockRuns)
      BY <2>1, <1>0, RunsMove, NoRuns
    <2>3. Cardinality(PromotedRuns') = Cardinality(PromotedRuns) - 1
      BY <2>1, <1>0, RunsMove, NoRuns
    <2> QED BY <2>2, <2>3
  <1>5. LockAccounted' /\ PromotedKeepLock'
    BY <1>0, <1>a, <1>4, NoRuns
    DEF IInv, ReturnFromPromoted, TypeOK, LockAccounted, PromotedKeepLock, HandOver
  <1> QED BY <1>1, <1>2, <1>3, <1>5 DEF IInv

(* Nothing runs during the gap, so the next entry runs alone.              *)
LEMMA GapOverStep ==
  ASSUME IInv, GapOver
  PROVE  IInv'
  <1>0. TypeOK /\ timers = 1 /\ busy /\ ~releaseDeferred /\ LockRuns = {} /\ promotedRunning = 0
    BY NoRuns DEF IInv, TypeOK, GapOver, LockAccounted, PromotedKeepLock
  <1>1. CASE pending = <<>>
    <2>1. /\ busy' = FALSE /\ timers' = 0
          /\ UNCHANGED <<phase, pending, booting, promotedRunning, releaseDeferred,
                         key, entryOf, outcome>>
      BY <1>0, <1>1 DEF GapOver
    <2>2. TypeOK' /\ NoDuplicates' /\ PendingExact' /\ BootFirst' /\ CallersKept'
      <3>1. TypeOK'
        BY <2>1 DEF IInv, TypeOK
      <3>2. NoDuplicates' /\ PendingExact'
        BY <2>1 DEF IInv, NoDuplicates, PendingExact
      <3>3. BootFirst'
        BY <2>1 DEF IInv, BootFirst
      <3>4. CallersKept'
        BY <2>1 DEF IInv, CallersKept, Attended
      <3> QED BY <3>1, <3>2, <3>3, <3>4
    <2>3. LockRuns' = LockRuns /\ PromotedRuns' = PromotedRuns
      BY <2>1 DEF LockRuns, PromotedRuns, InPhase
    <2> QED BY <2>1, <2>2, <2>3, <1>0, NoRuns DEF IInv, LockAccounted, PromotedKeepLock
  <1>2. CASE pending # <<>>
    <2> DEFINE e == Head(pending)
    <2>0. /\ e \in Calls /\ e \in Entries /\ e # Boot /\ "holding" \in Phases
          /\ SetPhase(e, "holding") /\ e = pending[1] /\ 1 \in DOMAIN pending
      BY <1>0, <1>2, CallsAssumption DEF GapOver, TypeOK, Entries, Phases
    <2>a. /\ pending' \in Seq(Calls) /\ Len(pending') = Len(pending) - 1
          /\ DOMAIN pending' = 1 .. (Len(pending) - 1) /\ DOMAIN pending = 1 .. Len(pending)
          /\ \A i \in 1 .. (Len(pending) - 1) : pending'[i] = pending[i + 1]
      <3>1. pending \in Seq(Calls) /\ pending' = Tail(pending)
        BY <1>0, <1>2 DEF GapOver, TypeOK
      <3> QED BY <3>1, <1>2, HeadTailProperties
    <2>b. phase[e] = "pending"
      BY <2>0 DEF IInv, PendingExact
    <2>c. /\ busy' = TRUE /\ timers' = 0
          /\ UNCHANGED <<booting, promotedRunning, releaseDeferred, key, entryOf, outcome>>
      BY <1>0, <1>2 DEF GapOver
    <2> HIDE DEF e
    <2>1. TypeOK'
      BY <1>0, <2>0, <2>a, <2>c DEF TypeOK, SetPhase
    <2>2. NoDuplicates'
      <3> SUFFICES ASSUME NEW i \in DOMAIN pending', NEW j \in DOMAIN pending',
                          pending'[i] = pending'[j]
                   PROVE  i = j
        BY DEF NoDuplicates
      <3>1. i + 1 \in DOMAIN pending /\ j + 1 \in DOMAIN pending
            /\ pending[i + 1] = pending[j + 1]
        BY <2>a
      <3>2. i + 1 = j + 1
        BY <3>1 DEF IInv, NoDuplicates
      <3> QED BY <3>2, <2>a
    <2>3. PendingExact'
      <3>1. ASSUME NEW f \in Entries, phase'[f] = "pending"
            PROVE  \E j \in DOMAIN pending' : pending'[j] = f
        <4>1. phase[f] = "pending" /\ f # e
          BY <3>1, <1>0, <2>0 DEF TypeOK, SetPhase
        <4>2. PICK j \in DOMAIN pending : pending[j] = f
          BY <4>1 DEF IInv, PendingExact
        <4>3. j - 1 \in DOMAIN pending' /\ pending'[j - 1] = f
          BY <4>1, <4>2, <2>0, <2>a
        <4> QED BY <4>3
      <3>2. ASSUME NEW f \in Entries, NEW j \in DOMAIN pending', pending'[j] = f
            PROVE  phase'[f] = "pending"
        <4>1. j + 1 \in DOMAIN pending /\ pending[j + 1] = f /\ j + 1 # 1
          BY <3>2, <2>a
        <4>2. f # e /\ phase[f] = "pending"
          BY <4>1, <2>0 DEF IInv, NoDuplicates, PendingExact
        <4> QED BY <4>2, <1>0, <2>0 DEF TypeOK, SetPhase
      <3> QED BY <3>1, <3>2 DEF PendingExact
    <2>4. BootFirst' /\ CallersKept'
      BY <1>0, <2>0, <2>b, <2>c, CallsAssumption
      DEF IInv, TypeOK, SetPhase, BootFirst, CallersKept, Attended, Entries
    <2>5. /\ Cardinality(LockRuns') = Cardinality(LockRuns) + 1
          /\ Cardinality(PromotedRuns') = Cardinality(PromotedRuns)
      <3>1. phase \in [Entries -> Phases]
        BY <1>0 DEF TypeOK
      <3> QED BY <3>1, <2>0, <2>b, RunsMove, NoRuns
    <2>6. LockAccounted' /\ PromotedKeepLock'
      BY <1>0, <2>c, <2>5, NoRuns DEF IInv, LockAccounted, PromotedKeepLock
    <2> QED BY <2>1, <2>2, <2>3, <2>4, <2>6 DEF IInv
  <1> QED BY <1>1, <1>2

LEMMA StutterStep ==
  ASSUME IInv, UNCHANGED queueVars
  PROVE  IInv'
  <1>1. LockRuns' = LockRuns /\ PromotedRuns' = PromotedRuns
    BY DEF queueVars, LockRuns, PromotedRuns, InPhase
  <1> QED
    BY <1>1 DEF IInv, queueVars, TypeOK, NoDuplicates, PendingExact, BootFirst,
                CallersKept, Attended, LockAccounted, PromotedKeepLock

-----------------------------------------------------------------------------
LEMMA InitHolds ==
  ASSUME Init
  PROVE  IInv
  <1>1. LockRuns = {} /\ PromotedRuns = {}
    BY DEF Init, LockRuns, PromotedRuns, InPhase
  <1>2. TypeOK /\ NoDuplicates /\ PendingExact /\ BootFirst /\ CallersKept
    <2>1. TypeOK
      <3>1. phase \in [Entries -> Phases]
        BY DEF Init, Phases
      <3>2. /\ pending \in Seq(Calls) /\ key \in [Calls -> Keys \cup {NoCall}]
            /\ entryOf \in [Calls -> Calls \cup {NoCall}]
            /\ outcome \in [Calls -> Results \cup {"none"}]
        BY DEF Init
      <3> QED BY <3>1, <3>2 DEF Init, TypeOK
    <2>2. NoDuplicates /\ PendingExact
      BY DEF Init, NoDuplicates, PendingExact
    <2>3. BootFirst /\ CallersKept
      BY DEF Init, Entries, BootFirst, CallersKept
    <2> QED BY <2>1, <2>2, <2>3
  <1> QED BY <1>1, <1>2, NoRuns DEF IInv, Init, LockAccounted, PromotedKeepLock

(* The inductive invariant holds in every reachable state.                 *)
THEOREM Invariance == Spec => []IInv
  <1>1. IInv /\ [Next]_queueVars => IInv'
    BY BeginBootStep, EndBootStep, EnqueueIdleStep, EnqueueMergeStep, EnqueueWaitStep,
       PromoteStep, SettleStep, ReleaseAfterRunStep, ReturnFromPromotedStep,
       GapOverStep, StutterStep
    DEF Next, Enqueue
  <1> QED BY <1>1, InitHolds, PTL DEF Spec

(* Every variable of the queue keeps its type.                             *)
THEOREM TypeCorrect == Spec => []TypeOK
  BY Invariance, PTL DEF IInv

(* While the component is busy its lock has exactly one owner - one        *)
(* running entry, one armed macrotask or one deferred release - and none   *)
(* while it is idle: no two entries ever hold the lock, and no release is  *)
(* lost or made twice.  (component-queue.ts:32-36, 171-200)                *)
THEOREM LockHasOneOwner == Spec => []LockAccounted
  BY Invariance, PTL DEF IInv

(* While promoted entries run nothing queued can be handed the lock.       *)
(* (component-queue.ts:115-136)                                            *)
THEOREM LockKeptForPromoted == Spec => []PromotedKeepLock
  BY Invariance, PTL DEF IInv

(* No call is lost: _pending holds every waiting entry exactly once, and a *)
(* call that is not settled yet has an entry that is waiting or executing. *)
(* (component-queue.ts:85-136)                                             *)
THEOREM NoCallIsLost == Spec => []NoCallLost
  <1>1. IInv => NoCallLost
    <2> SUFFICES ASSUME IInv PROVE NoCallLost
      OBVIOUS
    <2>1. ToSet(pending) = InPhase({"pending"})
      BY DEF IInv, TypeOK, PendingExact, ToSet, InPhase, Entries
    <2> QED BY <2>1 DEF IInv, NoDuplicates, CallersKept, Attended, NoCallLost
  <1> QED BY <1>1, Invariance, PTL

-----------------------------------------------------------------------------
(* LifecycleQueue implements SerialCalls.  The mapping needs two facts     *)
(* more: a call that was made belongs to one entry that is not itself      *)
(* merged, and an idle queue holds nobody back.  (What is built on the     *)
(* queue also needs to know when a call is settled.)                       *)
Attributed ==
  \A c \in Calls : phase[c] # "new" =>
    /\ entryOf[c] \in Calls
    /\ phase[entryOf[c]] \notin {"new", "merged"}
    /\ phase[c] # "merged" => entryOf[c] = c

IdleIsEmpty == ~busy => pending = <<>>

(* A call is settled when the entry it belongs to has run, not before.     *)
SettledByEntry ==
  \A c \in Calls : outcome[c] # "none" =>
    phase[c] # "new" /\ phase[entryOf[c]] \in {"releasing", "returning", "over"}

RInv == IInv /\ Attributed /\ IdleIsEmpty /\ SettledByEntry

LEMMA AttributedStep ==
  ASSUME RInv, [Next]_queueVars
  PROVE  Attributed'
  <1>0. /\ phase \in [Entries -> Phases] /\ entryOf \in [Calls -> Calls \cup {NoCall}]
        /\ Calls \subseteq Entries /\ Boot \in Entries /\ Boot \notin Calls
        /\ pending \in Seq(Calls) /\ Attributed
    BY CallsAssumption DEF RInv, IInv, TypeOK, Entries
  <1>1. ASSUME NEW e \in Entries, NEW p \in Phases \ {"new", "merged"}, SetPhase(e, p),
               phase[e] \notin {"new", "merged"} \/ e = Boot, UNCHANGED entryOf
        PROVE  Attributed'
    BY <1>0, <1>1 DEF Attributed, SetPhase
  <1>2. CASE BeginBoot
    BY <1>0, <1>1, <1>2 DEF BeginBoot, Phases
  <1>3. CASE EndBoot
    BY <1>0, <1>1, <1>3 DEF EndBoot, Phases
  <1>4. ASSUME NEW i \in DOMAIN pending PROVE pending[i] \in Calls /\ phase[pending[i]] = "pending"
    BY <1>0, <1>4 DEF RInv, IInv, PendingExact
  <1>5. CASE GapOver
    <2>1. CASE pending = <<>>
      BY <1>0, <1>5, <2>1 DEF GapOver, Attributed
    <2>2. CASE pending # <<>>
      <3>1. 1 \in DOMAIN pending /\ Head(pending) = pending[1]
        BY <2>2, <1>0
      <3> QED BY <3>1, <1>0, <1>1, <1>4, <1>5, <2>2 DEF GapOver, Phases
    <2> QED BY <2>1, <2>2
  <1>6. ASSUME NEW c \in Calls, NEW k \in Keys, EnqueueIdle(c, k)
        PROVE  Attributed'
    BY <1>0, <1>6 DEF EnqueueIdle, NewCall, SetPhase, Attributed
  <1>7. ASSUME NEW c \in Calls, NEW k \in Keys, EnqueueMerge(c, k)
        PROVE  Attributed'
    <2>1. Last(pending) = pending[Len(pending)] /\ Len(pending) \in DOMAIN pending
      BY <1>0, <1>7 DEF EnqueueMerge, CanMerge, Last
    <2> QED BY <2>1, <1>0, <1>4, <1>7 DEF EnqueueMerge, NewCall, SetPhase, Attributed
  <1>8. ASSUME NEW c \in Calls, NEW k \in Keys, EnqueueWait(c, k)
        PROVE  Attributed'
    BY <1>0, <1>8 DEF EnqueueWait, NewCall, SetPhase, Attributed
  <1>9. ASSUME NEW i \in DOMAIN pending, Promote(i)
        PROVE  Attributed'
    BY <1>0, <1>1, <1>4, <1>9 DEF Promote, Phases
  <1>10. ASSUME NEW e \in Calls, NEW r \in Results, Settle(e, r)
         PROVE  Attributed'
    BY <1>0, <1>1, <1>10 DEF Settle, Phases
  <1>11. ASSUME NEW e \in Calls, ReleaseAfterRun(e) \/ ReturnFromPromoted(e)
         PROVE  Attributed'
    BY <1>0, <1>1, <1>11 DEF ReleaseAfterRun, ReturnFromPromoted, Phases
  <1>12. CASE UNCHANGED queueVars
    BY <1>0, <1>12 DEF queueVars, Attributed
  <1> QED
    BY <1>2, <1>3, <1>5, <1>6, <1>7, <1>8, <1>9, <1>10, <1>11, <1>12 DEF Next, Enqueue

LEMMA IdleIsEmptyStep ==
  ASSUME RInv, [Next]_queueVars
  PROVE  IdleIsEmpty'
  <1>0. busy \in BOOLEAN /\ pending \in Seq(Calls) /\ (~busy => pending = <<>>)
    BY DEF RInv, IInv, TypeOK, IdleIsEmpty
  <1>1. ASSUME Release, UNCHANGED pending PROVE IdleIsEmpty'
    BY <1>0, <1>1 DEF Release, HandOver, IdleIsEmpty
  <1>2. CASE BeginBoot
    BY <1>2 DEF BeginBoot, IdleIsEmpty
  <1>3. CASE EndBoot
    BY <1>1, <1>3 DEF EndBoot
  <1>4. CASE GapOver
    BY <1>4, <1>0 DEF GapOver, IdleIsEmpty
  <1>5. ASSUME NEW c \in Calls, NEW k \in Keys, Enqueue(c, k)
        PROVE  IdleIsEmpty'
    BY <1>5 DEF Enqueue, EnqueueIdle, EnqueueMerge, EnqueueWait, IdleIsEmpty
  <1>6. ASSUME NEW i \in DOMAIN pending, Promote(i)
        PROVE  IdleIsEmpty'
    BY <1>0, <1>6 DEF Promote, IdleIsEmpty
  <1>7. ASSUME NEW e \in Calls, NEW r \in Results, Settle(e, r)
        PROVE  IdleIsEmpty'
    BY <1>0, <1>7 DEF Settle, IdleIsEmpty
  <1>8. ASSUME NEW e \in Calls, ReleaseAfterRun(e)
        PROVE  IdleIsEmpty'
    BY <1>1, <1>8 DEF ReleaseAfterRun
  <1>9. ASSUME NEW e \in Calls, ReturnFromPromoted(e)
        PROVE  IdleIsEmpty'
    BY <1>0, <1>9 DEF ReturnFromPromoted, HandOver, IdleIsEmpty
  <1>10. CASE UNCHANGED queueVars
    BY <1>0, <1>10 DEF queueVars, IdleIsEmpty
  <1> QED
    BY <1>2, <1>3, <1>4, <1>5, <1>6, <1>7, <1>8, <1>9, <1>10 DEF Next

LEMMA SettledByEntryStep ==
  ASSUME RInv, [Next]_queueVars
  PROVE  SettledByEntry'
  <1>0. /\ phase \in [Entries -> Phases] /\ entryOf \in [Calls -> Calls \cup {NoCall}]
        /\ outcome \in [Calls -> Results \cup {"none"}]
        /\ Calls \subseteq Entries /\ Boot \in Entries /\ Boot \notin Calls
        /\ Attributed /\ SettledByEntry
    BY CallsAssumption DEF RInv, IInv, TypeOK, Entries
  <1>a. \A c \in Calls : phase[c] # "new" => entryOf[c] \in Calls
    BY <1>0 DEF Attributed
  <1>1. ASSUME NEW e \in Entries, NEW p \in Phases \ {"new"}, SetPhase(e, p),
               phase[e] \notin {"releasing", "returning", "over"} \/ p = "over",
               UNCHANGED outcome,
               \A c \in Calls : c # e => entryOf'[c] = entryOf[c],
               phase[e] # "new" => entryOf' = entryOf
        PROVE  SettledByEntry'
    BY <1>0, <1>1, <1>a DEF SettledByEntry, SetPhase
  <1>2. ASSUME NEW i \in DOMAIN pending PROVE pending[i] \in Calls /\ phase[pending[i]] = "pending"
    BY <1>0, <1>2 DEF RInv, IInv, TypeOK, PendingExact
  <1>3. CASE BeginBoot
    BY <1>0, <1>1, <1>3 DEF BeginBoot, Phases
  <1>4. CASE EndBoot
    BY <1>0, <1>1, <1>4 DEF EndBoot, Phases
  <1>5. CASE GapOver
    <2>1. CASE pending = <<>>
      BY <1>0, <1>5, <2>1 DEF GapOver, SettledByEntry
    <2>2. CASE pending # <<>>
      <3>1. 1 \in DOMAIN pending /\ Head(pending) = pending[1]
        BY <2>2 DEF RInv, IInv, TypeOK
      <3> QED BY <3>1, <1>0, <1>1, <1>2, <1>5, <2>2 DEF GapOver, Phases
    <2> QED BY <2>1, <2>2
  <1>6. ASSUME NEW c \in Calls, NEW k \in Keys, Enqueue(c, k)
        PROVE  SettledByEntry'
    BY <1>0, <1>1, <1>6
    DEF Enqueue, EnqueueIdle, EnqueueMerge, EnqueueWait, NewCall, Phases
  <1>7. ASSUME NEW i \in DOMAIN pending, Promote(i)
        PROVE  SettledByEntry'
    BY <1>0, <1>1, <1>2, <1>7 DEF Promote, Phases
  <1>8. ASSUME NEW e \in Calls, NEW r \in Results, Settle(e, r)
        PROVE  SettledByEntry'
    <2>1. /\ phase' = [phase EXCEPT ![e] = IF phase[e] = "holding" THEN "releasing" ELSE "returning"]
          /\ entryOf' = entryOf /\ phase[e] \in {"holding", "nested"}
          /\ outcome' = [c \in Calls |-> IF entryOf[c] = e THEN r ELSE outcome[c]]
      BY <1>8 DEF Settle, SetPhase
    <2>2. \A c \in Calls : entryOf[c] = e => phase[c] # "new"
      BY <1>0, CallsAssumption DEF RInv, IInv, CallersKept
    <2> SUFFICES ASSUME NEW c \in Calls, outcome'[c] # "none"
                 PROVE  phase'[c] # "new" /\ phase'[entryOf'[c]] \in {"releasing", "returning", "over"}
      BY DEF SettledByEntry
    <2>3. CASE entryOf[c] = e
      BY <2>1, <2>2, <2>3, <1>0
    <2>4. CASE entryOf[c] # e
      BY <2>1, <2>4, <1>0, <1>a DEF SettledByEntry
    <2> QED BY <2>3, <2>4
  <1>9. ASSUME NEW e \in Calls, ReleaseAfterRun(e) \/ ReturnFromPromoted(e)
        PROVE  SettledByEntry'
    BY <1>0, <1>1, <1>9 DEF ReleaseAfterRun, ReturnFromPromoted, Phases
  <1>10. CASE UNCHANGED queueVars
    BY <1>0, <1>10 DEF queueVars, SettledByEntry
  <1> QED
    BY <1>3, <1>4, <1>5, <1>6, <1>7, <1>8, <1>9, <1>10 DEF Next

(* Every call that was made belongs to an entry, which settles it.         *)
THEOREM CallsAttributed == Spec => []RInv
  <1>1. Init => Attributed /\ IdleIsEmpty /\ SettledByEntry
    BY CallsAssumption DEF Init, Attributed, IdleIsEmpty, SettledByEntry, Entries
  <1>2. RInv /\ [Next]_queueVars => Attributed' /\ IdleIsEmpty' /\ SettledByEntry'
    BY AttributedStep, IdleIsEmptyStep, SettledByEntryStep
  <1>3. IInv /\ Attributed /\ IdleIsEmpty /\ SettledByEntry <=> RInv
    BY DEF RInv
  <1> QED BY <1>1, <1>2, <1>3, Invariance, PTL DEF Spec

Waiting == [i \in DOMAIN pending |-> Batch(pending[i])]
Running == {Batch(e) : e \in Executing}
Asked == [c \in {d \in Calls : phase[d] # "new"} |-> key[c]]
Result == [c \in {d \in Calls : outcome[d] # "none"} |-> outcome[c]]

(* What each piece of the mapping depends on.                              *)
LEMMA WaitingFacts ==
  ASSUME IInv
  PROVE  /\ Waiting \in Seq({Batch(e) : e \in Calls}) /\ Len(Waiting) = Len(pending)
         /\ DOMAIN Waiting = DOMAIN pending
         /\ pending \in Seq(Calls) /\ DOMAIN pending = 1 .. Len(pending) /\ Len(pending) \in Nat
         /\ Waiting = <<>> <=> pending = <<>>
         /\ \A i \in DOMAIN pending :
              /\ Waiting[i] = Batch(pending[i])
              /\ pending[i] \in Calls /\ phase[pending[i]] = "pending"
  <1>1. pending \in Seq(Calls) /\ DOMAIN pending = 1 .. Len(pending) /\ Len(pending) \in Nat
    BY DEF IInv, TypeOK
  <1>2. \A i \in DOMAIN pending : pending[i] \in Calls /\ phase[pending[i]] = "pending"
    BY <1>1 DEF IInv, PendingExact, Entries
  <1>3. Waiting = [i \in 1 .. Len(pending) |-> Batch(pending[i])]
    BY <1>1 DEF Waiting
  <1>4. Waiting \in Seq({Batch(e) : e \in Calls}) /\ Len(Waiting) = Len(pending)
    <2> DEFINE B(i) == Batch(pending[i])
    <2>1. \A i \in 1 .. Len(pending) : B(i) \in {Batch(e) : e \in Calls}
      BY <1>1, <1>2
    <2> HIDE DEF B
    <2>2. [i \in 1 .. Len(pending) |-> B(i)] \in Seq({Batch(e) : e \in Calls})
      BY <1>1, <2>1
    <2>3. Len([i \in 1 .. Len(pending) |-> B(i)]) = Len(pending)
      BY <1>1
    <2> QED BY <2>2, <2>3, <1>3 DEF B
  <1>5. Waiting = <<>> <=> pending = <<>>
    BY <1>1, <1>4
  <1> QED BY <1>1, <1>2, <1>3, <1>4, <1>5

LEMMA SameBatches ==
  ASSUME UNCHANGED <<key, entryOf>>
  PROVE  \A e : Batch(e)' = Batch(e)
  BY DEF Batch, Callers

LEMMA RunningJoins ==
  ASSUME IInv, UNCHANGED <<key, entryOf>>, NEW e \in Entries, NEW p \in {"holding", "nested"},
         SetPhase(e, p)
  PROVE  Running' = Running \cup {Batch(e)}
  <1>1. Executing' = Executing \cup {e}
    BY DEF IInv, TypeOK, SetPhase, Executing, InPhase
  <1> QED BY <1>1, SameBatches DEF Running

LEMMA RunningSame ==
  ASSUME IInv, UNCHANGED <<key, entryOf>>, NEW e \in Entries, NEW p,
         SetPhase(e, p), phase[e] \notin {"holding", "nested"}, p \notin {"holding", "nested"}
  PROVE  Running' = Running
  <1>1. Executing' = Executing
    BY DEF IInv, TypeOK, SetPhase, Executing, InPhase
  <1> QED BY <1>1, SameBatches DEF Running

LEMMA BatchesDiffer ==
  ASSUME RInv, NEW e \in Executing, NEW f \in Executing, Batch(e) = Batch(f)
  PROVE  e = f
  <1>1. \A g \in Executing : g = Boot \/ (g \in Calls /\ g \in Callers(g))
    BY DEF RInv, Attributed, Executing, InPhase, Entries, Callers
  <1>2. \A g \in Executing : Batch(g).calls = IF g = Boot THEN {Boot} ELSE Callers(g)
    BY DEF Batch
  <1>3. \A g, h : g \in Callers(h) => g \in Calls /\ entryOf[g] = h
    BY DEF Callers
  <1> QED BY <1>1, <1>2, <1>3, CallsAssumption

LEMMA RunningLeaves ==
  ASSUME RInv, UNCHANGED <<key, entryOf>>, NEW e \in Executing, NEW p,
         SetPhase(e, p), p \notin {"holding", "nested"}
  PROVE  Running' = Running \ {Batch(e)}
  <1>1. Executing' = Executing \ {e}
    BY DEF RInv, IInv, TypeOK, SetPhase, Executing, InPhase
  <1> QED BY <1>1, SameBatches, BatchesDiffer DEF Running

LEMMA SameAsked ==
  ASSUME IInv, UNCHANGED key, NEW e \in Entries, NEW p, SetPhase(e, p), p # "new",
         phase[e] = "new" => e = Boot
  PROVE  Asked' = Asked
  <1>1. {d \in Calls : phase[d] # "new"}' = {d \in Calls : phase[d] # "new"}
    BY CallsAssumption DEF IInv, TypeOK, SetPhase
  <1> QED BY <1>1 DEF Asked

LEMMA SameResult ==
  ASSUME UNCHANGED outcome
  PROVE  Result' = Result
  BY DEF Result

LEMMA SameWaiting ==
  ASSUME UNCHANGED <<key, entryOf, pending>>
  PROVE  Waiting' = Waiting
  BY SameBatches DEF Waiting

LEMMA NothingRuns ==
  ASSUME IInv, LockRuns = {}, promotedRunning = 0
  PROVE  Executing = {} /\ Running = {}
  <1>1. PromotedRuns = {}
    BY NoRuns DEF IInv, PromotedKeepLock
  <1>2. Executing = {}
    BY <1>1 DEF Executing, LockRuns, PromotedRuns, InPhase
  <1> QED BY <1>2 DEF Running

-----------------------------------------------------------------------------
(* Each action of the queue is an action of SerialCalls or a stutter.      *)
LEMMA MappingIs ==
  Served!vars = <<Waiting, Running, Asked, Result>>
  BY DEF Served!vars, Waiting, Running, Asked, Result

LEMMA BeginBootServes ==
  ASSUME RInv, BeginBoot
  PROVE  Served!StartBoot
  <1>0. IInv /\ phase[Boot] = "new" /\ ~busy /\ Boot \in Entries
        /\ SetPhase(Boot, "holding") /\ UNCHANGED <<pending, key, entryOf, outcome>>
    BY DEF RInv, IInv, BootFirst, BeginBoot, Entries
  <1>1. Running = {}
    <2>1. LockRuns = {} /\ promotedRunning = 0
      BY <1>0, NoRuns DEF IInv, TypeOK, LockAccounted, PromotedKeepLock
    <2> QED BY <2>1, <1>0, NothingRuns
  <1>2. Running' = {Batch(Boot)} /\ Batch(Boot) = Served!BootBatch
    BY <1>0, <1>1, RunningJoins DEF Batch, Served!BootBatch
  <1>3. Waiting' = Waiting /\ Asked' = Asked /\ Result' = Result
    BY <1>0, SameWaiting, SameAsked, SameResult
  <1> QED BY <1>1, <1>2, <1>3 DEF Served!StartBoot, Waiting, Running, Asked, Result

LEMMA EndBootServes ==
  ASSUME RInv, EndBoot
  PROVE  \E b \in Running, r \in Results : Served!Finish(b, r)
  <1>0. IInv /\ Boot \in Executing /\ Boot \in Entries
        /\ SetPhase(Boot, "over") /\ UNCHANGED <<pending, key, entryOf, outcome>>
    BY DEF RInv, IInv, BootFirst, EndBoot, Entries, Executing, InPhase
  <1>1. Running' = Running \ {Batch(Boot)} /\ Batch(Boot) \in Running
    BY <1>0, RunningLeaves DEF Running
  <1>2. Waiting' = Waiting /\ Asked' = Asked /\ Result' = Result
    BY <1>0, SameWaiting, SameAsked, SameResult
  <1>3. Batch(Boot).calls = {Boot} /\ Boot \notin Calls /\ DOMAIN Result \subseteq Calls
    BY CallsAssumption DEF Batch, Result
  <1>4. Result' = [c \in DOMAIN Result \cup (Batch(Boot).calls \cap Calls) |->
                     IF c \in Batch(Boot).calls THEN "resolved" ELSE Result[c]]
    <2>1. DOMAIN Result \cup (Batch(Boot).calls \cap Calls) = DOMAIN Result
      BY <1>3
    <2>2. \A c \in DOMAIN Result : c \notin Batch(Boot).calls
      BY <1>3
    <2>3. Result = [c \in DOMAIN Result |-> Result[c]]
      BY DEF Result
    <2> QED BY <2>1, <2>2, <2>3, <1>2
  <1>5. Served!Finish(Batch(Boot), "resolved")
    BY <1>1, <1>2, <1>4 DEF Served!Finish, Waiting, Running, Asked, Result
  <1> QED BY <1>1, <1>5 DEF Results

LEMMA SettleServes ==
  ASSUME RInv, NEW e \in Calls, NEW r \in Results, Settle(e, r)
  PROVE  \E b \in Running, q \in Results : Served!Finish(b, q)
  <1> DEFINE p == IF phase[e] = "holding" THEN "releasing" ELSE "returning"
  <1>0. IInv /\ e \in Executing /\ e \in Entries /\ phase[e] # "new" /\ e # Boot
        /\ SetPhase(e, p) /\ UNCHANGED <<pending, key, entryOf>>
        /\ p \notin {"holding", "nested"} /\ p # "new"
    BY CallsAssumption DEF RInv, Settle, Entries, Executing, InPhase
  <1> HIDE DEF p
  <1>1. Running' = Running \ {Batch(e)} /\ Batch(e) \in Running
    BY <1>0, RunningLeaves DEF Running
  <1>2. Waiting' = Waiting /\ Asked' = Asked
    BY <1>0, SameWaiting, SameAsked
  <1>3. Batch(e).calls = Callers(e) /\ Callers(e) \subseteq Calls
        /\ \A c \in Calls : c \in Callers(e) <=> entryOf[c] = e
    BY <1>0 DEF Batch, Callers
  <1>4. outcome' = [c \in Calls |-> IF c \in Callers(e) THEN r ELSE outcome[c]]
    BY <1>3 DEF Settle
  <1>5. {d \in Calls : outcome[d] # "none"}' = {d \in Calls : outcome[d] # "none"} \cup Callers(e)
    BY <1>3, <1>4 DEF Results
  <1>6. Result' = [c \in DOMAIN Result \cup (Batch(e).calls \cap Calls) |->
                     IF c \in Batch(e).calls THEN r ELSE Result[c]]
    <2>1. DOMAIN Result = {d \in Calls : outcome[d] # "none"}
      BY DEF Result
    <2>2. DOMAIN Result \cup (Batch(e).calls \cap Calls) = {d \in Calls : outcome[d] # "none"}'
      BY <2>1, <1>3, <1>5
    <2>3. Result' = [c \in {d \in Calls : outcome[d] # "none"}' |-> outcome'[c]]
      BY DEF Result
    <2>4. \A c \in DOMAIN Result \cup (Batch(e).calls \cap Calls) :
            outcome'[c] = IF c \in Batch(e).calls THEN r ELSE Result[c]
      BY <1>3, <1>4 DEF Result
    <2> QED BY <2>2, <2>3, <2>4
  <1>7. Served!Finish(Batch(e), r)
    BY <1>1, <1>2, <1>6 DEF Served!Finish, Waiting, Running, Asked, Result
  <1> QED BY <1>1, <1>7

(* A new call is the only one whose key and entry change.                  *)
LEMMA NewCallFacts ==
  ASSUME RInv, NEW c \in Calls, NEW k \in Keys, NEW e \in Calls, NewCall(c, k, e),
         NEW p \in Phases \ {"new"}, SetPhase(c, p)
  PROVE  /\ Served!Submit(c, k)
         /\ \A f \in Entries : f # e /\ f # c => Batch(f)' = Batch(f)
         /\ c # e => Batch(e)' = [key |-> key[e], calls |-> Callers(e) \cup {c}]
         /\ Batch(c)' = [key |-> k, calls |-> IF c = e THEN {c} ELSE {}]
  <1>0. /\ IInv /\ phase[c] = "new" /\ entryOf[c] = NoCall /\ c # Boot /\ e # Boot
        /\ phase' = [phase EXCEPT ![c] = p]
        /\ key' = [key EXCEPT ![c] = k] /\ entryOf' = [entryOf EXCEPT ![c] = e]
        /\ phase \in [Entries -> Phases] /\ key \in [Calls -> Keys \cup {NoCall}]
        /\ entryOf \in [Calls -> Calls \cup {NoCall}] /\ Calls \subseteq Entries
        /\ NoCall \notin Entries
    BY CallsAssumption DEF RInv, IInv, NewCall, TypeOK, CallersKept, SetPhase, Entries
  <1>1. /\ c \notin DOMAIN Asked
        /\ Asked' = [d \in DOMAIN Asked \cup {c} |-> IF d = c THEN k ELSE Asked[d]]
    <2>1. {d \in Calls : phase[d] # "new"}' = {d \in Calls : phase[d] # "new"} \cup {c}
      BY <1>0
    <2>2. DOMAIN Asked = {d \in Calls : phase[d] # "new"}
      BY DEF Asked
    <2>3. \A d \in Calls : key'[d] = IF d = c THEN k ELSE key[d]
      BY <1>0
    <2>4. \A d \in DOMAIN Asked : Asked[d] = key[d]
      BY DEF Asked
    <2>5. Asked' = [d \in {d \in Calls : phase[d] # "new"}' |-> key'[d]]
      BY DEF Asked
    <2> QED BY <2>1, <2>2, <2>3, <2>4, <2>5, <1>0
  <1>2. Served!Submit(c, k)
    BY <1>1 DEF Served!Submit, Asked
  <1>3. \A f \in Entries : Callers(f)' = IF f = e THEN Callers(f) \cup {c} ELSE Callers(f)
    BY <1>0 DEF Callers
  <1>4. Callers(c) = {}
    BY <1>0 DEF Callers, RInv, Attributed, IInv, CallersKept
  <1>5. \A f \in Entries : f # e /\ f # c => Batch(f)' = Batch(f)
    BY <1>0, <1>3 DEF Batch, Entries
  <1>6. c # e => Batch(e)' = [key |-> key[e], calls |-> Callers(e) \cup {c}]
    BY <1>0, <1>3 DEF Batch
  <1>7. Batch(c)' = [key |-> k, calls |-> IF c = e THEN {c} ELSE {}]
    BY <1>0, <1>3, <1>4 DEF Batch
  <1> QED BY <1>2, <1>5, <1>6, <1>7

LEMMA EnqueueIdleServes ==
  ASSUME RInv, NEW c \in Calls, NEW k \in Keys, EnqueueIdle(c, k)
  PROVE  Served!SubmitAndRun(c, k)
  <1>0. /\ IInv /\ ~busy /\ pending = <<>> /\ NewCall(c, k, c) /\ SetPhase(c, "holding")
        /\ UNCHANGED <<pending, outcome>> /\ "holding" \in Phases \ {"new"}
        /\ phase \in [Entries -> Phases] /\ c \in Entries
    BY DEF RInv, IInv, TypeOK, EnqueueIdle, NewCall, IdleIsEmpty, Phases, Entries
  <1>1. Waiting = <<>> /\ Waiting' = <<>>
    BY <1>0 DEF Waiting
  <1>2. Executing = {} /\ Running = {}
    <2>1. LockRuns = {} /\ promotedRunning = 0
      BY <1>0, NoRuns DEF IInv, TypeOK, LockAccounted, PromotedKeepLock
    <2> QED BY <2>1, <1>0, NothingRuns
  <1>3. Executing' = {c}
    BY <1>0, <1>2 DEF Executing, InPhase, SetPhase
  <1>4. Served!Submit(c, k) /\ Batch(c)' = [key |-> k, calls |-> {c}]
    BY <1>0, NewCallFacts
  <1>5. Running' = {[key |-> k, calls |-> {c}]}
    BY <1>3, <1>4 DEF Running
  <1>6. Result' = Result
    BY <1>0, SameResult
  <1> QED
    BY <1>1, <1>2, <1>4, <1>5, <1>6
    DEF Served!SubmitAndRun, Waiting, Running, Result

(* The batches that wait or run other than the one a call joins.           *)
LEMMA RunningUntouched ==
  ASSUME IInv, NEW c \in Calls, phase[c] = "new", NEW p \in Phases \ {"new", "holding", "nested"},
         SetPhase(c, p), NEW e \in Calls, e \notin Executing,
         \A f \in Entries : f # e /\ f # c => Batch(f)' = Batch(f)
  PROVE  Running' = Running
  <1>1. Executing' = Executing /\ c \notin Executing /\ Executing \subseteq Entries
    BY DEF IInv, TypeOK, SetPhase, Executing, InPhase, Entries
  <1> QED BY <1>1 DEF Running

(* _pending after a step, batch by batch.                                  *)
LEMMA WaitingBecomes ==
  ASSUME NEW w, w = [i \in DOMAIN pending' |-> w[i]],
         \A i \in DOMAIN pending' : \A f : f = pending'[i] => Batch(f)' = w[i]
  PROVE  Waiting' = w
  <1>1. \A i \in DOMAIN pending' : Waiting'[i] = w[i]
    BY DEF Waiting, Batch, Callers
  <1>2. Waiting' = [i \in DOMAIN pending' |-> Waiting'[i]]
    BY DEF Waiting
  <1> QED BY <1>1, <1>2

LEMMA EnqueueMergeServes ==
  ASSUME RInv, NEW c \in Calls, NEW k \in Keys, EnqueueMerge(c, k)
  PROVE  Served!SubmitAndJoin(c, k)
  <1> DEFINE n == Len(pending)
  <1>0. /\ IInv /\ pending # <<>> /\ n \in DOMAIN pending /\ Last(pending) = pending[n]
        /\ phase[c] = "new" /\ UNCHANGED <<pending, outcome>>
        /\ SetPhase(c, "merged") /\ "merged" \in Phases \ {"new", "holding", "nested"}
    BY WaitingFacts DEF RInv, EnqueueMerge, CanMerge, NewCall, Phases, Last
  <1>b. PICK e \in Calls : e = pending[n] /\ phase[e] = "pending"
    BY <1>0, WaitingFacts
  <1>c. /\ e = Last(pending) /\ NewCall(c, k, e) /\ key[e] = k /\ e # c
        /\ e \in Entries /\ c \in Entries /\ Boot \notin Calls
    BY <1>0, <1>b, CallsAssumption DEF EnqueueMerge, CanMerge, Entries
  <1> HIDE DEF n
  <1>1. /\ Served!Submit(c, k)
        /\ \A f \in Entries : f # e /\ f # c => Batch(f)' = Batch(f)
        /\ Batch(e)' = [key |-> key[e], calls |-> Callers(e) \cup {c}]
    BY <1>0, <1>c, NewCallFacts
  <1>2. Batch(e) = [key |-> key[e], calls |-> Callers(e)]
    BY <1>c DEF Batch
  <1>3. /\ Waiting # <<>> /\ Len(Waiting) = n /\ Last(Waiting) = Batch(e)
        /\ Waiting[n] = Batch(e) /\ DOMAIN Waiting = DOMAIN pending
        /\ Waiting = [i \in DOMAIN pending |-> Waiting[i]]
    <2>1. Waiting[n] = Batch(pending[n])
      BY <1>0, WaitingFacts
    <2>2. Waiting[n] = Batch(e)
      BY <2>1, <1>b DEF Batch, Callers
    <2>3. Waiting = [i \in DOMAIN pending |-> Waiting[i]]
      BY DEF Waiting
    <2> QED BY <2>2, <2>3, <1>0, WaitingFacts DEF Last, n
  <1>4. Waiting' = [Waiting EXCEPT ![Len(Waiting)].calls = @ \cup {c}]
    <2> DEFINE w == [Waiting EXCEPT ![n] = [Batch(e) EXCEPT !.calls = @ \cup {c}]]
    <2>0. [Batch(e) EXCEPT !.calls = @ \cup {c}] = [key |-> key[e], calls |-> Callers(e) \cup {c}]
      BY <1>2
    <2>1. \A i \in DOMAIN pending : w[i] = IF i = n THEN Batch(e)' ELSE Waiting[i]
      BY <2>0, <1>1, <1>3, Zenon
    <2>2. ASSUME NEW i \in DOMAIN pending, NEW f, f = pending[i]
          PROVE  Batch(f)' = w[i]
      <3>1. CASE i = n
        BY <3>1, <2>1, <2>2, <1>b
      <3>2. CASE i # n
        <4>1. f \in Calls /\ phase[f] = "pending" /\ Waiting[i] = Batch(pending[i])
          BY <2>2, <1>0, WaitingFacts
        <4>2. f # e /\ f # c /\ f \in Entries
          BY <4>1, <3>2, <2>2, <1>0, <1>b DEF IInv, NoDuplicates, Entries
        <4>3. Waiting[i] = Batch(f)
          BY <4>1, <2>2 DEF Batch, Callers
        <4> QED BY <4>2, <4>3, <3>2, <2>1, <1>1
      <3> QED BY <3>1, <3>2
    <2>3. w = [i \in DOMAIN pending |-> w[i]]
      BY <1>3
    <2>4. w = [Waiting EXCEPT ![Len(Waiting)].calls = @ \cup {c}]
      BY <1>3
    <2> HIDE DEF w
    <2>5. DOMAIN pending' = DOMAIN pending /\ pending' = pending
      BY <1>0
    <2>6. Waiting' = w
      BY <2>2, <2>3, <2>5, WaitingBecomes
    <2> QED BY <2>4, <2>6
  <1>5. Running' = Running
    <2>1. e \notin Executing
      BY <1>b DEF Executing, InPhase
    <2> QED BY <2>1, <1>0, <1>1, RunningUntouched
  <1>6. Result' = Result
    BY <1>0, SameResult
  <1>7. Last(Waiting).key = k
    BY <1>3, <1>2, <1>c
  <1> QED
    BY <1>1, <1>3, <1>4, <1>5, <1>6, <1>7
    DEF Served!SubmitAndJoin, Served!Last, Last, Waiting, Running, Result

LEMMA EnqueueWaitServes ==
  ASSUME RInv, NEW c \in Calls, NEW k \in Keys, EnqueueWait(c, k)
  PROVE  Served!SubmitAndWait(c, k)
  <1> DEFINE n == Len(pending)
  <1>0. /\ IInv /\ ~CanMerge(k) /\ NewCall(c, k, c) /\ SetPhase(c, "pending")
        /\ phase[c] = "new" /\ pending' = Append(pending, c) /\ UNCHANGED outcome
        /\ "pending" \in Phases \ {"new", "holding", "nested"} /\ c \in Entries
        /\ c \notin Executing
    BY DEF RInv, EnqueueWait, NewCall, Phases, Entries, Executing, InPhase
  <1>1. /\ Served!Submit(c, k)
        /\ \A f \in Entries : f # c => Batch(f)' = Batch(f)
        /\ Batch(c)' = [key |-> k, calls |-> {c}]
    BY <1>0, NewCallFacts
  <1>2. Waiting # <<>> => Last(Waiting).key # k
    <2> SUFFICES ASSUME Waiting # <<>> PROVE Last(Waiting).key # k
      OBVIOUS
    <2>1. n \in DOMAIN pending /\ Last(pending) = pending[n] /\ Last(Waiting) = Waiting[n]
          /\ pending # <<>>
      BY <1>0, WaitingFacts DEF Last
    <2>2. Waiting[n] = Batch(pending[n]) /\ pending[n] \in Calls
      BY <2>1, <1>0, WaitingFacts
    <2>3. Batch(pending[n]).key = key[pending[n]]
      BY <2>2, CallsAssumption DEF Batch
    <2> QED BY <2>1, <2>2, <2>3, <1>0 DEF CanMerge
  <1>3. Waiting' = Append(Waiting, [key |-> k, calls |-> {c}])
    <2>1. /\ pending \in Seq(Calls) /\ n \in Nat /\ DOMAIN pending = 1 .. n
          /\ DOMAIN pending' = 1 .. (n + 1) /\ pending'[n + 1] = c
          /\ \A i \in 1 .. n : pending'[i] = pending[i]
      BY <1>0, WaitingFacts, AppendProperties
    <2>2. \A i \in 1 .. n : pending[i] \in Entries /\ pending[i] # c
      <3>1. \A i \in 1 .. n : pending[i] \in Calls /\ phase[pending[i]] = "pending"
        BY <1>0, <2>1, WaitingFacts
      <3> QED BY <3>1, <1>0 DEF Entries
    <2> DEFINE w == Append(Waiting, [key |-> k, calls |-> {c}])
    <2>3. /\ DOMAIN w = 1 .. (n + 1) /\ w = [i \in 1 .. (n + 1) |-> w[i]]
          /\ \A i \in 1 .. n : w[i] = Waiting[i]
          /\ w[n + 1] = [key |-> k, calls |-> {c}]
      <3>1. Waiting \in Seq({Batch(e) : e \in Calls}) /\ Len(Waiting) = n
        BY <1>0, WaitingFacts
      <3> QED BY <3>1, <2>1
    <2>4. ASSUME NEW i \in 1 .. (n + 1), NEW f, f = pending'[i]
          PROVE  Batch(f)' = w[i]
      <3>1. CASE i = n + 1
        BY <3>1, <2>4, <2>1, <2>3, <1>1
      <3>2. CASE i # n + 1
        <4>1. i \in 1 .. n /\ f = pending[i]
          BY <3>2, <2>4, <2>1
        <4>2. Waiting[i] = Batch(pending[i])
          BY <4>1, <2>1 DEF Waiting
        <4>3. Waiting[i] = Batch(f)
          BY <4>1, <4>2 DEF Batch, Callers
        <4> QED BY <4>1, <4>3, <2>2, <2>3, <1>1
      <3> QED BY <3>1, <3>2
    <2> HIDE DEF w
    <2>5. Waiting' = w
      BY <2>1, <2>3, <2>4, WaitingBecomes
    <2> QED BY <2>5 DEF w
  <1>4. Running' = Running
    BY <1>0, <1>1, RunningUntouched
  <1>5. Result' = Result
    BY <1>0, SameResult
  <1> QED
    BY <1>1, <1>2, <1>3, <1>4, <1>5
    DEF Served!SubmitAndWait, Served!Last, Last, Waiting, Running, Result

LEMMA PromoteServes ==
  ASSUME RInv, NEW i \in DOMAIN pending, Promote(i)
  PROVE  Served!RunNested(i) /\ i \in DOMAIN Waiting
  <1>0. /\ IInv /\ Executing # {} /\ pending' = RemoveAt(pending, i)
        /\ UNCHANGED <<key, entryOf, outcome>>
    BY DEF RInv, Promote
  <1>1. PICK e \in Calls : e = pending[i] /\ phase[e] = "pending"
    BY <1>0, WaitingFacts
  <1>2. SetPhase(e, "nested") /\ e \in Entries /\ e # Boot
    BY <1>1, CallsAssumption DEF Promote, Entries
  <1>3. Waiting[i] = Batch(e)
    <2>1. Waiting[i] = Batch(pending[i])
      BY <1>0, WaitingFacts
    <2> QED BY <2>1, <1>1 DEF Batch, Callers
  <1>4. Running # {} /\ Running' = Running \cup {Waiting[i]}
    BY <1>0, <1>2, <1>3, RunningJoins DEF Running
  <1>5. Waiting' = RemoveAt(Waiting, i)
    <2> DEFINE w == RemoveAt(Waiting, i)
               n == Len(pending)
               S == {Batch(f) : f \in Calls}
    <2>1. /\ pending \in Seq(Calls) /\ n \in Nat /\ DOMAIN pending = 1 .. n
          /\ Waiting \in Seq(S) /\ Len(Waiting) = n
          /\ DOMAIN Waiting = 1 .. n
      BY <1>0, WaitingFacts
    <2> HIDE DEF S
    <2>2. /\ pending' \in Seq(Calls) /\ Len(pending') = n - 1
          /\ \A j \in DOMAIN pending' :
               pending'[j] = IF j < i THEN pending[j] ELSE pending[j + 1]
      BY <1>0, <2>1, RemoveAtPositions
    <2>3. /\ w \in Seq(S) /\ Len(w) = n - 1
          /\ \A j \in DOMAIN w : w[j] = IF j < i THEN Waiting[j] ELSE Waiting[j + 1]
      BY <2>1, RemoveAtPositions
    <2> HIDE DEF w, n
    <2>4. /\ DOMAIN pending' = 1 .. (n - 1) /\ DOMAIN w = 1 .. (n - 1)
          /\ w = [j \in 1 .. (n - 1) |-> w[j]]
      BY <2>1, <2>2, <2>3
    <2>5. ASSUME NEW j \in 1 .. (n - 1), NEW f, f = pending'[j]
          PROVE  Batch(f)' = w[j]
      <3>1. PICK l \in 1 .. n : f = pending[l] /\ w[j] = Waiting[l]
        <4>1. CASE j < i
          BY <4>1, <2>1, <2>2, <2>3, <2>4, <2>5
        <4>2. CASE ~(j < i)
          <5>1. j + 1 \in 1 .. n
            BY <2>1
          <5> QED BY <5>1, <4>2, <2>2, <2>3, <2>4, <2>5
        <4> QED BY <4>1, <4>2
      <3>2. Waiting[l] = Batch(pending[l])
        BY <2>1 DEF Waiting
      <3>3. Waiting[l] = Batch(f)
        BY <3>1, <3>2 DEF Batch, Callers
      <3> QED BY <3>1, <3>3, <1>0, SameBatches
    <2>6. Waiting' = w
      BY <2>4, <2>5, WaitingBecomes
    <2> QED BY <2>6 DEF w
  <1>6. Asked' = Asked /\ Result' = Result
    BY <1>0, <1>1, <1>2, SameAsked, SameResult
  <1>7. i \in DOMAIN Waiting
    BY <1>0, WaitingFacts
  <1> QED
    BY <1>4, <1>5, <1>6, <1>7
    DEF Served!RunNested, Served!RemoveAt, RemoveAt, Waiting, Running, Asked, Result

(* Handing the lock on is invisible.                                       *)
LEMMA ReleaseServes ==
  ASSUME RInv, NEW e \in Calls, ReleaseAfterRun(e) \/ ReturnFromPromoted(e)
  PROVE  UNCHANGED Served!vars
  <1>1. /\ IInv /\ e \in Entries /\ SetPhase(e, "over") /\ e # Boot
        /\ phase[e] \in {"releasing", "returning"}
        /\ UNCHANGED <<pending, key, entryOf, outcome>>
    BY CallsAssumption DEF RInv, ReleaseAfterRun, ReturnFromPromoted, Entries
  <1>2. phase[e] \notin {"holding", "nested"} /\ phase[e] # "new"
    BY <1>1
  <1>3. Waiting' = Waiting /\ Running' = Running /\ Asked' = Asked /\ Result' = Result
    BY <1>1, <1>2, SameWaiting, RunningSame, SameAsked, SameResult
  <1> QED BY <1>3, MappingIs DEF Served!vars, Waiting, Running, Asked, Result

LEMMA GapOverServes ==
  ASSUME RInv, GapOver
  PROVE  Served!StartNext \/ UNCHANGED Served!vars
  <1>0. /\ IInv /\ LockRuns = {} /\ promotedRunning = 0
        /\ UNCHANGED <<key, entryOf, outcome>>
    BY NoRuns DEF RInv, IInv, TypeOK, GapOver, LockAccounted, PromotedKeepLock
  <1>1. Executing = {} /\ Running = {}
    BY <1>0, NothingRuns
  <1>2. CASE pending = <<>>
    <2>1. Waiting' = Waiting /\ Running' = Running /\ Asked' = Asked /\ Result' = Result
      <3>1. UNCHANGED <<phase, pending, key, entryOf, outcome>>
        BY <1>0, <1>2 DEF GapOver
      <3> QED BY <3>1, SameWaiting, SameBatches DEF Running, Executing, InPhase, Asked, Result
    <2> QED BY <2>1 DEF Served!vars, Waiting, Running, Asked, Result
  <1>3. CASE pending # <<>>
    <2>1. 1 \in DOMAIN pending /\ Head(pending) = pending[1] /\ pending' = Tail(pending)
      BY <1>0, <1>3, WaitingFacts DEF GapOver
    <2>2. PICK e \in Calls : e = pending[1] /\ phase[e] = "pending"
      BY <1>0, <2>1, WaitingFacts
    <2>3. SetPhase(e, "holding") /\ e \in Entries /\ e # Boot
      BY <2>1, <2>2, <1>3, CallsAssumption DEF GapOver, Entries
    <2>4. Waiting # <<>> /\ Head(Waiting) = Batch(e)
      <3>1. Waiting[1] = Batch(pending[1])
        BY <1>0, <2>1, WaitingFacts
      <3>2. Waiting[1] = Batch(e)
        BY <3>1, <2>2 DEF Batch, Callers
      <3> QED BY <3>2, <1>0, <1>3, WaitingFacts
    <2>5. Running' = {Head(Waiting)}
      BY <1>0, <1>1, <2>3, <2>4, RunningJoins
    <2>6. Waiting' = Tail(Waiting)
      <3> DEFINE w == Tail(Waiting)
                 n == Len(pending)
                 S == {Batch(f) : f \in Calls}
      <3>1. /\ pending \in Seq(Calls) /\ n \in Nat /\ DOMAIN pending = 1 .. n
            /\ Waiting \in Seq(S) /\ Len(Waiting) = n
        BY <1>0, WaitingFacts
      <3> HIDE DEF S
      <3>2. /\ DOMAIN pending' = 1 .. (n - 1)
            /\ \A i \in 1 .. (n - 1) : pending'[i] = pending[i + 1]
        BY <3>1, <2>1, <1>3, HeadTailProperties
      <3>3. /\ DOMAIN w = 1 .. (n - 1) /\ w = [i \in 1 .. (n - 1) |-> w[i]]
            /\ \A i \in 1 .. (n - 1) : w[i] = Waiting[i + 1]
        <4>1. /\ w \in Seq(S) /\ Len(w) = n - 1
              /\ \A i \in 1 .. Len(w) : w[i] = Waiting[i + 1]
          BY <3>1, <2>4, HeadTailProperties
        <4> HIDE DEF w
        <4> QED BY <4>1, <3>1
      <3> HIDE DEF w, n
      <3>4. ASSUME NEW i \in 1 .. (n - 1), NEW f, f = pending'[i]
            PROVE  Batch(f)' = w[i]
        <4>1. i + 1 \in DOMAIN pending /\ f = pending[i + 1] /\ w[i] = Waiting[i + 1]
          BY <3>1, <3>2, <3>3, <3>4
        <4>2. Waiting[i + 1] = Batch(pending[i + 1])
          BY <4>1 DEF Waiting
        <4>3. Waiting[i + 1] = Batch(f)
          BY <4>1, <4>2 DEF Batch, Callers
        <4> QED BY <4>1, <4>3, <1>0, SameBatches
      <3>5. Waiting' = w
        BY <3>2, <3>3, <3>4, WaitingBecomes
      <3> QED BY <3>5 DEF w
    <2>7. Asked' = Asked /\ Result' = Result
      BY <1>0, <2>2, <2>3, SameAsked, SameResult
    <2> QED
      BY <1>1, <2>4, <2>5, <2>6, <2>7
      DEF Served!StartNext, Waiting, Running, Asked, Result
  <1> QED BY <1>2, <1>3

(* The queue keeps the promise SerialCalls makes its callers: batches of   *)
(* identical calls made back to back, served in call order, one at a time  *)
(* except for a batch that a running cycle itself waits for, every caller  *)
(* told the result of its own batch.  (component-queue.ts:72-200)          *)
THEOREM QueueServesCallsInOrder == Spec => ServedSpec
  <1>1. Init => Served!Init
    BY CallsAssumption DEF Init, Served!Init, Executing, InPhase, Batch, Entries
  <1>2. RInv /\ [Next]_queueVars => [Served!Next]_Served!vars
    <2> SUFFICES ASSUME RInv, [Next]_queueVars
                 PROVE  Served!Next \/ UNCHANGED Served!vars
      BY DEF Served!Next
    <2>1. CASE BeginBoot
      BY <2>1, BeginBootServes DEF Served!Next
    <2>2. CASE EndBoot
      BY <2>2, EndBootServes DEF Served!Next, Running
    <2>3. CASE GapOver
      BY <2>3, GapOverServes DEF Served!Next
    <2>4. ASSUME NEW c \in Calls, NEW k \in Keys, Enqueue(c, k)
          PROVE  Served!Next
      BY <2>4, EnqueueIdleServes, EnqueueMergeServes, EnqueueWaitServes
      DEF Enqueue, Served!Next
    <2>5. ASSUME NEW i \in DOMAIN pending, Promote(i)
          PROVE  Served!Next
      BY <2>5, PromoteServes DEF Served!Next, Waiting
    <2>6. ASSUME NEW e \in Calls, NEW r \in Results, Settle(e, r)
          PROVE  Served!Next
      BY <2>6, SettleServes DEF Served!Next, Running
    <2>7. ASSUME NEW e \in Calls, ReleaseAfterRun(e) \/ ReturnFromPromoted(e)
          PROVE  UNCHANGED Served!vars
      BY <2>7, ReleaseServes
    <2>8. CASE UNCHANGED queueVars
      BY <2>8 DEF queueVars, Served!vars, Batch, Callers, Executing, InPhase
    <2> QED BY <2>1, <2>2, <2>3, <2>4, <2>5, <2>6, <2>7, <2>8 DEF Next
  <1> QED BY <1>1, <1>2, CallsAttributed, PTL DEF Spec, ServedSpec, Served!Spec
=============================================================================
