--------------------------- MODULE LifecycleQueue ---------------------------
(***************************************************************************)
(* Component_Queue (packages/core/src/component-queue.ts): the lifecycle   *)
(* lock of one component and the queue in front of it.                     *)
(*                                                                         *)
(* An entry is named after the call that created it: entryOf[c] = c for    *)
(* that call, and a merged call c has entryOf[c] = the entry it joined.    *)
(* Boot is the first entry and has no callers.                             *)
(*                                                                         *)
(* The code is single-threaded, so one action is one uninterrupted turn:   *)
(* between any two of them (an await, a .then() reaction, the setTimeout   *)
(* of _release()) any other code may run and call into the queue.  What an *)
(* executor does is left open here (ComponentCycles models it): it takes   *)
(* an arbitrary number of turns and then returns or throws.                *)
(***************************************************************************)
EXTENDS Naturals, Sequences, SequencesExt, FiniteSets

CONSTANTS Calls,      \* the render()/load()/reload()/refresh() calls made
          Keys,       \* method plus arguments, Queue_Entry.key
          Boot,       \* the boot cycle as an entry
          NoCall      \* "no entry" / "no key"

ASSUME CallsAssumption ==
  /\ IsFiniteSet(Calls)
  /\ Boot \notin Calls
  /\ NoCall \notin Calls \cup Keys \cup {Boot}
  /\ Boot \notin Keys

Entries == Calls \cup {Boot}
Results == {"resolved", "rejected"}

VARIABLES
  busy,             \* _busy
  booting,          \* _booting
  pending,          \* _pending: the entries waiting, in call order
  promotedRunning,  \* _promoted_running
  releaseDeferred,  \* _release_deferred
  timers,           \* macrotasks _release() has armed and that have not fired
  phase,            \* where each entry is, see Phases
  key,              \* the key each call was made with
  entryOf,          \* the entry whose result settles each call
  outcome           \* how each call was settled

queueVars == <<busy, booting, pending, promotedRunning, releaseDeferred, timers,
               phase, key, entryOf, outcome>>

(* new -> [merged] | [pending ->] holding -> releasing -> over             *)
(*                    pending ->  nested -> returning -> over              *)
(* releasing/returning: the callers are settled, the .then() that releases *)
(* the lock / counts the promoted entry out is queued as a microtask.      *)
Phases == {"new", "merged", "pending", "holding", "releasing", "nested",
           "returning", "over"}

TypeOK ==
  /\ busy \in BOOLEAN
  /\ booting \in BOOLEAN
  /\ pending \in Seq(Calls)
  /\ promotedRunning \in Nat
  /\ releaseDeferred \in BOOLEAN
  /\ timers \in Nat
  /\ phase \in [Entries -> Phases]
  /\ key \in [Calls -> Keys \cup {NoCall}]
  /\ entryOf \in [Calls -> Calls \cup {NoCall}]
  /\ outcome \in [Calls -> Results \cup {"none"}]

Init ==
  /\ busy = FALSE
  /\ booting = FALSE
  /\ pending = <<>>
  /\ promotedRunning = 0
  /\ releaseDeferred = FALSE
  /\ timers = 0
  /\ phase = [e \in Entries |-> "new"]
  /\ key = [c \in Calls |-> NoCall]
  /\ entryOf = [c \in Calls |-> NoCall]
  /\ outcome = [c \in Calls |-> "none"]

-----------------------------------------------------------------------------
Callers(e) == {c \in Calls : entryOf[c] = e}
InPhase(S) == {e \in Entries : phase[e] \in S}
LockRuns == InPhase({"holding", "releasing"})
PromotedRuns == InPhase({"nested", "returning"})
Executing == InPhase({"holding", "nested"})

SetPhase(e, p) == phase' = [phase EXCEPT ![e] = p]

(* _release(): leave it to the last promoted entry still running, go idle, *)
(* or hand the lock over after a macrotask                                 *)
HandOver ==
  IF pending = <<>>
  THEN busy' = FALSE /\ UNCHANGED timers
  ELSE timers' = timers + 1 /\ UNCHANGED busy

ReleaseUndeferred == HandOver /\ UNCHANGED releaseDeferred   \* faulty variant

Release ==
  IF promotedRunning > 0
  THEN releaseDeferred' = TRUE /\ UNCHANGED <<busy, timers>>
  ELSE HandOver /\ UNCHANGED releaseDeferred

-----------------------------------------------------------------------------
(* begin_boot(), reached once, in the turn that constructs the component *)
BeginBoot ==
  /\ phase[Boot] = "new"
  /\ busy' = TRUE
  /\ booting' = TRUE
  /\ SetPhase(Boot, "holding")
  /\ UNCHANGED <<pending, promotedRunning, releaseDeferred, timers, key,
                 entryOf, outcome>>

EndBootUnguarded ==                                          \* faulty variant
  /\ phase[Boot] = "holding"
  /\ booting' = FALSE
  /\ Release
  /\ UNCHANGED <<pending, promotedRunning, phase, key, entryOf, outcome>>

(* end_boot(): boot settles nobody and releases in the same turn *)
EndBoot ==
  /\ booting
  /\ booting' = FALSE
  /\ SetPhase(Boot, "over")
  /\ Release
  /\ UNCHANGED <<pending, promotedRunning, key, entryOf, outcome>>

NewCall(c, k, e) ==
  /\ phase[Boot] # "new"
  /\ phase[c] = "new"
  /\ key' = [key EXCEPT ![c] = k]
  /\ entryOf' = [entryOf EXCEPT ![c] = e]
  /\ UNCHANGED <<booting, promotedRunning, releaseDeferred, timers, outcome>>

CanMergeAnyKey(k) == pending # <<>>                          \* faulty variant

CanMerge(k) == pending # <<>> /\ key[Last(pending)] = k

(* enqueue() on an idle component: _run() at once *)
EnqueueIdle(c, k) ==
  /\ ~busy
  /\ NewCall(c, k, c)
  /\ busy' = TRUE
  /\ SetPhase(c, "holding")
  /\ UNCHANGED pending

(* enqueue() of a call identical to the last pending entry *)
EnqueueMerge(c, k) ==
  /\ busy
  /\ CanMerge(k)
  /\ NewCall(c, k, Last(pending))
  /\ SetPhase(c, "merged")
  /\ UNCHANGED <<busy, pending>>

(* enqueue() of any other call on a busy component *)
EnqueueWait(c, k) ==
  /\ busy
  /\ ~CanMerge(k)
  /\ NewCall(c, k, c)
  /\ pending' = Append(pending, c)
  /\ SetPhase(c, "pending")
  /\ UNCHANGED busy

PromoteKeepsPending(i) ==                                    \* faulty variant
  /\ Executing # {}
  /\ promotedRunning' = promotedRunning + 1
  /\ SetPhase(pending[i], "nested")
  /\ UNCHANGED <<busy, booting, pending, releaseDeferred, timers, key, entryOf,
                 outcome>>

PromoteUncounted(i) ==                                       \* faulty variant
  /\ Executing # {}
  /\ pending' = RemoveAt(pending, i)
  /\ SetPhase(pending[i], "nested")
  /\ UNCHANGED <<busy, booting, promotedRunning, releaseDeferred, timers, key,
                 entryOf, outcome>>

(* promote(pending[i]): only reached from a Lifecycle_Call_Promise whose   *)
(* on_ready() has not settled, so some entry is executing                  *)
Promote(i) ==
  /\ Executing # {}
  /\ pending' = RemoveAt(pending, i)
  /\ promotedRunning' = promotedRunning + 1
  /\ SetPhase(pending[i], "nested")
  /\ UNCHANGED <<busy, booting, releaseDeferred, timers, key, entryOf, outcome>>

(* The executor of e returned or threw: _execute() settles every caller *)
Settle(e, r) ==
  /\ phase[e] \in {"holding", "nested"}
  /\ outcome' = [c \in Calls |-> IF entryOf[c] = e THEN r ELSE outcome[c]]
  /\ SetPhase(e, IF phase[e] = "holding" THEN "releasing" ELSE "returning")
  /\ UNCHANGED <<busy, booting, pending, promotedRunning, releaseDeferred,
                 timers, key, entryOf>>

(* _run(): the reaction to _execute(entry) releases the lock *)
ReleaseAfterRun(e) ==
  /\ phase[e] = "releasing"
  /\ SetPhase(e, "over")
  /\ Release
  /\ UNCHANGED <<booting, pending, promotedRunning, key, entryOf, outcome>>

ReturnWithoutRelease(e) ==                                   \* faulty variant
  /\ phase[e] = "returning"
  /\ SetPhase(e, "over")
  /\ promotedRunning' = promotedRunning - 1
  /\ UNCHANGED <<busy, booting, pending, releaseDeferred, timers, key, entryOf,
                 outcome>>

(* promote(): the reaction to _execute(entry) counts it out, and makes the *)
(* release the lock holder left to the last promoted entry                 *)
ReturnFromPromoted(e) ==
  /\ phase[e] = "returning"
  /\ SetPhase(e, "over")
  /\ promotedRunning' = promotedRunning - 1
  /\ IF promotedRunning' = 0 /\ releaseDeferred
     THEN releaseDeferred' = FALSE /\ HandOver
     ELSE UNCHANGED <<busy, releaseDeferred, timers>>
  /\ UNCHANGED <<booting, pending, key, entryOf, outcome>>

(* the macrotask of _release(): start the next pending entry, or go idle   *)
(* when it was promoted meanwhile (which takes an on_ready() that runs     *)
(* without an entry: LockAccounted rules it out)                           *)
GapOver ==
  /\ timers > 0
  /\ timers' = timers - 1
  /\ IF pending # <<>>
     THEN /\ busy' = TRUE
          /\ SetPhase(Head(pending), "holding")
          /\ pending' = Tail(pending)
     ELSE busy' = FALSE /\ UNCHANGED <<phase, pending>>
  /\ UNCHANGED <<booting, promotedRunning, releaseDeferred, key, entryOf, outcome>>

-----------------------------------------------------------------------------
Enqueue(c, k) == EnqueueIdle(c, k) \/ EnqueueMerge(c, k) \/ EnqueueWait(c, k)

Next ==
  \/ BeginBoot \/ EndBoot \/ GapOver
  \/ \E c \in Calls, k \in Keys : Enqueue(c, k)
  \/ \E i \in DOMAIN pending : Promote(i)
  \/ \E e \in Calls :
        \/ \E r \in Results : Settle(e, r)
        \/ ReleaseAfterRun(e) \/ ReturnFromPromoted(e)

Spec == Init /\ [][Next]_queueVars

(* The event loop runs every reaction and timer it holds.  That executors  *)
(* come to an end is an assumption of this module: ComponentCycles looks   *)
(* at what they wait for.                                                  *)
Fairness ==
  /\ WF_queueVars(BeginBoot) /\ WF_queueVars(EndBoot) /\ WF_queueVars(GapOver)
  /\ \A e \in Calls :
        /\ WF_queueVars(\E r \in Results : Settle(e, r))
        /\ WF_queueVars(ReleaseAfterRun(e))
        /\ WF_queueVars(ReturnFromPromoted(e))

FairSpec == Spec /\ Fairness

-----------------------------------------------------------------------------
(* The lock has exactly one owner while the component is busy: a running   *)
(* entry (until its release reaction has run), the macrotask that hands    *)
(* the lock over, or the promoted entries a finished holder left it to.    *)
(* An idle component has none.  (_busy, component-queue.ts:32-36)          *)
LockAccounted ==
  Cardinality(LockRuns) + timers + (IF releaseDeferred THEN 1 ELSE 0)
    = IF busy THEN 1 ELSE 0

(* While a promoted entry runs, the cycle it is nested in holds the lock,  *)
(* or has left the release to it: nothing queued can be handed the lock    *)
(* alongside it.  (promote(), _release(), component-queue.ts:115-136)      *)
PromotedKeepLock ==
  /\ promotedRunning = Cardinality(PromotedRuns)
  /\ promotedRunning > 0 => LockRuns # {} \/ releaseDeferred
  /\ releaseDeferred => promotedRunning > 0

(* _pending holds each waiting entry once, and every call that was made    *)
(* and is not settled belongs to an entry that is waiting or running: no   *)
(* merge, promotion or release loses a caller.                             *)
NoCallLost ==
  /\ \A i, j \in DOMAIN pending : pending[i] = pending[j] => i = j
  /\ ToSet(pending) = InPhase({"pending"})
  /\ \A c \in Calls :
       phase[c] # "new" /\ outcome[c] = "none"
         => phase[entryOf[c]] \in {"pending", "holding", "nested"}

(* The queue serves the calls as SerialCalls promises.                     *)
Batch(e) == [key |-> IF e = Boot THEN Boot ELSE key[e],
             calls |-> IF e = Boot THEN {Boot} ELSE Callers(e)]

Served == INSTANCE SerialCalls WITH
            waiting <- [i \in DOMAIN pending |-> Batch(pending[i])],
            running <- {Batch(e) : e \in Executing},
            asked <- [c \in {d \in Calls : phase[d] # "new"} |-> key[c]],
            result <- [c \in {d \in Calls : outcome[d] # "none"} |-> outcome[c]]

ServedSpec == Served!Spec

(* If executors end, every call is settled.                                *)
EveryCallSettles ==
  \A c \in Calls : phase[c] # "new" ~> outcome[c] # "none"
=============================================================================
