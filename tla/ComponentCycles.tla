--------------------------- MODULE ComponentCycles ---------------------------
(***************************************************************************)
(* The cycles of one component (packages/core/src/component.ts and         *)
(* lifecycle-manager.ts) on top of its lifecycle queue: boot, render(),    *)
(* load() and reload(), the hooks each of them runs, the calls made from   *)
(* on_ready(), the load sequence number, the ready state and the sticky    *)
(* 'ready' event, and stop().                                              *)
(*                                                                         *)
(* LifecycleQueue leaves open what an entry's executor does; here it is a  *)
(* sequence of stages.  Every action that touches the queue is an action   *)
(* of LifecycleQueue with what the component does in the same turn, so     *)
(* this module implements Q!Spec.                                          *)
(*                                                                         *)
(* The component overrides on_load(), is attached, has no load gate and no *)
(* cached data; what its children do is left open.                         *)
(***************************************************************************)
EXTENDS Naturals, Sequences, SequencesExt, FiniteSets

CONSTANTS Calls, Boot, NoCall,
          Keys,         \* the methods called: a subset of Methods
          NoRun,        \* no hook run: null
          Failing,      \* the entries whose hooks may throw: methods, or Boot
          MaxAwait      \* calls one on_ready() awaits at the same time

Methods == {"render", "load", "reload"}

ASSUME MethodsAssumption == Keys \subseteq Methods /\ MaxAwait \in Nat

VARIABLES busy, booting, pending, promotedRunning, releaseDeferred, timers,
          phase, key, entryOf, outcome

queueVars == <<busy, booting, pending, promotedRunning, releaseDeferred, timers,
               phase, key, entryOf, outcome>>

Q == INSTANCE LifecycleQueue

VARIABLES
  stage,         \* where each entry's executor is, see Stages
  asyncHook,     \* _async_hook
  previous,      \* Hook_Run.previous
  owner,         \* the on_ready() run that a call's .then() looks at, if any
  awaited,       \* the calls each on_ready() awaits
  thenDue,       \* awaited calls whose .then() has not run yet
  latestRender,  \* who _render_count was last incremented for
  loadSeq,       \* _load_seq: the number of the newest load
  seqOf,         \* load_seq: the number of each entry's load
  loadQueue,     \* _load_queue: the loads applying their result, in order
  isReady,       \* _ready_state >= 4 (99, stopped, included)
  readyMarker,   \* 'ready' is in _lifecycle_states
  readyOwed,     \* _ready_owed
  wasReady,      \* was_ready of each _reload()
  stopped        \* _stopped

hookVars == <<asyncHook, previous>>
callVars == <<owner, awaited, thenDue>>
seqVars == <<loadSeq, seqOf>>
loadVars == <<seqVars, loadQueue>>
readyVars == <<isReady, readyMarker, readyOwed>>
cycleVars == <<stage, hookVars, callVars, latestRender, loadVars, readyVars,
               wasReady, stopped>>
vars == <<queueVars, cycleVars>>

Entries == Calls \cup {Boot}
Hooks == {"on_load", "on_loaded", "on_ready"}
Runs == Entries \X Hooks

ASSUME EntriesAssumption ==
  /\ IsFiniteSet(Calls)
  /\ Boot \notin Calls \cup Keys
  /\ NoCall \notin Entries \cup Keys
  /\ NoRun \notin Runs

(* idle -> [on_load -> fetched -> apply -> on_loaded ->] [children ->      *)
(*          on_ready ->] returned | threw -> ended                         *)
Stages == Hooks \cup {"idle", "fetched", "apply", "children", "returned",
                      "threw", "ended"}

TypeOK ==
  /\ Q!TypeOK
  /\ stage \in [Entries -> Stages]
  /\ asyncHook \in Runs \cup {NoRun}
  /\ previous \in [Runs -> Runs \cup {NoRun}]
  /\ owner \in [Calls -> Runs \cup {NoRun}]
  /\ awaited \in [Entries -> SUBSET Calls]
  /\ thenDue \subseteq Calls
  /\ latestRender \in Entries
  /\ loadSeq \in Nat /\ seqOf \in [Entries -> Nat]
  /\ loadQueue \in Seq(Entries)
  /\ <<isReady, readyMarker, readyOwed, stopped>> \in BOOLEAN \X BOOLEAN \X BOOLEAN \X BOOLEAN
  /\ wasReady \in [Entries -> BOOLEAN]

Init ==
  /\ Q!Init
  /\ stage = [e \in Entries |-> "idle"]
  /\ asyncHook = NoRun
  /\ previous = [r \in Runs |-> NoRun]
  /\ owner = [c \in Calls |-> NoRun]
  /\ awaited = [e \in Entries |-> {}]
  /\ thenDue = {}
  /\ latestRender = Boot
  /\ loadSeq = 0 /\ seqOf = [e \in Entries |-> 0]
  /\ loadQueue = <<>>
  /\ isReady = FALSE /\ readyMarker = FALSE /\ readyOwed = FALSE
  /\ wasReady = [e \in Entries |-> FALSE]
  /\ stopped = FALSE

-----------------------------------------------------------------------------
Method(e) == IF e = Boot THEN Boot ELSE key[e]
MayThrow(e) == Method(e) \in Failing
Goto(e, s) == stage' = [stage EXCEPT ![e] = s]

(* _call_lifecycle(): a run is unsettled while its entry is in that stage *)
Settled(run) == stage[run[1]] # run[2]

StartHook(e, h) ==
  /\ asyncHook' = <<e, h>>
  /\ previous' = [previous EXCEPT ![<<e, h>>] = asyncHook]

EndHookForgets(e, h) ==                                      \* faulty variant
  /\ asyncHook' = IF asyncHook # <<e, h>> THEN asyncHook ELSE NoRun
  /\ UNCHANGED previous

EndHook(e, h) ==
  /\ asyncHook' = IF asyncHook # <<e, h>> THEN asyncHook
                  ELSE LET p == previous[<<e, h>>] IN
                       IF p # NoRun /\ ~Settled(p) THEN p ELSE NoRun
  /\ UNCHANGED previous

(* _queue_call(): the nearest on_ready() run that is not settled, from the *)
(* innermost hook outwards                                                 *)
ReadyRun ==
  LET walk[n \in Nat] ==
        [r \in Runs \cup {NoRun} |->
           IF r = NoRun \/ n = 0 THEN NoRun
           ELSE IF r[2] = "on_ready" /\ ~Settled(r) THEN r
           ELSE walk[n - 1][previous[r]]]
  IN walk[Cardinality(Runs)][asyncHook]

(* _fire_ready() *)
FireReady == isReady' = TRUE /\ readyMarker' = TRUE /\ readyOwed' = FALSE

QueueIdleWhileBusy ==                                        \* faulty variant
  IF readyOwed /\ ~stopped THEN FireReady ELSE UNCHANGED readyVars

(* _on_queue_idle(), called when the lock comes free *)
QueueIdle ==
  IF busy /\ ~busy' /\ readyOwed /\ ~stopped THEN FireReady ELSE UNCHANGED readyVars

ReadyPointOfItsOwn(e) ==                                     \* faulty variant
  IF IF e = Boot THEN pending # <<>> ELSE readyOwed
  THEN readyOwed' = TRUE /\ UNCHANGED <<isReady, readyMarker>>
  ELSE FireReady

(* _entry_ready_point(); boot's _ready() also looks at the calls waiting *)
ReadyPoint(e) ==
  IF promotedRunning > 0 \/ IF e = Boot THEN pending # <<>> ELSE readyOwed
  THEN readyOwed' = TRUE /\ UNCHANGED <<isReady, readyMarker>>
  ELSE FireReady

-----------------------------------------------------------------------------
(* What an executor does in the turn it starts in; m is method, marker the *)
(* 'ready' marker as the call left it.                                     *)
StartStopped(e, marker) ==
  /\ stopped
  /\ Goto(e, "returned")
  /\ readyMarker' = marker
  /\ UNCHANGED <<hookVars, latestRender, seqVars, isReady, wasReady>>

StartRender(e, m, marker) ==
  /\ ~stopped /\ m = "render"
  /\ \E s \in {"children"} \cup (IF "render" \in Failing THEN {"threw"} ELSE {}) : Goto(e, s)
  /\ latestRender' = e
  /\ isReady' = FALSE /\ readyMarker' = marker
  /\ UNCHANGED <<hookVars, seqVars, wasReady>>

(* on_load() starts, as the newest load *)
StartOnLoad(e) ==
  /\ Goto(e, "on_load") /\ StartHook(e, "on_load")
  /\ loadSeq' = loadSeq + 1
  /\ seqOf' = [seqOf EXCEPT ![e] = loadSeq']

StartLoad(e, m, marker) ==
  /\ ~stopped /\ m = "load"
  /\ StartOnLoad(e)
  /\ readyMarker' = marker
  /\ UNCHANGED <<latestRender, isReady, wasReady>>

(* _reload(): remembers and drops the marker, then loads *)
StartReload(e, m, marker) ==
  /\ ~stopped /\ m = "reload"
  /\ StartOnLoad(e)
  /\ wasReady' = [wasReady EXCEPT ![e] = isReady /\ marker]
  /\ readyMarker' = FALSE
  /\ UNCHANGED <<latestRender, isReady>>

Start(e, m, marker) ==
  /\ \/ StartStopped(e, marker) \/ StartRender(e, m, marker)
     \/ StartLoad(e, m, marker) \/ StartReload(e, m, marker)
  /\ UNCHANGED <<loadQueue, readyOwed, stopped>>

(* boot: create() and the first render() are synchronous, then on_load() *)
BootStarts ==
  /\ Q!BeginBoot
  /\ StartOnLoad(Boot)
  /\ UNCHANGED <<callVars, latestRender, loadQueue, readyVars, wasReady,
                 stopped>>

-----------------------------------------------------------------------------
(* render(), load() and reload(): a stopped component takes no render() or *)
(* load(), and render() drops the marker before it is queued.              *)
Invoke(c, m) ==
  LET marker == readyMarker /\ m # "render" IN
  /\ m \in {"render", "load"} => ~stopped
  /\ \/ Q!EnqueueIdle(c, m) /\ Start(c, m, marker)
     \/ /\ Q!EnqueueMerge(c, m) \/ Q!EnqueueWait(c, m)
        /\ readyMarker' = marker
        /\ UNCHANGED <<stage, hookVars, latestRender, loadVars, isReady,
                       readyOwed, wasReady, stopped>>

(* A call by anybody, its promise not awaited (during an on_ready()) *)
Call(c, m) ==
  /\ Invoke(c, m)
  /\ UNCHANGED callVars

Unsettled(e) == {c \in awaited[e] : outcome[c] = "none"}

(* A call by an on_ready(), which awaits it: _queue_call() wraps the       *)
(* promise when it finds the on_ready() run to watch                       *)
AwaitedCall(e, c, m) ==
  /\ stage[e] = "on_ready" /\ Cardinality(Unsettled(e)) < MaxAwait
  /\ Invoke(c, m)
  /\ owner' = [owner EXCEPT ![c] = ReadyRun]
  /\ awaited' = [awaited EXCEPT ![e] = @ \cup {c}]
  /\ thenDue' = thenDue \cup {c}

(* Lifecycle_Call_Promise.then(): promotes the entry if it still waits *)
Promotable(c) ==
  /\ owner[c] # NoRun /\ ~Settled(owner[c])
  /\ phase[entryOf[c]] = "pending"

ThenRuns(c) ==
  /\ c \in thenDue
  /\ thenDue' = thenDue \ {c}
  /\ IF Promotable(c)
     THEN \E i \in DOMAIN pending :
            /\ pending[i] = entryOf[c]
            /\ Q!Promote(i)
            /\ Start(pending[i], key[pending[i]], readyMarker)
     ELSE /\ UNCHANGED <<queueVars, stage, hookVars, latestRender, loadVars,
                         readyVars, wasReady, stopped>>
  /\ UNCHANGED <<owner, awaited>>

(* The macrotask that starts the next entry, or finds none *)
GapOver ==
  /\ Q!GapOver
  /\ IF pending # <<>>
     THEN Start(Head(pending), key[Head(pending)], readyMarker)
     ELSE /\ QueueIdle
          /\ UNCHANGED <<stage, hookVars, latestRender, loadVars, wasReady, stopped>>
  /\ UNCHANGED callVars

-----------------------------------------------------------------------------
(* on_load() settled: its continuation is queued *)
LoadSettles(e) ==
  /\ stage[e] = "on_load"
  /\ EndHook(e, "on_load")
  /\ \E s \in {"fetched"} \cup (IF MayThrow(e) THEN {"threw"} ELSE {}) : Goto(e, s)
  /\ UNCHANGED <<queueVars, callVars, latestRender, loadVars, readyVars,
                 wasReady, stopped>>

Superseded(e) == seqOf[e] # loadSeq                        \* _load_superseded()

(* The result of a stopped or superseded load is dropped; load() applies   *)
(* it and calls on_loaded() in this turn, the others take their turn in    *)
(* _load_queue                                                             *)
ResultArrives(e) ==
  /\ stage[e] = "fetched"
  /\ \/ /\ stopped \/ Superseded(e)
        /\ Goto(e, "returned") /\ UNCHANGED <<hookVars, loadQueue>>
     \/ /\ ~stopped /\ ~Superseded(e) /\ Method(e) = "load"
        /\ Goto(e, "on_loaded") /\ StartHook(e, "on_loaded")
        /\ UNCHANGED loadQueue
     \/ /\ ~stopped /\ ~Superseded(e) /\ Method(e) # "load"
        /\ Goto(e, "apply") /\ loadQueue' = Append(loadQueue, e)
        /\ UNCHANGED hookVars
  /\ UNCHANGED <<queueVars, callVars, latestRender, seqVars, readyVars,
                 wasReady, stopped>>

(* _apply_load_result(), on its turn *)
Apply(e) ==
  /\ stage[e] = "apply" /\ Head(loadQueue) = e
  /\ Goto(e, "on_loaded") /\ StartHook(e, "on_loaded")
  /\ isReady' = FALSE
  /\ UNCHANGED <<queueVars, callVars, latestRender, seqVars, loadQueue,
                 readyMarker, readyOwed, wasReady, stopped>>

(* on_loaded() settled: boot and reload() go on to render.  (Boot renders  *)
(* again only if the data changed; the render it did first is the latest   *)
(* one either way.)                                                        *)
LoadedSettles(e) ==
  /\ stage[e] = "on_loaded"
  /\ EndHook(e, "on_loaded")
  /\ loadQueue' = IF Method(e) = "load" THEN loadQueue ELSE Tail(loadQueue)
  /\ \/ MayThrow(e) /\ Goto(e, "threw") /\ UNCHANGED <<latestRender, isReady>>
     \/ /\ stopped \/ Method(e) = "load"
        /\ Goto(e, "returned") /\ UNCHANGED <<latestRender, isReady>>
     \/ /\ ~stopped /\ Method(e) # "load"
        /\ Goto(e, "children")
        /\ latestRender' = e /\ isReady' = FALSE
  /\ UNCHANGED <<queueVars, callVars, seqVars, readyMarker,
                 readyOwed, wasReady, stopped>>

(* The children are ready: on_ready(), unless stopped or (boot, render())  *)
(* a later render took over                                                *)
ChildrenReady(e) ==
  /\ stage[e] = "children"
  /\ IF stopped \/ (Method(e) # "reload" /\ latestRender # e)
     THEN Goto(e, "returned") /\ UNCHANGED hookVars
     ELSE Goto(e, "on_ready") /\ StartHook(e, "on_ready")
  /\ UNCHANGED <<queueVars, callVars, latestRender, loadVars, readyVars,
                 wasReady, stopped>>

ReadySettles(e) ==
  /\ stage[e] = "on_ready" /\ Unsettled(e) = {}
  /\ EndHook(e, "on_ready")
  /\ \/ MayThrow(e) /\ Goto(e, "threw") /\ UNCHANGED readyVars
     \/ /\ Goto(e, "returned")
        /\ IF stopped THEN UNCHANGED readyVars ELSE ReadyPoint(e)
  /\ UNCHANGED <<queueVars, callVars, latestRender, loadVars, wasReady, stopped>>

-----------------------------------------------------------------------------
(* A boot that throws stops the component; then the lock is released *)
BootEnds ==
  /\ stage[Boot] \in {"returned", "threw"}
  /\ Q!EndBoot
  /\ Goto(Boot, "ended")
  /\ IF stage[Boot] = "threw"
     THEN stopped' = TRUE /\ isReady' = TRUE /\ UNCHANGED <<readyMarker, readyOwed>>
     ELSE QueueIdle /\ UNCHANGED stopped
  /\ UNCHANGED <<hookVars, callVars, latestRender, loadVars, wasReady>>

CallEndsUnrestored(c) ==                                     \* faulty variant
  /\ stage[c] \in {"returned", "threw"}
  /\ Q!Settle(c, IF stage[c] = "threw" THEN "rejected" ELSE "resolved")
  /\ Goto(c, "ended")
  /\ UNCHANGED <<hookVars, callVars, latestRender, loadVars, readyVars, wasReady,
                 stopped>>

(* _execute() settles the callers; a _reload() that failed first gives     *)
(* back the ready state it found                                           *)
CallEnds(c) ==
  /\ stage[c] \in {"returned", "threw"}
  /\ Q!Settle(c, IF stage[c] = "threw" THEN "rejected" ELSE "resolved")
  /\ Goto(c, "ended")
  /\ IF stage[c] = "threw" /\ wasReady[c] /\ ~stopped
     THEN isReady' = TRUE /\ readyMarker' = TRUE
     ELSE UNCHANGED <<isReady, readyMarker>>
  /\ UNCHANGED <<hookVars, callVars, latestRender, loadVars, readyOwed,
                 wasReady, stopped>>

LockReturns(c) ==
  /\ Q!ReleaseAfterRun(c) \/ Q!ReturnFromPromoted(c)
  /\ QueueIdle
  /\ UNCHANGED <<stage, hookVars, callVars, latestRender, loadVars, wasReady, stopped>>

StopEmptiesQueue ==                                          \* faulty variant
  /\ ~stopped /\ phase[Boot] # "new"
  /\ stopped' = TRUE /\ isReady' = TRUE
  /\ pending' = <<>>
  /\ UNCHANGED <<busy, booting, promotedRunning, releaseDeferred, timers, phase,
                 key, entryOf, outcome, stage, hookVars, callVars, latestRender,
                 loadVars, readyMarker, readyOwed, wasReady>>

(* _stop(): does not touch the queue; whatever runs notices by itself *)
Stop ==
  /\ ~stopped /\ phase[Boot] # "new"
  /\ stopped' = TRUE /\ isReady' = TRUE
  /\ UNCHANGED <<queueVars, stage, hookVars, callVars, latestRender, loadVars,
                 readyMarker, readyOwed, wasReady>>

-----------------------------------------------------------------------------
HookSettles(e) == LoadSettles(e) \/ LoadedSettles(e) \/ ReadySettles(e)
Continues(e) == ResultArrives(e) \/ Apply(e) \/ ChildrenReady(e)
Ends(e) == IF e = Boot THEN BootEnds ELSE CallEnds(e) \/ LockReturns(e)

Next ==
  \/ BootStarts \/ GapOver \/ Stop
  \/ \E c \in Calls, m \in Keys :
        Call(c, m) \/ \E e \in Entries : AwaitedCall(e, c, m)
  \/ \E c \in Calls : ThenRuns(c)
  \/ \E e \in Entries : HookSettles(e) \/ Continues(e) \/ Ends(e)

Spec == Init /\ [][Next]_vars

(* Reactions and timers run, children become ready or stop, and a hook     *)
(* settles once everything it awaits has: nothing else is assumed of it.   *)
Fairness ==
  /\ WF_vars(GapOver)
  /\ \A c \in Calls : WF_vars(ThenRuns(c))
  /\ \A e \in Entries :
        WF_vars(HookSettles(e)) /\ WF_vars(Continues(e)) /\ WF_vars(Ends(e))

FairSpec == Spec /\ Fairness

-----------------------------------------------------------------------------
(* The queue sees nothing of the component but executors that take time:   *)
(* the cycles use it as LifecycleQueue describes.                          *)
QueueSpec == Q!Spec

(* docs/reference/14_lifecycle_complete_specification.md:836-843: a call   *)
(* awaited in on_ready() does not wait in the queue, because the lock that *)
(* keeps it there is held by the cycle whose on_ready() waits for it: it   *)
(* runs, or its .then() is about to pull it forward.  (component.ts:       *)
(* 515-537, 1978-2035)                                                     *)
AwaitedCallRuns ==
  \A e \in Entries : stage[e] = "on_ready" =>
    \A c \in Unsettled(e) :
      phase[entryOf[c]] # "pending" \/ (c \in thenDue /\ Promotable(c))

(* 14_lifecycle_complete_specification.md:838-843: a call made "while the  *)
(* component's on_ready() is running" returns "a Promise subclass" that    *)
(* pulls it forward: _queue_call() finds an on_ready() to watch.           *)
AwaitedCallIsWatched ==
  \A e \in Entries : stage[e] = "on_ready" => \A c \in Unsettled(e) : owner[c] # NoRun

(* If hooks settle once the calls they await have, every call is settled:  *)
(* the component never waits on itself.                                    *)
NoSelfDeadlock ==
  \A c \in Calls : phase[c] # "new" ~> outcome[c] # "none"

(* 'ready' never fires in the middle of a cycle: when it does, no other    *)
(* entry of this component is running.  (_entry_ready_point(),             *)
(* component.ts:1918-1932)                                                 *)
ReadyNotMidCycle ==
  [][~readyMarker /\ readyMarker' => Cardinality(Q!Executing) <= 1]_vars

(* A 'ready' that is owed (boot ended with calls queued, or a cycle ended  *)
(* inside another one) is not fired on a state that a call already made is *)
(* about to replace.  "ready fires once, when the queue goes idle"         *)
(* (14_lifecycle_complete_specification.md:813-818)                        *)
OwedReadyIsFinal ==
  [][readyOwed /\ ~readyOwed' => pending = <<>> /\ Q!PromotedRuns' = {}]_vars

(* A waiter on ready() is released: by 'ready', or by stop().              *)
(* "ready() and rendered() also resolve when the component stops (they     *)
(* never hang and never reject)"                                           *)
(* (14_lifecycle_complete_specification.md:1334-1335)                      *)
ReadyWaitersReleased ==
  (phase[Boot] # "new" /\ ~readyMarker) ~> (readyMarker \/ stopped)

(* 14_lifecycle_complete_specification.md:1233-1234: "No lifecycle hook    *)
(* runs after on_stop()".                                                  *)
NoHookAfterStop ==
  [][stopped => \A e \in Entries : stage'[e] \in Hooks => stage[e] = stage'[e]]_vars
=============================================================================
