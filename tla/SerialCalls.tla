---------------------------- MODULE SerialCalls ----------------------------
(***************************************************************************)
(* What a component's lifecycle queue promises its callers, without locks, *)
(* flags, counters or timers.  The calls render(), load(), reload() and    *)
(* refresh() are served in batches: identical calls made back to back      *)
(* share one batch, one run and one result.  Batches start in call order   *)
(* and one at a time; the only exception is a batch that a running cycle   *)
(* is itself waiting for, which runs at once, inside that cycle.           *)
(*                                                                         *)
(* LifecycleQueue implements this specification.                           *)
(***************************************************************************)
EXTENDS Naturals, Sequences, SequencesExt

CONSTANTS Calls,      \* the calls that can be made
          Keys,       \* method plus arguments: only identical calls merge
          Boot,       \* the boot cycle, served first
          Results     \* how a run can end

BootBatch == [key |-> Boot, calls |-> {Boot}]

VARIABLES waiting,    \* sequence of batches: [key, calls]
          running,    \* the batches being served
          asked,      \* the key each call so far was made with
          result      \* what each settled call was told

vars == <<waiting, running, asked, result>>

TypeOK ==
  /\ waiting \in Seq([key : Keys, calls : SUBSET Calls])
  /\ running \subseteq [key : Keys, calls : SUBSET Calls] \cup {BootBatch}
  /\ DOMAIN asked \subseteq Calls /\ Range(asked) \subseteq Keys
  /\ DOMAIN result \subseteq Calls /\ Range(result) \subseteq Results

Init ==
  /\ waiting = <<>>
  /\ running = {}
  /\ asked = <<>>
  /\ result = <<>>

StartBoot ==
  /\ running = {}
  /\ running' = {BootBatch}
  /\ UNCHANGED <<waiting, asked, result>>

Submit(c, k) ==
  /\ c \notin DOMAIN asked
  /\ asked' = [d \in DOMAIN asked \cup {c} |-> IF d = c THEN k ELSE asked[d]]

(* A call finds nobody waiting and nothing running, and runs at once. *)
SubmitAndRun(c, k) ==
  /\ Submit(c, k)
  /\ waiting = <<>> /\ running = {}
  /\ running' = {[key |-> k, calls |-> {c}]}
  /\ UNCHANGED <<waiting, result>>

(* A call identical to the last waiting one joins its batch. *)
SubmitAndJoin(c, k) ==
  /\ Submit(c, k)
  /\ waiting # <<>>
  /\ Last(waiting).key = k
  /\ waiting' = [waiting EXCEPT ![Len(waiting)].calls = @ \cup {c}]
  /\ UNCHANGED <<running, result>>

(* Any other call waits as a batch of its own, behind everything before it. *)
SubmitAndWait(c, k) ==
  /\ Submit(c, k)
  /\ waiting # <<>> => Last(waiting).key # k
  /\ waiting' = Append(waiting, [key |-> k, calls |-> {c}])
  /\ UNCHANGED <<running, result>>

StartNext ==
  /\ waiting # <<>> /\ running = {}
  /\ running' = {Head(waiting)}
  /\ waiting' = Tail(waiting)
  /\ UNCHANGED <<asked, result>>

(* A running cycle awaits batch i: it runs inside that cycle. *)
RunNested(i) ==
  /\ running # {}
  /\ running' = running \cup {waiting[i]}
  /\ waiting' = RemoveAt(waiting, i)
  /\ UNCHANGED <<asked, result>>

(* A run ends; every caller of its batch is told the same result. *)
Finish(b, r) ==
  /\ running' = running \ {b}
  /\ result' = [c \in DOMAIN result \cup (b.calls \cap Calls) |->
                  IF c \in b.calls THEN r ELSE result[c]]
  /\ UNCHANGED <<asked, waiting>>

Next ==
  \/ StartBoot
  \/ \E c \in Calls, k \in Keys :
        SubmitAndRun(c, k) \/ SubmitAndJoin(c, k) \/ SubmitAndWait(c, k)
  \/ StartNext
  \/ \E i \in DOMAIN waiting : RunNested(i)
  \/ \E b \in running, r \in Results : Finish(b, r)

Spec == Init /\ [][Next]_vars
=============================================================================
