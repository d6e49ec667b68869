------------------------ MODULE EventDispatch_proofs ------------------------
(***************************************************************************)
(* once() is once, nobody is left behind in an array, 'stop' releases      *)
(* every waiter, and on() handlers hear of every trigger once: for any     *)
(* handlers, any events and any depth of re-entrant calls.  The first      *)
(* inductive invariant, IInv, speaks of the elements of arrays and         *)
(* snapshots and never of their positions; the second, DInv, which needs   *)
(* it, follows a trigger through the frames of the call stack.             *)
(***************************************************************************)
EXTENDS EventDispatch, SequenceTheorems, FiniteSetTheorems, TLAPS

-----------------------------------------------------------------------------
(* What adding and taking an element does to an array.                     *)
LEMMA RemoveAtPositions ==
  ASSUME NEW S, NEW s \in Seq(S), NEW i \in DOMAIN s
  PROVE  /\ RemoveAt(s, i) \in Seq(S)
         /\ Len(RemoveAt(s, i)) = Len(s) - 1
         /\ \A j \in DOMAIN RemoveAt(s, i) :
              RemoveAt(s, i)[j] = IF j < i THEN s[j] ELSE s[j + 1]
  <1> DEFINE l == SubSeq(s, 1, i - 1)
             r == SubSeq(s, i + 1, Len(s))
  <1>1. l \in Seq(S) /\ Len(l) = i - 1 /\ \A j \in 1 .. (i - 1) : l[j] = s[j]
    BY SubSeqProperties
  <1>2. /\ r \in Seq(S) /\ Len(r) = Len(s) - i
        /\ \A j \in 1 .. (Len(s) - i) : r[j] = s[i + j]
    BY SubSeqProperties
  <1> HIDE DEF l, r
  <1>3. /\ l \o r \in Seq(S)
        /\ Len(l \o r) = Len(s) - 1
        /\ \A j \in 1 .. (Len(s) - 1) :
             (l \o r)[j] = IF j < i THEN s[j] ELSE s[j + 1]
    BY <1>1, <1>2
  <1>4. RemoveAt(s, i) = l \o r
    BY DEF RemoveAt, l, r
  <1> QED BY <1>3, <1>4

(* The position RemoveFirst() looks for.                                   *)
LEMMA RemoveFirstIsRemoveAt ==
  ASSUME NEW S, NEW s \in Seq(S), NEW e, NEW i \in DOMAIN s, s[i] = e,
         \A j \in DOMAIN s : s[j] = e => j = i
  PROVE  RemoveFirst(s, e) = RemoveAt(s, i)
  <1> DEFINE I == {j \in 1 .. Len(s) : s[j] = e}
  <1>1. I = {i} /\ i \in Nat
    OBVIOUS
  <1>2. Min(I) = i
    BY <1>1 DEF Min
  <1>3. SelectInSeq(s, LAMBDA v : v = e) = i
    BY <1>1, <1>2 DEF SelectInSeq
  <1> QED BY <1>3 DEF RemoveFirst

NoRepeats(s) == \A i, j \in DOMAIN s : s[i] = s[j] => i = j

LEMMA RemoveFirstElements ==
  ASSUME NEW S, NEW s \in Seq(S), NoRepeats(s), NEW e
  PROVE  /\ RemoveFirst(s, e) \in Seq(S)
         /\ NoRepeats(RemoveFirst(s, e))
         /\ ToSet(RemoveFirst(s, e)) = ToSet(s) \ {e}
  <1>1. CASE \A i \in DOMAIN s : s[i] # e
    <2>1. RemoveFirst(s, e) = s
      BY <1>1 DEF RemoveFirst
    <2> QED BY <2>1, <1>1 DEF ToSet
  <1>2. ASSUME NEW i \in DOMAIN s, s[i] = e
        PROVE  /\ RemoveFirst(s, e) \in Seq(S)
               /\ NoRepeats(RemoveFirst(s, e))
               /\ ToSet(RemoveFirst(s, e)) = ToSet(s) \ {e}
    <2> DEFINE t == RemoveAt(s, i)
    <2>1. RemoveFirst(s, e) = t
      BY <1>2, RemoveFirstIsRemoveAt DEF NoRepeats
    <2>2. /\ t \in Seq(S) /\ Len(t) = Len(s) - 1
          /\ \A j \in DOMAIN t : t[j] = IF j < i THEN s[j] ELSE s[j + 1]
      BY RemoveAtPositions
    <2> HIDE DEF t
    <2>3. DOMAIN t = 1 .. (Len(s) - 1) /\ DOMAIN s = 1 .. Len(s)
      BY <2>2
    <2>4. NoRepeats(t)
      BY <2>2, <2>3 DEF NoRepeats
    <2>5. \A j \in DOMAIN t : t[j] \in ToSet(s) \ {e}
      BY <2>2, <2>3, <1>2 DEF NoRepeats, ToSet
    <2>6. ASSUME NEW j \in DOMAIN s, s[j] # e
          PROVE  \E k \in DOMAIN t : t[k] = s[j]
      <3>1. CASE j < i
        BY <3>1, <2>2, <2>3
      <3>2. CASE ~(j < i)
        <4>1. j - 1 \in DOMAIN t /\ ~(j - 1 < i) /\ (j - 1) + 1 = j
          BY <3>2, <2>3, <2>6, <1>2
        <4>2. t[j - 1] = s[j]
          BY <4>1, <2>2
        <4> QED BY <4>1, <4>2
      <3> QED BY <3>1, <3>2
    <2>7. ToSet(t) = ToSet(s) \ {e}
      BY <2>5, <2>6 DEF ToSet
    <2> QED BY <2>1, <2>2, <2>4, <2>7
  <1> QED BY <1>1, <1>2

LEMMA AppendElements ==
  ASSUME NEW S, NEW s \in Seq(S), NEW e \in S
  PROVE  /\ Append(s, e) \in Seq(S) /\ Append(s, e) # <<>>
         /\ ToSet(Append(s, e)) = ToSet(s) \cup {e}
         /\ NoRepeats(s) /\ e \notin ToSet(s) => NoRepeats(Append(s, e))
  <1> DEFINE t == Append(s, e)
  <1>1. /\ t \in Seq(S) /\ Len(t) = Len(s) + 1
        /\ \A i \in 1 .. Len(s) : t[i] = s[i]
        /\ t[Len(s) + 1] = e
    BY AppendProperties
  <1> HIDE DEF t
  <1>2. DOMAIN t = 1 .. (Len(s) + 1) /\ DOMAIN s = 1 .. Len(s) /\ Len(s) \in Nat
    BY <1>1
  <1>3. ToSet(t) = ToSet(s) \cup {e}
    <2>1. \A i \in DOMAIN t : t[i] \in ToSet(s) \cup {e}
      BY <1>1, <1>2 DEF ToSet
    <2>2. \A i \in DOMAIN s : s[i] \in ToSet(t)
      BY <1>1, <1>2 DEF ToSet
    <2>3. e \in ToSet(t)
      BY <1>1, <1>2 DEF ToSet
    <2> QED BY <2>1, <2>2, <2>3 DEF ToSet
  <1>4. NoRepeats(s) /\ e \notin ToSet(s) => NoRepeats(t)
    BY <1>1, <1>2 DEF NoRepeats, ToSet
  <1>5. t # <<>>
    BY <1>2
  <1> QED BY <1>1, <1>3, <1>4, <1>5 DEF t

LEMMA TailElements ==
  ASSUME NEW S, NEW s \in Seq(S), s # <<>>
  PROVE  /\ Tail(s) \in Seq(S) /\ Head(s) \in S
         /\ ToSet(s) = ToSet(Tail(s)) \cup {Head(s)}
  <1> DEFINE t == Tail(s)
  <1>1. /\ t \in Seq(S) /\ Len(t) = Len(s) - 1 /\ Head(s) = s[1] /\ Len(s) \in Nat
        /\ Len(s) > 0 /\ \A i \in 1 .. Len(t) : t[i] = s[i + 1]
    BY HeadTailProperties
  <1> HIDE DEF t
  <1>2. DOMAIN t = 1 .. (Len(s) - 1) /\ DOMAIN s = 1 .. Len(s)
    BY <1>1
  <1>3. \A i \in DOMAIN t : t[i] \in ToSet(s)
    BY <1>1, <1>2 DEF ToSet
  <1>4. \A i \in DOMAIN s : i # 1 => s[i] = t[i - 1] /\ i - 1 \in DOMAIN t
    BY <1>1, <1>2
  <1>5. s[1] \in ToSet(s) /\ s[1] \in S
    BY <1>1, <1>2 DEF ToSet
  <1>6. ToSet(s) \subseteq ToSet(t) \cup {s[1]}
    BY <1>4 DEF ToSet
  <1>7. ToSet(t) \subseteq ToSet(s)
    BY <1>3 DEF ToSet
  <1> QED BY <1>1, <1>5, <1>6, <1>7 DEF t

LEMMA TailOfDistinct ==
  ASSUME NEW S, NEW s \in Seq(S), s # <<>>, NoRepeats(s)
  PROVE  NoRepeats(Tail(s)) /\ Head(s) \notin ToSet(Tail(s))
  <1> DEFINE t == Tail(s)
  <1>1. /\ t \in Seq(S) /\ Len(t) = Len(s) - 1 /\ Head(s) = s[1] /\ Len(s) \in Nat
        /\ Len(s) > 0 /\ \A i \in 1 .. Len(t) : t[i] = s[i + 1]
    BY HeadTailProperties
  <1> HIDE DEF t
  <1>2. DOMAIN t = 1 .. (Len(s) - 1) /\ DOMAIN s = 1 .. Len(s)
    BY <1>1
  <1>3. NoRepeats(t)
    BY <1>1, <1>2 DEF NoRepeats
  <1>4. \A i \in DOMAIN t : t[i] # s[1]
    BY <1>1, <1>2 DEF NoRepeats
  <1> QED BY <1>1, <1>3, <1>4 DEF ToSet, t

LEMMA FrontElements ==
  ASSUME NEW S, NEW s \in Seq(S), s # <<>>
  PROVE  /\ Front(s) \in Seq(S) /\ s[Len(s)] \in S
         /\ ToSet(s) = ToSet(Front(s)) \cup {s[Len(s)]}
  <1> DEFINE t == SubSeq(s, 1, Len(s) - 1)
  <1>1. Len(s) \in Nat /\ Len(s) > 0
    BY EmptySeq
  <1>2. /\ t \in Seq(S) /\ Len(t) = Len(s) - 1
        /\ \A i \in 1 .. (Len(s) - 1) : t[i] = s[i]
    <2>1. 1 \in Int /\ Len(s) - 1 \in Int
      BY <1>1
    <2>2. \A i \in 1 .. (Len(s) - 1) : s[i] \in S
      BY <1>1
    <2>3. /\ t \in Seq(S)
          /\ Len(t) = IF 1 <= Len(s) - 1 THEN (Len(s) - 1) - 1 + 1 ELSE 0
          /\ \A i \in 1 .. (Len(s) - 1) - 1 + 1 : t[i] = s[1 + i - 1]
      BY <2>1, <2>2, SubSeqProperties
    <2> HIDE DEF t
    <2>4. Len(t) = IF 1 <= Len(s) - 1 THEN (Len(s) - 1) - 1 + 1 ELSE 0
      BY <2>3
    <2>5. (IF 1 <= Len(s) - 1 THEN (Len(s) - 1) - 1 + 1 ELSE 0) = Len(s) - 1
      <3>1. \A n \in Nat : n > 0 => (1 <= n - 1 \/ n = 1)
        OBVIOUS
      <3>2. CASE Len(s) = 1
        BY <3>2
      <3>3. CASE 1 <= Len(s) - 1
        BY <1>1, <3>3
      <3> QED BY <1>1, <3>1, <3>2, <3>3
    <2>6. (Len(s) - 1) - 1 + 1 = Len(s) - 1 /\ \A i \in 1 .. (Len(s) - 1) : 1 + i - 1 = i
      BY <1>1
    <2>7. ASSUME NEW i \in 1 .. (Len(s) - 1) PROVE t[i] = s[i]
      BY <2>3, <2>6
    <2> QED BY <2>3, <2>4, <2>5, <2>7
  <1> HIDE DEF t
  <1>3. DOMAIN t = 1 .. (Len(s) - 1) /\ DOMAIN s = 1 .. Len(s)
    BY <1>1, <1>2
  <1>4. s[Len(s)] \in S /\ s[Len(s)] \in ToSet(s)
    BY <1>1, <1>3 DEF ToSet
  <1>5. \A i \in DOMAIN t : t[i] \in ToSet(s)
    BY <1>2, <1>3 DEF ToSet
  <1>6. \A i \in DOMAIN s : i # Len(s) => s[i] = t[i] /\ i \in DOMAIN t
    BY <1>1, <1>2, <1>3
  <1>7. ToSet(s) \subseteq ToSet(t) \cup {s[Len(s)]}
    BY <1>6 DEF ToSet
  <1>8. ToSet(t) \subseteq ToSet(s)
    BY <1>5 DEF ToSet
  <1>9. Front(s) = t
    BY DEF Front, t
  <1> QED BY <1>2, <1>4, <1>7, <1>8, <1>9

-----------------------------------------------------------------------------
OneShot == OnceHandlers \cup Waiters

(* The arrays a handler may be in *)
Owns(h, e) == event[h] = e \/ (h \in Waiters /\ e = Stop /\ event[h] # NoEvent)

Arrays ==
  \A e \in Events : /\ NoRepeats(callbacks[e])
                    /\ \A h \in ToSet(callbacks[e]) : Owns(h, e)

FrameOK(f) == /\ \A h \in ToSet(f.rest) : Owns(h, f.event)
              /\ f.kind = "on_stop" => f.rest = <<>>

Snapshots == \A f \in ToSet(stack) : FrameOK(f)

(* A handler not registered yet has not been called, nor has a one-shot    *)
(* handler that is not used up.                                            *)
Unused == \A h \in Handlers : event[h] = NoEvent => h \notin fired /\ got[h] = <<>>
Pending == \A h \in OneShot : h \notin fired => got[h] = <<>>

StopNeedsFlag ==
  Occurred(Stop) \/ (\E f \in ToSet(stack) : f.kind = "on_stop") => stopped
WaitersWait == \A h \in Waiters : event[h] # Stop

(* A waiter that is still waiting after 'stop' is in a snapshot of a       *)
(* dispatch that still runs.                                               *)
StopServes ==
  Occurred(Stop) => \A h \in Waiters \ fired :
    event[h] # NoEvent => \E f \in ToSet(stack) : h \in ToSet(f.rest)

Bookkeeping ==
  /\ Arrays /\ Unused /\ Pending /\ WaitersWait /\ OnceIsOnce /\ NothingLeftBehind

IInv ==
  /\ TypeOK
  /\ Bookkeeping
  /\ Snapshots
  /\ StopNeedsFlag
  /\ StopServes

-----------------------------------------------------------------------------
(* The call stack *)
LEMMA EmptyHasNoElements == ToSet(<<>>) = {}
  BY DEF ToSet

LEMMA PushElements ==
  ASSUME stack \in Seq(Frames), NEW f \in Frames
  PROVE  Push(f) \in Seq(Frames) /\ ToSet(Push(f)) = ToSet(stack) \cup {f}
  BY AppendElements DEF Push

LEMMA TopElements ==
  ASSUME stack \in Seq(Frames), stack # <<>>
  PROVE  /\ Front(stack) \in Seq(Frames) /\ Top \in Frames
         /\ ToSet(stack) = ToSet(Front(stack)) \cup {Top}
  BY FrontElements DEF Top

LEMMA ReplaceElements ==
  ASSUME stack \in Seq(Frames), stack # <<>>, NEW f \in Frames
  PROVE  /\ Replace(f) \in Seq(Frames)
         /\ ToSet(Replace(f)) = ToSet(Front(stack)) \cup {f}
  BY TopElements, AppendElements DEF Replace

LEMMA NewFrames ==
  ASSUME NEW e \in Events, NEW n \in Nat, NEW r \in Seq(Handlers), NEW b \in BOOLEAN
  PROVE  /\ Frame(e, n, r, b) \in Frames /\ Frame(e, n, r, b).event = e
         /\ Frame(e, n, r, b).rest = r /\ Frame(e, n, r, b).kind = "dispatch"
         /\ StopFrame \in Frames /\ StopFrame.rest = <<>> /\ <<>> \in Seq(Handlers)
  BY EventsAssumption DEF Frame, StopFrame, Frames

LEMMA AdvancedFrame ==
  ASSUME stack \in Seq(Frames), InLoop, Top.rest # <<>>, NEW b \in BOOLEAN
  PROVE  LET f == [Top EXCEPT !.rest = Tail(@), !.running = b]
         IN  /\ f \in Frames /\ f.event = Top.event /\ f.kind = "dispatch"
             /\ ToSet(Top.rest) = ToSet(f.rest) \cup {Next1}
             /\ Next1 \in Handlers
             /\ Advance(b) \in Seq(Frames)
             /\ ToSet(Advance(b)) = ToSet(Front(stack)) \cup {f}
  <1> DEFINE f == [Top EXCEPT !.rest = Tail(@), !.running = b]
  <1>1. Top \in Frames /\ Top.rest \in Seq(Handlers) /\ Top.kind = "dispatch"
        /\ stack # <<>>
    BY TopElements DEF InLoop, Frames
  <1>2. /\ Tail(Top.rest) \in Seq(Handlers) /\ Next1 \in Handlers
        /\ ToSet(Top.rest) = ToSet(Tail(Top.rest)) \cup {Next1}
    BY <1>1, TailElements DEF Next1
  <1>3. /\ f \in Frames /\ f.event = Top.event /\ f.kind = "dispatch"
        /\ f.rest = Tail(Top.rest)
    BY <1>1, <1>2 DEF Frames
  <1>4. Advance(b) \in Seq(Frames) /\ ToSet(Advance(b)) = ToSet(Front(stack)) \cup {f}
    BY <1>1, <1>3, ReplaceElements DEF Advance
  <1> HIDE DEF f
  <1> QED BY <1>2, <1>3, <1>4 DEF f

-----------------------------------------------------------------------------
LEMMA InitHolds ==
  ASSUME Init
  PROVE  IInv
  <1>1. TypeOK
    <2>1. <<>> \in Seq(Handlers) /\ <<>> \in Seq(Frames) /\ <<>> \in Seq(Events)
          /\ <<>> \in Seq(Nat) /\ 0 \in Nat
      OBVIOUS
    <2> QED BY <2>1 DEF Init, TypeOK
  <1>2. Arrays
    BY EmptyHasNoElements DEF Init, Arrays, NoRepeats
  <1>3. Unused /\ Pending /\ NothingLeftBehind
    BY DEF Init, Unused, Pending, NothingLeftBehind, OneShot, Handlers
  <1>4. WaitersWait /\ OnceIsOnce
    BY EventsAssumption DEF Init, WaitersWait, OnceIsOnce, Handlers
  <1>5. Snapshots
    BY EmptyHasNoElements DEF Init, Snapshots
  <1>6. StopNeedsFlag /\ StopServes
    BY EmptyHasNoElements, EventsAssumption DEF Init, StopNeedsFlag, StopServes, Occurred
  <1> QED BY <1>1, <1>2, <1>3, <1>4, <1>5, <1>6 DEF IInv, Bookkeeping

(* A step that registers, deregisters and calls nobody *)
LEMMA KeepsBooks ==
  ASSUME Bookkeeping, UNCHANGED <<callbacks, fired, event, got>>
  PROVE  Bookkeeping'
  <1>1. Arrays'
    BY DEF Bookkeeping, Arrays, Owns
  <1>2. Unused' /\ Pending' /\ WaitersWait' /\ OnceIsOnce'
    BY DEF Bookkeeping, Unused, Pending, WaitersWait, OnceIsOnce
  <1>3. NothingLeftBehind'
    BY DEF Bookkeeping, NothingLeftBehind, Registered
  <1> QED BY <1>1, <1>2, <1>3 DEF Bookkeeping

LEMMA KeepsSnapshots ==
  ASSUME UNCHANGED event, \A f \in ToSet(stack') : FrameOK(f)
  PROVE  Snapshots'
  BY DEF Snapshots, FrameOK, Owns

(* Nobody waiting is taken out of the snapshots on the stack. *)
LEMMA KeepsServing ==
  ASSUME StopServes, Occurred(Stop)' => Occurred(Stop),
         UNCHANGED event, fired \subseteq fired',
         \A h \in Waiters \ fired' : \A f \in ToSet(stack) :
           h \in ToSet(f.rest) => \E g \in ToSet(stack') : h \in ToSet(g.rest)
  PROVE  StopServes'
  BY DEF StopServes

-----------------------------------------------------------------------------
(* Registering: the stack is left alone, or gets a sticky call.            *)
LEMMA RegisteringKeepsStack ==
  ASSUME IInv, NEW h \in Handlers, NEW e \in Events, Enter(h, e),
         UNCHANGED <<states, stopped>>, fired \subseteq fired',
         stack' = stack \/ stack' = Push(Frame(e, states[e], <<>>, TRUE)),
         h \in Waiters => h \in fired' \/ ~ stopped
  PROVE  stack' \in Seq(Frames) /\ Snapshots' /\ StopNeedsFlag' /\ StopServes'
  <1> DEFINE g == Frame(e, states[e], <<>>, TRUE)
  <1>0. /\ stack \in Seq(Frames) /\ states[e] \in Nat
        /\ event \in [Handlers -> Events \cup {NoEvent}]
        /\ event[h] = NoEvent /\ event' = [event EXCEPT ![h] = e]
    BY DEF IInv, TypeOK, Enter
  <1>1. g \in Frames /\ g.rest = <<>> /\ g.kind = "dispatch" /\ ToSet(g.rest) = {}
    <2>1. <<>> \in Seq(Handlers)
      OBVIOUS
    <2>2. g \in Frames /\ g.rest = <<>> /\ g.kind = "dispatch"
      BY <1>0, <2>1, NewFrames
    <2> QED BY <2>2, EmptyHasNoElements
  <1> HIDE DEF g
  <1>2. /\ stack' \in Seq(Frames)
        /\ ToSet(stack') = ToSet(stack) \/ ToSet(stack') = ToSet(stack) \cup {g}
    BY <1>0, <1>1, PushElements DEF g
  <1>3. \A f \in ToSet(stack) : f.rest \in Seq(Handlers) /\ f.event \in Events
    <2>1. ToSet(stack) \subseteq Frames
      BY <1>0 DEF ToSet
    <2> QED BY <2>1 DEF Frames
  <1>4. \A f \in ToSet(stack) : \A k \in ToSet(f.rest) : (Owns(k, f.event))'
    <2> SUFFICES ASSUME NEW f \in ToSet(stack), NEW k \in ToSet(f.rest)
                 PROVE  (Owns(k, f.event))'
      OBVIOUS
    <2>1. k \in Handlers /\ f.event \in Events
      BY <1>3 DEF ToSet
    <2>2. Owns(k, f.event)
      BY DEF IInv, Snapshots, FrameOK
    <2>3. k # h
      BY <1>0, <2>1, <2>2, EventsAssumption DEF Owns
    <2> QED BY <1>0, <2>1, <2>2, <2>3 DEF Owns
  <1>5. Snapshots'
    BY <1>1, <1>2, <1>4 DEF IInv, Snapshots, FrameOK
  <1>6. StopNeedsFlag'
    BY <1>1, <1>2 DEF IInv, StopNeedsFlag, Occurred
  <1>7. StopServes'
    <2> SUFFICES ASSUME Occurred(Stop), NEW k \in Waiters \ fired', event'[k] # NoEvent
                 PROVE  \E f \in ToSet(stack') : k \in ToSet(f.rest)
      BY DEF StopServes, Occurred
    <2>1. k # h
      BY DEF IInv, StopNeedsFlag
    <2>2. event[k] # NoEvent /\ k \notin fired
      BY <1>0, <2>1 DEF Handlers
    <2> QED BY <1>2, <2>2 DEF IInv, StopServes
  <1> QED BY <1>2, <1>5, <1>6, <1>7

(* A handler not registered yet is in no array, and can be added to any.   *)
LEMMA NewHandler ==
  ASSUME IInv, NEW h \in Handlers, event[h] = NoEvent, NEW e \in Events
  PROVE  /\ h \notin ToSet(callbacks[e])
         /\ Append(callbacks[e], h) \in Seq(Handlers)
         /\ NoRepeats(Append(callbacks[e], h))
         /\ ToSet(Append(callbacks[e], h)) = ToSet(callbacks[e]) \cup {h}
  <1>1. h \notin ToSet(callbacks[e])
    BY EventsAssumption DEF IInv, Bookkeeping, Arrays, Owns
  <1>2. callbacks[e] \in Seq(Handlers) /\ NoRepeats(callbacks[e])
    BY DEF IInv, TypeOK, Bookkeeping, Arrays
  <1> QED BY <1>1, <1>2, AppendElements

LEMMA ReceivedOnce ==
  ASSUME IInv, NEW h \in Handlers, NEW n \in Nat, Receives(h, n)
  PROVE  /\ got' \in [Handlers -> Seq(Nat)]
         /\ \A k \in Handlers : k # h => got'[k] = got[k]
         /\ got[h] = <<>> => Len(got'[h]) = 1
  <1>1. got \in [Handlers -> Seq(Nat)] /\ got' = [got EXCEPT ![h] = Append(got[h], n)]
    BY DEF IInv, TypeOK, Receives
  <1>2. Append(got[h], n) \in Seq(Nat) /\ (got[h] = <<>> => Len(Append(got[h], n)) = 1)
    BY <1>1
  <1> QED BY <1>1, <1>2

(* Registering in the arrays of the events D: one-shot handlers are in all  *)
(* the arrays they need, or used up and in none.                           *)
LEMMA RegisteringKeepsBooks ==
  ASSUME IInv, NEW h \in Handlers, NEW e \in Events, NEW D \in SUBSET Events,
         event[h] = NoEvent, event' = [event EXCEPT ![h] = e],
         h \in Waiters => e # Stop,
         \A x \in D : x = e \/ (h \in Waiters /\ x = Stop),
         callbacks' = [x \in Events |-> IF x \in D THEN Append(callbacks[x], h)
                                                   ELSE callbacks[x]],
         fired' = fired \/ fired' = fired \cup {h},
         \A k \in Handlers : k # h => got'[k] = got[k],
         h \in OneShot /\ h \in fired' => D = {} /\ Len(got'[h]) <= 1,
         h \in OneShot /\ h \notin fired' =>
           /\ e \in D /\ got'[h] = got[h]
           /\ h \in Waiters => Stop \in D
  PROVE  Bookkeeping' /\ callbacks' \in [Events -> Seq(Handlers)]
  <1>0. /\ callbacks \in [Events -> Seq(Handlers)]
        /\ event \in [Handlers -> Events \cup {NoEvent}]
        /\ event' \in [Handlers -> Events \cup {NoEvent}]
        /\ event'[h] = e /\ e # NoEvent /\ \A k \in Handlers : k # h => event'[k] = event[k]
        /\ h \notin fired /\ got[h] = <<>>
        /\ OneShot \subseteq Handlers /\ Waiters \subseteq Handlers
    BY EventsAssumption DEF IInv, TypeOK, Bookkeeping, Unused, OneShot, Handlers
  <1>1. \A x \in Events : ToSet(callbacks[x]) \subseteq Handlers /\ h \notin ToSet(callbacks[x])
    BY <1>0, NewHandler DEF ToSet
  <1>2. ASSUME NEW x \in Events
        PROVE  /\ callbacks'[x] \in Seq(Handlers) /\ NoRepeats(callbacks'[x])
               /\ x \in D => ToSet(callbacks'[x]) = ToSet(callbacks[x]) \cup {h}
               /\ x \notin D => ToSet(callbacks'[x]) = ToSet(callbacks[x])
    <2>1. CASE x \in D
      BY <1>0, <2>1, NewHandler
    <2>2. CASE x \notin D
      BY <1>0, <2>2 DEF IInv, Bookkeeping, Arrays
    <2> QED BY <2>1, <2>2
  <1>3. callbacks' \in [Events -> Seq(Handlers)]
    BY <1>2
  <1>4. Arrays'
    <2> SUFFICES ASSUME NEW x \in Events, NEW k \in ToSet(callbacks'[x])
                 PROVE  (Owns(k, x))'
      BY <1>2 DEF Arrays
    <2>1. CASE k = h /\ x \in D
      BY <1>0, <2>1 DEF Owns
    <2>2. CASE k \in ToSet(callbacks[x])
      <3>1. Owns(k, x) /\ k \in Handlers /\ k # h
        BY <1>1, <2>2 DEF IInv, Bookkeeping, Arrays
      <3> QED BY <1>0, <3>1 DEF Owns
    <2> QED BY <1>2, <2>1, <2>2
  <1>5. Unused' /\ WaitersWait'
    BY <1>0 DEF IInv, Bookkeeping, Unused, WaitersWait
  <1>6. Pending' /\ OnceIsOnce'
    <2>1. Pending'
      BY <1>0 DEF IInv, Bookkeeping, Pending
    <2>2. ASSUME NEW k \in OneShot PROVE Len(got'[k]) <= 1
      <3>1. CASE k = h
        BY <1>0, <3>1
      <3>2. CASE k # h
        BY <1>0, <3>2 DEF IInv, Bookkeeping, OnceIsOnce, OneShot
      <3> QED BY <3>1, <3>2
    <2> QED BY <2>1, <2>2 DEF OnceIsOnce, OneShot
  <1>7. NothingLeftBehind'
    <2> SUFFICES ASSUME NEW k \in OneShot, event'[k] # NoEvent
                 PROVE  /\ k \in fired' => \A x \in Events : k \notin ToSet(callbacks'[x])
                        /\ k \notin fired' =>
                             /\ k \in ToSet(callbacks'[event'[k]])
                             /\ k \in Waiters => k \in ToSet(callbacks'[Stop])
      BY DEF NothingLeftBehind, Registered, OneShot
    <2>1. CASE k = h
      BY <1>0, <1>1, <1>2, <2>1, EventsAssumption
    <2>2. CASE k # h
      <3>1. /\ event[k] # NoEvent /\ event'[k] = event[k] /\ event[k] \in Events
            /\ k \in fired' <=> k \in fired
        BY <1>0, <2>2
      <3>2. /\ k \in fired => \A x \in Events : k \notin ToSet(callbacks[x])
            /\ k \notin fired =>
                 /\ k \in ToSet(callbacks[event[k]])
                 /\ k \in Waiters => k \in ToSet(callbacks[Stop])
        BY <3>1 DEF IInv, Bookkeeping, NothingLeftBehind, Registered, OneShot
      <3>3. ASSUME NEW x \in Events
            PROVE  /\ k \in ToSet(callbacks'[x]) => k \in ToSet(callbacks[x])
                   /\ k \in ToSet(callbacks[x]) => k \in ToSet(callbacks'[x])
        <4>1. CASE x \in D
          <5>1. ToSet(callbacks'[x]) = ToSet(callbacks[x]) \cup {h}
            BY <1>2, <4>1
          <5> QED BY <2>2, <5>1
        <4>2. CASE x \notin D
          BY <1>2, <4>2
        <4> QED BY <4>1, <4>2
      <3> QED BY <3>1, <3>2, <3>3, EventsAssumption
    <2> QED BY <2>1, <2>2
  <1> QED BY <1>3, <1>4, <1>5, <1>6, <1>7 DEF Bookkeeping

(* What the three registering actions have in common.                      *)
LEMMA Registering ==
  ASSUME IInv, NEW h \in Handlers, NEW e \in Events, Enter(h, e),
         UNCHANGED <<states, stopped, log>>
  PROVE  /\ event[h] = NoEvent /\ event' = [event EXCEPT ![h] = e]
         /\ states[e] \in Nat /\ since' \in [Handlers -> Nat]
         /\ callbacks \in [Events -> Seq(Handlers)] /\ got[h] = <<>> /\ h \notin fired
         /\ event' \in [Handlers -> Events \cup {NoEvent}]
         /\ states' \in [Events -> Nat] /\ stopped' \in BOOLEAN /\ log' \in Seq(Events)
         /\ fired \in SUBSET Handlers /\ got \in [Handlers -> Seq(Nat)]
  BY DEF IInv, TypeOK, Enter, Bookkeeping, Unused

LEMMA OnStep ==
  ASSUME IInv, NEW h \in Handlers, NEW e \in Events, On(h, e)
  PROVE  IInv'
  <1>0. /\ h \notin OneShot /\ h \notin Waiters /\ Enter(h, e)
        /\ callbacks' = [callbacks EXCEPT ![e] = Append(callbacks[e], h)]
        /\ UNCHANGED <<states, stopped, log>> /\ fired' = fired
    BY EventsAssumption DEF On, OneShot
  <1>1. \/ UNCHANGED <<stack, got>>
        \/ stack' = Push(Frame(e, states[e], <<>>, TRUE)) /\ Receives(h, states[e])
    BY DEF On, Sticky
  <1>2. stack' \in Seq(Frames) /\ Snapshots' /\ StopNeedsFlag' /\ StopServes'
    BY <1>0, <1>1, RegisteringKeepsStack
  <1>3. got' \in [Handlers -> Seq(Nat)] /\ \A k \in Handlers : k # h => got'[k] = got[k]
    BY <1>0, <1>1, Registering, ReceivedOnce
  <1>4. callbacks' = [x \in Events |-> IF x \in {e} THEN Append(callbacks[x], h)
                                                   ELSE callbacks[x]]
    BY <1>0, Registering
  <1>5. Bookkeeping' /\ callbacks' \in [Events -> Seq(Handlers)]
    <2>1. /\ {e} \in SUBSET Events
          /\ \A x \in {e} : x = e \/ (h \in Waiters /\ x = Stop)
          /\ event[h] = NoEvent /\ event' = [event EXCEPT ![h] = e]
      BY <1>0, Registering
    <2>2. /\ h \in Waiters => e # Stop
          /\ h \in OneShot /\ h \in fired' => {e} = {} /\ Len(got'[h]) <= 1
          /\ h \in OneShot /\ h \notin fired' =>
               /\ e \in {e} /\ got'[h] = got[h]
               /\ h \in Waiters => Stop \in {e}
      BY <1>0
    <2>3. /\ fired' = fired \/ fired' = fired \cup {h}
          /\ \A k \in Handlers : k # h => got'[k] = got[k]
      BY <1>0, <1>3
    <2> QED BY <1>4, <2>1, <2>2, <2>3, RegisteringKeepsBooks
  <1>6. TypeOK'
    BY <1>0, <1>2, <1>3, <1>5, Registering DEF TypeOK
  <1> QED BY <1>2, <1>5, <1>6 DEF IInv

LEMMA OnceStep ==
  ASSUME IInv, NEW h \in Handlers, NEW e \in Events, Once(h, e)
  PROVE  IInv'
  <1>0. /\ h \notin Waiters /\ Enter(h, e) /\ UNCHANGED <<states, stopped, log>>
    BY EventsAssumption DEF Once
  <1>1. CASE Occurred(e)
    <2>1. /\ stack' = Push(Frame(e, states[e], <<>>, TRUE)) /\ Receives(h, states[e])
          /\ fired' = fired \cup {h} /\ callbacks' = callbacks
      BY <1>1 DEF Once, Sticky
    <2>2. stack' \in Seq(Frames) /\ Snapshots' /\ StopNeedsFlag' /\ StopServes'
      BY <1>0, <2>1, RegisteringKeepsStack
    <2>3. /\ got' \in [Handlers -> Seq(Nat)]
          /\ \A k \in Handlers : k # h => got'[k] = got[k]
          /\ Len(got'[h]) = 1
      BY <1>0, <2>1, Registering, ReceivedOnce
    <2>4. callbacks' = [x \in Events |-> IF x \in {} THEN Append(callbacks[x], h)
                                                    ELSE callbacks[x]]
      BY <1>0, <2>1, Registering
    <2>5. Bookkeeping' /\ callbacks' \in [Events -> Seq(Handlers)]
      <3>1. /\ {} \in SUBSET Events
            /\ \A x \in {} : x = e \/ (h \in Waiters /\ x = Stop)
            /\ event[h] = NoEvent /\ event' = [event EXCEPT ![h] = e]
            /\ h \in fired' /\ Len(got'[h]) <= 1
        BY <1>0, <2>1, <2>3, Registering
      <3> QED BY <1>0, <2>1, <2>3, <2>4, <3>1, RegisteringKeepsBooks
    <2>6. TypeOK'
      BY <1>0, <2>1, <2>2, <2>3, <2>5, Registering DEF TypeOK
    <2> QED BY <2>2, <2>5, <2>6 DEF IInv
  <1>2. CASE ~ Occurred(e)
    <2>1. /\ UNCHANGED <<fired, stack, got>>
          /\ callbacks' = [callbacks EXCEPT ![e] = Append(callbacks[e], h)]
      BY <1>2 DEF Once
    <2>2. stack' \in Seq(Frames) /\ Snapshots' /\ StopNeedsFlag' /\ StopServes'
      BY <1>0, <2>1, RegisteringKeepsStack
    <2>4. callbacks' = [x \in Events |-> IF x \in {e} THEN Append(callbacks[x], h)
                                                     ELSE callbacks[x]]
      BY <1>0, <2>1, Registering
    <2>5. Bookkeeping' /\ callbacks' \in [Events -> Seq(Handlers)]
      <3>1. /\ {e} \in SUBSET Events /\ e \in {e}
            /\ \A x \in {e} : x = e \/ (h \in Waiters /\ x = Stop)
            /\ event[h] = NoEvent /\ event' = [event EXCEPT ![h] = e]
            /\ h \notin fired'
        BY <1>0, <2>1, Registering
      <3> QED BY <1>0, <2>1, <2>4, <3>1, RegisteringKeepsBooks
    <2>6. TypeOK'
      BY <1>0, <2>1, <2>2, <2>5, Registering DEF TypeOK
    <2> QED BY <2>2, <2>5, <2>6 DEF IInv
  <1> QED BY <1>1, <1>2

LEMMA SettleOnStep ==
  ASSUME IInv, NEW h \in Handlers, NEW e \in Events, SettleOn(h, e)
  PROVE  IInv'
  <1>0. /\ h \in Waiters /\ h \in OneShot /\ e # Stop
        /\ Enter(h, e) /\ UNCHANGED <<states, stopped, log>>
    BY DEF SettleOn, OneShot
  <1>1. CASE stopped \/ Occurred(e)
    <2>1. /\ fired' = fired \cup {h} /\ callbacks' = callbacks
          /\ \/ UNCHANGED <<stack, got>>
             \/ stack' = Push(Frame(e, states[e], <<>>, TRUE)) /\ Receives(h, states[e])
      BY <1>1 DEF SettleOn, Sticky
    <2>2. stack' \in Seq(Frames) /\ Snapshots' /\ StopNeedsFlag' /\ StopServes'
      BY <1>0, <2>1, RegisteringKeepsStack
    <2>3. /\ got' \in [Handlers -> Seq(Nat)]
          /\ \A k \in Handlers : k # h => got'[k] = got[k]
          /\ Len(got'[h]) <= 1
      <3>1. CASE UNCHANGED <<stack, got>>
        BY <1>0, <3>1, Registering
      <3>2. CASE Receives(h, states[e])
        <4>1. /\ got' \in [Handlers -> Seq(Nat)] /\ Len(got'[h]) = 1
              /\ \A k \in Handlers : k # h => got'[k] = got[k]
          BY <1>0, <3>2, Registering, ReceivedOnce
        <4> QED BY <4>1
      <3> QED BY <2>1, <3>1, <3>2
    <2>4. callbacks' = [x \in Events |-> IF x \in {} THEN Append(callbacks[x], h)
                                                    ELSE callbacks[x]]
      BY <1>0, <2>1, Registering
    <2>5. Bookkeeping' /\ callbacks' \in [Events -> Seq(Handlers)]
      <3>1. /\ {} \in SUBSET Events
            /\ \A x \in {} : x = e \/ (h \in Waiters /\ x = Stop)
            /\ event[h] = NoEvent /\ event' = [event EXCEPT ![h] = e]
            /\ h \in fired' /\ Len(got'[h]) <= 1
        BY <1>0, <2>1, <2>3, Registering
      <3> QED BY <1>0, <2>1, <2>3, <2>4, <3>1, RegisteringKeepsBooks
    <2>6. TypeOK'
      BY <1>0, <2>1, <2>2, <2>3, <2>5, Registering DEF TypeOK
    <2> QED BY <2>2, <2>5, <2>6 DEF IInv
  <1>2. CASE ~ stopped /\ ~ Occurred(e)
    <2>1. /\ UNCHANGED <<fired, stack, got>>
          /\ callbacks' = [callbacks EXCEPT ![e] = Append(@, h), ![Stop] = Append(@, h)]
      BY <1>2 DEF SettleOn
    <2>2. stack' \in Seq(Frames) /\ Snapshots' /\ StopNeedsFlag' /\ StopServes'
      BY <1>0, <1>2, <2>1, RegisteringKeepsStack
    <2>4. callbacks' = [x \in Events |-> IF x \in {e, Stop} THEN Append(callbacks[x], h)
                                                           ELSE callbacks[x]]
      BY <1>0, <2>1, Registering
    <2>5. Bookkeeping' /\ callbacks' \in [Events -> Seq(Handlers)]
      <3>1. /\ {e, Stop} \in SUBSET Events /\ e \in {e, Stop} /\ Stop \in {e, Stop}
            /\ \A x \in {e, Stop} : x = e \/ (h \in Waiters /\ x = Stop)
            /\ event[h] = NoEvent /\ event' = [event EXCEPT ![h] = e]
            /\ h \notin fired'
        BY <1>0, <2>1, Registering, EventsAssumption
      <3> QED BY <1>0, <2>1, <2>4, <3>1, RegisteringKeepsBooks
    <2>6. TypeOK'
      BY <1>0, <2>1, <2>2, <2>5, Registering DEF TypeOK
    <2> QED BY <2>2, <2>5, <2>6 DEF IInv
  <1> QED BY <1>1, <1>2

-----------------------------------------------------------------------------
(* Triggering and stopping *)
LEMMA InvalidateStep ==
  ASSUME IInv, NEW e \in Events, Invalidate(e)
  PROVE  IInv'
  <1>0. /\ e # Stop /\ states' = [states EXCEPT ![e] = 0]
        /\ UNCHANGED <<callbacks, stopped, fired, stack, log, event, since, got>>
    BY DEF Invalidate, registration
  <1>1. TypeOK'
    BY <1>0 DEF IInv, TypeOK
  <1>2. states'[Stop] = states[Stop]
    BY <1>0, EventsAssumption DEF IInv, TypeOK
  <1>3. Bookkeeping'
    BY <1>0, KeepsBooks DEF IInv
  <1>4. Snapshots'
    <2>1. \A f \in ToSet(stack') : FrameOK(f)
      BY <1>0 DEF IInv, Snapshots
    <2> QED BY <1>0, <2>1, KeepsSnapshots
  <1>5. StopNeedsFlag' /\ StopServes'
    BY <1>0, <1>2 DEF IInv, StopNeedsFlag, StopServes, Occurred
  <1> QED BY <1>1, <1>3, <1>4, <1>5 DEF IInv

(* A dispatch of e on the frames `below`, which are those of the stack but *)
(* perhaps one that holds nobody.                                          *)
LEMMA DispatchStep ==
  ASSUME IInv, NEW e \in Events, NEW below \in Seq(Frames), Dispatch(e, below),
         \A f \in ToSet(below) : f \in ToSet(stack),
         \A f \in ToSet(stack) : f \in ToSet(below) \/ f.rest = <<>>,
         e = Stop => stopped,
         UNCHANGED <<callbacks, stopped, fired, registration, got>>
  PROVE  IInv'
  <1> DEFINE g == Frame(e, Len(log'), callbacks[e], FALSE)
  <1>0. /\ log' = Append(log, e) /\ log' \in Seq(Events) /\ Len(log') \in Nat
        /\ Len(log') # 0 /\ states' = [states EXCEPT ![e] = Len(log')]
        /\ stack' = Append(below, g) /\ callbacks[e] \in Seq(Handlers)
        /\ UNCHANGED <<callbacks, stopped, fired, event, since, got>>
    BY DEF IInv, TypeOK, Dispatch, registration
  <1>1. g \in Frames /\ g.event = e /\ g.rest = callbacks[e] /\ g.kind = "dispatch"
    BY <1>0, NewFrames
  <1> HIDE DEF g
  <1>2. stack' \in Seq(Frames) /\ ToSet(stack') = ToSet(below) \cup {g}
    BY <1>0, <1>1, AppendElements
  <1>3. TypeOK'
    BY <1>0, <1>2 DEF IInv, TypeOK
  <1>4. Bookkeeping'
    BY <1>0, KeepsBooks DEF IInv
  <1>5. Snapshots'
    <2>1. \A h \in ToSet(g.rest) : Owns(h, g.event)
      BY <1>1 DEF IInv, Bookkeeping, Arrays
    <2>2. FrameOK(g)
      BY <1>1, <2>1 DEF FrameOK
    <2>3. \A f \in ToSet(stack) : FrameOK(f)
      BY DEF IInv, Snapshots
    <2>4. \A f \in ToSet(stack') : FrameOK(f)
      BY <1>2, <2>2, <2>3
    <2> QED BY <1>0, <2>4, KeepsSnapshots
  <1>6. /\ e # Stop => states'[Stop] = states[Stop]
        /\ states'[e] # 0
    BY <1>0, EventsAssumption DEF IInv, TypeOK
  <1>7. StopNeedsFlag'
    BY <1>0, <1>1, <1>2, <1>6 DEF IInv, StopNeedsFlag, Occurred
  <1>8. StopServes'
    <2>1. CASE e = Stop
      <3>1. \A h \in Waiters \ fired : event[h] # NoEvent => h \in ToSet(callbacks[Stop])
        BY DEF IInv, Bookkeeping, NothingLeftBehind, Registered
      <3> QED BY <1>0, <1>1, <1>2, <2>1, <3>1 DEF StopServes
    <2>2. CASE e # Stop
      <3>1. Occurred(Stop)' => Occurred(Stop)
        BY <1>6, <2>2 DEF Occurred
      <3>2. \A f \in ToSet(stack) : f \in ToSet(stack') \/ ToSet(f.rest) = {}
        BY <1>2, EmptyHasNoElements
      <3>3. \A h \in Waiters \ fired' : \A f \in ToSet(stack) :
              h \in ToSet(f.rest) => \E k \in ToSet(stack') : h \in ToSet(k.rest)
        BY <3>2
      <3> QED BY <1>0, <3>1, <3>3, KeepsServing DEF IInv
    <2> QED BY <2>1, <2>2
  <1> QED BY <1>3, <1>4, <1>5, <1>7, <1>8 DEF IInv

LEMMA TriggerStep ==
  ASSUME IInv, NEW e \in Events, Trigger(e)
  PROVE  IInv'
  <1>1. stack \in Seq(Frames)
    BY DEF IInv, TypeOK
  <1> QED BY <1>1, DispatchStep DEF Trigger

(* The frame of on_stop() holds nobody, and stands for the flag. *)
LEMMA OnStopFrame ==
  ASSUME IInv, stack # <<>>, Top.kind = "on_stop"
  PROVE  /\ Front(stack) \in Seq(Frames) /\ stopped
         /\ \A f \in ToSet(Front(stack)) : f \in ToSet(stack)
         /\ \A f \in ToSet(stack) : f \in ToSet(Front(stack)) \/ f.rest = <<>>
  <1>1. /\ Front(stack) \in Seq(Frames)
        /\ ToSet(stack) = ToSet(Front(stack)) \cup {Top}
    BY TopElements DEF IInv, TypeOK
  <1>2. Top.rest = <<>> /\ stopped
    BY <1>1 DEF IInv, Snapshots, FrameOK, StopNeedsFlag
  <1> QED BY <1>1, <1>2

LEMMA OnStopReturnsStep ==
  ASSUME IInv, OnStopReturns
  PROVE  IInv'
  <1>1. stack # <<>> /\ Top.kind = "on_stop" /\ Dispatch(Stop, Front(stack))
        /\ UNCHANGED <<callbacks, stopped, fired, registration, got>>
    BY DEF OnStopReturns
  <1> QED BY <1>1, OnStopFrame, DispatchStep, EventsAssumption

(* The stack loses its top frame, which holds nobody, or gets one that     *)
(* holds nobody; nothing else but the flag changes.                        *)
LEMMA FrameComesOrGoes ==
  ASSUME IInv, stack' \in Seq(Frames), stopped' \in BOOLEAN,
         UNCHANGED stopped \/ stopped' = TRUE,
         \A f \in ToSet(stack) : f \in ToSet(stack') \/ f.rest = <<>>,
         \A f \in ToSet(stack') : f \in ToSet(stack) \/ (f = StopFrame /\ stopped'),
         UNCHANGED <<queues, fired, log, registration, got>>
  PROVE  IInv'
  <1>0. UNCHANGED <<callbacks, states, fired, log, event, since, got>>
    BY DEF queues, registration
  <1>1. TypeOK'
    BY <1>0 DEF IInv, TypeOK
  <1>2. Bookkeeping'
    BY <1>0, KeepsBooks DEF IInv
  <1>3. Snapshots'
    <2>1. FrameOK(StopFrame)
      BY EmptyHasNoElements DEF StopFrame, FrameOK
    <2>2. \A f \in ToSet(stack') : FrameOK(f)
      BY <2>1 DEF IInv, Snapshots
    <2> QED BY <1>0, <2>2, KeepsSnapshots
  <1>4. StopNeedsFlag'
    BY <1>0 DEF IInv, StopNeedsFlag, Occurred
  <1>5. StopServes'
    <2>1. \A f \in ToSet(stack) : f \in ToSet(stack') \/ ToSet(f.rest) = {}
      BY EmptyHasNoElements
    <2>2. \A h \in Waiters \ fired' : \A f \in ToSet(stack) :
            h \in ToSet(f.rest) => \E k \in ToSet(stack') : h \in ToSet(k.rest)
      BY <2>1
    <2>3. Occurred(Stop)' => Occurred(Stop)
      BY <1>0 DEF Occurred
    <2> QED BY <1>0, <2>2, <2>3, KeepsServing DEF IInv
  <1> QED BY <1>1, <1>2, <1>3, <1>4, <1>5 DEF IInv

LEMMA BeginStopStep ==
  ASSUME IInv, BeginStop
  PROVE  IInv'
  <1>1. stack' = Push(StopFrame) /\ stopped' = TRUE
        /\ UNCHANGED <<queues, fired, log, registration, got>>
    BY DEF BeginStop
  <1>2. StopFrame \in Frames /\ stack \in Seq(Frames)
    BY EventsAssumption DEF StopFrame, Frames, IInv, TypeOK
  <1>3. stack' \in Seq(Frames) /\ ToSet(stack') = ToSet(stack) \cup {StopFrame}
    BY <1>1, <1>2, PushElements
  <1> QED BY <1>1, <1>3, FrameComesOrGoes

LEMMA OnStopThrowsStep ==
  ASSUME IInv, OnStopThrows
  PROVE  IInv'
  <1>1. stack # <<>> /\ Top.kind = "on_stop" /\ stack' = Front(stack)
        /\ UNCHANGED <<queues, stopped, fired, log, registration, got>>
    BY DEF OnStopThrows
  <1>2. stopped' \in BOOLEAN
    BY <1>1 DEF IInv, TypeOK
  <1> QED BY <1>1, <1>2, OnStopFrame, FrameComesOrGoes

LEMMA EndOfDispatchStep ==
  ASSUME IInv, EndOfDispatch
  PROVE  IInv'
  <1>1. stack # <<>> /\ Top.rest = <<>> /\ stack' = Front(stack)
        /\ UNCHANGED <<queues, stopped, fired, log, registration, got>>
    BY DEF EndOfDispatch, InLoop
  <1>2. /\ stack' \in Seq(Frames) /\ stopped' \in BOOLEAN
        /\ ToSet(stack) = ToSet(stack') \cup {Top}
    BY <1>1, TopElements DEF IInv, TypeOK
  <1> QED BY <1>1, <1>2, FrameComesOrGoes

-----------------------------------------------------------------------------
(* The dispatch loop *)
LEMMA ReturnStep ==
  ASSUME IInv, Return
  PROVE  IInv'
  <1> DEFINE g == [Top EXCEPT !.running = FALSE]
  <1>0. /\ stack # <<>> /\ Top.kind = "dispatch" /\ stack' = Replace(g)
        /\ stack \in Seq(Frames)
        /\ UNCHANGED <<callbacks, states, stopped, fired, log, event, since, got>>
    BY DEF IInv, TypeOK, Return, queues, registration
  <1>1. /\ g \in Frames /\ g.kind = "dispatch" /\ g.rest = Top.rest /\ g.event = Top.event
    BY <1>0, TopElements DEF Frames
  <1> HIDE DEF g
  <1>2. /\ stack' \in Seq(Frames)
        /\ ToSet(stack') = ToSet(Front(stack)) \cup {g}
        /\ ToSet(stack) = ToSet(Front(stack)) \cup {Top}
    BY <1>0, <1>1, ReplaceElements, TopElements
  <1>3. TypeOK'
    BY <1>0, <1>2 DEF IInv, TypeOK
  <1>4. Bookkeeping'
    BY <1>0, KeepsBooks DEF IInv
  <1>5. Snapshots'
    <2>1. \A h \in ToSet(g.rest) : Owns(h, g.event)
      BY <1>1, <1>2 DEF IInv, Snapshots, FrameOK
    <2>2. FrameOK(g)
      BY <1>1, <2>1 DEF FrameOK
    <2>3. \A f \in ToSet(stack) : FrameOK(f)
      BY DEF IInv, Snapshots
    <2>4. \A f \in ToSet(stack') : FrameOK(f)
      BY <1>2, <2>2, <2>3
    <2> QED BY <1>0, <2>4, KeepsSnapshots
  <1>6. StopNeedsFlag'
    BY <1>0, <1>1, <1>2 DEF IInv, StopNeedsFlag, Occurred
  <1>7. StopServes'
    <2>1. \A h \in Waiters \ fired' : \A f \in ToSet(stack) :
            h \in ToSet(f.rest) => \E k \in ToSet(stack') : h \in ToSet(k.rest)
      BY <1>1, <1>2
    <2>2. Occurred(Stop)' => Occurred(Stop)
      BY <1>0 DEF Occurred
    <2> QED BY <1>0, <2>1, <2>2, KeepsServing DEF IInv
  <1> QED BY <1>3, <1>4, <1>5, <1>6, <1>7 DEF IInv

(* The loop takes the next callback of its snapshot.  What it takes has a  *)
(* registration, and if it is a waiter that still waited, it is used up.   *)
LEMMA LoopAdvances ==
  ASSUME IInv, InLoop, Top.rest # <<>>, NEW b \in BOOLEAN, stack' = Advance(b),
         UNCHANGED <<states, stopped, event>>, fired \subseteq fired',
         Next1 \in Waiters => Next1 \in fired'
  PROVE  /\ stack' \in Seq(Frames) /\ Snapshots' /\ StopNeedsFlag' /\ StopServes'
         /\ Next1 \in Handlers /\ Top.event \in Events /\ Top.payload \in Nat
         /\ Owns(Next1, Top.event) /\ event[Next1] # NoEvent
  <1> DEFINE g == [Top EXCEPT !.rest = Tail(@), !.running = b]
  <1>0. stack \in Seq(Frames) /\ stack # <<>>
    BY DEF IInv, TypeOK, InLoop
  <1>1. /\ g \in Frames /\ g.event = Top.event /\ g.kind = "dispatch"
        /\ ToSet(Top.rest) = ToSet(g.rest) \cup {Next1}
        /\ Next1 \in Handlers
        /\ stack' \in Seq(Frames)
        /\ ToSet(stack') = ToSet(Front(stack)) \cup {g}
    BY <1>0, AdvancedFrame
  <1> HIDE DEF g
  <1>2. Top \in Frames /\ ToSet(stack) = ToSet(Front(stack)) \cup {Top}
    BY <1>0, TopElements
  <1>3. \A h \in ToSet(Top.rest) : Owns(h, Top.event)
    BY <1>2 DEF IInv, Snapshots, FrameOK
  <1>4. Top.event \in Events /\ Top.payload \in Nat
    BY <1>2 DEF Frames
  <1>5. Owns(Next1, Top.event) /\ event[Next1] # NoEvent
    BY <1>1, <1>3, <1>4, EventsAssumption DEF Owns
  <1>6. Snapshots'
    <2>1. \A h \in ToSet(g.rest) : Owns(h, g.event)
      BY <1>1, <1>3
    <2>2. FrameOK(g)
      BY <1>1, <2>1 DEF FrameOK
    <2>3. \A f \in ToSet(stack) : FrameOK(f)
      BY DEF IInv, Snapshots
    <2>4. \A f \in ToSet(stack') : FrameOK(f)
      BY <1>1, <1>2, <2>2, <2>3
    <2> QED BY <2>4, KeepsSnapshots
  <1>7. StopNeedsFlag'
    BY <1>1, <1>2 DEF IInv, StopNeedsFlag, Occurred
  <1>8. StopServes'
    <2>1. \A h \in Waiters \ fired' : h # Next1
      OBVIOUS
    <2>2. \A h \in Waiters \ fired' : \A f \in ToSet(stack) :
            h \in ToSet(f.rest) => \E k \in ToSet(stack') : h \in ToSet(k.rest)
      BY <1>1, <1>2, <2>1
    <2>3. Occurred(Stop)' => Occurred(Stop)
      BY DEF Occurred
    <2> QED BY <2>2, <2>3, KeepsServing DEF IInv
  <1> QED BY <1>1, <1>4, <1>5, <1>6, <1>7, <1>8

LEMMA SkipFiredStep ==
  ASSUME IInv, SkipFired
  PROVE  IInv'
  <1>0. /\ InLoop /\ Top.rest # <<>> /\ Next1 \in fired /\ stack' = Advance(FALSE)
        /\ UNCHANGED <<callbacks, states, stopped, fired, log, event, since, got>>
    BY DEF SkipFired, queues, registration
  <1>1. stack' \in Seq(Frames) /\ Snapshots' /\ StopNeedsFlag' /\ StopServes'
    BY <1>0, LoopAdvances
  <1>2. Bookkeeping'
    BY <1>0, KeepsBooks DEF IInv
  <1>3. TypeOK'
    BY <1>0, <1>1 DEF IInv, TypeOK
  <1> QED BY <1>1, <1>2, <1>3 DEF IInv

LEMMA CallOnStep ==
  ASSUME IInv, CallOn
  PROVE  IInv'
  <1>0. /\ InLoop /\ Top.rest # <<>> /\ stack' = Advance(TRUE)
        /\ Next1 \in OnHandlers /\ Next1 \notin OneShot /\ Next1 \notin Waiters
        /\ Receives(Next1, Top.payload)
        /\ UNCHANGED <<callbacks, states, stopped, fired, log, event, since>>
    BY EventsAssumption DEF CallOn, queues, registration, OneShot
  <1>1. /\ stack' \in Seq(Frames) /\ Snapshots' /\ StopNeedsFlag' /\ StopServes'
        /\ Next1 \in Handlers /\ Top.payload \in Nat /\ event[Next1] # NoEvent
    BY <1>0, LoopAdvances
  <1>2. /\ got' \in [Handlers -> Seq(Nat)]
        /\ \A k \in Handlers : k # Next1 => got'[k] = got[k]
    BY <1>0, <1>1, ReceivedOnce
  <1>3. TypeOK'
    BY <1>0, <1>1, <1>2 DEF IInv, TypeOK
  <1>4. Arrays'
    BY <1>0 DEF IInv, Bookkeeping, Arrays, Owns
  <1>5. Unused' /\ WaitersWait'
    BY <1>0, <1>1, <1>2 DEF IInv, Bookkeeping, Unused, WaitersWait
  <1>6. Pending' /\ OnceIsOnce'
    BY <1>0, <1>2 DEF IInv, Bookkeeping, Pending, OnceIsOnce, OneShot, Handlers
  <1>7. NothingLeftBehind'
    BY <1>0 DEF IInv, Bookkeeping, NothingLeftBehind, Registered
  <1> QED BY <1>1, <1>3, <1>4, <1>5, <1>6, <1>7 DEF IInv, Bookkeeping

(* A one-shot handler is used up: out of every array it was in, not out of *)
(* the snapshots.                                                          *)
LEMMA UsingUpKeepsBooks ==
  ASSUME IInv, NEW h \in OneShot, h \notin fired, event[h] # NoEvent,
         NEW D \in SUBSET Events, \A x \in Events : Owns(h, x) => x \in D,
         callbacks' = [x \in Events |-> IF x \in D THEN RemoveFirst(callbacks[x], h)
                                                   ELSE callbacks[x]],
         fired' = fired \cup {h}, UNCHANGED event,
         \A k \in Handlers : k # h => got'[k] = got[k],
         Len(got'[h]) <= 1
  PROVE  Bookkeeping' /\ callbacks' \in [Events -> Seq(Handlers)]
  <1>0. /\ callbacks \in [Events -> Seq(Handlers)] /\ h \in Handlers
        /\ OneShot \subseteq Handlers /\ Waiters \subseteq OneShot
        /\ event \in [Handlers -> Events \cup {NoEvent}] /\ Stop \in Events
    BY EventsAssumption DEF IInv, TypeOK, OneShot, Handlers
  <1>1. ASSUME NEW x \in Events
        PROVE  /\ callbacks'[x] \in Seq(Handlers) /\ NoRepeats(callbacks'[x])
               /\ ToSet(callbacks'[x]) = ToSet(callbacks[x]) \ {h}
    <2>0. NoRepeats(callbacks[x]) /\ \A k \in ToSet(callbacks[x]) : Owns(k, x)
      BY DEF IInv, Bookkeeping, Arrays
    <2>1. CASE x \in D
      BY <1>0, <2>0, <2>1, RemoveFirstElements
    <2>2. CASE x \notin D
      BY <1>0, <2>0, <2>2
    <2> QED BY <2>1, <2>2
  <1>2. callbacks' \in [Events -> Seq(Handlers)]
    BY <1>1
  <1>3. Arrays'
    BY <1>1 DEF IInv, Bookkeeping, Arrays, Owns
  <1>4. Unused' /\ WaitersWait'
    BY DEF IInv, Bookkeeping, Unused, WaitersWait
  <1>5. Pending'
    BY <1>0 DEF IInv, Bookkeeping, Pending
  <1>6. OnceIsOnce'
    BY <1>0 DEF IInv, Bookkeeping, OnceIsOnce, OneShot
  <1>7. NothingLeftBehind'
    <2> SUFFICES ASSUME NEW k \in OneShot, event[k] # NoEvent
                 PROVE  /\ k \in fired' => \A x \in Events : k \notin ToSet(callbacks'[x])
                        /\ k \notin fired' =>
                             /\ k \in ToSet(callbacks'[event[k]])
                             /\ k \in Waiters => k \in ToSet(callbacks'[Stop])
      BY DEF NothingLeftBehind, Registered, OneShot
    <2>1. CASE k = h
      BY <1>1, <2>1
    <2>2. CASE k # h
      <3>1. event[k] \in Events
        BY <1>0
      <3>2. /\ k \in fired => \A x \in Events : k \notin ToSet(callbacks[x])
            /\ k \notin fired =>
                 /\ k \in ToSet(callbacks[event[k]])
                 /\ k \in Waiters => k \in ToSet(callbacks[Stop])
        BY DEF IInv, Bookkeeping, NothingLeftBehind, Registered, OneShot
      <3> QED BY <1>0, <1>1, <2>2, <3>1, <3>2
    <2> QED BY <2>1, <2>2
  <1> QED BY <1>2, <1>3, <1>4, <1>5, <1>6, <1>7 DEF Bookkeeping

LEMMA CallOnceStep ==
  ASSUME IInv, CallOnce
  PROVE  IInv'
  <1>0. /\ InLoop /\ Top.rest # <<>> /\ stack' = Advance(TRUE)
        /\ Next1 \in OneShot /\ Next1 \notin Waiters /\ Next1 \notin fired
        /\ fired' = fired \cup {Next1} /\ Receives(Next1, Top.payload)
        /\ callbacks' = [callbacks EXCEPT ![Top.event] = RemoveFirst(@, Next1)]
        /\ UNCHANGED <<states, stopped, log, event, since>>
    BY EventsAssumption DEF CallOnce, registration, OneShot
  <1>1. /\ stack' \in Seq(Frames) /\ Snapshots' /\ StopNeedsFlag' /\ StopServes'
        /\ Next1 \in Handlers /\ Top.event \in Events /\ Top.payload \in Nat
        /\ Owns(Next1, Top.event) /\ event[Next1] # NoEvent
    BY <1>0, LoopAdvances
  <1>2. /\ got' \in [Handlers -> Seq(Nat)] /\ Len(got'[Next1]) <= 1
        /\ \A k \in Handlers : k # Next1 => got'[k] = got[k]
    <2>1. got[Next1] = <<>>
      BY <1>0 DEF IInv, Bookkeeping, Pending
    <2>2. /\ got' \in [Handlers -> Seq(Nat)] /\ Len(got'[Next1]) = 1
          /\ \A k \in Handlers : k # Next1 => got'[k] = got[k]
      BY <1>0, <1>1, <2>1, ReceivedOnce
    <2> QED BY <2>2
  <1>3. Bookkeeping' /\ callbacks' \in [Events -> Seq(Handlers)]
    <2> DEFINE D == {Top.event}
    <2>1. \A x \in Events : Owns(Next1, x) => x \in D
      BY <1>0, <1>1 DEF Owns
    <2>2. D \in SUBSET Events
      BY <1>1
    <2>3. callbacks' = [x \in Events |-> IF x \in D THEN RemoveFirst(callbacks[x], Next1)
                                                    ELSE callbacks[x]]
      BY <1>0, <1>1 DEF IInv, TypeOK
    <2> HIDE DEF D
    <2> QED BY <1>0, <1>1, <1>2, <2>1, <2>2, <2>3, UsingUpKeepsBooks
  <1>4. TypeOK'
    BY <1>0, <1>1, <1>2, <1>3 DEF IInv, TypeOK
  <1> QED BY <1>1, <1>3, <1>4 DEF IInv

LEMMA CallWaiterStep ==
  ASSUME IInv, CallWaiter
  PROVE  IInv'
  <1>0. /\ InLoop /\ Top.rest # <<>>
        /\ Next1 \in OneShot /\ Next1 \in Waiters /\ Next1 \notin fired
        /\ fired' = fired \cup {Next1}
        /\ callbacks' = [callbacks EXCEPT ![event[Next1]] = RemoveFirst(@, Next1),
                                          ![Stop] = RemoveFirst(@, Next1)]
        /\ \/ UNCHANGED got /\ stack' = Advance(FALSE)
           \/ Receives(Next1, Top.payload) /\ stack' = Advance(TRUE)
        /\ UNCHANGED <<states, stopped, log, event, since>>
    BY DEF CallWaiter, registration, OneShot
  <1>1. /\ stack' \in Seq(Frames) /\ Snapshots' /\ StopNeedsFlag' /\ StopServes'
        /\ Next1 \in Handlers /\ Top.payload \in Nat /\ event[Next1] # NoEvent
    BY <1>0, LoopAdvances
  <1>2. /\ got' \in [Handlers -> Seq(Nat)] /\ Len(got'[Next1]) <= 1
        /\ \A k \in Handlers : k # Next1 => got'[k] = got[k]
    <2>1. got[Next1] = <<>>
      BY <1>0 DEF IInv, Bookkeeping, Pending
    <2>2. CASE UNCHANGED got
      BY <2>1, <2>2 DEF IInv, TypeOK
    <2>3. CASE Receives(Next1, Top.payload)
      <3>1. /\ got' \in [Handlers -> Seq(Nat)] /\ Len(got'[Next1]) = 1
            /\ \A k \in Handlers : k # Next1 => got'[k] = got[k]
        BY <1>1, <2>1, <2>3, ReceivedOnce
      <3> QED BY <3>1
    <2> QED BY <1>0, <2>2, <2>3
  <1>3. Bookkeeping' /\ callbacks' \in [Events -> Seq(Handlers)]
    <2> DEFINE D == {event[Next1], Stop}
    <2>1. \A x \in Events : Owns(Next1, x) => x \in D
      BY DEF Owns
    <2>2. D \in SUBSET Events
      BY <1>1, EventsAssumption DEF IInv, TypeOK
    <2>3. event[Next1] # Stop
      BY <1>0 DEF IInv, Bookkeeping, WaitersWait
    <2>4. callbacks' = [x \in Events |-> IF x \in D THEN RemoveFirst(callbacks[x], Next1)
                                                    ELSE callbacks[x]]
      BY <1>0, <2>3 DEF IInv, TypeOK
    <2> HIDE DEF D
    <2> QED BY <1>0, <1>1, <1>2, <2>1, <2>2, <2>4, UsingUpKeepsBooks
  <1>4. TypeOK'
    BY <1>0, <1>1, <1>2, <1>3 DEF IInv, TypeOK
  <1> QED BY <1>1, <1>3, <1>4 DEF IInv

-----------------------------------------------------------------------------
THEOREM Invariance == Spec => []IInv
  <1>1. Init => IInv
    BY InitHolds
  <1>2. IInv /\ [Next]_vars => IInv'
    <2> SUFFICES ASSUME IInv, [Next]_vars
                 PROVE  IInv'
      OBVIOUS
    <2>1. CASE UNCHANGED vars
      <3>1. UNCHANGED <<queues, stack, stopped, fired, log, registration, got>>
        BY <2>1 DEF vars, queues, registration
      <3>2. stack' \in Seq(Frames) /\ stopped' \in BOOLEAN
        BY <3>1 DEF IInv, TypeOK
      <3> QED BY <3>1, <3>2, FrameComesOrGoes
    <2>2. CASE Register
      BY <2>2, OnStep, OnceStep, SettleOnStep DEF Register
    <2>3. CASE \E e \in Events : Trigger(e) \/ Invalidate(e)
      BY <2>3, TriggerStep, InvalidateStep
    <2>4. CASE BeginStop
      BY <2>4, BeginStopStep
    <2>5. CASE OnStopReturns
      BY <2>5, OnStopReturnsStep
    <2>6. CASE OnStopThrows
      BY <2>6, OnStopThrowsStep
    <2>7. CASE CallOn
      BY <2>7, CallOnStep
    <2>8. CASE SkipFired
      BY <2>8, SkipFiredStep
    <2>9. CASE CallOnce
      BY <2>9, CallOnceStep
    <2>10. CASE CallWaiter
      BY <2>10, CallWaiterStep
    <2>11. CASE Return
      BY <2>11, ReturnStep
    <2>12. CASE EndOfDispatch
      BY <2>12, EndOfDispatchStep
    <2> QED BY <2>1, <2>2, <2>3, <2>4, <2>5, <2>6, <2>7, <2>8, <2>9, <2>10, <2>11, <2>12
            DEF Next
  <1> QED BY <1>1, <1>2, PTL DEF Spec

(* The arrays hold handlers, frames are dispatches or an on_stop(), and    *)
(* what every handler was called with is a payload.                        *)
(* (component-events.ts:33-160, component.ts:2606-2652)                    *)
THEOREM TypeCorrect == Spec => []TypeOK
  BY Invariance, PTL DEF IInv

(* A once() handler and the callback of ready() are called at most once,   *)
(* however the dispatches that hold them nest.                             *)
(* (component-events.ts:75-91, component.ts:2087-2106)                     *)
THEOREM OnceHandlersFireOnce == Spec => []OnceIsOnce
  BY Invariance, PTL DEF IInv, Bookkeeping

(* A used up handler is in no array, a waiting one in all those it needs.  *)
(* (component-events.ts:75-97, component.ts:2081-2117)                     *)
THEOREM ArraysDoNotAccumulate == Spec => []NothingLeftBehind
  BY Invariance, PTL DEF IInv, Bookkeeping

(* When the dispatch of 'stop' is over nobody waits on the component any   *)
(* more, whoever registered between the flag and the event.                *)
(* (component.ts:2070-2117, 2606-2652)                                     *)
THEOREM StopReleasesWaiters == Spec => []StopReleases
  <1>1. IInv => StopReleases
    <2> SUFFICES ASSUME IInv, Idle, Occurred(Stop), NEW h \in Waiters,
                        event[h] # NoEvent, h \notin fired
                 PROVE  FALSE
      BY DEF StopReleases
    <2>1. ToSet(stack) = {}
      BY EmptyHasNoElements DEF Idle
    <2> QED BY <2>1 DEF IInv, StopServes
  <1> QED BY <1>1, Invariance, PTL

-----------------------------------------------------------------------------
(* What the snapshots are for.  DInv follows the handlers from the trigger *)
(* that took a snapshot to their call: a trigger a handler is still owed   *)
(* is the payload of exactly one frame that still holds the handler.       *)
Heard(h) == ToSet(got[h])
Held(h, n) == \E f \in ToSet(stack) : f.payload = n /\ h \in ToSet(f.rest)

(* An on() handler is never used up: it stays in the array of its event.   *)
StaysRegistered ==
  /\ fired \cap OnHandlers = {}
  /\ \A h \in OnHandlers : event[h] # NoEvent => Registered(h, event[h])

LastTriggers ==
  \A e \in Events : Occurred(e) => states[e] \in DOMAIN log /\ log[states[e]] = e

Told ==
  \A h \in OnHandlers : /\ NoRepeats(got[h])
                        /\ \A n \in Heard(h) : n \in DOMAIN log /\ log[n] = event[h]

(* The payload of a frame is the trigger it dispatches; who is still in    *)
(* its snapshot has not been told.                                         *)
Dispatching(f) ==
  f.kind = "dispatch" =>
    /\ f.payload \in DOMAIN log /\ log[f.payload] = f.event
    /\ NoRepeats(f.rest)
    /\ \A h \in ToSet(f.rest) \cap OnHandlers : f.payload \notin Heard(h)

Dispatches == \A f \in ToSet(stack) : Dispatching(f)

(* No two frames dispatch the same trigger (a sticky call has no rest).    *)
Nested(s) ==
  \A i, j \in DOMAIN s :
    i # j /\ s[i].rest # <<>> /\ s[j].rest # <<>> => s[i].payload # s[j].payload

Owed ==
  \A h \in OnHandlers : event[h] # NoEvent =>
    \A n \in DOMAIN log : log[n] = event[h] /\ n > since[h] => n \in Heard(h) \/ Held(h, n)

(* A handler whose event stands as occurred, or was triggered after it     *)
(* came, has been called or is in a snapshot.                              *)
HasOccurred(h) ==
  Occurred(event[h]) \/ \E n \in DOMAIN log : n > since[h] /\ log[n] = event[h]
Served(h) == h \in fired \/ (h \in OnHandlers /\ got[h] # <<>>)

Informed ==
  \A h \in Handlers : event[h] # NoEvent /\ HasOccurred(h) =>
    Served(h) \/ \E f \in ToSet(stack) : h \in ToSet(f.rest)

DInv ==
  /\ StaysRegistered /\ LastTriggers /\ Told
  /\ Dispatches /\ Nested(stack)
  /\ Owed /\ Informed

LEMMA NestedAppend ==
  ASSUME NEW s \in Seq(Frames), NEW f \in Frames, Nested(s),
         \/ f.rest = <<>>
         \/ \A g \in ToSet(s) : g.rest # <<>> => g.payload # f.payload
  PROVE  Nested(Append(s, f))
  <1> DEFINE t == Append(s, f)
  <1>1. /\ Len(t) = Len(s) + 1 /\ Len(s) \in Nat
        /\ \A i \in 1 .. Len(s) : t[i] = s[i]
        /\ t[Len(s) + 1] = f /\ t \in Seq(Frames)
    BY AppendProperties
  <1> HIDE DEF t
  <1>2. DOMAIN t = 1 .. (Len(s) + 1) /\ DOMAIN s = 1 .. Len(s)
    BY <1>1
  <1>3. \A i \in DOMAIN s : s[i] \in ToSet(s)
    BY DEF ToSet
  <1>4. ASSUME NEW i \in DOMAIN t, NEW j \in DOMAIN t, i # j,
               t[i].rest # <<>>, t[j].rest # <<>>
        PROVE  t[i].payload # t[j].payload
    <2>1. CASE i \in DOMAIN s /\ j \in DOMAIN s
      BY <1>1, <1>2, <1>4, <2>1 DEF Nested
    <2>2. CASE i = Len(s) + 1 /\ j \in DOMAIN s
      BY <1>1, <1>2, <1>3, <1>4, <2>2
    <2>3. CASE j = Len(s) + 1 /\ i \in DOMAIN s
      BY <1>1, <1>2, <1>3, <1>4, <2>3
    <2> QED BY <1>1, <1>2, <1>4, <2>1, <2>2, <2>3
  <1> QED BY <1>4 DEF Nested, t

LEMMA NestedFront ==
  ASSUME NEW s \in Seq(Frames), s # <<>>, Nested(s)
  PROVE  /\ Nested(Front(s))
         /\ \A g \in ToSet(Front(s)) :
              g.rest # <<>> /\ s[Len(s)].rest # <<>> => g.payload # s[Len(s)].payload
  <1> DEFINE t == SubSeq(s, 1, Len(s) - 1)
  <1>1. Len(s) \in Nat /\ Len(s) > 0
    BY EmptySeq
  <1>2. t = [i \in 1 .. (Len(s) - 1) |-> s[i]]
    BY <1>1
  <1> HIDE DEF t
  <1>3. /\ DOMAIN t = 1 .. (Len(s) - 1) /\ DOMAIN s = 1 .. Len(s)
        /\ \A i \in DOMAIN t : t[i] = s[i] /\ i \in DOMAIN s /\ i # Len(s)
        /\ Len(s) \in DOMAIN s
    BY <1>1, <1>2
  <1>4. Nested(t)
    BY <1>3 DEF Nested
  <1>5. \A g \in ToSet(t) :
          g.rest # <<>> /\ s[Len(s)].rest # <<>> => g.payload # s[Len(s)].payload
    BY <1>3 DEF Nested, ToSet
  <1> QED BY <1>4, <1>5 DEF Front, t

LEMMA NestedReplace ==
  ASSUME stack \in Seq(Frames), stack # <<>>, Nested(stack), NEW f \in Frames,
         f.payload = Top.payload, f.rest # <<>> => Top.rest # <<>>
  PROVE  Nested(Replace(f))
  <1>1. /\ Nested(Front(stack)) /\ Front(stack) \in Seq(Frames)
        /\ \A g \in ToSet(Front(stack)) :
             g.rest # <<>> /\ Top.rest # <<>> => g.payload # Top.payload
    BY NestedFront, TopElements DEF Top
  <1> QED BY <1>1, NestedAppend DEF Replace

-----------------------------------------------------------------------------
LEMMA DInvInit ==
  ASSUME Init
  PROVE  DInv
  <1>1. stack = <<>> /\ log = <<>> /\ ToSet(stack) = {} /\ DOMAIN stack = {} /\ DOMAIN log = {}
    BY EmptyHasNoElements DEF Init
  <1>2. /\ \A h \in Handlers : event[h] = NoEvent /\ got[h] = <<>>
        /\ \A e \in Events : ~ Occurred(e)
        /\ OnHandlers \subseteq Handlers
    BY DEF Init, Occurred, Handlers
  <1>3. \A h \in OnHandlers : Heard(h) = {} /\ NoRepeats(got[h])
    BY <1>2, EmptyHasNoElements DEF Heard, NoRepeats
  <1>4. StaysRegistered /\ LastTriggers /\ Told /\ Owed /\ Informed
    BY <1>1, <1>2, <1>3 DEF Init, StaysRegistered, LastTriggers, Told, Owed, Informed
  <1>5. Dispatches /\ Nested(stack)
    BY <1>1 DEF Dispatches, Nested
  <1> QED BY <1>4, <1>5 DEF DInv

(* Nobody is called and nothing is triggered: frames come or go that hold  *)
(* nobody, and an event may be invalidated.                                *)
LEMMA NobodyCalled ==
  ASSUME DInv, UNCHANGED <<callbacks, fired, log, event, since, got>>,
         \A e \in Events : states'[e] = states[e] \/ states'[e] = 0,
         IInv, Nested(stack'),
         \A g \in ToSet(stack') :
           \/ g.kind = "on_stop"
           \/ \E f \in ToSet(stack) : /\ g.kind = f.kind /\ g.event = f.event
                                      /\ g.payload = f.payload /\ g.rest = f.rest,
         \A f \in ToSet(stack) :
           \/ f.rest = <<>>
           \/ \E g \in ToSet(stack') : g.payload = f.payload /\ g.rest = f.rest
  PROVE  DInv'
  <1>1. \A h : Heard(h)' = Heard(h)
    BY DEF Heard
  <1>2. /\ \A h, n : Held(h, n) => Held(h, n)'
        /\ \A h : (\E f \in ToSet(stack) : h \in ToSet(f.rest)) =>
                  \E f \in ToSet(stack') : h \in ToSet(f.rest)
    <2>1. \A h : \A f \in ToSet(stack) : h \in ToSet(f.rest) => f.rest # <<>>
      BY EmptyHasNoElements
    <2>2. \A h : \A f \in ToSet(stack) : h \in ToSet(f.rest) =>
            \E g \in ToSet(stack') : g.payload = f.payload /\ g.rest = f.rest
      BY <2>1
    <2> QED BY <2>2 DEF Held
  <1>3. StaysRegistered' /\ Told'
    BY <1>1 DEF DInv, StaysRegistered, Told, Registered
  <1>4. LastTriggers' /\ \A e \in Events : Occurred(e)' => Occurred(e)
    BY DEF DInv, LastTriggers, Occurred
  <1>5. Dispatches'
    BY <1>1 DEF DInv, Dispatches, Dispatching
  <1>6. Owed'
    BY <1>1, <1>2 DEF DInv, Owed
  <1>7. Informed'
    <2> SUFFICES ASSUME NEW h \in Handlers, event[h] # NoEvent, HasOccurred(h)'
                 PROVE  Served(h)' \/ \E f \in ToSet(stack') : h \in ToSet(f.rest)
      BY DEF Informed
    <2>1. event[h] \in Events
      BY DEF IInv, TypeOK
    <2>2. HasOccurred(h)
      BY <1>4, <2>1 DEF HasOccurred
    <2> QED BY <1>2, <2>2 DEF DInv, Informed, Served
  <1> QED BY <1>3, <1>4, <1>5, <1>6, <1>7 DEF DInv

(* A handler registers: it is in no snapshot, and if it is called at once  *)
(* that is with the last trigger of its event.                             *)
LEMMA RegisteringKeepsDelivery ==
  ASSUME IInv, DInv, NEW h \in Handlers, NEW e \in Events, Enter(h, e),
         UNCHANGED <<states, log>>, fired \subseteq fired',
         fired' \cap OnHandlers = fired \cap OnHandlers,
         \A k \in OnHandlers, x \in Events : Registered(k, x) => Registered(k, x)',
         h \in OnHandlers => Registered(h, e)',
         \/ UNCHANGED <<stack, got>>
         \/ /\ Occurred(e) /\ stack' = Push(Frame(e, states[e], <<>>, TRUE))
            /\ Receives(h, states[e]),
         Occurred(e) => Served(h)'
  PROVE  DInv'
  <1>0. /\ stack \in Seq(Frames) /\ states[e] \in Nat
        /\ event \in [Handlers -> Events \cup {NoEvent}]
        /\ since \in [Handlers -> Nat] /\ got \in [Handlers -> Seq(Nat)]
        /\ log \in Seq(Events) /\ Len(log) \in Nat /\ DOMAIN log = 1 .. Len(log)
        /\ event[h] = NoEvent /\ got[h] = <<>> /\ OnHandlers \subseteq Handlers
        /\ event' = [event EXCEPT ![h] = e] /\ since' = [since EXCEPT ![h] = Len(log)]
    BY DEF IInv, TypeOK, Enter, Bookkeeping, Unused, Handlers
  <1>1. /\ event'[h] = e /\ since'[h] = Len(log) /\ e # NoEvent
        /\ \A k \in Handlers : k # h => event'[k] = event[k] /\ since'[k] = since[k]
    BY <1>0, EventsAssumption
  <1>2. PICK g \in Frames : /\ g = Frame(e, states[e], <<>>, TRUE)
                            /\ g.rest = <<>> /\ g.event = e /\ g.payload = states[e]
    <2> DEFINE f == Frame(e, states[e], <<>>, TRUE)
    <2>1. <<>> \in Seq(Handlers)
      OBVIOUS
    <2>2. f \in Frames /\ f.rest = <<>> /\ f.event = e /\ f.payload = states[e]
      BY <1>0, <2>1, NewFrames DEF Frame
    <2> QED BY <2>2
  <1>3. /\ stack' \in Seq(Frames) /\ Nested(stack')
        /\ \/ UNCHANGED stack
           \/ Occurred(e) /\ ToSet(stack') = ToSet(stack) \cup {g}
    <2>1. CASE UNCHANGED stack
      BY <1>0, <2>1 DEF DInv
    <2>2. CASE Occurred(e) /\ stack' = Push(g)
      BY <1>0, <1>2, <2>2, PushElements, NestedAppend DEF Push, DInv
    <2> QED BY <1>2, <2>1, <2>2
  <1>4. /\ \A k \in Handlers : k # h => got'[k] = got[k]
        /\ NoRepeats(got'[h]) /\ Heard(h)' \subseteq {states[e]}
        /\ Heard(h)' # {} => Occurred(e)
    <2>1. CASE UNCHANGED got
      BY <1>0, <2>1, EmptyHasNoElements DEF Heard, NoRepeats
    <2>2. CASE Occurred(e) /\ Receives(h, states[e])
      <3>1. got' = [got EXCEPT ![h] = Append(got[h], states[e])]
        BY <2>2 DEF Receives
      <3>2. got'[h] = <<states[e]>>
        BY <1>0, <3>1
      <3>3. DOMAIN got'[h] = {1} /\ got'[h][1] = states[e]
        BY <3>2
      <3>4. NoRepeats(got'[h]) /\ Heard(h)' = {states[e]}
        BY <3>3 DEF Heard, ToSet, NoRepeats
      <3>5. \A k \in Handlers : k # h => got'[k] = got[k]
        BY <1>0, <3>1
      <3> QED BY <2>2, <3>4, <3>5
    <2> QED BY <2>1, <2>2
  <1>5. \A k \in Handlers : k # h => Heard(k)' = Heard(k)
    BY <1>4 DEF Heard
  <1>6. \A f \in ToSet(stack) : h \notin ToSet(f.rest)
    <2>1. \A f \in ToSet(stack) : f.event \in Events
      <3>1. ToSet(stack) \subseteq Frames
        BY <1>0 DEF ToSet
      <3> QED BY <3>1 DEF Frames
    <2> QED BY <1>0, <2>1, EventsAssumption DEF IInv, Snapshots, FrameOK, Owns
  <1>7. \A k, n : Held(k, n) => Held(k, n)'
    BY <1>3 DEF Held
  <1>8. StaysRegistered'
    <2> SUFFICES ASSUME NEW k \in OnHandlers, event'[k] # NoEvent
                 PROVE  Registered(k, event[k])'
      BY DEF DInv, StaysRegistered
    <2>1. CASE k = h
      BY <1>1, <2>1 DEF Registered
    <2>2. CASE k # h
      <3>1. event'[k] = event[k] /\ event[k] \in Events
        BY <1>0, <1>1, <2>2
      <3>2. Registered(k, event[k])
        BY <3>1 DEF DInv, StaysRegistered
      <3> QED BY <3>1, <3>2 DEF Registered
    <2> QED BY <2>1, <2>2
  <1>9. LastTriggers' /\ \A x : Occurred(x)' = Occurred(x)
    BY DEF DInv, LastTriggers, Occurred
  <1>10. Told'
    <2>1. ASSUME NEW k \in OnHandlers, k # h
          PROVE  NoRepeats(got'[k]) /\ \A n \in Heard(k)' : n \in DOMAIN log /\ log[n] = event'[k]
      BY <1>0, <1>1, <1>4, <1>5, <2>1 DEF DInv, Told
    <2>2. \A n \in Heard(h)' : n \in DOMAIN log /\ log[n] = event'[h]
      BY <1>1, <1>4 DEF DInv, LastTriggers
    <2> QED BY <1>4, <2>1, <2>2 DEF Told
  <1>11. Dispatches'
    <2>1. ASSUME NEW f \in ToSet(stack)
          PROVE  Dispatching(f)'
      <3>1. \A k \in ToSet(f.rest) \cap OnHandlers : Heard(k)' = Heard(k)
        BY <1>0, <1>5, <1>6
      <3>2. Dispatching(f) /\ log' = log
        BY DEF DInv, Dispatches
      <3> QED BY <3>1, <3>2, Zenon DEF Dispatching
    <2>2. ASSUME Occurred(e)
          PROVE  Dispatching(g)'
      <3>1. states[e] \in DOMAIN log /\ log[states[e]] = e /\ log' = log
        BY <2>2 DEF DInv, LastTriggers
      <3>2. ToSet(g.rest) = {} /\ NoRepeats(g.rest)
        <4>1. g.rest = <<>>
          BY <1>2
        <4>2. DOMAIN g.rest = {}
          BY <4>1
        <4> QED BY <4>2 DEF NoRepeats, ToSet
      <3>3. \A k \in ToSet(g.rest) \cap OnHandlers : g.payload \notin Heard(k)'
        BY <3>2
      <3>4. g.payload \in DOMAIN log' /\ log'[g.payload] = g.event
        BY <1>2, <3>1
      <3> QED BY <3>2, <3>3, <3>4, Zenon DEF Dispatching
    <2> HIDE DEF Dispatching
    <2>3. \A f \in ToSet(stack') : Dispatching(f)'
      BY <1>3, <2>1, <2>2
    <2> QED BY <2>3, Zenon DEF Dispatches
  <1>12. Owed'
    <2> SUFFICES ASSUME NEW k \in OnHandlers, event'[k] # NoEvent, NEW n \in DOMAIN log,
                        log[n] = event'[k], n > since'[k]
                 PROVE  n \in Heard(k)' \/ Held(k, n)'
      BY DEF Owed
    <2>1. k # h
      BY <1>0, <1>1
    <2> QED BY <1>0, <1>1, <1>5, <1>7, <2>1 DEF DInv, Owed
  <1>13. Informed'
    <2> SUFFICES ASSUME NEW k \in Handlers, event'[k] # NoEvent, HasOccurred(k)'
                 PROVE  Served(k)' \/ \E f \in ToSet(stack') : k \in ToSet(f.rest)
      BY DEF Informed
    <2>1. CASE k = h
      <3>1. Occurred(e)
        BY <1>0, <1>1, <1>9, <2>1 DEF HasOccurred
      <3> QED BY <2>1, <3>1
    <2>2. CASE k # h
      <3>1. event[k] # NoEvent /\ HasOccurred(k)
        BY <1>1, <1>9, <2>2 DEF HasOccurred
      <3>2. Served(k) => Served(k)'
        BY <1>4, <2>2 DEF Served
      <3> QED BY <1>3, <3>1, <3>2 DEF DInv, Informed
    <2> QED BY <2>1, <2>2
  <1> QED BY <1>3, <1>8, <1>9, <1>10, <1>11, <1>12, <1>13 DEF DInv

(* Adding a handler to arrays takes nobody out of one.                     *)
LEMMA RegisterKeepsDelivery ==
  ASSUME IInv, DInv, Register
  PROVE  DInv'
  <1>0. PICK h \in Handlers, e \in Events : On(h, e) \/ Once(h, e) \/ SettleOn(h, e)
    BY DEF Register
  <1>1. /\ callbacks \in [Events -> Seq(Handlers)] /\ Stop \in Events
        /\ got \in [Handlers -> Seq(Nat)] /\ OnHandlers \subseteq Handlers
        /\ \A x \in Events : callbacks[x] \in Seq(Handlers)
                             /\ ToSet(Append(callbacks[x], h)) = ToSet(callbacks[x]) \cup {h}
    <2>1. \A x \in Events : callbacks[x] \in Seq(Handlers)
      BY DEF IInv, TypeOK
    <2>2. \A x \in Events : ToSet(Append(callbacks[x], h)) = ToSet(callbacks[x]) \cup {h}
      BY <2>1, AppendElements
    <2> QED BY <2>1, <2>2, EventsAssumption DEF IInv, TypeOK, Handlers
  <1>2. Receives(h, states[e]) => got'[h] # <<>>
    <2>1. got[h] \in Seq(Nat) /\ states[e] \in Nat
      BY DEF IInv, TypeOK
    <2>2. Append(got[h], states[e]) # <<>>
      BY <2>1
    <2>3. Receives(h, states[e]) => got'[h] = Append(got[h], states[e])
      BY <1>1 DEF Receives
    <2> QED BY <2>2, <2>3
  <1>3. CASE On(h, e)
    <2>1. /\ h \in OnHandlers /\ Enter(h, e) /\ UNCHANGED <<states, log>> /\ fired' = fired
          /\ callbacks' = [callbacks EXCEPT ![e] = Append(@, h)]
          /\ \/ ~ Occurred(e) /\ UNCHANGED <<stack, got>>
             \/ /\ Occurred(e) /\ stack' = Push(Frame(e, states[e], <<>>, TRUE))
                /\ Receives(h, states[e])
      BY <1>3 DEF On, Sticky
    <2>2. /\ \A k \in OnHandlers, x \in Events : Registered(k, x) => Registered(k, x)'
          /\ Registered(h, e)'
      BY <1>1, <2>1 DEF Registered
    <2>3. Occurred(e) => Served(h)'
      BY <1>2, <2>1 DEF Served
    <2> QED BY <2>1, <2>2, <2>3, RegisteringKeepsDelivery
  <1>4. CASE Once(h, e)
    <2>1. /\ h \notin OnHandlers /\ Enter(h, e) /\ UNCHANGED <<states, log>>
          /\ fired \subseteq fired' /\ fired' \subseteq fired \cup {h}
          /\ \/ callbacks' = [callbacks EXCEPT ![e] = Append(@, h)]
             \/ callbacks' = callbacks
          /\ \/ ~ Occurred(e) /\ UNCHANGED <<stack, got>>
             \/ /\ Occurred(e) /\ stack' = Push(Frame(e, states[e], <<>>, TRUE))
                /\ Receives(h, states[e]) /\ h \in fired'
      BY <1>4, EventsAssumption DEF Once, Sticky
    <2>2. \A k \in OnHandlers, x \in Events : Registered(k, x) => Registered(k, x)'
      BY <1>1, <2>1 DEF Registered
    <2>3. /\ Occurred(e) => Served(h)'
          /\ fired' \cap OnHandlers = fired \cap OnHandlers
      BY <2>1 DEF Served
    <2> QED BY <2>1, <2>2, <2>3, RegisteringKeepsDelivery
  <1>5. CASE SettleOn(h, e)
    <2>1. /\ h \notin OnHandlers /\ Enter(h, e) /\ UNCHANGED <<states, log>>
          /\ fired \subseteq fired' /\ fired' \subseteq fired \cup {h} /\ e # Stop
          /\ \/ callbacks' = [callbacks EXCEPT ![e] = Append(@, h), ![Stop] = Append(@, h)]
             \/ callbacks' = callbacks
          /\ \/ UNCHANGED <<stack, got>>
             \/ /\ Occurred(e) /\ stack' = Push(Frame(e, states[e], <<>>, TRUE))
                /\ Receives(h, states[e])
          /\ Occurred(e) => h \in fired'
      <3>1. h \notin OnHandlers /\ Enter(h, e) /\ UNCHANGED <<states, log>> /\ e # Stop
        BY <1>5, EventsAssumption DEF SettleOn
      <3>2. CASE stopped
        BY <1>5, <3>1, <3>2 DEF SettleOn
      <3>3. CASE ~ stopped /\ Occurred(e)
        BY <1>5, <3>1, <3>3 DEF SettleOn, Sticky
      <3>4. CASE ~ stopped /\ ~ Occurred(e)
        BY <1>5, <3>1, <3>4 DEF SettleOn
      <3> QED BY <3>2, <3>3, <3>4
    <2>2. \A k \in OnHandlers, x \in Events : Registered(k, x) => Registered(k, x)'
      <3>1. CASE callbacks' = callbacks
        BY <3>1 DEF Registered
      <3>2. CASE callbacks' = [callbacks EXCEPT ![e] = Append(@, h), ![Stop] = Append(@, h)]
        <4>1. \A x \in Events : callbacks'[x] = callbacks[x]
                                \/ callbacks'[x] = Append(callbacks[x], h)
          BY <1>1, <2>1, <3>2
        <4> QED BY <1>1, <4>1 DEF Registered
      <3> QED BY <2>1, <3>1, <3>2
    <2>3. /\ Occurred(e) => Served(h)'
          /\ fired' \cap OnHandlers = fired \cap OnHandlers
      BY <2>1 DEF Served
    <2> QED BY <2>1, <2>2, <2>3, RegisteringKeepsDelivery
  <1> QED BY <1>0, <1>3, <1>4, <1>5

(* A trigger: whoever is owed it is in the array, hence in the snapshot.   *)
LEMMA DispatchKeepsDelivery ==
  ASSUME IInv, DInv, NEW e \in Events, NEW below \in Seq(Frames), Dispatch(e, below),
         \A f \in ToSet(below) : f \in ToSet(stack),
         \A f \in ToSet(stack) : f \in ToSet(below) \/ f.rest = <<>>,
         Nested(below),
         UNCHANGED <<callbacks, fired, registration, got>>
  PROVE  DInv'
  <1>0. /\ log \in Seq(Events) /\ Len(log) \in Nat /\ DOMAIN log = 1 .. Len(log)
        /\ Len(log') = Len(log) + 1 /\ DOMAIN log' = 1 .. (Len(log) + 1)
        /\ log'[Len(log) + 1] = e /\ \A n \in DOMAIN log : log'[n] = log[n]
        /\ states \in [Events -> Nat] /\ states' = [states EXCEPT ![e] = Len(log')]
        /\ callbacks[e] \in Seq(Handlers)
        /\ UNCHANGED <<callbacks, fired, event, since, got>>
        /\ event \in [Handlers -> Events \cup {NoEvent}]
        /\ OnHandlers \subseteq Handlers
    BY DEF IInv, TypeOK, Dispatch, registration, Handlers
  <1>1. PICK g \in Frames :
          /\ g.event = e /\ g.payload = Len(log) + 1 /\ g.rest = callbacks[e]
          /\ stack' = Append(below, g)
    <2> DEFINE f == Frame(e, Len(log'), callbacks[e], FALSE)
    <2>1. Len(log') \in Nat
      BY <1>0
    <2>2. /\ f \in Frames /\ f.rest = callbacks[e] /\ f.event = e
          /\ f.payload = Len(log') /\ stack' = Append(below, f)
      BY <1>0, <2>1, NewFrames DEF Frame, Dispatch
    <2> QED BY <1>0, <2>2
  <1>2. ToSet(stack') = ToSet(below) \cup {g}
    BY <1>1, AppendElements
  <1>3. \A h : Heard(h)' = Heard(h)
    BY <1>0 DEF Heard
  <1>4. \A h \in OnHandlers : Len(log) + 1 \notin Heard(h)
    BY <1>0 DEF DInv, Told
  <1>5. /\ \A h, n : Held(h, n) => Held(h, n)'
        /\ \A h : (\E f \in ToSet(stack) : h \in ToSet(f.rest)) =>
                  \E f \in ToSet(stack') : h \in ToSet(f.rest)
    <2>1. \A h : \A f \in ToSet(stack) : h \in ToSet(f.rest) => f \in ToSet(stack')
      BY <1>2, EmptyHasNoElements
    <2> QED BY <2>1 DEF Held
  <1>6. StaysRegistered'
    BY <1>0 DEF DInv, StaysRegistered, Registered
  <1>7. LastTriggers'
    <2> SUFFICES ASSUME NEW x \in Events, states'[x] # 0
                 PROVE  states'[x] \in DOMAIN log' /\ log'[states'[x]] = x
      BY DEF LastTriggers, Occurred
    <2>1. CASE x = e
      BY <1>0, <2>1
    <2>2. CASE x # e
      <3>1. states'[x] = states[x]
        BY <1>0, <2>2
      <3>2. states[x] \in DOMAIN log /\ log[states[x]] = x
        BY <3>1 DEF DInv, LastTriggers, Occurred
      <3> QED BY <1>0, <3>1, <3>2
    <2> QED BY <2>1, <2>2
  <1>8. Told'
    <2>1. \A h \in OnHandlers : \A n \in Heard(h) : n \in DOMAIN log' /\ log'[n] = event[h]
      BY <1>0 DEF DInv, Told
    <2> QED BY <1>0, <1>3, <2>1 DEF DInv, Told
  <1>9. Dispatches'
    <2>1. ASSUME NEW f \in ToSet(below)
          PROVE  Dispatching(f)'
      <3>1. Dispatching(f)
        BY DEF DInv, Dispatches
      <3>2. f.payload \in DOMAIN log => f.payload \in DOMAIN log' /\ log'[f.payload] = log[f.payload]
        BY <1>0
      <3> QED BY <1>3, <3>1, <3>2 DEF Dispatching
    <2>2. Dispatching(g)'
      <3>1. g.payload \in DOMAIN log' /\ log'[g.payload] = g.event
        BY <1>0, <1>1
      <3>2. NoRepeats(g.rest)
        BY <1>1 DEF IInv, Bookkeeping, Arrays
      <3>3. \A h \in ToSet(g.rest) \cap OnHandlers : g.payload \notin Heard(h)'
        BY <1>1, <1>3, <1>4
      <3> QED BY <3>1, <3>2, <3>3, Zenon DEF Dispatching
    <2>3. \A f \in ToSet(stack') : Dispatching(f)'
      BY <1>2, <2>1, <2>2
    <2> QED BY <2>3, Zenon DEF Dispatches
  <1>10. Nested(stack')
    <2>1. \A f \in ToSet(below) : f.rest # <<>> => f.payload # g.payload
      <3> SUFFICES ASSUME NEW f \in ToSet(below), f.rest # <<>>
                   PROVE  f.payload # g.payload
        OBVIOUS
      <3>1. f.kind = "dispatch"
        <4>1. f \in Frames /\ FrameOK(f)
          BY DEF IInv, Snapshots, ToSet
        <4> QED BY <4>1 DEF Frames, FrameOK
      <3>2. f.payload \in DOMAIN log
        BY <3>1 DEF DInv, Dispatches, Dispatching
      <3> QED BY <1>0, <1>1, <3>2
    <2> QED BY <1>1, <2>1, NestedAppend
  <1>11. \A h \in Handlers : event[h] = e /\ h \notin fired => h \in ToSet(g.rest)
    <2> SUFFICES ASSUME NEW h \in Handlers, event[h] = e, h \notin fired
                 PROVE  Registered(h, e)
      BY <1>1 DEF Registered
    <2>1. event[h] # NoEvent
      BY EventsAssumption
    <2>2. CASE h \in OnHandlers
      BY <2>1, <2>2 DEF DInv, StaysRegistered
    <2>3. CASE h \in OnceHandlers \cup Waiters
      BY <2>1, <2>3 DEF IInv, Bookkeeping, NothingLeftBehind
    <2> QED BY <2>2, <2>3 DEF Handlers
  <1>12. Owed'
    <2> SUFFICES ASSUME NEW h \in OnHandlers, event[h] # NoEvent, NEW n \in DOMAIN log',
                        log'[n] = event[h], n > since[h]
                 PROVE  n \in Heard(h) \/ Held(h, n)'
      BY <1>0, <1>3 DEF Owed
    <2>1. CASE n \in DOMAIN log
      BY <1>0, <1>5, <2>1 DEF DInv, Owed
    <2>2. CASE n = Len(log) + 1
      <3>1. h \in ToSet(g.rest) /\ g.payload = n
        BY <1>0, <1>1, <2>2 DEF DInv, StaysRegistered, Registered
      <3> QED BY <1>2, <3>1 DEF Held
    <2> QED BY <1>0, <2>1, <2>2
  <1>13. Informed'
    <2> SUFFICES ASSUME NEW h \in Handlers, event[h] # NoEvent, HasOccurred(h)', ~ Served(h)
                 PROVE  \E f \in ToSet(stack') : h \in ToSet(f.rest)
      BY <1>0 DEF Informed, Served
    <2>1. CASE event[h] = e
      BY <1>2, <1>11, <2>1 DEF Served
    <2>2. CASE event[h] # e
      <3>1. event[h] \in Events /\ states'[event[h]] = states[event[h]]
        BY <1>0, <2>2
      <3>2. \A n \in DOMAIN log' : log'[n] = event[h] => n \in DOMAIN log /\ log[n] = event[h]
        BY <1>0, <2>2
      <3>3. HasOccurred(h)
        BY <1>0, <3>1, <3>2 DEF HasOccurred, Occurred
      <3> QED BY <1>5, <3>3 DEF DInv, Informed
    <2> QED BY <2>1, <2>2
  <1> QED BY <1>6, <1>7, <1>8, <1>9, <1>10, <1>12, <1>13 DEF DInv

(* What an on() handler is told last is not what it was told before.       *)
LEMMA ToldOnceMore ==
  ASSUME NEW s \in Seq(Nat), NEW n \in Nat, NoRepeats(s), n \notin ToSet(s)
  PROVE  /\ NoRepeats(Append(s, n)) /\ ToSet(Append(s, n)) = ToSet(s) \cup {n}
         /\ Append(s, n) # <<>>
  <1> DEFINE t == Append(s, n)
  <1>1. /\ Len(t) = Len(s) + 1 /\ Len(s) \in Nat /\ DOMAIN s = 1 .. Len(s)
        /\ DOMAIN t = 1 .. (Len(s) + 1)
        /\ \A i \in 1 .. Len(s) : t[i] = s[i]
        /\ t[Len(s) + 1] = n
    OBVIOUS
  <1> HIDE DEF t
  <1>2. NoRepeats(t)
    BY <1>1 DEF NoRepeats, ToSet
  <1>3. ToSet(t) = ToSet(s) \cup {n}
    <2>1. \A i \in DOMAIN t : t[i] \in ToSet(s) \cup {n}
      BY <1>1 DEF ToSet
    <2>2. \A i \in DOMAIN s : s[i] \in ToSet(t)
      BY <1>1 DEF ToSet
    <2>3. n \in ToSet(t)
      BY <1>1 DEF ToSet
    <2> QED BY <2>1, <2>2, <2>3 DEF ToSet
  <1>4. t # <<>>
    BY <1>1
  <1> QED BY <1>2, <1>3, <1>4 DEF t

(* The loop takes the next handler of the snapshot, who has been served    *)
(* when the step is over: an on() handler is told of the trigger it was    *)
(* owed, and no other frame dispatches that trigger.                       *)
LEMMA LoopKeepsDelivery ==
  ASSUME IInv, DInv, InLoop, Top.rest # <<>>, NEW b \in BOOLEAN, stack' = Advance(b),
         UNCHANGED <<states, log, event, since>>, fired \subseteq fired',
         fired' \cap OnHandlers = fired \cap OnHandlers,
         \A k \in OnHandlers, x \in Events : Registered(k, x) => Registered(k, x)',
         \A k \in Handlers : k # Next1 => got'[k] = got[k],
         Next1 \in OnHandlers => Receives(Next1, Top.payload),
         Next1 \in OnHandlers \/ Next1 \in fired'
  PROVE  DInv'
  <1>0. /\ stack \in Seq(Frames) /\ stack # <<>> /\ Top \in Frames /\ Nested(stack)
        /\ ToSet(stack) = ToSet(Front(stack)) \cup {Top}
        /\ got \in [Handlers -> Seq(Nat)] /\ OnHandlers \subseteq Handlers
        /\ event \in [Handlers -> Events \cup {NoEvent}]
        /\ Top.rest \in Seq(Handlers) /\ Top.payload \in Nat /\ Top.event \in Events
    <2>1. stack \in Seq(Frames) /\ stack # <<>> /\ Nested(stack)
      BY DEF IInv, TypeOK, InLoop, DInv
    <2>2. Top \in Frames /\ ToSet(stack) = ToSet(Front(stack)) \cup {Top}
      BY <2>1, TopElements
    <2> QED BY <2>1, <2>2 DEF IInv, TypeOK, Handlers, Frames
  <1>1. PICK t \in Frames : t = Top
    BY <1>0
  <1>2. PICK h \in Handlers : h = Next1 /\ h = Head(t.rest)
    BY <1>0, <1>1, TailElements DEF Next1
  <1>3. PICK g \in Frames :
          /\ g.kind = t.kind /\ g.event = t.event /\ g.payload = t.payload
          /\ g.rest = Tail(t.rest) /\ stack' = Replace(g)
    <2> DEFINE f == [t EXCEPT !.rest = Tail(@), !.running = b]
    <2>1. Tail(t.rest) \in Seq(Handlers)
      BY <1>0, <1>1
    <2>2. /\ f \in Frames /\ f.kind = t.kind /\ f.event = t.event
          /\ f.payload = t.payload /\ f.rest = Tail(t.rest)
      BY <2>1 DEF Frames
    <2>3. stack' = Replace(f)
      BY <1>1 DEF Advance
    <2> HIDE DEF f
    <2> QED BY <2>2, <2>3
  <1>4. ToSet(stack') = ToSet(Front(stack)) \cup {g}
    BY <1>0, <1>3, ReplaceElements
  <1>5. /\ t.kind = "dispatch" /\ t.payload \in DOMAIN log /\ log[t.payload] = t.event
        /\ NoRepeats(t.rest) /\ \A k \in ToSet(t.rest) \cap OnHandlers : t.payload \notin Heard(k)
    <2>1. t.kind = "dispatch" /\ t \in ToSet(stack)
      BY <1>0, <1>1 DEF InLoop
    <2>2. Dispatching(t)
      BY <2>1 DEF DInv, Dispatches
    <2> QED BY <2>1, <2>2, Zenon DEF Dispatching
  <1>6. /\ NoRepeats(g.rest) /\ h \notin ToSet(g.rest)
        /\ ToSet(t.rest) = ToSet(g.rest) \cup {h}
    BY <1>0, <1>1, <1>2, <1>3, <1>5, TailElements, TailOfDistinct
  <1>7. \A f \in ToSet(Front(stack)) : f.rest # <<>> => f.payload # t.payload
    BY <1>0, <1>1, NestedFront DEF Top
  <1>8. \A k \in Handlers : k # h => got'[k] = got[k] /\ Heard(k)' = Heard(k)
    BY <1>2 DEF Heard
  <1>9. ASSUME h \in OnHandlers
        PROVE  /\ NoRepeats(got'[h]) /\ Heard(h)' = Heard(h) \cup {t.payload}
               /\ got'[h] # <<>> /\ event[h] = t.event
    <2>1. got'[h] = Append(got[h], t.payload)
      <3>1. got' = [got EXCEPT ![h] = Append(got[h], t.payload)]
        BY <1>1, <1>2, <1>9 DEF Receives
      <3> QED BY <1>0, <3>1
    <2>2. NoRepeats(got[h]) /\ t.payload \notin ToSet(got[h]) /\ got[h] \in Seq(Nat)
      BY <1>0, <1>5, <1>6, <1>9 DEF DInv, Told, Heard
    <2>3. t.payload \in Nat
      BY <1>0, <1>1
    <2>4. event[h] = t.event
      <3>1. Owns(h, t.event) /\ h \notin Waiters
        BY <1>0, <1>1, <1>6, <1>9, EventsAssumption DEF IInv, Snapshots, FrameOK
      <3> QED BY <3>1 DEF Owns
    <2> QED BY <2>1, <2>2, <2>3, <2>4, ToldOnceMore DEF Heard
  <1>10. /\ \A k, n : Held(k, n) => Held(k, n)' \/ (k = h /\ n = t.payload)
         /\ \A k : k # h /\ (\E f \in ToSet(stack) : k \in ToSet(f.rest)) =>
                   \E f \in ToSet(stack') : k \in ToSet(f.rest)
    BY <1>0, <1>1, <1>3, <1>4, <1>6 DEF Held
  <1>11. StaysRegistered'
    <2> SUFFICES ASSUME NEW k \in OnHandlers, event[k] # NoEvent
                 PROVE  Registered(k, event[k])'
      BY DEF DInv, StaysRegistered
    <2>1. event[k] \in Events /\ Registered(k, event[k])
      BY <1>0 DEF DInv, StaysRegistered
    <2> QED BY <2>1 DEF Registered
  <1>12. LastTriggers'
    BY DEF DInv, LastTriggers, Occurred
  <1>13. Told'
    <2> SUFFICES ASSUME NEW k \in OnHandlers
                 PROVE  /\ NoRepeats(got'[k])
                        /\ \A n \in Heard(k)' : n \in DOMAIN log /\ log[n] = event[k]
      BY DEF Told
    <2>1. NoRepeats(got[k]) /\ \A n \in Heard(k) : n \in DOMAIN log /\ log[n] = event[k]
      BY DEF DInv, Told
    <2>2. CASE k = h
      BY <1>5, <1>9, <2>1, <2>2
    <2>3. CASE k # h
      BY <1>0, <1>8, <2>1, <2>3
    <2> QED BY <2>2, <2>3
  <1>14. Dispatches'
    <2>1. ASSUME NEW f \in ToSet(Front(stack))
          PROVE  Dispatching(f)'
      <3>1. Dispatching(f)
        BY <1>0 DEF DInv, Dispatches
      <3>2. ASSUME NEW k \in ToSet(f.rest) \cap OnHandlers, f.payload \notin Heard(k)
            PROVE  f.payload \notin Heard(k)'
        <4>1. f.rest # <<>>
          BY EmptyHasNoElements
        <4>2. CASE k = h
          BY <1>7, <1>9, <3>2, <4>1, <4>2
        <4>3. CASE k # h
          BY <1>0, <1>8, <3>2, <4>3
        <4> QED BY <4>2, <4>3
      <3> QED BY <3>1, <3>2 DEF Dispatching
    <2>2. Dispatching(g)'
      <3>1. \A k \in ToSet(g.rest) \cap OnHandlers : g.payload \notin Heard(k)'
        BY <1>0, <1>3, <1>5, <1>6, <1>8
      <3>2. g.payload \in DOMAIN log' /\ log'[g.payload] = g.event
        BY <1>3, <1>5
      <3> QED BY <1>6, <3>1, <3>2, Zenon DEF Dispatching
    <2>3. \A f \in ToSet(stack') : Dispatching(f)'
      BY <1>4, <2>1, <2>2
    <2> QED BY <2>3, Zenon DEF Dispatches
  <1>15. Nested(stack')
    BY <1>0, <1>1, <1>3, NestedReplace
  <1>16. Owed'
    <2> SUFFICES ASSUME NEW k \in OnHandlers, event[k] # NoEvent, NEW n \in DOMAIN log,
                        log[n] = event[k], n > since[k]
                 PROVE  n \in Heard(k)' \/ Held(k, n)'
      BY DEF Owed
    <2>1. n \in Heard(k) \/ Held(k, n)
      BY DEF DInv, Owed
    <2>2. Heard(k) \subseteq Heard(k)' /\ (k = h => t.payload \in Heard(k)')
      BY <1>0, <1>8, <1>9
    <2> QED BY <1>10, <2>1, <2>2
  <1>17. Informed'
    <2> SUFFICES ASSUME NEW k \in Handlers, event[k] # NoEvent, HasOccurred(k)
                 PROVE  Served(k)' \/ \E f \in ToSet(stack') : k \in ToSet(f.rest)
      BY DEF Informed, HasOccurred, Occurred
    <2>1. CASE k = h
      BY <1>2, <1>9, <2>1 DEF Served
    <2>2. CASE k # h
      <3>1. Served(k) => Served(k)'
        BY <1>8, <2>2 DEF Served
      <3> QED BY <1>10, <2>2, <3>1 DEF DInv, Informed
    <2> QED BY <2>1, <2>2
  <1> QED BY <1>11, <1>12, <1>13, <1>14, <1>15, <1>16, <1>17 DEF DInv

LEMMA FramesKeepDelivery ==
  ASSUME IInv, DInv,
         \/ UNCHANGED vars
         \/ \E e \in Events : Invalidate(e)
         \/ BeginStop \/ OnStopThrows \/ Return \/ EndOfDispatch
  PROVE  DInv'
  <1>0. /\ stack \in Seq(Frames) /\ Nested(stack) /\ states \in [Events -> Nat]
        /\ StopFrame \in Frames /\ StopFrame.rest = <<>> /\ StopFrame.kind = "on_stop"
    BY EventsAssumption DEF IInv, TypeOK, DInv, StopFrame, Frames
  <1>1. CASE UNCHANGED vars
    BY <1>0, <1>1, NobodyCalled DEF vars
  <1>2. CASE \E e \in Events : Invalidate(e)
    <2>1. /\ UNCHANGED <<callbacks, fired, stack, log, event, since, got>>
          /\ \A x \in Events : states'[x] = states[x] \/ states'[x] = 0
      BY <1>0, <1>2 DEF Invalidate, registration
    <2> QED BY <1>0, <2>1, NobodyCalled
  <1>3. CASE BeginStop
    <2>1. /\ UNCHANGED <<callbacks, states, fired, log, event, since, got>>
          /\ stack' = Push(StopFrame)
      BY <1>3 DEF BeginStop, queues, registration
    <2>2. ToSet(stack') = ToSet(stack) \cup {StopFrame} /\ Nested(stack')
      BY <1>0, <2>1, PushElements, NestedAppend DEF Push
    <2> QED BY <1>0, <2>1, <2>2, NobodyCalled
  <1>4. CASE OnStopThrows \/ EndOfDispatch
    <2>1. /\ UNCHANGED <<callbacks, states, fired, log, event, since, got>>
          /\ stack # <<>> /\ stack' = Front(stack)
          /\ Top.kind = "on_stop" \/ Top.rest = <<>>
      BY <1>4 DEF OnStopThrows, EndOfDispatch, InLoop, queues, registration
    <2>2. ToSet(stack) = ToSet(stack') \cup {Top} /\ Nested(stack')
      BY <1>0, <2>1, TopElements, NestedFront
    <2>3. Top.rest = <<>>
      BY <2>1, <2>2 DEF IInv, Snapshots, FrameOK
    <2> QED BY <2>1, <2>2, <2>3, NobodyCalled
  <1>5. CASE Return
    <2>1. /\ UNCHANGED <<callbacks, states, fired, log, event, since, got>>
          /\ stack # <<>> /\ Top \in Frames
          /\ stack' = Replace([Top EXCEPT !.running = FALSE])
      BY <1>0, <1>5, TopElements DEF Return, queues, registration
    <2>2. PICK t \in Frames : t = Top
      BY <2>1
    <2>3. PICK g \in Frames :
            /\ g.kind = t.kind /\ g.event = t.event /\ g.payload = t.payload
            /\ g.rest = t.rest /\ stack' = Replace(g)
      <3> DEFINE f == [t EXCEPT !.running = FALSE]
      <3>1. /\ f \in Frames /\ f.kind = t.kind /\ f.event = t.event
            /\ f.payload = t.payload /\ f.rest = t.rest
        BY DEF Frames
      <3>2. stack' = Replace(f)
        BY <2>1, <2>2
      <3> HIDE DEF f
      <3> QED BY <3>1, <3>2
    <2>4. /\ ToSet(stack') = ToSet(Front(stack)) \cup {g}
          /\ ToSet(stack) = ToSet(Front(stack)) \cup {t}
          /\ Nested(stack')
      BY <1>0, <2>1, <2>2, <2>3, ReplaceElements, TopElements, NestedReplace
    <2> QED BY <2>1, <2>3, <2>4, NobodyCalled
  <1> QED BY <1>1, <1>2, <1>3, <1>4, <1>5

LEMMA TriggersKeepDelivery ==
  ASSUME IInv, DInv, (\E e \in Events : Trigger(e)) \/ OnStopReturns
  PROVE  DInv'
  <1>0. stack \in Seq(Frames) /\ Nested(stack) /\ Stop \in Events
    BY EventsAssumption DEF IInv, TypeOK, DInv
  <1>1. CASE \E e \in Events : Trigger(e)
    BY <1>0, <1>1, DispatchKeepsDelivery DEF Trigger
  <1>2. CASE OnStopReturns
    <2>1. /\ stack # <<>> /\ Top.kind = "on_stop" /\ Dispatch(Stop, Front(stack))
          /\ UNCHANGED <<callbacks, fired, registration, got>>
      BY <1>2 DEF OnStopReturns
    <2>2. Nested(Front(stack))
      BY <1>0, <2>1, NestedFront
    <2> QED BY <1>0, <2>1, <2>2, OnStopFrame, DispatchKeepsDelivery
  <1> QED BY <1>1, <1>2

LEMMA CallsKeepDelivery ==
  ASSUME IInv, DInv, CallOn \/ SkipFired \/ CallOnce \/ CallWaiter
  PROVE  DInv'
  <1>0. /\ callbacks \in [Events -> Seq(Handlers)]
        /\ got \in [Handlers -> Seq(Nat)] /\ fired \cap OnHandlers = {}
        /\ InLoop /\ Top.rest # <<>> /\ UNCHANGED <<states, log, event, since>>
        /\ \A x \in Events : \A h : RemoveFirst(callbacks[x], h) \in Seq(Handlers)
                                /\ ToSet(RemoveFirst(callbacks[x], h)) = ToSet(callbacks[x]) \ {h}
    <2>1. \A x \in Events : callbacks[x] \in Seq(Handlers) /\ NoRepeats(callbacks[x])
      BY DEF IInv, TypeOK, Bookkeeping, Arrays
    <2>2. InLoop /\ Top.rest # <<>> /\ UNCHANGED <<states, log, event, since>>
      BY DEF CallOn, SkipFired, CallOnce, CallWaiter, queues, registration
    <2>3. \A x \in Events : \A h : RemoveFirst(callbacks[x], h) \in Seq(Handlers)
            /\ ToSet(RemoveFirst(callbacks[x], h)) = ToSet(callbacks[x]) \ {h}
      BY <2>1, RemoveFirstElements
    <2> QED BY <2>2, <2>3 DEF IInv, TypeOK, DInv, StaysRegistered
  <1>1. \A k \in Handlers : Receives(Next1, Top.payload) => (k # Next1 => got'[k] = got[k])
    BY <1>0 DEF Receives
  <1>2. CASE CallOn \/ SkipFired
    <2>1. /\ callbacks' = callbacks /\ fired' = fired
          /\ stack' = Advance(TRUE) \/ stack' = Advance(FALSE)
          /\ \/ Next1 \in OnHandlers /\ Receives(Next1, Top.payload)
             \/ Next1 \in fired /\ got' = got
      BY <1>2 DEF CallOn, SkipFired, queues
    <2>2. \A k \in OnHandlers, x \in Events : Registered(k, x) => Registered(k, x)'
      BY <2>1 DEF Registered
    <2> QED BY <1>0, <1>1, <2>1, <2>2, LoopKeepsDelivery
  <1>3. CASE CallOnce \/ CallWaiter
    <2>1. /\ Next1 \notin OnHandlers /\ fired' = fired \cup {Next1}
          /\ stack' = Advance(TRUE) \/ stack' = Advance(FALSE)
          /\ Receives(Next1, Top.payload) \/ got' = got
      BY <1>3, EventsAssumption DEF CallOnce, CallWaiter
    <2>2. \A x \in Events : callbacks'[x] = callbacks[x]
                            \/ callbacks'[x] = RemoveFirst(callbacks[x], Next1)
      <3>1. CASE CallOnce
        BY <1>0, <3>1 DEF CallOnce
      <3>2. CASE CallWaiter
        <4>1. event[Next1] # Stop
          BY <3>2 DEF CallWaiter, IInv, Bookkeeping, WaitersWait
        <4>2. callbacks' = [callbacks EXCEPT ![event[Next1]] = RemoveFirst(@, Next1),
                                             ![Stop] = RemoveFirst(@, Next1)]
          BY <3>2 DEF CallWaiter
        <4> QED BY <1>0, <4>1, <4>2
      <3> QED BY <1>3, <3>1, <3>2
    <2>3. \A k \in OnHandlers, x \in Events : Registered(k, x) => Registered(k, x)'
      BY <1>0, <2>1, <2>2 DEF Registered
    <2> QED BY <1>0, <1>1, <2>1, <2>3, LoopKeepsDelivery
  <1> QED BY <1>2, <1>3

THEOREM Delivery == Spec => []DInv
  <1>1. Init => DInv
    BY DInvInit
  <1>2. IInv /\ DInv /\ [Next]_vars => DInv'
    <2> SUFFICES ASSUME IInv, DInv, [Next]_vars
                 PROVE  DInv'
      OBVIOUS
    <2>1. \/ UNCHANGED vars \/ Register \/ \E e \in Events : Trigger(e) \/ Invalidate(e)
          \/ BeginStop \/ OnStopReturns \/ OnStopThrows
          \/ CallOn \/ SkipFired \/ CallOnce \/ CallWaiter \/ Return \/ EndOfDispatch
      BY DEF Next
    <2> QED BY <2>1, RegisterKeepsDelivery, FramesKeepDelivery, TriggersKeepDelivery,
               CallsKeepDelivery
  <1> QED BY <1>1, <1>2, Invariance, PTL DEF Spec

(* How often a handler heard of a trigger, when it never hears twice.      *)
LEMMA TimesIsOneOrNone ==
  ASSUME NEW h \in Handlers, got[h] \in Seq(Nat), NoRepeats(got[h]), NEW n
  PROVE  Times(h, n) = IF n \in Heard(h) THEN 1 ELSE 0
  <1> DEFINE I == {i \in DOMAIN got[h] : got[h][i] = n}
  <1>1. CASE n \in Heard(h)
    <2>1. PICK i \in DOMAIN got[h] : got[h][i] = n
      BY <1>1 DEF Heard, ToSet
    <2>2. I = {i}
      BY <2>1 DEF NoRepeats
    <2>3. Cardinality({i}) = 1
      BY FS_Singleton
    <2> QED BY <1>1, <2>2, <2>3 DEF Times
  <1>2. CASE n \notin Heard(h)
    <2>1. I = {}
      BY <1>2 DEF Heard, ToSet
    <2>2. Cardinality({}) = 0
      BY FS_EmptySet
    <2> QED BY <1>2, <2>1, <2>2 DEF Times
  <1> QED BY <1>1, <1>2

(* An on() handler is called exactly once for each trigger of its event    *)
(* after its registration, and for no other but the one it was late for,   *)
(* however many dispatches are nested in that one and whatever the other   *)
(* handlers do.  (component-events.ts:33-72, 106-160)                      *)
THEOREM OnHandlersHearEachTriggerOnce == Spec => []ExactlyOnce
  <1>1. IInv /\ DInv => ExactlyOnce
    <2> SUFFICES ASSUME IInv, DInv, NEW h \in OnHandlers, event[h] # NoEvent,
                        NEW n \in DOMAIN log
                 PROVE  /\ log[n] # event[h] => Times(h, n) = 0
                        /\ Times(h, n) <= 1
                        /\ Idle /\ log[n] = event[h] /\ n > since[h] => Times(h, n) = 1
      BY DEF ExactlyOnce
    <2>1. /\ h \in Handlers /\ got[h] \in Seq(Nat) /\ NoRepeats(got[h])
          /\ \A m \in Heard(h) : log[m] = event[h]
      BY DEF IInv, TypeOK, DInv, Told, Handlers
    <2>2. Times(h, n) = IF n \in Heard(h) THEN 1 ELSE 0
      BY <2>1, TimesIsOneOrNone
    <2>3. Idle => ~ Held(h, n)
      BY EmptyHasNoElements DEF Idle, Held
    <2>4. log[n] = event[h] /\ n > since[h] => n \in Heard(h) \/ Held(h, n)
      BY DEF DInv, Owed
    <2> QED BY <2>1, <2>2, <2>3, <2>4
  <1> QED BY <1>1, Invariance, Delivery, PTL

(* Whoever registered late, or whose event was triggered since, has been   *)
(* called or released when the call stack is empty: nobody waits for a     *)
(* trigger that has been.  (component-events.ts:33-97, component.ts:2081-2117) *)
THEOREM LatecomersAreInformed == Spec => []LateIsInformed
  <1>1. DInv => LateIsInformed
    <2>1. Idle => ToSet(stack) = {}
      BY EmptyHasNoElements DEF Idle
    <2> QED BY <2>1 DEF DInv, Informed, LateIsInformed, HasOccurred, Served
  <1> QED BY <1>1, Delivery, PTL
=============================================================================
