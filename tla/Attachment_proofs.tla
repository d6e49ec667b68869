------------------------- MODULE Attachment_proofs -------------------------
(***************************************************************************)
(* What Attachment promises, proved.  stack holds what is still to be      *)
(* done, the innermost last, and a step only changes what is on top of it: *)
(* the invariants speak of the frames by their positions, which stay as    *)
(* they are, and of pairs i < j, where j is done before i goes on.         *)
(*                                                                         *)
(* They are written as operators of the values they depend on, because the *)
(* application acts in the middle of a step: after the frame on top has    *)
(* been changed, and before it is left.                                    *)
(***************************************************************************)
EXTENDS Attachment, SequenceTheorems, FiniteSetTheorems,
        WellFoundedInduction, TLAPS

-----------------------------------------------------------------------------
(* What adding and taking an element does to an array.                     *)
LEMMA RemoveAtPositions ==
  ASSUME NEW S, NEW s \in Seq(S), NEW i \in DOMAIN s
  PROVE  /\ RemoveAt(s, i) \in Seq(S)
         /\ Len(RemoveAt(s, i)) = Len(s) - 1
         /\ \A j \in DOMAIN RemoveAt(s, i) :
              RemoveAt(s, i)[j] = IF j < i THEN s[j] ELSE s[j + 1]
  <1> DEFINE l == SubSeq(s, 1, i - 1)
             r == SubSeq(s, i + 1, Len(s))
  <1>1. l \in Seq(S) /\ Len(l) = i - 1 /\ \A j \in 1 .. (i - 1) : l[j] = s[j]
    BY SubSeqProperties
  <1>2. /\ r \in Seq(S) /\ Len(r) = Len(s) - i
        /\ \A j \in 1 .. (Len(s) - i) : r[j] = s[i + j]
    BY SubSeqProperties
  <1> HIDE DEF l, r
  <1>3. /\ l \o r \in Seq(S)
        /\ Len(l \o r) = Len(s) - 1
        /\ \A j \in 1 .. (Len(s) - 1) :
             (l \o r)[j] = IF j < i THEN s[j] ELSE s[j + 1]
    BY <1>1, <1>2
  <1>4. RemoveAt(s, i) = l \o r
    BY DEF RemoveAt, l, r
  <1> QED BY <1>3, <1>4

(* The position RemoveFirst() looks for.                                   *)
LEMMA RemoveFirstIsRemoveAt ==
  ASSUME NEW S, NEW s \in Seq(S), NEW e, NEW i \in DOMAIN s, s[i] = e,
         \A j \in DOMAIN s : s[j] = e => j = i
  PROVE  RemoveFirst(s, e) = RemoveAt(s, i)
  <1> DEFINE I == {j \in 1 .. Len(s) : s[j] = e}
  <1>1. I = {i} /\ i \in Nat
    OBVIOUS
  <1>2. Min(I) = i
    BY <1>1 DEF Min
  <1>3. SelectInSeq(s, LAMBDA v : v = e) = i
    BY <1>1, <1>2 DEF SelectInSeq
  <1> QED BY <1>3 DEF RemoveFirst

NoRepeats(s) == \A i, j \in DOMAIN s : s[i] = s[j] => i = j

LEMMA RemoveFirstElements ==
  ASSUME NEW S, NEW s \in Seq(S), NoRepeats(s), NEW e
  PROVE  /\ RemoveFirst(s, e) \in Seq(S)
         /\ NoRepeats(RemoveFirst(s, e))
         /\ ToSet(RemoveFirst(s, e)) = ToSet(s) \ {e}
  <1>1. CASE \A i \in DOMAIN s : s[i] # e
    <2>1. RemoveFirst(s, e) = s
      BY <1>1 DEF RemoveFirst
    <2> QED BY <2>1, <1>1 DEF ToSet
  <1>2. ASSUME NEW i \in DOMAIN s, s[i] = e
        PROVE  /\ RemoveFirst(s, e) \in Seq(S)
               /\ NoRepeats(RemoveFirst(s, e))
               /\ ToSet(RemoveFirst(s, e)) = ToSet(s) \ {e}
    <2> DEFINE t == RemoveAt(s, i)
    <2>1. RemoveFirst(s, e) = t
      BY <1>2, RemoveFirstIsRemoveAt DEF NoRepeats
    <2>2. /\ t \in Seq(S) /\ Len(t) = Len(s) - 1
          /\ \A j \in DOMAIN t : t[j] = IF j < i THEN s[j] ELSE s[j + 1]
      BY RemoveAtPositions
    <2> HIDE DEF t
    <2>3. DOMAIN t = 1 .. (Len(s) - 1) /\ DOMAIN s = 1 .. Len(s)
      BY <2>2
    <2>4. NoRepeats(t)
      BY <2>2, <2>3 DEF NoRepeats
    <2>5. \A j \in DOMAIN t : t[j] \in ToSet(s) \ {e}
      BY <2>2, <2>3, <1>2 DEF NoRepeats, ToSet
    <2>6. ASSUME NEW j \in DOMAIN s, s[j] # e
          PROVE  \E k \in DOMAIN t : t[k] = s[j]
      <3>1. CASE j < i
        BY <3>1, <2>2, <2>3
      <3>2. CASE ~(j < i)
        <4>1. j - 1 \in DOMAIN t /\ ~(j - 1 < i) /\ (j - 1) + 1 = j
          BY <3>2, <2>3, <2>6, <1>2
        <4>2. t[j - 1] = s[j]
          BY <4>1, <2>2
        <4> QED BY <4>1, <4>2
      <3> QED BY <3>1, <3>2
    <2>7. ToSet(t) = ToSet(s) \ {e}
      BY <2>5, <2>6 DEF ToSet
    <2> QED BY <2>1, <2>2, <2>4, <2>7
  <1> QED BY <1>1, <1>2

LEMMA AppendElements ==
  ASSUME NEW S, NEW s \in Seq(S), NEW e \in S
  PROVE  /\ Append(s, e) \in Seq(S) /\ Append(s, e) # <<>>
         /\ ToSet(Append(s, e)) = ToSet(s) \cup {e}
         /\ NoRepeats(s) /\ e \notin ToSet(s) => NoRepeats(Append(s, e))
  <1> DEFINE t == Append(s, e)
  <1>1. /\ t \in Seq(S) /\ Len(t) = Len(s) + 1
        /\ \A i \in 1 .. Len(s) : t[i] = s[i]
        /\ t[Len(s) + 1] = e
    BY AppendProperties
  <1> HIDE DEF t
  <1>2. DOMAIN t = 1 .. (Len(s) + 1) /\ DOMAIN s = 1 .. Len(s) /\ Len(s) \in Nat
    BY <1>1
  <1>3. ToSet(t) = ToSet(s) \cup {e}
    <2>1. \A i \in DOMAIN t : t[i] \in ToSet(s) \cup {e}
      BY <1>1, <1>2 DEF ToSet
    <2>2. \A i \in DOMAIN s : s[i] \in ToSet(t)
      BY <1>1, <1>2 DEF ToSet
    <2>3. e \in ToSet(t)
      BY <1>1, <1>2 DEF ToSet
    <2> QED BY <2>1, <2>2, <2>3 DEF ToSet
  <1>4. NoRepeats(s) /\ e \notin ToSet(s) => NoRepeats(t)
    BY <1>1, <1>2 DEF NoRepeats, ToSet
  <1>5. t # <<>>
    BY <1>2
  <1> QED BY <1>1, <1>3, <1>4, <1>5 DEF t

LEMMA TailElements ==
  ASSUME NEW S, NEW s \in Seq(S), s # <<>>
  PROVE  /\ Tail(s) \in Seq(S) /\ Head(s) \in S
         /\ ToSet(s) = ToSet(Tail(s)) \cup {Head(s)}
  <1> DEFINE t == Tail(s)
  <1>1. /\ t \in Seq(S) /\ Len(t) = Len(s) - 1 /\ Head(s) = s[1] /\ Len(s) \in Nat
        /\ Len(s) > 0 /\ \A i \in 1 .. Len(t) : t[i] = s[i + 1]
    BY HeadTailProperties
  <1> HIDE DEF t
  <1>2. DOMAIN t = 1 .. (Len(s) - 1) /\ DOMAIN s = 1 .. Len(s)
    BY <1>1
  <1>3. \A i \in DOMAIN t : t[i] \in ToSet(s)
    BY <1>1, <1>2 DEF ToSet
  <1>4. \A i \in DOMAIN s : i # 1 => s[i] = t[i - 1] /\ i - 1 \in DOMAIN t
    BY <1>1, <1>2
  <1>5. s[1] \in ToSet(s) /\ s[1] \in S
    BY <1>1, <1>2 DEF ToSet
  <1>6. ToSet(s) \subseteq ToSet(t) \cup {s[1]}
    BY <1>4 DEF ToSet
  <1>7. ToSet(t) \subseteq ToSet(s)
    BY <1>3 DEF ToSet
  <1> QED BY <1>1, <1>5, <1>6, <1>7 DEF t

LEMMA TailOfDistinct ==
  ASSUME NEW S, NEW s \in Seq(S), s # <<>>, NoRepeats(s)
  PROVE  NoRepeats(Tail(s)) /\ Head(s) \notin ToSet(Tail(s))
  <1> DEFINE t == Tail(s)
  <1>1. /\ t \in Seq(S) /\ Len(t) = Len(s) - 1 /\ Head(s) = s[1] /\ Len(s) \in Nat
        /\ Len(s) > 0 /\ \A i \in 1 .. Len(t) : t[i] = s[i + 1]
    BY HeadTailProperties
  <1> HIDE DEF t
  <1>2. DOMAIN t = 1 .. (Len(s) - 1) /\ DOMAIN s = 1 .. Len(s)
    BY <1>1
  <1>3. NoRepeats(t)
    BY <1>1, <1>2 DEF NoRepeats
  <1>4. \A i \in DOMAIN t : t[i] # s[1]
    BY <1>1, <1>2 DEF NoRepeats
  <1> QED BY <1>1, <1>3, <1>4 DEF ToSet, t

-----------------------------------------------------------------------------
Kinds == {"hook", "trigger", "tell", "register", "call", "watch", "stop", "untrack", "track", "batch"}
Frame == [do : Kinds, c : Comps \cup {None}, event : Events \cup {""}, left : Seq(Listeners \cup Comps)]
Record == [attached : BOOLEAN, checked : BOOLEAN, tracking : BOOLEAN, stopped : BOOLEAN,
           marks : SUBSET Events, subs : [Events -> Seq(Listeners)]]

TypeOK ==
  /\ placed \subseteq Comps
  /\ comp \in [Comps -> Record]
  /\ tracked \in Seq(Comps) /\ observer \in BOOLEAN /\ records \in BOOLEAN
  /\ stack \in Seq(Frame)
  /\ heard \in [Comps -> [Listeners -> Seq(Events)]]
  /\ acts \in 0 .. MaxActs
  /\ inside \subseteq Comps \X {"stopped", "moved"}

-----------------------------------------------------------------------------
(* The frames.                                                             *)

(* c has turned, and its hook, mark or handlers are to follow.             *)
Moving(f, c) == f.c = c /\ f.do \in {"hook", "trigger", "tell"} /\ f.event # "stop"
Turning(f, c, e) == f.c = c /\ f.do \in {"hook", "trigger"} /\ f.event = e
Tells(f, c) == f.c = c /\ f.do \in {"trigger", "tell"} /\ f.event # "stop"
(* c is in _stop(), past the flag.                                         *)
Ending(f, c) ==
  f.c = c /\ (f.do = "untrack" \/ (f.do \in {"hook", "trigger", "tell"} /\ f.event = "stop"))
Registers(f, c) == f.do = "register" /\ f.c = c
Informs(f, c) == f.do \in {"tell", "call"} /\ f.c = c

Due(st, c, e) == \E i \in DOMAIN st : Turning(st[i], c, e)
InRegister(st, c, e, l) ==
  \E i \in DOMAIN st : Registers(st[i], c) /\ st[i].event = e /\ st[i].left = <<l>>
Pending(st, c, l, e) ==
  \E i \in DOMAIN st : Informs(st[i], c) /\ st[i].event = e /\ l \in ToSet(st[i].left)
InFirstCheck(st, c) == \E i \in DOMAIN st : st[i].do = "track" /\ st[i].c = c
InBatch(st) == \E i \in DOMAIN st : st[i].do = "batch"
InUntrack(st, c) == \E i \in DOMAIN st : st[i].do = "untrack" /\ st[i].c = c

FrameOK(f) ==
  /\ f \in Frame
  /\ f.do \notin {"track", "batch"} => f.c \in Comps /\ f.event \in Events
  /\ f.do \in {"hook", "trigger", "watch", "stop", "untrack", "track"} => f.left = <<>>
  /\ f.do \in {"tell", "call"} => f.left \in Seq(Listeners)
  /\ f.do = "register" => \E l \in Listeners : f.left = <<l>>
  /\ f.do = "watch" => f.event = "attach"
  /\ f.do \in {"stop", "untrack"} => f.event = "stop"
  /\ f.do = "track" => f.c \in Comps
  /\ f.do = "batch" => f.c = None /\ f.left \in Seq(Comps)

IsStack(st) == Len(st) \in Nat /\ DOMAIN st = 1 .. Len(st)

FramesTyped(st) == \A i \in DOMAIN st : FrameOK(st[i])
BottomFrames(st) == \A i \in DOMAIN st : st[i].do \in {"batch", "track"} => i = 1
HooksOnTop(st) == \A i \in DOMAIN st : st[i].do = "hook" => i = Len(st)
FirstCheckTurns(st) == (Len(st) > 1 /\ st[1].do = "track") => Moving(st[2], st[1].c)
WatchThenRegister(st) == \A i \in DOMAIN st : st[i].do = "watch" =>
  i > 1 /\ Registers(st[i - 1], st[i].c) /\ st[i - 1].event = "attach"

Shape(st) ==
  /\ IsStack(st) /\ FramesTyped(st) /\ BottomFrames(st) /\ HooksOnTop(st)
  /\ FirstCheckTurns(st) /\ WatchThenRegister(st)

-----------------------------------------------------------------------------
(* Who listens, and who is still to be told.                               *)
Subs(cm, c, e) == ToSet(cm[c].subs[e])

SubsDistinct(cm) == \A c \in Comps : \A e \in Events : NoRepeats(cm[c].subs[e])
SubsNested(cm) == \A c \in Comps :
  Subs(cm, c, "stop") \subseteq Subs(cm, c, "detach") /\ Subs(cm, c, "detach") \subseteq Subs(cm, c, "attach")
TellsSubs(cm, st) == \A i \in DOMAIN st : st[i].do = "tell" =>
  NoRepeats(st[i].left) /\ ToSet(st[i].left) \subseteq Subs(cm, st[i].c, st[i].event)
CallsOne(cm, st) == \A i \in DOMAIN st : (st[i].do = "call" /\ st[i].left # <<>>) =>
  /\ i = Len(st) /\ st[i].event \in cm[st[i].c].marks
  /\ \E l \in Subs(cm, st[i].c, st[i].event) : st[i].left = <<l>>
RegisterOrder(st) == \A c \in Comps : \A i, j \in DOMAIN st :
  (i < j /\ Registers(st[i], c) /\ Registers(st[j], c)) =>
    /\ st[i].left = st[j].left
    /\ st[i].event # "attach" /\ st[j].event # "stop" /\ st[i].event # st[j].event
NotYetIn(cm, st) == \A c \in Comps : \A e \in Events : \A l \in Listeners :
  InRegister(st, c, e, l) => l \notin Subs(cm, c, e)
OneAfterOther(cm, st) == \A c \in Comps : \A l \in Listeners :
  /\ InRegister(st, c, "attach", l) => InRegister(st, c, "detach", l)
  /\ InRegister(st, c, "detach", l) => l \in Subs(cm, c, "attach") \/ InRegister(st, c, "attach", l)
  /\ InRegister(st, c, "stop", l) => l \in Subs(cm, c, "detach") \/ InRegister(st, c, "detach", l)
  /\ l \in Subs(cm, c, "attach") => l \in Subs(cm, c, "detach") \/ InRegister(st, c, "detach", l)
InterestFirst(cm, st) == \A c \in Comps : ~cm[c].tracking =>
  /\ Subs(cm, c, "attach") = {}
  /\ \A i \in DOMAIN st : Registers(st[i], c) =>
       \E j \in DOMAIN st : i < j /\ st[j].do = "watch" /\ st[j].c = c
ToldByOne(st) == \A i, j \in DOMAIN st :
  (i < j /\ st[i].do = "tell" /\ st[j].c = st[i].c /\ st[j].do \in {"register", "call"}) =>
    \A l \in Listeners : ~(l \in ToSet(st[i].left) /\ l \in ToSet(st[j].left))

Listening(cm, st) ==
  /\ SubsDistinct(cm) /\ SubsNested(cm) /\ TellsSubs(cm, st) /\ CallsOne(cm, st)
  /\ RegisterOrder(st) /\ NotYetIn(cm, st) /\ OneAfterOther(cm, st)
  /\ InterestFirst(cm, st) /\ ToldByOne(st)

-----------------------------------------------------------------------------
(* One turn at a time -- unless c was stopped by a handler being told.     *)
Whole(ins, c) == <<c, "stopped">> \notin ins

HookedTracks(cm) == \A c \in Hooked : cm[c].tracking
TurnTracks(cm, st) == \A c \in Comps : \A i \in DOMAIN st :
  Moving(st[i], c) /\ i # Len(st) => cm[c].tracking
EndingStopped(cm, st) == \A c \in Comps : \A i \in DOMAIN st : Ending(st[i], c) => cm[c].stopped
OneEnding(st) == \A c \in Comps : \A i, j \in DOMAIN st :
  Ending(st[i], c) /\ Ending(st[j], c) => i = j
OneTurn(ins, st) == \A c \in Comps : Whole(ins, c) => \A i, j \in DOMAIN st :
  Moving(st[i], c) /\ Moving(st[j], c) => i = j
NoStopInTelling(cm, ins, st) == \A c \in Comps : Whole(ins, c) => \A i, j \in DOMAIN st :
  i < j /\ Tells(st[i], c) =>
    ~Ending(st[j], c) /\ (st[j].do = "stop" /\ st[j].c = c => cm[c].stopped)

Turns(cm, ins, st) ==
  /\ HookedTracks(cm) /\ TurnTracks(cm, st) /\ EndingStopped(cm, st) /\ OneEnding(st)
  /\ OneTurn(ins, st) /\ NoStopInTelling(cm, ins, st)

-----------------------------------------------------------------------------
(* The marks say what has been told.                                       *)
StoppedIsDetached(cm) == \A c \in Comps : cm[c].stopped => ~cm[c].attached
AttachMarked(cm, ins, st) == \A c \in Comps : Whole(ins, c) =>
  /\ cm[c].attached => "attach" \in cm[c].marks \/ Due(st, c, "attach")
  /\ "attach" \in cm[c].marks => cm[c].attached
  /\ "detach" \in cm[c].marks => ~cm[c].attached
StopIsLast(cm, ins, st) == \A c \in Comps : Whole(ins, c) /\ "stop" \in cm[c].marks =>
  /\ cm[c].stopped
  /\ \A i \in DOMAIN st : ~Moving(st[i], c) /\ (Ending(st[i], c) => st[i].do = "tell")
TurnMatches(cm, ins, st) == \A c \in Comps : Whole(ins, c) => \A i \in DOMAIN st :
  Moving(st[i], c) =>
    /\ cm[c].attached <=> st[i].event = "attach"
    /\ st[i].do # "tell" => "attach" \notin cm[c].marks /\ "detach" \notin cm[c].marks
TellIsMarked(cm, ins, st) == \A c \in Comps : Whole(ins, c) => \A i \in DOMAIN st :
  st[i].do = "tell" /\ st[i].c = c => st[i].event \in cm[c].marks

Marked(cm, ins, st) ==
  /\ StoppedIsDetached(cm) /\ AttachMarked(cm, ins, st) /\ StopIsLast(cm, ins, st)
  /\ TurnMatches(cm, ins, st) /\ TellIsMarked(cm, ins, st)

-----------------------------------------------------------------------------
(* What listeners have heard last, and what they are owed.                 *)
LastHeard(he, c, l) == IF he[c][l] = <<>> THEN "" ELSE Last(he[c][l])
Follows(e) == IF e = "detach" THEN {"", "attach"} ELSE {"", "detach"}

HeardTyped(he) == \A c \in Comps : \A l \in Listeners : he[c][l] \in Seq(Events) /\ Len(he[c][l]) <= 2
HeardSubs(cm, he) == \A c \in Comps : \A l \in Listeners :
  /\ LastHeard(he, c, l) # "" => l \in Subs(cm, c, "attach")
  /\ LastHeard(he, c, l) = "detach" => l \in Subs(cm, c, "detach")
  /\ LastHeard(he, c, l) = "stop" => l \in Subs(cm, c, "stop")
HeardInOrder(ins, he) == \A c \in Comps : Whole(ins, c) => \A l \in Listeners : InOrder(he[c][l])
NextFollows(ins, st, he) == \A c \in Comps : Whole(ins, c) => \A l \in Listeners : \A i \in DOMAIN st :
  Informs(st[i], c) /\ l \in ToSet(st[i].left) => LastHeard(he, c, l) \in Follows(st[i].event)
AttachHeard(cm, ins, st, he) == \A c \in Comps : Whole(ins, c) => \A l \in Listeners :
  LastHeard(he, c, l) = "attach" =>
    \/ "attach" \in cm[c].marks
    \/ InRegister(st, c, "detach", l) /\ ("detach" \in cm[c].marks \/ Due(st, c, "detach"))
    \/ l \in Subs(cm, c, "detach") /\ Due(st, c, "detach")
    \/ Pending(st, c, l, "detach")
DetachHeard(cm, ins, st, he) == \A c \in Comps : Whole(ins, c) => \A l \in Listeners :
  LastHeard(he, c, l) = "detach" =>
    "detach" \in cm[c].marks \/ Due(st, c, "attach") \/ Pending(st, c, l, "attach")
StopHeard(cm, ins, he) == \A c \in Comps : Whole(ins, c) => \A l \in Listeners :
  LastHeard(he, c, l) = "stop" => "stop" \in cm[c].marks

Hearing(cm, ins, st, he) ==
  /\ HeardTyped(he) /\ HeardSubs(cm, he) /\ HeardInOrder(ins, he) /\ NextFollows(ins, st, he)
  /\ AttachHeard(cm, ins, st, he) /\ DetachHeard(cm, ins, st, he) /\ StopHeard(cm, ins, he)

-----------------------------------------------------------------------------
(* Who is tracked, and what the observer is still to see.                  *)
Wants(cm, c) == cm[c].checked /\ cm[c].tracking /\ ~cm[c].stopped

ObserverOn(tr, ob, rc, st) ==
  /\ tr # <<>> => ob
  /\ ob => tr # <<>> \/ InBatch(st)
  /\ rc => ob
TrackedWant(cm, tr, ins, st) == \A c \in ToSet(tr) :
  /\ cm[c].checked /\ cm[c].tracking
  /\ cm[c].stopped /\ Whole(ins, c) => InUntrack(st, c)
FirstChecked(cm, ins, st) == \A c \in Comps : InFirstCheck(st, c) =>
  cm[c].checked /\ (cm[c].stopped => ~Whole(ins, c))
WantIsTracked(cm, tr, st) == \A c \in Comps : Wants(cm, c) => c \in ToSet(tr) \/ InFirstCheck(st, c)

Observed(cm, tr, ob, rc, ins, st) ==
  /\ NoRepeats(tr) /\ ObserverOn(tr, ob, rc, st) /\ TrackedWant(cm, tr, ins, st)
  /\ FirstChecked(cm, ins, st) /\ WantIsTracked(cm, tr, st)

Right(pl, cm, c) == cm[c].attached = Connected(pl, c)
MovedInside(ins, c) == <<c, "moved">> \in ins
Unseen(tr, st, c) == \E i \in DOMAIN st : st[i].do = "batch" /\ c \in ToSet(tr) \ ToSet(st[i].left)

FirstCheckRight(pl, cm, ins, st, c) ==
  InFirstCheck(st, c) /\ ~cm[c].stopped => Right(pl, cm, c) \/ MovedInside(ins, c)
WantIsRight(pl, cm, tr, rc, ins, st, c) ==
  Wants(cm, c) => Right(pl, cm, c) \/ rc \/ MovedInside(ins, c) \/ Unseen(tr, st, c)

Current(pl, cm, tr, rc, ins, st) == \A c \in Comps :
  FirstCheckRight(pl, cm, ins, st, c) /\ WantIsRight(pl, cm, tr, rc, ins, st, c)

-----------------------------------------------------------------------------
Sound(cm, ins, st, he) ==
  /\ Shape(st) /\ Listening(cm, st) /\ Turns(cm, ins, st)
  /\ Marked(cm, ins, st) /\ Hearing(cm, ins, st, he)
Holds(pl, cm, tr, ob, rc, ins, st, he) ==
  Sound(cm, ins, st, he) /\ Observed(cm, tr, ob, rc, ins, st) /\ Current(pl, cm, tr, rc, ins, st)

IInv == TypeOK /\ Holds(placed, comp, tracked, observer, records, inside, stack, heard)

-----------------------------------------------------------------------------
(* Steps on the stack.  tt has kept the first n frames of st.              *)
Keeps(st, n, tt) ==
  /\ IsStack(st) /\ IsStack(tt)
  /\ n \in Nat /\ n <= Len(st) /\ n <= Len(tt)
  /\ \A i \in 1 .. n : tt[i] = st[i]

LEMMA LastOf ==
  ASSUME NEW S, NEW s \in Seq(S), s # <<>>
  PROVE  /\ Len(s) \in Nat /\ Len(s) > 0 /\ IsStack(s)
         /\ Last(s) = s[Len(s)] /\ Last(s) \in S /\ Len(s) \in DOMAIN s
  <1>1. Len(s) \in Nat /\ Len(s) > 0
    BY EmptySeq
  <1> QED BY <1>1 DEF Last, IsStack

LEMMA StackOf ==
  ASSUME NEW S, NEW s \in Seq(S)
  PROVE  IsStack(s) /\ (s = <<>> <=> Len(s) = 0) /\ \A i \in DOMAIN s : s[i] \in S
  BY EmptySeq DEF IsStack

IsPush(S, s, g, t) ==
  /\ t \in Seq(S) /\ t # <<>> /\ Last(t) = g /\ Front(t) = s
  /\ Keeps(s, Len(s), t) /\ Len(t) = Len(s) + 1 /\ t[Len(s) + 1] = g

LEMMA Pushed ==
  ASSUME NEW S, NEW s \in Seq(S), NEW g \in S
  PROVE  IsPush(S, s, g, Append(s, g))
  <1> DEFINE t == Append(s, g)
  <1>1. /\ t \in Seq(S) /\ t # <<>> /\ Len(t) = Len(s) + 1
        /\ \A i \in 1 .. Len(s) : t[i] = s[i]
        /\ t[Len(s) + 1] = g
    BY AppendProperties
  <1> HIDE DEF t
  <1>2. Keeps(s, Len(s), t)
    BY <1>1 DEF Keeps, IsStack
  <1>3. Last(t) = g
    BY <1>1, LastOf
  <1>4. Front(t) = s
    <2>1. 1 \in Int /\ Len(s) \in Int /\ Len(s) \in Nat /\ Len(t) - 1 = Len(s)
      BY <1>1
    <2>2. \A i \in 1 .. Len(s) : t[i] \in S
      BY <1>1
    <2>3. Front(t) = SubSeq(t, 1, Len(s))
      BY <2>1 DEF Front
    <2>4. /\ SubSeq(t, 1, Len(s)) \in Seq(S)
          /\ Len(SubSeq(t, 1, Len(s))) = IF 1 <= Len(s) THEN Len(s) - 1 + 1 ELSE 0
          /\ \A i \in 1 .. Len(s) - 1 + 1 : SubSeq(t, 1, Len(s))[i] = t[1 + i - 1]
      BY <2>1, <2>2, SubSeqProperties
    <2> DEFINE u == SubSeq(t, 1, Len(s))
    <2> HIDE DEF u
    <2>5. Len(u) = Len(s) /\ u \in Seq(S) /\ \A i \in 1 .. Len(s) : u[i] = s[i]
      BY <1>1, <2>1, <2>4 DEF u
    <2>6. u = s
      BY <2>5, SeqEqual
    <2> QED BY <2>3, <2>6 DEF u
  <1> QED BY <1>1, <1>2, <1>3, <1>4 DEF IsPush, t

LEMMA Popped ==
  ASSUME NEW S, NEW s \in Seq(S), s # <<>>, NEW t, t = Front(s)
  PROVE  /\ t \in Seq(S) /\ Keeps(s, Len(s) - 1, t) /\ Len(t) = Len(s) - 1
         /\ Len(s) \in Nat /\ Len(s) > 0
  <1>1. PICK r \in Seq(S), e \in S : s = Append(r, e)
    BY SequenceEmptyOrAppend
  <1>2. Front(s) = r /\ Keeps(r, Len(r), s) /\ Len(s) = Len(r) + 1
    BY <1>1, Pushed DEF IsPush
  <1>3. Len(r) \in Nat
    OBVIOUS
  <1> QED BY <1>2, <1>3 DEF Keeps, IsStack

IsReplace(S, s, g, t) ==
  /\ t \in Seq(S) /\ t # <<>> /\ Last(t) = g /\ Front(t) = Front(s)
  /\ Keeps(s, Len(s) - 1, t) /\ Len(t) = Len(s) /\ t[Len(s)] = g
  /\ Len(s) \in Nat /\ Len(s) > 0

LEMMA Replaced ==
  ASSUME NEW S, NEW s \in Seq(S), s # <<>>, NEW g \in S
  PROVE  IsReplace(S, s, g, Append(Front(s), g))
  <1> DEFINE t == Append(Front(s), g)
  <1> DEFINE r == Front(s)
  <1>1. /\ r \in Seq(S) /\ Keeps(s, Len(s) - 1, r) /\ Len(r) = Len(s) - 1
        /\ Len(s) \in Nat /\ Len(s) > 0
    BY Popped
  <1> HIDE DEF r
  <1>2. t = Append(r, g)
    BY DEF r
  <1> HIDE DEF t
  <1>3. /\ t \in Seq(S) /\ t # <<>> /\ Last(t) = g /\ Front(t) = r
        /\ Keeps(r, Len(r), t) /\ Len(t) = Len(r) + 1 /\ t[Len(r) + 1] = g
    <2>1. IsPush(S, r, g, Append(r, g))
      BY <1>1, Pushed
    <2> QED BY <1>2, <2>1 DEF IsPush
  <1>4. Len(t) = Len(s) /\ t[Len(s)] = g
    <2>1. \A m \in Nat : m > 0 => (m - 1) + 1 = m
      OBVIOUS
    <2>2. Len(r) + 1 = Len(s)
      BY <1>1, <2>1, Zenon
    <2> QED BY <1>3, <2>2, Zenon
  <1>5. Keeps(s, Len(s) - 1, t)
    BY <1>1, <1>3, <1>4 DEF Keeps
  <1> QED BY <1>1, <1>3, <1>4, <1>5 DEF r, t, IsReplace

-----------------------------------------------------------------------------
(* The hook on top has run: its frame is now that of the trigger.          *)
Ran(st, tt) ==
  /\ Len(st) > 0 /\ Keeps(st, Len(st) - 1, tt) /\ Len(tt) = Len(st)
  /\ st[Len(st)].do = "hook" /\ tt[Len(st)] = [st[Len(st)] EXCEPT !.do = "trigger"]

Here(st) == st[Len(st)]

LEMMA RanFrames ==
  ASSUME NEW st, NEW tt, Shape(st), Ran(st, tt)
  PROVE  /\ IsStack(st) /\ IsStack(tt) /\ DOMAIN tt = DOMAIN st /\ Len(tt) = Len(st)
         /\ Len(st) \in DOMAIN st /\ FrameOK(tt[Len(st)])
         /\ \A i \in DOMAIN st : i # Len(st) => tt[i] = st[i]
         /\ st[Len(st)].do = "hook" /\ tt[Len(st)].do = "trigger"
         /\ \A i \in DOMAIN st : tt[i].c = st[i].c /\ tt[i].event = st[i].event /\ tt[i].left = st[i].left
  <1> DEFINE n == Len(st)
  <1>1. IsStack(st) /\ IsStack(tt) /\ Len(tt) = n /\ n > 0
    BY DEF Ran, Keeps
  <1>2. DOMAIN tt = DOMAIN st /\ n \in DOMAIN st
    BY <1>1 DEF IsStack
  <1>3. FrameOK(st[n]) /\ st[n].do = "hook" /\ tt[n] = [st[n] EXCEPT !.do = "trigger"]
    BY <1>2 DEF Ran, Shape, FramesTyped
  <1>4. /\ tt[n].do = "trigger" /\ tt[n].c = st[n].c /\ tt[n].event = st[n].event
        /\ tt[n].left = st[n].left /\ tt[n] \in Frame
    BY <1>3 DEF FrameOK, Frame, Kinds
  <1>5. FrameOK(tt[n])
    BY <1>3, <1>4 DEF FrameOK
  <1>6. \A i \in DOMAIN st : i # n => tt[i] = st[i]
    BY <1>1 DEF Ran, Keeps, IsStack
  <1> HIDE DEF n
  <1>7. \A i \in DOMAIN st : tt[i].c = st[i].c /\ tt[i].event = st[i].event /\ tt[i].left = st[i].left
    BY <1>4, <1>6
  <1> QED BY <1>1, <1>2, <1>3, <1>4, <1>5, <1>6, <1>7 DEF n

LEMMA RanShape ==
  ASSUME NEW st, NEW tt, Shape(st), Ran(st, tt)
  PROVE  Shape(tt)
  <1> USE RanFrames
  <1>1. FramesTyped(tt)
    BY DEF Shape, FramesTyped
  <1>2. BottomFrames(tt)
    BY DEF Shape, BottomFrames
  <1>3. HooksOnTop(tt)
    BY DEF Shape, HooksOnTop
  <1>4. FirstCheckTurns(tt)
    BY DEF Shape, FirstCheckTurns, Moving, IsStack
  <1>5. WatchThenRegister(tt)
    BY DEF Shape, WatchThenRegister, Registers, IsStack
  <1> QED BY <1>1, <1>2, <1>3, <1>4, <1>5 DEF Shape

LEMMA RanSame ==
  ASSUME NEW st, NEW tt, Shape(st), Ran(st, tt)
  PROVE  /\ \A c, e : Due(tt, c, e) <=> Due(st, c, e)
         /\ \A c, e, l : InRegister(tt, c, e, l) <=> InRegister(st, c, e, l)
         /\ \A c, e, l : Pending(tt, c, l, e) <=> Pending(st, c, l, e)
         /\ \A c : InFirstCheck(tt, c) <=> InFirstCheck(st, c)
         /\ InBatch(tt) <=> InBatch(st)
         /\ \A c : InUntrack(tt, c) <=> InUntrack(st, c)
         /\ \A i \in DOMAIN st : \A c : Moving(tt[i], c) <=> Moving(st[i], c)
         /\ \A i \in DOMAIN st : \A c : Ending(tt[i], c) <=> Ending(st[i], c)
         /\ \A i \in DOMAIN st : \A c : Registers(tt[i], c) <=> Registers(st[i], c)
         /\ \A i \in DOMAIN st : \A c : Informs(tt[i], c) <=> Informs(st[i], c)
  <1> USE RanFrames
  <1>1. \A c, e : Due(tt, c, e) <=> Due(st, c, e)
    BY DEF Due, Turning
  <1>2. \A c, e, l : InRegister(tt, c, e, l) <=> InRegister(st, c, e, l)
    BY DEF InRegister, Registers
  <1>3. \A c, e, l : Pending(tt, c, l, e) <=> Pending(st, c, l, e)
    BY DEF Pending, Informs
  <1>4. \A c : InFirstCheck(tt, c) <=> InFirstCheck(st, c)
    BY DEF InFirstCheck
  <1>5. InBatch(tt) <=> InBatch(st)
    BY DEF InBatch
  <1>6. \A c : InUntrack(tt, c) <=> InUntrack(st, c)
    BY DEF InUntrack
  <1>7. \A i \in DOMAIN st : \A c : Moving(tt[i], c) <=> Moving(st[i], c)
    BY DEF Moving
  <1>8. \A i \in DOMAIN st : \A c : Ending(tt[i], c) <=> Ending(st[i], c)
    BY DEF Ending
  <1>9. \A i \in DOMAIN st : \A c : Registers(tt[i], c) <=> Registers(st[i], c)
    BY DEF Registers
  <1>10. \A i \in DOMAIN st : \A c : Informs(tt[i], c) <=> Informs(st[i], c)
    BY DEF Informs
  <1> QED BY <1>1, <1>2, <1>3, <1>4, <1>5, <1>6, <1>7, <1>8, <1>9, <1>10

LEMMA RanListening ==
  ASSUME NEW st, NEW tt, NEW cm, Shape(st), Listening(cm, st), Ran(st, tt)
  PROVE  Listening(cm, tt)
  <1>1. TellsSubs(cm, tt)
    BY RanFrames DEF Listening, TellsSubs
  <1>2. CallsOne(cm, tt)
    BY RanFrames DEF Listening, CallsOne
  <1>3. RegisterOrder(tt)
    BY RanFrames, RanSame DEF Listening, RegisterOrder
  <1>4. NotYetIn(cm, tt) /\ OneAfterOther(cm, tt)
    BY RanSame DEF Listening, NotYetIn, OneAfterOther
  <1>5. InterestFirst(cm, tt)
    BY RanFrames, RanSame DEF Listening, InterestFirst
  <1>6. ToldByOne(tt)
    <2>1. \A i \in DOMAIN st : tt[i].do \in {"tell", "register", "call"} => tt[i] = st[i]
      BY RanFrames
    <2> QED BY <2>1, RanFrames DEF Listening, ToldByOne
  <1> QED BY <1>1, <1>2, <1>3, <1>4, <1>5, <1>6 DEF Listening

LEMMA RanTurns ==
  ASSUME NEW st, NEW tt, NEW cm, NEW ins, Shape(st), Turns(cm, ins, st), Ran(st, tt)
  PROVE  Turns(cm, ins, tt)
  <1>1. TurnTracks(cm, tt)
    BY RanFrames, RanSame DEF Turns, TurnTracks
  <1>2. EndingStopped(cm, tt) /\ OneEnding(tt)
    BY RanFrames, RanSame DEF Turns, EndingStopped, OneEnding
  <1>3. OneTurn(ins, tt)
    BY RanFrames, RanSame DEF Turns, OneTurn
  <1>4. NoStopInTelling(cm, ins, tt)
    BY RanFrames, RanSame DEF Turns, NoStopInTelling, Tells, IsStack
  <1> QED BY <1>1, <1>2, <1>3, <1>4 DEF Turns

LEMMA RanMarked ==
  ASSUME NEW st, NEW tt, NEW cm, NEW ins, Shape(st), Marked(cm, ins, st), Ran(st, tt)
  PROVE  Marked(cm, ins, tt)
  <1>1. AttachMarked(cm, ins, tt)
    BY RanSame DEF Marked, AttachMarked
  <1>2. StopIsLast(cm, ins, tt)
    BY RanFrames, RanSame DEF Marked, StopIsLast
  <1>3. TurnMatches(cm, ins, tt)
    BY RanFrames, RanSame DEF Marked, TurnMatches
  <1>4. TellIsMarked(cm, ins, tt)
    BY RanFrames DEF Marked, TellIsMarked
  <1> QED BY <1>1, <1>2, <1>3, <1>4 DEF Marked

LEMMA RanHearing ==
  ASSUME NEW st, NEW tt, NEW cm, NEW ins, NEW he, Shape(st), Hearing(cm, ins, st, he), Ran(st, tt)
  PROVE  Hearing(cm, ins, tt, he)
  <1>1. NextFollows(ins, tt, he)
    BY RanFrames, RanSame DEF Hearing, NextFollows
  <1>2. AttachHeard(cm, ins, tt, he)
    BY RanSame DEF Hearing, AttachHeard
  <1>3. DetachHeard(cm, ins, tt, he)
    BY RanSame DEF Hearing, DetachHeard
  <1> QED BY <1>1, <1>2, <1>3 DEF Hearing

-----------------------------------------------------------------------------
(* What most steps leave alone: the frames of the first check, of the      *)
(* observer's loop and of an untracking, and the flags of the components.  *)
Quiet(f) == f.do \notin {"track", "batch", "untrack"}

SameBottom(st, tt) ==
  /\ \A c : InFirstCheck(tt, c) <=> InFirstCheck(st, c)
  /\ InBatch(tt) <=> InBatch(st)
  /\ \A c : InUntrack(tt, c) <=> InUntrack(st, c)
  /\ \A tr, c : Unseen(tr, tt, c) <=> Unseen(tr, st, c)

SameWants(cm, cm2) == \A c \in Comps :
  cm2[c].checked = cm[c].checked /\ cm2[c].tracking = cm[c].tracking /\ cm2[c].stopped = cm[c].stopped
SameFlags(cm, cm2) == SameWants(cm, cm2) /\ \A c \in Comps : cm2[c].attached = cm[c].attached

LEMMA BottomStays ==
  ASSUME NEW st, NEW tt, NEW n, Keeps(st, n, tt),
         \A i \in DOMAIN st : i > n => Quiet(st[i]),
         \A i \in DOMAIN tt : i > n => Quiet(tt[i])
  PROVE  SameBottom(st, tt)
  <1>1. \A i \in DOMAIN st : ~Quiet(st[i]) => i \in DOMAIN tt /\ tt[i] = st[i]
    BY DEF Keeps, IsStack
  <1>2. \A i \in DOMAIN tt : ~Quiet(tt[i]) => i \in DOMAIN st /\ tt[i] = st[i]
    BY DEF Keeps, IsStack
  <1>3. \A c : InFirstCheck(tt, c) <=> InFirstCheck(st, c)
    BY <1>1, <1>2 DEF InFirstCheck, Quiet
  <1>4. InBatch(tt) <=> InBatch(st)
    BY <1>1, <1>2 DEF InBatch, Quiet
  <1>5. \A c : InUntrack(tt, c) <=> InUntrack(st, c)
    BY <1>1, <1>2 DEF InUntrack, Quiet
  <1>6. \A tr, c : Unseen(tr, tt, c) <=> Unseen(tr, st, c)
    BY <1>1, <1>2 DEF Unseen, Quiet
  <1> QED BY <1>3, <1>4, <1>5, <1>6 DEF SameBottom

LEMMA ObservedStays ==
  ASSUME NEW st, NEW tt, SameBottom(st, tt), NEW cm, NEW cm2, SameWants(cm, cm2),
         NEW tr, ToSet(tr) \subseteq Comps, NEW ob, NEW rc, NEW ins,
         Observed(cm, tr, ob, rc, ins, st)
  PROVE  Observed(cm2, tr, ob, rc, ins, tt)
  <1>1. ObserverOn(tr, ob, rc, tt)
    BY DEF Observed, ObserverOn, SameBottom
  <1>2. TrackedWant(cm2, tr, ins, tt)
    BY DEF Observed, TrackedWant, SameBottom, SameWants
  <1>3. FirstChecked(cm2, ins, tt)
    BY DEF Observed, FirstChecked, SameBottom, SameWants
  <1>4. WantIsTracked(cm2, tr, tt)
    BY DEF Observed, WantIsTracked, Wants, SameBottom, SameWants
  <1> QED BY <1>1, <1>2, <1>3, <1>4 DEF Observed

LEMMA CurrentStays ==
  ASSUME NEW st, NEW tt, SameBottom(st, tt), NEW cm, NEW cm2, SameFlags(cm, cm2),
         NEW pl, NEW tr, NEW rc, NEW ins, Current(pl, cm, tr, rc, ins, st)
  PROVE  Current(pl, cm2, tr, rc, ins, tt)
  <1>1. ASSUME NEW c \in Comps
        PROVE  FirstCheckRight(pl, cm2, ins, tt, c)
    BY DEF Current, FirstCheckRight, Right, SameBottom, SameFlags, SameWants
  <1>2. ASSUME NEW c \in Comps
        PROVE  WantIsRight(pl, cm2, tr, rc, ins, tt, c)
    BY DEF Current, WantIsRight, Wants, Right, SameBottom, SameFlags, SameWants
  <1> QED BY <1>1, <1>2 DEF Current

LEMMA RanBottom ==
  ASSUME NEW st, NEW tt, Shape(st), Ran(st, tt)
  PROVE  SameBottom(st, tt)
  <1>1. Keeps(st, Len(st) - 1, tt)
    BY DEF Ran
  <1>2. \A i \in DOMAIN st : i > Len(st) - 1 => i = Len(st)
    BY RanFrames DEF IsStack
  <1> QED BY <1>1, <1>2, RanFrames, BottomStays DEF Quiet

-----------------------------------------------------------------------------
(* event_trigger() marks the event and takes a snapshot of the handlers.   *)
Marks(cm, cm2, c, e) ==
  /\ cm \in [Comps -> Record] /\ cm2 \in [Comps -> Record] /\ SameFlags(cm, cm2)
  /\ \A d \in Comps : cm2[d].subs = cm[d].subs
  /\ \A d \in Comps : d # c => cm2[d].marks = cm[d].marks
  /\ cm2[c].marks = cm[c].marks \cup {e}

Triggered(cm, st, cm2, tt, c, e) ==
  /\ c \in Comps /\ e \in Events /\ Marks(cm, cm2, c, e)
  /\ Len(st) > 0 /\ Keeps(st, Len(st) - 1, tt) /\ Len(tt) = Len(st)
  /\ st[Len(st)].do = "trigger" /\ st[Len(st)].c = c /\ st[Len(st)].event = e
  /\ tt[Len(st)] = Step("tell", c, e, cm[c].subs[e])

LEMMA TriggeredFrames ==
  ASSUME NEW cm, NEW st, NEW cm2, NEW tt, NEW c, NEW e, Shape(st), Triggered(cm, st, cm2, tt, c, e)
  PROVE  /\ IsStack(st) /\ IsStack(tt) /\ DOMAIN tt = DOMAIN st /\ Len(tt) = Len(st)
         /\ Len(st) \in DOMAIN st /\ FrameOK(tt[Len(st)])
         /\ \A i \in DOMAIN st : i # Len(st) => tt[i] = st[i]
         /\ st[Len(st)].do = "trigger" /\ st[Len(st)].c = c /\ st[Len(st)].event = e
         /\ tt[Len(st)].do = "tell" /\ tt[Len(st)].c = c /\ tt[Len(st)].event = e
         /\ tt[Len(st)].left = cm[c].subs[e]
         /\ c \in Comps /\ e \in Events
  <1>1. IsStack(st) /\ IsStack(tt) /\ Len(tt) = Len(st) /\ Len(st) > 0
    BY DEF Triggered, Keeps
  <1>2. DOMAIN tt = DOMAIN st /\ Len(st) \in DOMAIN st
    BY <1>1 DEF IsStack
  <1>3. \A i \in DOMAIN st : i # Len(st) => tt[i] = st[i]
    BY <1>1 DEF Triggered, Keeps, IsStack
  <1>4. cm[c].subs[e] \in Seq(Listeners) /\ c \in Comps /\ e \in Events
    BY DEF Triggered, Marks, Record
  <1>5. FrameOK(Step("tell", c, e, cm[c].subs[e]))
    <2>1. cm[c].subs[e] \in Seq(Listeners \cup Comps)
      <3>1. Listeners \subseteq Listeners \cup Comps
        OBVIOUS
      <3> QED BY <1>4, <3>1, SeqMonotonic
    <2> QED BY <1>4, <2>1 DEF FrameOK, Step, Frame, Kinds
  <1> QED BY <1>1, <1>2, <1>3, <1>4, <1>5 DEF Triggered, Step

LEMMA TriggeredShape ==
  ASSUME NEW cm, NEW st, NEW cm2, NEW tt, NEW c, NEW e, Shape(st), Triggered(cm, st, cm2, tt, c, e)
  PROVE  Shape(tt) /\ SameBottom(st, tt)
  <1> USE TriggeredFrames
  <1>1. FramesTyped(tt)
    BY DEF Shape, FramesTyped
  <1>2. BottomFrames(tt)
    BY DEF Shape, BottomFrames
  <1>3. HooksOnTop(tt)
    BY DEF Shape, HooksOnTop
  <1>4. FirstCheckTurns(tt)
    BY DEF Shape, FirstCheckTurns, Moving, IsStack
  <1>5. WatchThenRegister(tt)
    BY DEF Shape, WatchThenRegister, Registers, IsStack
  <1>6. SameBottom(st, tt)
    <2>1. Keeps(st, Len(st) - 1, tt)
      BY DEF Triggered
    <2>2. \A i \in DOMAIN st : i > Len(st) - 1 => i = Len(st)
      BY DEF IsStack
    <2> QED BY <2>1, <2>2, BottomStays DEF Quiet
  <1> QED BY <1>1, <1>2, <1>3, <1>4, <1>5, <1>6 DEF Shape

LEMMA TriggeredListening ==
  ASSUME NEW cm, NEW st, NEW cm2, NEW tt, NEW c, NEW e,
         Shape(st), Listening(cm, st), Triggered(cm, st, cm2, tt, c, e)
  PROVE  Listening(cm2, tt)
  <1> USE TriggeredFrames
  <1>1. \A d \in Comps : \A x \in Events : Subs(cm2, d, x) = Subs(cm, d, x) /\ cm2[d].subs = cm[d].subs
    BY DEF Subs, Triggered, Marks
  <1>2. \A d \in Comps : cm[d].marks \subseteq cm2[d].marks /\ cm2[d].tracking = cm[d].tracking
    BY DEF Triggered, Marks, SameFlags, SameWants
  <1>3. \A d, x, l : InRegister(tt, d, x, l) <=> InRegister(st, d, x, l)
    BY DEF InRegister, Registers
  <1>4. SubsDistinct(cm2) /\ SubsNested(cm2)
    BY <1>1 DEF Listening, SubsDistinct, SubsNested, Events
  <1>5. TellsSubs(cm2, tt)
    <2> SUFFICES ASSUME NEW i \in DOMAIN tt, tt[i].do = "tell"
                 PROVE  NoRepeats(tt[i].left) /\ ToSet(tt[i].left) \subseteq Subs(cm2, tt[i].c, tt[i].event)
      BY DEF TellsSubs
    <2>1. CASE i = Len(st)
      BY <1>1, <2>1 DEF Listening, SubsDistinct, Subs
    <2>2. CASE i # Len(st)
      <3>1. FrameOK(st[i]) /\ tt[i] = st[i]
        BY <2>2 DEF Shape, FramesTyped
      <3>2. tt[i].c \in Comps /\ tt[i].event \in Events /\ st[i].do = "tell"
        BY <3>1 DEF FrameOK
      <3>3. NoRepeats(st[i].left) /\ ToSet(st[i].left) \subseteq Subs(cm, st[i].c, st[i].event)
        BY <3>2 DEF Listening, TellsSubs
      <3> QED BY <1>1, <3>1, <3>2, <3>3
    <2> QED BY <2>1, <2>2
  <1>6. CallsOne(cm2, tt)
    BY DEF Listening, CallsOne
  <1>7. RegisterOrder(tt)
    BY DEF Listening, RegisterOrder, Registers
  <1>8. NotYetIn(cm2, tt) /\ OneAfterOther(cm2, tt)
    BY <1>1, <1>3 DEF Listening, NotYetIn, OneAfterOther, Events
  <1>9. InterestFirst(cm2, tt)
    BY <1>1, <1>2 DEF Listening, InterestFirst, Registers, Events
  <1>10. ToldByOne(tt)
    <2>1. \A j \in DOMAIN tt : tt[j].do \in {"register", "call"} => tt[j] = st[j]
      OBVIOUS
    <2>2. \A i, j \in DOMAIN tt : i < j => i # Len(st)
      BY DEF IsStack
    <2> QED BY <2>1, <2>2 DEF Listening, ToldByOne
  <1> QED BY <1>4, <1>5, <1>6, <1>7, <1>8, <1>9, <1>10 DEF Listening

LEMMA TriggeredTurns ==
  ASSUME NEW cm, NEW st, NEW cm2, NEW tt, NEW c, NEW e, NEW ins,
         Shape(st), Turns(cm, ins, st), Triggered(cm, st, cm2, tt, c, e)
  PROVE  Turns(cm2, ins, tt)
  <1> USE TriggeredFrames
  <1>1. \A d \in Comps : cm2[d].tracking = cm[d].tracking /\ cm2[d].stopped = cm[d].stopped
    BY DEF Triggered, Marks, SameFlags, SameWants
  <1>2. \A i \in DOMAIN st : \A d : Moving(tt[i], d) <=> Moving(st[i], d)
    BY DEF Moving
  <1>3. \A i \in DOMAIN st : \A d : Ending(tt[i], d) <=> Ending(st[i], d)
    BY DEF Ending
  <1>4. \A i \in DOMAIN st : \A d : Tells(tt[i], d) <=> Tells(st[i], d)
    BY DEF Tells
  <1>5. HookedTracks(cm2)
    BY <1>1, ParametersAssumption DEF Turns, HookedTracks
  <1>6. TurnTracks(cm2, tt)
    BY <1>1, <1>2 DEF Turns, TurnTracks
  <1>7. EndingStopped(cm2, tt) /\ OneEnding(tt)
    BY <1>1, <1>3 DEF Turns, EndingStopped, OneEnding
  <1>8. OneTurn(ins, tt)
    BY <1>2 DEF Turns, OneTurn
  <1>9. NoStopInTelling(cm2, ins, tt)
    BY <1>1, <1>3, <1>4 DEF Turns, NoStopInTelling
  <1> QED BY <1>5, <1>6, <1>7, <1>8, <1>9 DEF Turns

(* A trigger on top is the only turn of its component, and comes before    *)
(* its mark.                                                               *)
LEMMA BeforeTrigger ==
  ASSUME NEW cm, NEW st, NEW ins, NEW c \in Comps, NEW e \in Events, cm \in [Comps -> Record],
         Shape(st), Listening(cm, st), Turns(cm, ins, st), Marked(cm, ins, st),
         Len(st) > 0, st[Len(st)].do = "trigger", st[Len(st)].c = c, st[Len(st)].event = e,
         Whole(ins, c)
  PROVE  /\ "stop" \notin cm[c].marks /\ "attach" \notin cm[c].marks
         /\ e # "stop" => "detach" \notin cm[c].marks /\ (cm[c].attached <=> e = "attach")
         /\ e = "stop" => cm[c].stopped /\ ~cm[c].attached
         /\ \A i \in DOMAIN st : Moving(st[i], c) => i = Len(st)
         /\ \A x \in {"attach", "detach"} : x # e => ~Due(st, c, x)
         /\ \A x \in {"attach", "detach"} : \A l : ~Pending(st, c, l, x)
  <1> DEFINE n == Len(st)
  <1>1. n \in DOMAIN st /\ IsStack(st)
    BY DEF Shape, IsStack
  <1>2. e # "stop" => Moving(st[n], c)
    BY DEF Moving
  <1>3. e = "stop" => Ending(st[n], c) /\ ~Moving(st[n], c)
    BY DEF Ending, Moving
  <1>4. ASSUME NEW i \in DOMAIN st, Moving(st[i], c)
        PROVE  i = n
    <2>1. CASE e # "stop"
      BY <1>1, <1>2, <1>4, <2>1 DEF Turns, OneTurn
    <2>2. CASE e = "stop" /\ i # n
      <3>1. i < n
        BY <1>1, <2>2 DEF IsStack
      <3>2. Tells(st[i], c)
        BY <1>4, <3>1 DEF Shape, HooksOnTop, Moving, Tells
      <3> QED BY <1>1, <1>3, <2>2, <3>1, <3>2 DEF Turns, NoStopInTelling
    <2> QED BY <2>1, <2>2
  <1>5. "stop" \notin cm[c].marks
    BY <1>1, <1>2, <1>3 DEF Marked, StopIsLast
  <1>6. e # "stop" => /\ "detach" \notin cm[c].marks /\ "attach" \notin cm[c].marks
                      /\ cm[c].attached <=> e = "attach"
    BY <1>1, <1>2 DEF Marked, TurnMatches
  <1>7. e = "stop" => cm[c].stopped /\ ~cm[c].attached /\ "attach" \notin cm[c].marks
    BY <1>1, <1>3 DEF Turns, EndingStopped, Marked, StoppedIsDetached, AttachMarked
  <1>8. ASSUME NEW x \in {"attach", "detach"}, x # e
        PROVE  ~Due(st, c, x)
    <2>1. ASSUME NEW i \in DOMAIN st, Turning(st[i], c, x)
          PROVE  FALSE
      <3>1. Moving(st[i], c) /\ st[i].event = x
        BY <2>1 DEF Turning, Moving
      <3>2. i = n
        BY <1>4, <3>1
      <3> QED BY <3>1, <3>2, <1>8
    <2> QED BY <2>1 DEF Due
  <1>9. ASSUME NEW x \in {"attach", "detach"}, NEW l
        PROVE  ~Pending(st, c, l, x)
    <2>1. ASSUME NEW i \in DOMAIN st, Informs(st[i], c), st[i].event = x, l \in ToSet(st[i].left)
          PROVE  FALSE
      <3>1. CASE st[i].do = "tell"
        <4>1. Moving(st[i], c)
          BY <3>1, <2>1 DEF Moving, Informs
        <4> QED BY <4>1, <1>4, <3>1
      <3>2. CASE st[i].do = "call"
        <4>1. st[i].left # <<>>
          BY <2>1 DEF ToSet
        <4>2. i = n
          BY <4>1, <3>2 DEF Listening, CallsOne
        <4> QED BY <4>2, <3>2
      <3> QED BY <2>1, <3>1, <3>2 DEF Informs
    <2> QED BY <2>1 DEF Pending
  <1> QED BY <1>4, <1>5, <1>6, <1>7, <1>8, <1>9

LEMMA TriggeredMarked ==
  ASSUME NEW cm, NEW st, NEW cm2, NEW tt, NEW c, NEW e, NEW ins,
         Shape(st), Listening(cm, st), Turns(cm, ins, st), Marked(cm, ins, st),
         Triggered(cm, st, cm2, tt, c, e)
  PROVE  Marked(cm2, ins, tt)
  <1> USE TriggeredFrames
  <1>1. /\ \A d \in Comps : cm2[d].attached = cm[d].attached /\ cm2[d].stopped = cm[d].stopped
        /\ \A d \in Comps : d # c => cm2[d].marks = cm[d].marks
        /\ cm2[c].marks = cm[c].marks \cup {e} /\ cm \in [Comps -> Record]
    BY DEF Triggered, Marks, SameFlags, SameWants
  <1>2. \A i \in DOMAIN st : \A d : Moving(tt[i], d) <=> Moving(st[i], d)
    BY DEF Moving
  <1>3. \A i \in DOMAIN st : \A d : Ending(tt[i], d) <=> Ending(st[i], d)
    BY DEF Ending
  <1>4. Whole(ins, c) =>
         /\ "stop" \notin cm[c].marks /\ "attach" \notin cm[c].marks
         /\ e # "stop" => "detach" \notin cm[c].marks /\ (cm[c].attached <=> e = "attach")
         /\ e = "stop" => cm[c].stopped /\ ~cm[c].attached
         /\ \A i \in DOMAIN st : Moving(st[i], c) => i = Len(st)
    <2>1. Len(st) > 0
      BY DEF Triggered
    <2> QED BY <1>1, <2>1, BeforeTrigger
  <1>5. StoppedIsDetached(cm2)
    BY <1>1 DEF Marked, StoppedIsDetached
  <1>6. AttachMarked(cm2, ins, tt)
    <2> SUFFICES ASSUME NEW d \in Comps, Whole(ins, d)
                 PROVE  /\ cm2[d].attached => "attach" \in cm2[d].marks \/ Due(tt, d, "attach")
                        /\ "attach" \in cm2[d].marks => cm2[d].attached
                        /\ "detach" \in cm2[d].marks => ~cm2[d].attached
      BY DEF AttachMarked
    <2>1. CASE d # c
      <3>1. Due(tt, d, "attach") <=> Due(st, d, "attach")
        BY <2>1 DEF Due, Turning
      <3> QED BY <1>1, <2>1, <3>1 DEF Marked, AttachMarked
    <2>2. CASE d = c
      <3>1. e # "attach" /\ Due(st, c, "attach") => Due(tt, c, "attach")
        BY DEF Due, Turning
      <3> QED BY <1>1, <1>4, <2>2, <3>1 DEF Marked, AttachMarked
    <2> QED BY <2>1, <2>2
  <1>7. StopIsLast(cm2, ins, tt)
    <2> SUFFICES ASSUME NEW d \in Comps, Whole(ins, d), "stop" \in cm2[d].marks
                 PROVE  /\ cm2[d].stopped
                        /\ \A i \in DOMAIN tt : ~Moving(tt[i], d) /\ (Ending(tt[i], d) => tt[i].do = "tell")
      BY DEF StopIsLast
    <2>1. CASE d # c
      <3>1. "stop" \in cm[d].marks
        BY <1>1, <2>1
      <3>2. \A i \in DOMAIN tt : Ending(tt[i], d) => tt[i] = st[i]
        BY <2>1 DEF Ending
      <3> QED BY <1>1, <1>2, <1>3, <3>1, <3>2 DEF Marked, StopIsLast
    <2>2. CASE d = c
      <3>1. e = "stop" /\ cm[c].stopped
        BY <1>1, <1>4, <2>2
      <3>2. ~Moving(st[Len(st)], c) /\ Ending(st[Len(st)], c)
        BY <3>1 DEF Moving, Ending
      <3>3. \A i \in DOMAIN st : ~Moving(st[i], c)
        BY <1>4, <2>2, <3>2
      <3>4. \A i \in DOMAIN st : Ending(st[i], c) => i = Len(st)
        BY <3>2 DEF Turns, OneEnding
      <3> QED BY <1>1, <1>2, <1>3, <2>2, <3>1, <3>3, <3>4
    <2> QED BY <2>1, <2>2
  <1>8. TurnMatches(cm2, ins, tt)
    <2> SUFFICES ASSUME NEW d \in Comps, Whole(ins, d), NEW i \in DOMAIN tt, Moving(tt[i], d)
                 PROVE  /\ cm2[d].attached <=> tt[i].event = "attach"
                        /\ tt[i].do # "tell" => "attach" \notin cm2[d].marks /\ "detach" \notin cm2[d].marks
      BY DEF TurnMatches
    <2>1. CASE d # c
      <3>1. i # Len(st)
        BY <2>1 DEF Moving
      <3> QED BY <1>1, <1>2, <2>1, <3>1 DEF Marked, TurnMatches
    <2>2. CASE d = c
      <3>1. i = Len(st)
        BY <1>2, <1>4, <2>2
      <3>2. e # "stop"
        BY <3>1 DEF Moving
      <3> QED BY <1>1, <1>4, <2>2, <3>1, <3>2
    <2> QED BY <2>1, <2>2
  <1>9. TellIsMarked(cm2, ins, tt)
    BY <1>1 DEF Marked, TellIsMarked
  <1> QED BY <1>5, <1>6, <1>7, <1>8, <1>9 DEF Marked

LEMMA TriggeredHearing ==
  ASSUME NEW cm, NEW st, NEW cm2, NEW tt, NEW c, NEW e, NEW ins, NEW he,
         Shape(st), Listening(cm, st), Turns(cm, ins, st), Marked(cm, ins, st),
         Hearing(cm, ins, st, he), Triggered(cm, st, cm2, tt, c, e)
  PROVE  Hearing(cm2, ins, tt, he)
  <1> USE TriggeredFrames
  <1>1. /\ \A d \in Comps : d # c => cm2[d].marks = cm[d].marks
        /\ cm2[c].marks = cm[c].marks \cup {e} /\ cm \in [Comps -> Record]
    BY DEF Triggered, Marks
  <1>2. \A d \in Comps : \A x \in Events : Subs(cm2, d, x) = Subs(cm, d, x)
    BY DEF Subs, Triggered, Marks
  <1>3. \A d, x, l : InRegister(tt, d, x, l) <=> InRegister(st, d, x, l)
    BY DEF InRegister, Registers
  <1>4. \A d, x, l : Pending(st, d, l, x) => Pending(tt, d, l, x)
    BY DEF Pending, Informs
  <1>5. \A d, x : Due(st, d, x) => Due(tt, d, x) \/ (d = c /\ x = e)
    BY DEF Due, Turning
  <1>6. \A l \in Subs(cm, c, e) : Pending(tt, c, l, e)
    BY DEF Pending, Informs, Subs
  <1>7. HeardSubs(cm2, he)
    BY <1>2 DEF Hearing, HeardSubs, Events
  <1>8. NextFollows(ins, tt, he)
    <2> SUFFICES ASSUME NEW d \in Comps, Whole(ins, d), NEW l \in Listeners, NEW i \in DOMAIN tt,
                        Informs(tt[i], d), l \in ToSet(tt[i].left)
                 PROVE  LastHeard(he, d, l) \in Follows(tt[i].event)
      BY DEF NextFollows
    <2>1. CASE i # Len(st)
      BY <2>1 DEF Hearing, NextFollows
    <2>2. CASE i = Len(st)
      <3> DEFINE last == LastHeard(he, c, l)
      <3>1. d = c /\ tt[i].event = e /\ l \in Subs(cm, c, e)
        BY <2>2 DEF Informs, Subs
      <3>2. last \in {"", "attach", "detach", "stop"}
        <4>1. he[c][l] \in Seq(Events)
          BY DEF Hearing, HeardTyped
        <4>2. he[c][l] # <<>> => Last(he[c][l]) \in Events
          BY <4>1, LastOf
        <4> QED BY <4>2 DEF LastHeard, Events
      <3>3. /\ "stop" \notin cm[c].marks /\ "attach" \notin cm[c].marks
            /\ e # "stop" => "detach" \notin cm[c].marks
            /\ \A x \in {"attach", "detach"} : x # e => ~Due(st, c, x)
            /\ \A x \in {"attach", "detach"} : ~Pending(st, c, l, x)
        <4>1. Len(st) > 0
          BY DEF Triggered
        <4> QED BY <1>1, <3>1, <4>1, BeforeTrigger
      <3>4. last # "stop"
        BY <3>1, <3>3 DEF Hearing, StopHeard
      <3>5. last = "detach" => e # "detach"
        BY <3>1, <3>3 DEF Hearing, DetachHeard
      <3>6. last = "attach" => e = "detach"
        <4> SUFFICES ASSUME last = "attach", e # "detach"
                     PROVE  FALSE
          OBVIOUS
        <4>1. ~Due(st, c, "detach") /\ ~Pending(st, c, l, "detach") /\ "attach" \notin cm[c].marks
          BY <3>3
        <4>2. InRegister(st, c, "detach", l) /\ "detach" \in cm[c].marks
          BY <3>1, <4>1 DEF Hearing, AttachHeard
        <4>3. e = "stop"
          BY <3>3, <4>2 DEF Events
        <4>4. l \in Subs(cm, c, "detach")
          BY <3>1, <4>3 DEF Listening, SubsNested
        <4> QED BY <4>2, <4>4 DEF Listening, NotYetIn, Events
      <3> QED BY <3>1, <3>2, <3>4, <3>5, <3>6 DEF Follows, Events
    <2> QED BY <2>1, <2>2
  <1>9. AttachHeard(cm2, ins, tt, he)
    <2> SUFFICES ASSUME NEW d \in Comps, Whole(ins, d), NEW l \in Listeners, LastHeard(he, d, l) = "attach"
                 PROVE  \/ "attach" \in cm2[d].marks
                        \/ InRegister(tt, d, "detach", l) /\ ("detach" \in cm2[d].marks \/ Due(tt, d, "detach"))
                        \/ l \in Subs(cm2, d, "detach") /\ Due(tt, d, "detach")
                        \/ Pending(tt, d, l, "detach")
      BY DEF AttachHeard
    <2>1. \/ "attach" \in cm[d].marks
          \/ InRegister(st, d, "detach", l) /\ ("detach" \in cm[d].marks \/ Due(st, d, "detach"))
          \/ l \in Subs(cm, d, "detach") /\ Due(st, d, "detach")
          \/ Pending(st, d, l, "detach")
      BY DEF Hearing, AttachHeard
    <2>2. cm[d].marks \subseteq cm2[d].marks
      BY <1>1
    <2>3. Due(st, d, "detach") => Due(tt, d, "detach") \/ (d = c /\ e = "detach" /\ "detach" \in cm2[d].marks)
      BY <1>1, <1>5
    <2>4. l \in Subs(cm, d, "detach") /\ d = c /\ e = "detach" => Pending(tt, d, l, "detach")
      BY <1>6
    <2>5. Subs(cm2, d, "detach") = Subs(cm, d, "detach")
      BY <1>2 DEF Events
    <2> QED BY <1>3, <1>4, <2>1, <2>2, <2>3, <2>4, <2>5
  <1>10. DetachHeard(cm2, ins, tt, he)
    <2> SUFFICES ASSUME NEW d \in Comps, Whole(ins, d), NEW l \in Listeners, LastHeard(he, d, l) = "detach"
                 PROVE  "detach" \in cm2[d].marks \/ Due(tt, d, "attach") \/ Pending(tt, d, l, "attach")
      BY DEF DetachHeard
    <2>1. "detach" \in cm[d].marks \/ Due(st, d, "attach") \/ Pending(st, d, l, "attach")
      BY DEF Hearing, DetachHeard
    <2>2. cm[d].marks \subseteq cm2[d].marks
      BY <1>1
    <2>3. l \in Subs(cm, d, "attach")
      BY DEF Hearing, HeardSubs
    <2>4. Due(st, d, "attach") => Due(tt, d, "attach") \/ Pending(tt, d, l, "attach")
      BY <1>5, <1>6, <2>3
    <2> QED BY <1>4, <2>1, <2>2, <2>4
  <1>11. StopHeard(cm2, ins, he)
    BY <1>1 DEF Hearing, StopHeard
  <1> QED BY <1>7, <1>8, <1>9, <1>10, <1>11 DEF Hearing

-----------------------------------------------------------------------------
(* A frame with nothing left to do is taken off.                           *)
Spent(f) == (f.do \in {"tell", "call"} /\ f.left = <<>>) \/ f.do \in {"stop", "track", "batch", "watch"}

Done(st, tt) == Len(st) > 0 /\ Keeps(st, Len(st) - 1, tt) /\ Len(tt) = Len(st) - 1

LEMMA DoneFrames ==
  ASSUME NEW st, NEW tt, Shape(st), Done(st, tt)
  PROVE  /\ IsStack(st) /\ IsStack(tt) /\ Len(tt) = Len(st) - 1 /\ Len(st) \in DOMAIN st
         /\ \A i \in DOMAIN tt : i \in DOMAIN st /\ i < Len(st) /\ i # Len(st) /\ tt[i] = st[i]
         /\ \A i \in DOMAIN st : i # Len(st) => i \in DOMAIN tt
         /\ FrameOK(st[Len(st)])
  <1>1. IsStack(st) /\ IsStack(tt) /\ Len(tt) = Len(st) - 1 /\ Len(st) > 0
    BY DEF Done, Keeps
  <1>2. Len(st) \in DOMAIN st
    BY <1>1 DEF IsStack
  <1>3. \A i \in DOMAIN tt : i \in DOMAIN st /\ i < Len(st) /\ i # Len(st) /\ tt[i] = st[i]
    BY <1>1 DEF IsStack, Done, Keeps
  <1>4. \A i \in DOMAIN st : i # Len(st) => i \in DOMAIN tt
    BY <1>1 DEF IsStack
  <1> QED BY <1>1, <1>2, <1>3, <1>4 DEF Shape, FramesTyped

LEMMA DoneShape ==
  ASSUME NEW st, NEW tt, Shape(st), Done(st, tt)
  PROVE  Shape(tt) /\ \A i \in DOMAIN tt : tt[i].do # "hook"
  <1> USE DoneFrames
  <1>1. FramesTyped(tt)
    BY DEF Shape, FramesTyped
  <1>2. BottomFrames(tt)
    BY DEF Shape, BottomFrames
  <1>3. HooksOnTop(tt) /\ \A i \in DOMAIN tt : tt[i].do # "hook"
    BY DEF Shape, HooksOnTop
  <1>4. FirstCheckTurns(tt)
    <2> SUFFICES ASSUME Len(tt) > 1, tt[1].do = "track"
                 PROVE  Moving(tt[2], tt[1].c)
      BY DEF FirstCheckTurns
    <2>1. 1 \in DOMAIN tt /\ 2 \in DOMAIN tt /\ Len(st) > 1
      BY DEF IsStack
    <2>2. tt[1] = st[1] /\ tt[2] = st[2]
      BY <2>1
    <2> QED BY <2>1, <2>2 DEF Shape, FirstCheckTurns
  <1>5. WatchThenRegister(tt)
    <2> SUFFICES ASSUME NEW i \in DOMAIN tt, tt[i].do = "watch"
                 PROVE  i > 1 /\ Registers(tt[i - 1], tt[i].c) /\ tt[i - 1].event = "attach"
      BY DEF WatchThenRegister
    <2>1. i > 1 /\ Registers(st[i - 1], tt[i].c) /\ st[i - 1].event = "attach"
      BY DEF Shape, WatchThenRegister
    <2>2. i - 1 \in DOMAIN tt
      BY <2>1 DEF IsStack
    <2> QED BY <2>1, <2>2
  <1> QED BY <1>1, <1>2, <1>3, <1>4, <1>5 DEF Shape

LEMMA SpentSame ==
  ASSUME NEW st, NEW tt, Shape(st), Done(st, tt), Spent(st[Len(st)])
  PROVE  /\ \A c, e : Due(tt, c, e) <=> Due(st, c, e)
         /\ \A c, e, l : InRegister(tt, c, e, l) <=> InRegister(st, c, e, l)
         /\ \A c, e, l : Pending(tt, c, l, e) <=> Pending(st, c, l, e)
  <1> USE DoneFrames
  <1>1. \A c, e : Due(tt, c, e) <=> Due(st, c, e)
    BY DEF Due, Turning, Spent
  <1>2. \A c, e, l : InRegister(tt, c, e, l) <=> InRegister(st, c, e, l)
    BY DEF InRegister, Registers, Spent
  <1>3. \A c, e, l : Pending(tt, c, l, e) <=> Pending(st, c, l, e)
    <2>1. \A c, l : ~(Informs(st[Len(st)], c) /\ l \in ToSet(st[Len(st)].left))
      BY DEF Informs, Spent, ToSet
    <2> QED BY <2>1 DEF Pending
  <1> QED BY <1>1, <1>2, <1>3

LEMMA SpentListening ==
  ASSUME NEW st, NEW tt, NEW cm, Shape(st), Listening(cm, st), Done(st, tt), Spent(st[Len(st)]),
         st[Len(st)].do = "watch" => cm[st[Len(st)].c].tracking
  PROVE  Listening(cm, tt)
  <1> USE DoneFrames
  <1>1. TellsSubs(cm, tt)
    BY DEF Listening, TellsSubs
  <1>2. CallsOne(cm, tt)
    BY DEF Listening, CallsOne
  <1>3. RegisterOrder(tt)
    BY DEF Listening, RegisterOrder
  <1>4. NotYetIn(cm, tt) /\ OneAfterOther(cm, tt)
    BY SpentSame DEF Listening, NotYetIn, OneAfterOther
  <1>5. InterestFirst(cm, tt)
    BY DEF Listening, InterestFirst, Spent
  <1>6. ToldByOne(tt)
    BY DEF Listening, ToldByOne
  <1> QED BY <1>1, <1>2, <1>3, <1>4, <1>5, <1>6 DEF Listening

LEMMA SpentTurns ==
  ASSUME NEW st, NEW tt, NEW cm, NEW ins, Shape(st), Turns(cm, ins, st), Done(st, tt)
  PROVE  Turns(cm, ins, tt)
  <1> USE DoneFrames
  <1>1. TurnTracks(cm, tt)
    BY DEF Turns, TurnTracks
  <1>2. EndingStopped(cm, tt) /\ OneEnding(tt)
    BY DEF Turns, EndingStopped, OneEnding
  <1>3. OneTurn(ins, tt)
    BY DEF Turns, OneTurn
  <1>4. NoStopInTelling(cm, ins, tt)
    BY DEF Turns, NoStopInTelling
  <1> QED BY <1>1, <1>2, <1>3, <1>4 DEF Turns

LEMMA SpentMarked ==
  ASSUME NEW st, NEW tt, NEW cm, NEW ins, Shape(st), Marked(cm, ins, st), Done(st, tt),
         Spent(st[Len(st)])
  PROVE  Marked(cm, ins, tt)
  <1>1. AttachMarked(cm, ins, tt)
    BY SpentSame DEF Marked, AttachMarked
  <1>2. StopIsLast(cm, ins, tt)
    BY DoneFrames DEF Marked, StopIsLast
  <1>3. TurnMatches(cm, ins, tt)
    BY DoneFrames DEF Marked, TurnMatches
  <1>4. TellIsMarked(cm, ins, tt)
    BY DoneFrames DEF Marked, TellIsMarked
  <1> QED BY <1>1, <1>2, <1>3, <1>4 DEF Marked

LEMMA SpentHearing ==
  ASSUME NEW st, NEW tt, NEW cm, NEW ins, NEW he, Shape(st), Hearing(cm, ins, st, he), Done(st, tt),
         Spent(st[Len(st)])
  PROVE  Hearing(cm, ins, tt, he)
  <1>1. NextFollows(ins, tt, he)
    BY DoneFrames DEF Hearing, NextFollows
  <1>2. AttachHeard(cm, ins, tt, he)
    BY SpentSame DEF Hearing, AttachHeard
  <1>3. DetachHeard(cm, ins, tt, he)
    BY SpentSame DEF Hearing, DetachHeard
  <1> QED BY <1>1, <1>2, <1>3 DEF Hearing

LEMMA DoneBottom ==
  ASSUME NEW st, NEW tt, Shape(st), Done(st, tt), Quiet(st[Len(st)])
  PROVE  SameBottom(st, tt)
  <1>1. Keeps(st, Len(st) - 1, tt)
    BY DEF Done
  <1>2. \A i \in DOMAIN st : i > Len(st) - 1 => i = Len(st)
    BY DoneFrames DEF IsStack
  <1>3. \A i \in DOMAIN tt : ~(i > Len(st) - 1)
    BY DoneFrames DEF IsStack
  <1> QED BY <1>1, <1>2, <1>3, BottomStays

-----------------------------------------------------------------------------
(* One handler hears the event.                                            *)
Told(st, tt, c, e, l) ==
  /\ Len(st) > 0 /\ Keeps(st, Len(st) - 1, tt) /\ Len(tt) = Len(st)
  /\ st[Len(st)].do \in {"tell", "call"} /\ st[Len(st)].c = c /\ st[Len(st)].event = e
  /\ st[Len(st)].left # <<>> /\ l = Head(st[Len(st)].left)
  /\ tt[Len(st)] = [st[Len(st)] EXCEPT !.left = Tail(@)]

LEMMA ToldFrames ==
  ASSUME NEW st, NEW tt, NEW c, NEW e, NEW l, Shape(st), Told(st, tt, c, e, l)
  PROVE  /\ IsStack(st) /\ IsStack(tt) /\ DOMAIN tt = DOMAIN st /\ Len(tt) = Len(st)
         /\ Len(st) \in DOMAIN st /\ FrameOK(tt[Len(st)])
         /\ \A i \in DOMAIN st : i # Len(st) => tt[i] = st[i]
         /\ \A i \in DOMAIN st : tt[i].do = st[i].do /\ tt[i].c = st[i].c /\ tt[i].event = st[i].event
         /\ st[Len(st)].do \in {"tell", "call"} /\ st[Len(st)].c = c /\ st[Len(st)].event = e
         /\ st[Len(st)].left \in Seq(Listeners) /\ tt[Len(st)].left = Tail(st[Len(st)].left)
         /\ c \in Comps /\ e \in Events /\ l \in Listeners
  <1> DEFINE n == Len(st)
             s == st[n].left
  <1>1. IsStack(st) /\ IsStack(tt) /\ Len(tt) = n /\ n > 0
    BY DEF Told, Keeps
  <1>2. DOMAIN tt = DOMAIN st /\ n \in DOMAIN st
    BY <1>1 DEF IsStack
  <1>3. \A i \in DOMAIN st : i # n => tt[i] = st[i]
    BY <1>1 DEF Told, Keeps, IsStack
  <1>4. FrameOK(st[n]) /\ st[n].do \in {"tell", "call"} /\ st[n].c = c /\ st[n].event = e
    BY <1>2 DEF Shape, FramesTyped, Told
  <1>5. s \in Seq(Listeners) /\ s # <<>> /\ c \in Comps /\ e \in Events /\ st[n] \in Frame
    BY <1>4 DEF FrameOK, Told
  <1>6. Tail(s) \in Seq(Listeners) /\ Head(s) \in Listeners
    BY <1>5, HeadTailProperties
  <1>7. Tail(s) \in Seq(Listeners \cup Comps)
    <2>1. Listeners \subseteq Listeners \cup Comps
      OBVIOUS
    <2> QED BY <1>6, <2>1, SeqMonotonic
  <1> HIDE DEF n
  <1>8. /\ tt[n].do = st[n].do /\ tt[n].c = st[n].c /\ tt[n].event = st[n].event
        /\ tt[n].left = Tail(s) /\ tt[n] \in Frame
    BY <1>5, <1>7 DEF Told, Frame, n
  <1>9. FrameOK(tt[n])
    BY <1>4, <1>6, <1>8 DEF FrameOK
  <1>10. \A i \in DOMAIN st : tt[i].do = st[i].do /\ tt[i].c = st[i].c /\ tt[i].event = st[i].event
    BY <1>3, <1>8
  <1>11. l \in Listeners
    BY <1>6 DEF Told, n
  <1> QED BY <1>1, <1>2, <1>3, <1>4, <1>5, <1>8, <1>9, <1>10, <1>11 DEF n

LEMMA ToldShape ==
  ASSUME NEW st, NEW tt, NEW c, NEW e, NEW l, Shape(st), Told(st, tt, c, e, l)
  PROVE  Shape(tt) /\ SameBottom(st, tt)
  <1> USE ToldFrames
  <1>1. FramesTyped(tt)
    BY DEF Shape, FramesTyped
  <1>2. BottomFrames(tt) /\ HooksOnTop(tt)
    BY DEF Shape, BottomFrames, HooksOnTop
  <1>4. FirstCheckTurns(tt)
    BY DEF Shape, FirstCheckTurns, Moving, IsStack
  <1>5. WatchThenRegister(tt)
    BY DEF Shape, WatchThenRegister, Registers, IsStack
  <1>6. SameBottom(st, tt)
    <2>1. Keeps(st, Len(st) - 1, tt)
      BY DEF Told
    <2>2. \A i \in DOMAIN st : i > Len(st) - 1 => i = Len(st)
      BY DEF IsStack
    <2> QED BY <2>1, <2>2, BottomStays DEF Quiet
  <1> QED BY <1>1, <1>2, <1>4, <1>5, <1>6 DEF Shape

LEMMA ToldLeft ==
  ASSUME NEW st, NEW tt, NEW c, NEW e, NEW l, NEW cm, Shape(st), Listening(cm, st),
         Told(st, tt, c, e, l)
  PROVE  /\ ToSet(st[Len(st)].left) = ToSet(tt[Len(st)].left) \cup {l}
         /\ l \notin ToSet(tt[Len(st)].left) /\ NoRepeats(tt[Len(st)].left)
         /\ l \in Subs(cm, c, e)
         /\ st[Len(st)].do = "call" => tt[Len(st)].left = <<>> /\ e \in cm[c].marks
         /\ cm[c].tracking
  <1> DEFINE n == Len(st)
             s == st[n].left
  <1>1. /\ n \in DOMAIN st /\ s \in Seq(Listeners) /\ s # <<>> /\ l = Head(s)
        /\ tt[n].left = Tail(s) /\ st[n].c = c /\ st[n].event = e /\ c \in Comps /\ e \in Events
    BY ToldFrames DEF Told
  <1>2. ToSet(s) = ToSet(Tail(s)) \cup {l}
    BY <1>1, TailElements
  <1>3. CASE st[n].do = "tell"
    <2>1. NoRepeats(s) /\ ToSet(s) \subseteq Subs(cm, c, e)
      BY <1>1, <1>3 DEF Listening, TellsSubs
    <2>2. NoRepeats(Tail(s)) /\ l \notin ToSet(Tail(s))
      BY <1>1, <2>1, TailOfDistinct
    <2>3. cm[c].tracking
      BY <1>1, <1>2, <2>1 DEF Listening, InterestFirst, SubsNested, Events
    <2> QED BY <1>1, <1>2, <1>3, <2>1, <2>2, <2>3
  <1>4. CASE st[n].do = "call"
    <2>1. PICK k \in Subs(cm, c, e) : s = <<k>> /\ e \in cm[c].marks
      BY <1>1, <1>4 DEF Listening, CallsOne
    <2>2. Tail(s) = <<>> /\ l = k
      BY <1>1, <2>1
    <2>3. ToSet(Tail(s)) = {} /\ NoRepeats(Tail(s))
      BY <2>2 DEF ToSet, NoRepeats
    <2>4. cm[c].tracking
      BY <1>1, <2>1 DEF Listening, InterestFirst, SubsNested, Events
    <2> QED BY <1>1, <1>2, <1>4, <2>1, <2>2, <2>3, <2>4
  <1> QED BY <1>3, <1>4, ToldFrames

LEMMA ToldListening ==
  ASSUME NEW st, NEW tt, NEW c, NEW e, NEW l, NEW cm, Shape(st), Listening(cm, st),
         Told(st, tt, c, e, l)
  PROVE  Listening(cm, tt)
  <1>a. /\ ToSet(tt[Len(st)].left) \subseteq ToSet(st[Len(st)].left)
        /\ NoRepeats(tt[Len(st)].left)
        /\ st[Len(st)].do = "call" => tt[Len(st)].left = <<>>
    <2>1. /\ ToSet(st[Len(st)].left) = ToSet(tt[Len(st)].left) \cup {l}
          /\ NoRepeats(tt[Len(st)].left)
          /\ st[Len(st)].do = "call" => tt[Len(st)].left = <<>>
      BY ToldLeft, Zenon
    <2> QED BY <2>1
  <1> USE ToldFrames
  <1>1. \A d, x, k : InRegister(tt, d, x, k) <=> InRegister(st, d, x, k)
    BY DEF InRegister, Registers
  <1>2. \A i \in DOMAIN st : ToSet(tt[i].left) \subseteq ToSet(st[i].left)
    <2> SUFFICES ASSUME NEW i \in DOMAIN st
                 PROVE  ToSet(tt[i].left) \subseteq ToSet(st[i].left)
      OBVIOUS
    <2>1. CASE i = Len(st)
      BY <1>a, <2>1
    <2>2. CASE i # Len(st)
      <3>1. tt[i] = st[i]
        BY <2>2
      <3> QED BY <3>1
    <2> QED BY <2>1, <2>2
  <1>3. TellsSubs(cm, tt)
    <2> SUFFICES ASSUME NEW i \in DOMAIN tt, tt[i].do = "tell"
                 PROVE  NoRepeats(tt[i].left) /\ ToSet(tt[i].left) \subseteq Subs(cm, tt[i].c, tt[i].event)
      BY DEF TellsSubs
    <2>1. st[i].do = "tell" /\ i \in DOMAIN st /\ tt[i].c = st[i].c /\ tt[i].event = st[i].event
      OBVIOUS
    <2>2. NoRepeats(st[i].left) /\ ToSet(st[i].left) \subseteq Subs(cm, tt[i].c, tt[i].event)
      BY <2>1 DEF Listening, TellsSubs
    <2>3. ToSet(tt[i].left) \subseteq ToSet(st[i].left)
      BY <1>2, <2>1
    <2>4. NoRepeats(tt[i].left)
      <3>1. CASE i = Len(st)
        BY <1>a, <3>1
      <3>2. CASE i # Len(st)
        <4>1. tt[i] = st[i]
          BY <2>1, <3>2
        <4> QED BY <2>2, <4>1
      <3> QED BY <3>1, <3>2
    <2> QED BY <2>2, <2>3, <2>4
  <1>4. CallsOne(cm, tt)
    BY <1>a DEF Listening, CallsOne
  <1>5. RegisterOrder(tt)
    BY DEF Listening, RegisterOrder, Registers
  <1>6. NotYetIn(cm, tt) /\ OneAfterOther(cm, tt)
    BY <1>1 DEF Listening, NotYetIn, OneAfterOther
  <1>7. InterestFirst(cm, tt)
    BY DEF Listening, InterestFirst, Registers
  <1>8. ToldByOne(tt)
    BY <1>2 DEF Listening, ToldByOne
  <1> QED BY <1>3, <1>4, <1>5, <1>6, <1>7, <1>8 DEF Listening

LEMMA ToldTurns ==
  ASSUME NEW st, NEW tt, NEW c, NEW e, NEW l, NEW cm, NEW ins, Shape(st), Turns(cm, ins, st),
         Told(st, tt, c, e, l)
  PROVE  Turns(cm, ins, tt)
  <1> USE ToldFrames
  <1>1. TurnTracks(cm, tt)
    BY DEF Turns, TurnTracks, Moving
  <1>2. EndingStopped(cm, tt) /\ OneEnding(tt)
    BY DEF Turns, EndingStopped, OneEnding, Ending
  <1>3. OneTurn(ins, tt)
    BY DEF Turns, OneTurn, Moving
  <1>4. NoStopInTelling(cm, ins, tt)
    BY DEF Turns, NoStopInTelling, Tells, Ending
  <1> QED BY <1>1, <1>2, <1>3, <1>4 DEF Turns

LEMMA ToldMarked ==
  ASSUME NEW st, NEW tt, NEW c, NEW e, NEW l, NEW cm, NEW ins, Shape(st), Marked(cm, ins, st),
         Told(st, tt, c, e, l)
  PROVE  Marked(cm, ins, tt)
  <1> USE ToldFrames
  <1>1. AttachMarked(cm, ins, tt)
    BY DEF Marked, AttachMarked, Due, Turning
  <1>2. StopIsLast(cm, ins, tt)
    BY DEF Marked, StopIsLast, Moving, Ending
  <1>3. TurnMatches(cm, ins, tt)
    BY DEF Marked, TurnMatches, Moving
  <1>4. TellIsMarked(cm, ins, tt)
    BY DEF Marked, TellIsMarked
  <1> QED BY <1>1, <1>2, <1>3, <1>4 DEF Marked

(* Nobody else is about to tell it the same or another event.              *)
LEMMA ToldHere ==
  ASSUME NEW st, NEW tt, NEW c, NEW e, NEW l, NEW cm, NEW ins, Shape(st), Listening(cm, st),
         Turns(cm, ins, st), Marked(cm, ins, st), Told(st, tt, c, e, l), Whole(ins, c)
  PROVE  /\ e \in cm[c].marks
         /\ \A i \in DOMAIN tt : Informs(tt[i], c) => l \notin ToSet(tt[i].left)
  <1> DEFINE n == Len(st)
  <1>1. n \in DOMAIN st /\ DOMAIN tt = DOMAIN st /\ c \in Comps /\ st[n].c = c /\ st[n].event = e
    BY ToldFrames
  <1>2. e \in cm[c].marks
    BY <1>1, ToldFrames, ToldLeft DEF Marked, TellIsMarked
  <1>3. ASSUME NEW i \in DOMAIN st, i # n, Informs(st[i], c), l \in ToSet(st[i].left)
        PROVE  FALSE
    <2>1. i < n
      BY <1>1, <1>3 DEF Shape, IsStack
    <2>2. st[i].do = "tell"
      <3>1. st[i].left # <<>>
        BY <1>3 DEF ToSet
      <3> QED BY <1>3, <3>1 DEF Informs, Listening, CallsOne
    <2>3. CASE st[n].do = "call"
      <3>1. l \in ToSet(st[n].left)
        <4>1. ToSet(st[n].left) = ToSet(tt[n].left) \cup {l}
          BY ToldLeft, Zenon
        <4> QED BY <4>1
      <3>2. l \in Listeners
        BY ToldFrames, Zenon
      <3>3. ToldByOne(st) /\ st[i].c = c
        BY <1>3 DEF Listening, Informs
      <3>4. ~(l \in ToSet(st[i].left) /\ l \in ToSet(st[n].left))
        BY <1>1, <2>1, <2>2, <2>3, <3>2, <3>3 DEF ToldByOne
      <3> QED BY <1>3, <3>1, <3>4
    <2>4. CASE st[n].do = "tell"
      <3>1. st[i].event # "stop" => Tells(st[i], c) /\ Moving(st[i], c)
        BY <1>3, <2>2 DEF Tells, Moving, Informs
      <3>2. st[i].event = "stop" => Ending(st[i], c)
        BY <1>3, <2>2 DEF Ending, Informs
      <3>3. e # "stop" => Moving(st[n], c)
        BY <1>1, <2>4 DEF Moving
      <3>4. e = "stop" => Ending(st[n], c)
        BY <1>1, <2>4 DEF Ending
      <3>5. CASE st[i].event # "stop" /\ e # "stop"
        BY <1>1, <1>3, <3>1, <3>3, <3>5 DEF Turns, OneTurn
      <3>6. CASE st[i].event # "stop" /\ e = "stop"
        BY <1>1, <2>1, <3>1, <3>4, <3>6 DEF Turns, NoStopInTelling
      <3>7. CASE st[i].event = "stop" /\ e = "stop"
        BY <1>1, <1>3, <3>2, <3>4, <3>7 DEF Turns, OneEnding
      <3>8. CASE st[i].event = "stop" /\ e # "stop"
        <4>1. "stop" \in cm[c].marks
          BY <1>1, <1>3, <2>2, <3>8 DEF Informs, Marked, TellIsMarked
        <4> QED BY <1>1, <3>3, <3>8, <4>1 DEF Marked, StopIsLast
      <3> QED BY <3>5, <3>6, <3>7, <3>8
    <2> QED BY <2>3, <2>4, ToldFrames
  <1>4. l \notin ToSet(tt[n].left)
    BY ToldLeft
  <1> QED BY <1>1, <1>2, <1>3, <1>4, ToldFrames

LastTwo(s) == IF Len(s) > 2 THEN Tail(s) ELSE s
Heard(he, he2, c, l, e) ==
  /\ \A d \in Comps : \A k \in Listeners : d # c \/ k # l => he2[d][k] = he[d][k]
  /\ he2[c][l] = LastTwo(Append(he[c][l], e))

IsNext(s, e, t) ==
  /\ t \in Seq(Events) /\ Len(t) <= 2 /\ t # <<>> /\ Last(t) = e
  /\ Len(t) = 2 => s # <<>> /\ t = <<Last(s), e>>

LEMMA HearsNext ==
  ASSUME NEW s \in Seq(Events), Len(s) <= 2, NEW e \in Events
  PROVE  IsNext(s, e, LastTwo(Append(s, e)))
  <1> DEFINE a == Append(s, e)
             t == LastTwo(a)
  <1> SUFFICES IsNext(s, e, t)
    OBVIOUS
  <1>1. /\ a \in Seq(Events) /\ Len(a) = Len(s) + 1 /\ a # <<>>
        /\ \A i \in 1 .. Len(s) : a[i] = s[i]
        /\ a[Len(s) + 1] = e
    BY AppendProperties
  <1>2. Len(s) \in {0, 1, 2} /\ (s = <<>> <=> Len(s) = 0)
    <2>1. Len(s) \in Nat
      OBVIOUS
    <2>2. s = <<>> <=> Len(s) = 0
      BY EmptySeq
    <2>3. \A m \in Nat : m <= 2 => m \in {0, 1, 2}
      OBVIOUS
    <2> QED BY <2>1, <2>2, <2>3, Zenon
  <1>6. t = LastTwo(a) /\ (Len(a) <= 2 => t = a) /\ (Len(a) > 2 => t = Tail(a))
    BY <1>1 DEF LastTwo
  <1> HIDE DEF a, t
  <1>3. CASE Len(s) = 0
    <2>1. t = a /\ Len(a) = 1 /\ a[1] = e
      BY <1>1, <1>3, <1>6
    <2> QED BY <1>1, <2>1 DEF Last, IsNext
  <1>4. CASE Len(s) = 1
    <2>1. t = a /\ Len(a) = 2 /\ a[1] = s[1] /\ a[2] = e
      BY <1>1, <1>4, <1>6
    <2>2. Last(s) = s[1]
      BY <1>4 DEF Last
    <2>3. a = <<s[1], e>>
      BY <1>1, <2>1
    <2> QED BY <1>1, <1>2, <1>4, <2>1, <2>2, <2>3 DEF Last, IsNext
  <1>5. CASE Len(s) = 2
    <2>1. t = Tail(a) /\ Len(a) = 3 /\ a[2] = s[2] /\ a[3] = e
      BY <1>1, <1>5, <1>6
    <2> DEFINE b == Tail(a)
    <2>2. /\ b \in Seq(Events) /\ Len(b) = Len(a) - 1
          /\ \A i \in 1 .. Len(b) : b[i] = a[i + 1]
      BY <1>1, HeadTailProperties
    <2> HIDE DEF b
    <2>3. t \in Seq(Events) /\ Len(t) = 2 /\ t[1] = s[2] /\ t[2] = e
      <3>1. t = b
        BY <2>1 DEF b
      <3>2. Len(b) = 2
        BY <2>1, <2>2
      <3>3. b[1] = a[2] /\ b[2] = a[3]
        <4>1. \A i \in 1 .. 2 : b[i] = a[i + 1]
          BY <2>2, <3>2, Zenon
        <4> QED BY <4>1
      <3>4. b \in Seq(Events)
        BY <2>2
      <3>5. b[1] = s[2] /\ b[2] = e
        BY <2>1, <3>3
      <3> QED BY <3>1, <3>2, <3>4, <3>5, Zenon
    <2>4. Last(s) = s[2]
      BY <1>5 DEF Last
    <2>5. t = <<s[2], e>> /\ t # <<>>
      BY <2>3
    <2> QED BY <1>2, <1>5, <2>3, <2>4, <2>5 DEF Last, IsNext
  <1> QED BY <1>2, <1>3, <1>4, <1>5

LEMMA ToldHearing ==
  ASSUME NEW st, NEW tt, NEW c, NEW e, NEW l, NEW cm, NEW ins, NEW he, NEW he2,
         Shape(st), Listening(cm, st), Turns(cm, ins, st), Marked(cm, ins, st),
         Hearing(cm, ins, st, he), Told(st, tt, c, e, l), Heard(he, he2, c, l, e)
  PROVE  Hearing(cm, ins, tt, he2)
  <1>a. /\ ToSet(st[Len(st)].left) = ToSet(tt[Len(st)].left) \cup {l}
        /\ l \in Subs(cm, c, e)
    BY ToldLeft, Zenon
  <1>b. /\ DOMAIN tt = DOMAIN st /\ Len(st) \in DOMAIN st
        /\ c \in Comps /\ e \in Events /\ l \in Listeners
        /\ st[Len(st)].do \in {"tell", "call"} /\ st[Len(st)].c = c /\ st[Len(st)].event = e
    BY ToldFrames
  <1>c. \A i \in DOMAIN st : tt[i].do = st[i].do /\ tt[i].c = st[i].c /\ tt[i].event = st[i].event
    BY ToldFrames, Zenon
  <1>d. \A i \in DOMAIN st : i # Len(st) => tt[i] = st[i]
    BY ToldFrames, Zenon
  <1>e. \A i \in DOMAIN st : ToSet(tt[i].left) \subseteq ToSet(st[i].left)
    <2> SUFFICES ASSUME NEW i \in DOMAIN st
                 PROVE  ToSet(tt[i].left) \subseteq ToSet(st[i].left)
      OBVIOUS
    <2>1. CASE i = Len(st)
      BY <1>a, <2>1
    <2>2. CASE i # Len(st)
      BY <1>d, <2>2
    <2> QED BY <2>1, <2>2
  <1> USE <1>b
  <1>1. /\ he[c][l] \in Seq(Events) /\ Len(he[c][l]) <= 2
        /\ he2[c][l] = LastTwo(Append(he[c][l], e))
    BY DEF Hearing, HeardTyped, Heard
  <1>2. /\ he2[c][l] \in Seq(Events) /\ Len(he2[c][l]) <= 2 /\ he2[c][l] # <<>> /\ Last(he2[c][l]) = e
        /\ Len(he2[c][l]) = 2 => he[c][l] # <<>> /\ he2[c][l] = <<Last(he[c][l]), e>>
    <2>1. IsNext(he[c][l], e, LastTwo(Append(he[c][l], e)))
      BY <1>1, HearsNext
    <2>2. IsNext(he[c][l], e, he2[c][l])
      BY <1>1, <2>1
    <2> QED BY <2>2 DEF IsNext
  <1>3. \A d \in Comps : \A k \in Listeners : d # c \/ k # l => he2[d][k] = he[d][k]
    BY DEF Heard
  <1>4. /\ LastHeard(he2, c, l) = e
        /\ \A d \in Comps : \A k \in Listeners : d # c \/ k # l => LastHeard(he2, d, k) = LastHeard(he, d, k)
    BY <1>2, <1>3 DEF LastHeard
  <1>5. \A d, x, k : InRegister(tt, d, x, k) <=> InRegister(st, d, x, k)
    BY <1>c, <1>d DEF InRegister, Registers
  <1>6. \A d, x : Due(tt, d, x) <=> Due(st, d, x)
    BY <1>c DEF Due, Turning
  <1>7. \A d, x, k : (d # c \/ k # l) /\ Pending(st, d, k, x) => Pending(tt, d, k, x)
    <2> SUFFICES ASSUME NEW d, NEW x, NEW k, d # c \/ k # l, Pending(st, d, k, x)
                 PROVE  Pending(tt, d, k, x)
      OBVIOUS
    <2>3. PICK i \in DOMAIN st : Informs(st[i], d) /\ st[i].event = x /\ k \in ToSet(st[i].left)
      BY DEF Pending
    <2> USE <2>3
    <2>1. k \in ToSet(tt[i].left)
      <3>1. CASE i = Len(st)
        BY <1>a, <3>1 DEF Informs
      <3>2. CASE i # Len(st)
        BY <1>d, <3>2
      <3> QED BY <3>1, <3>2
    <2>2. Informs(tt[i], d) /\ tt[i].event = x
      BY <1>c DEF Informs
    <2> QED BY <2>1, <2>2 DEF Pending
  <1>8. l \in Subs(cm, c, e) /\ SubsNested(cm)
    BY <1>a DEF Listening
  <1>9. Whole(ins, c) =>
          /\ e \in cm[c].marks
          /\ \A i \in DOMAIN tt : Informs(tt[i], c) => l \notin ToSet(tt[i].left)
    BY ToldHere
  <1>10. HeardTyped(he2)
    BY <1>2, <1>3 DEF Hearing, HeardTyped
  <1>11. HeardSubs(cm, he2)
    <2> SUFFICES ASSUME NEW d \in Comps, NEW k \in Listeners
                 PROVE  /\ LastHeard(he2, d, k) # "" => k \in Subs(cm, d, "attach")
                        /\ LastHeard(he2, d, k) = "detach" => k \in Subs(cm, d, "detach")
                        /\ LastHeard(he2, d, k) = "stop" => k \in Subs(cm, d, "stop")
      BY DEF HeardSubs
    <2>1. CASE d # c \/ k # l
      BY <1>4, <2>1 DEF Hearing, HeardSubs
    <2>2. CASE d = c /\ k = l
      <3>1. LastHeard(he2, d, k) = e /\ k \in Subs(cm, d, e)
        BY <1>4, <1>8, <2>2
      <3> QED BY <1>8, <3>1 DEF SubsNested, Events
    <2> QED BY <2>1, <2>2
  <1>12. HeardInOrder(ins, he2)
    <2> SUFFICES ASSUME NEW d \in Comps, Whole(ins, d), NEW k \in Listeners
                 PROVE  InOrder(he2[d][k])
      BY DEF HeardInOrder
    <2>1. CASE d # c \/ k # l
      BY <1>3, <2>1 DEF Hearing, HeardInOrder
    <2>2. CASE d = c /\ k = l
      <3>1. l \in ToSet(st[Len(st)].left)
        BY <1>a
      <3>2. LastHeard(he, c, l) \in Follows(e)
        BY <2>2, <3>1 DEF Hearing, NextFollows, Informs
      <3>3. he[c][l] # <<>> => Last(he[c][l]) \in Follows(e) /\ Last(he[c][l]) \in Events
        BY <1>1, <3>2, LastOf DEF LastHeard
      <3>4. Last(he[c][l]) \in Follows(e) /\ Last(he[c][l]) \in Events
            => <<Last(he[c][l]), e>> \in {<<"attach", "detach">>, <<"detach", "attach">>, <<"detach", "stop">>}
        BY DEF Follows, Events
      <3> QED BY <1>2, <2>2, <3>3, <3>4 DEF InOrder
    <2> QED BY <2>1, <2>2
  <1>13. NextFollows(ins, tt, he2)
    <2> SUFFICES ASSUME NEW d \in Comps, Whole(ins, d), NEW k \in Listeners, NEW i \in DOMAIN tt,
                        Informs(tt[i], d), k \in ToSet(tt[i].left)
                 PROVE  LastHeard(he2, d, k) \in Follows(tt[i].event)
      BY DEF NextFollows
    <2>1. d # c \/ k # l
      BY <1>9
    <2>2. Informs(st[i], d) /\ k \in ToSet(st[i].left) /\ st[i].event = tt[i].event
      BY <1>c, <1>e DEF Informs
    <2> QED BY <1>4, <2>1, <2>2 DEF Hearing, NextFollows
  <1>14. AttachHeard(cm, ins, tt, he2)
    BY <1>4, <1>5, <1>6, <1>7, <1>9 DEF Hearing, AttachHeard
  <1>15. DetachHeard(cm, ins, tt, he2)
    BY <1>4, <1>6, <1>7, <1>9 DEF Hearing, DetachHeard
  <1>16. StopHeard(cm, ins, he2)
    BY <1>4, <1>9 DEF Hearing, StopHeard
  <1> QED BY <1>10, <1>11, <1>12, <1>13, <1>14, <1>15, <1>16 DEF Hearing


-----------------------------------------------------------------------------
(* event_on() registers a handler, and calls it if the event has occurred. *)
Registered(cm, st, cm2, tt, c, e, l) ==
  /\ c \in Comps /\ e \in Events /\ l \in Listeners
  /\ cm \in [Comps -> Record] /\ cm2 \in [Comps -> Record] /\ SameFlags(cm, cm2)
  /\ \A d \in Comps : cm2[d].marks = cm[d].marks
  /\ \A d \in Comps : \A x \in Events : d # c \/ x # e => cm2[d].subs[x] = cm[d].subs[x]
  /\ cm2[c].subs[e] = Append(cm[c].subs[e], l)
  /\ Len(st) > 0 /\ Keeps(st, Len(st) - 1, tt)
  /\ st[Len(st)].do = "register" /\ st[Len(st)].c = c /\ st[Len(st)].event = e /\ st[Len(st)].left = <<l>>
  /\ \/ e \notin cm[c].marks /\ Len(tt) = Len(st) - 1
     \/ e \in cm[c].marks /\ Len(tt) = Len(st) /\ tt[Len(st)] = [st[Len(st)] EXCEPT !.do = "call"]

LEMMA RegisteredFrames ==
  ASSUME NEW cm, NEW st, NEW cm2, NEW tt, NEW c, NEW e, NEW l,
         Shape(st), Registered(cm, st, cm2, tt, c, e, l)
  PROVE  /\ IsStack(st) /\ IsStack(tt) /\ Len(st) \in DOMAIN st
         /\ Len(tt) = Len(st) - 1 \/ Len(tt) = Len(st)
         /\ Len(st) \in DOMAIN tt <=> e \in cm[c].marks
         /\ \A i \in DOMAIN tt : i \in DOMAIN st /\ (i # Len(st) => tt[i] = st[i] /\ i < Len(st) /\ i # Len(tt) + 1)
         /\ \A i \in DOMAIN st : i # Len(st) => i \in DOMAIN tt /\ tt[i] = st[i]
         /\ Len(st) \in DOMAIN tt =>
              /\ FrameOK(tt[Len(st)]) /\ Len(tt) = Len(st)
              /\ tt[Len(st)].do = "call" /\ tt[Len(st)].c = c /\ tt[Len(st)].event = e
              /\ tt[Len(st)].left = <<l>>
         /\ st[Len(st)].do = "register" /\ st[Len(st)].c = c /\ st[Len(st)].event = e /\ st[Len(st)].left = <<l>>
         /\ c \in Comps /\ e \in Events /\ l \in Listeners
  <1> DEFINE n == Len(st)
  <1>0. /\ Keeps(st, n - 1, tt) /\ n > 0
        /\ \/ e \notin cm[c].marks /\ Len(tt) = n - 1
           \/ e \in cm[c].marks /\ Len(tt) = n
    BY Zenon DEF Registered
  <1>1. /\ IsStack(st) /\ IsStack(tt) /\ n > 0 /\ (Len(tt) = n - 1 \/ Len(tt) = n)
        /\ \A i \in 1 .. n - 1 : tt[i] = st[i]
    BY <1>0 DEF Keeps
  <1>a. /\ n \in Nat /\ Len(tt) \in Nat
        /\ \A i : i \in DOMAIN st <=> i \in 1 .. n
        /\ \A i : i \in DOMAIN tt <=> i \in 1 .. Len(tt)
    BY <1>1 DEF IsStack
  <1> HIDE DEF n
  <1>2. n \in DOMAIN st
    BY <1>1, <1>a
  <1>3. n \in DOMAIN tt <=> e \in cm[c].marks
    BY <1>0, <1>1, <1>a
  <1>4. \A i \in DOMAIN tt : i \in DOMAIN st /\ (i # n => tt[i] = st[i] /\ i < n /\ i # Len(tt) + 1)
    BY <1>1, <1>a
  <1>5. \A i \in DOMAIN st : i # n => i \in DOMAIN tt /\ tt[i] = st[i]
    BY <1>1, <1>a
  <1>6. FrameOK(st[n]) /\ st[n] \in Frame
    BY <1>2 DEF Shape, FramesTyped, FrameOK
  <1>7. /\ st[n].do = "register" /\ st[n].c = c /\ st[n].event = e /\ st[n].left = <<l>>
        /\ c \in Comps /\ e \in Events /\ l \in Listeners
    BY DEF Registered, n
  <1>8. ASSUME n \in DOMAIN tt
        PROVE  /\ FrameOK(tt[n]) /\ Len(tt) = n
               /\ tt[n].do = "call" /\ tt[n].c = c /\ tt[n].event = e /\ tt[n].left = <<l>>
    <2>1. Len(tt) = n /\ tt[n] = [st[n] EXCEPT !.do = "call"]
      BY <1>3, <1>8 DEF Registered, n
    <2>2. /\ tt[n].do = "call" /\ tt[n].c = c /\ tt[n].event = e /\ tt[n].left = <<l>>
          /\ tt[n] \in Frame
      BY <2>1, <1>6, <1>7 DEF Frame, Kinds
    <2>3. <<l>> \in Seq(Listeners)
      BY <1>7
    <2> QED BY <1>7, <2>1, <2>2, <2>3 DEF FrameOK
  <1> QED BY <1>1, <1>2, <1>3, <1>4, <1>5, <1>7, <1>8 DEF n

LEMMA RegisteredShape ==
  ASSUME NEW cm, NEW st, NEW cm2, NEW tt, NEW c, NEW e, NEW l,
         Shape(st), Registered(cm, st, cm2, tt, c, e, l)
  PROVE  Shape(tt) /\ SameBottom(st, tt) /\ \A i \in DOMAIN tt : tt[i].do # "hook"
  <1> USE RegisteredFrames
  <1>1. FramesTyped(tt)
    BY DEF Shape, FramesTyped
  <1>2. BottomFrames(tt)
    BY DEF Shape, BottomFrames
  <1>3. HooksOnTop(tt) /\ \A i \in DOMAIN tt : tt[i].do # "hook"
    BY DEF Shape, HooksOnTop
  <1>4. FirstCheckTurns(tt)
    <2> SUFFICES ASSUME Len(tt) > 1, tt[1].do = "track"
                 PROVE  Moving(tt[2], tt[1].c)
      BY DEF FirstCheckTurns
    <2>1. 1 \in DOMAIN tt /\ 2 \in DOMAIN tt /\ 1 \in DOMAIN st /\ 2 \in DOMAIN st /\ Len(st) > 1
      BY DEF IsStack
    <2>2. tt[1] = st[1]
      BY <2>1
    <2>3. Moving(st[2], st[1].c)
      BY <2>1, <2>2 DEF Shape, FirstCheckTurns
    <2>4. tt[2] = st[2]
      BY <2>1, <2>3 DEF Moving
    <2> QED BY <2>2, <2>3, <2>4
  <1>5. WatchThenRegister(tt)
    <2> SUFFICES ASSUME NEW i \in DOMAIN tt, tt[i].do = "watch"
                 PROVE  i > 1 /\ Registers(tt[i - 1], tt[i].c) /\ tt[i - 1].event = "attach"
      BY DEF WatchThenRegister
    <2>1. i \in DOMAIN st /\ i < Len(st) /\ tt[i] = st[i]
      OBVIOUS
    <2>2. i > 1 /\ Registers(st[i - 1], tt[i].c) /\ st[i - 1].event = "attach"
      BY <2>1 DEF Shape, WatchThenRegister
    <2>3. i - 1 \in DOMAIN st /\ i - 1 # Len(st)
      BY <2>1, <2>2 DEF IsStack
    <2> QED BY <2>2, <2>3
  <1>6. SameBottom(st, tt)
    <2>1. Keeps(st, Len(st) - 1, tt)
      BY DEF Registered
    <2>2. \A i \in DOMAIN st : i > Len(st) - 1 => i = Len(st)
      BY DEF IsStack
    <2>3. \A i \in DOMAIN tt : i > Len(st) - 1 => i = Len(st)
      BY DEF IsStack
    <2> QED BY <2>1, <2>2, <2>3, BottomStays DEF Quiet
  <1> QED BY <1>1, <1>2, <1>3, <1>4, <1>5, <1>6 DEF Shape

(* The handler was not in its list, and is now; no other list changes.     *)
LEMMA RegisteredSubs ==
  ASSUME NEW cm, NEW st, NEW cm2, NEW tt, NEW c, NEW e, NEW l,
         Shape(st), Listening(cm, st), Registered(cm, st, cm2, tt, c, e, l)
  PROVE  /\ \A d, x, k : InRegister(tt, d, x, k) <=> InRegister(st, d, x, k) /\ (d # c \/ x # e)
         /\ \A k : InRegister(st, c, e, k) => k = l
         /\ InRegister(st, c, e, l) /\ l \notin Subs(cm, c, e)
         /\ \A d \in Comps : \A x \in Events : d # c \/ x # e => Subs(cm2, d, x) = Subs(cm, d, x)
         /\ Subs(cm2, c, e) = Subs(cm, c, e) \cup {l} /\ NoRepeats(cm2[c].subs[e])
         /\ cm[c].tracking
  <1> USE RegisteredFrames
  <1>1. Registers(st[Len(st)], c)
    BY DEF Registers
  <1>2. ASSUME NEW i \in DOMAIN st, Registers(st[i], c), st[i].event = e
        PROVE  i = Len(st)
    <2>1. i # Len(st) => i < Len(st)
      BY DEF IsStack
    <2> QED BY <1>1, <1>2, <2>1 DEF Listening, RegisterOrder
  <1>3. ASSUME NEW d, NEW x, NEW k
        PROVE  InRegister(tt, d, x, k) <=> InRegister(st, d, x, k) /\ (d # c \/ x # e)
    <2>1. ASSUME InRegister(tt, d, x, k)
          PROVE  InRegister(st, d, x, k) /\ (d # c \/ x # e)
      <3>1. PICK i \in DOMAIN tt : Registers(tt[i], d) /\ tt[i].event = x /\ tt[i].left = <<k>>
        BY <2>1 DEF InRegister
      <3>2. i # Len(st)
        BY <3>1 DEF Registers
      <3>3. i \in DOMAIN st /\ tt[i] = st[i]
        BY <3>2
      <3>4. d # c \/ x # e
        BY <1>2, <3>1, <3>2, <3>3
      <3> QED BY <3>1, <3>3, <3>4 DEF InRegister
    <2>2. ASSUME InRegister(st, d, x, k), d # c \/ x # e
          PROVE  InRegister(tt, d, x, k)
      <3>1. PICK i \in DOMAIN st : Registers(st[i], d) /\ st[i].event = x /\ st[i].left = <<k>>
        BY <2>2 DEF InRegister
      <3>2. i # Len(st)
        BY <2>2, <3>1 DEF Registers
      <3>3. i \in DOMAIN tt /\ tt[i] = st[i]
        BY <3>2
      <3> QED BY <3>1, <3>3 DEF InRegister
    <2> QED BY <2>1, <2>2
  <1>4. InRegister(st, c, e, l)
    BY <1>1 DEF InRegister
  <1>5. ASSUME NEW k, InRegister(st, c, e, k)
        PROVE  k = l
    <2>1. <<k>> = <<l>>
      BY <1>2, <1>5 DEF InRegister
    <2> QED BY <2>1
  <1>6. l \notin Subs(cm, c, e)
    BY <1>4 DEF Listening, NotYetIn
  <1>7. \A d \in Comps : \A x \in Events : d # c \/ x # e => Subs(cm2, d, x) = Subs(cm, d, x)
    BY DEF Subs, Registered
  <1>8. Subs(cm2, c, e) = Subs(cm, c, e) \cup {l} /\ NoRepeats(cm2[c].subs[e])
    <2> DEFINE s == cm[c].subs[e]
    <2>1. s \in Seq(Listeners) /\ NoRepeats(s) /\ cm2[c].subs[e] = Append(s, l)
      BY DEF Listening, SubsDistinct, Registered, Record
    <2>2. l \notin ToSet(s)
      BY <1>6 DEF Subs
    <2> HIDE DEF s
    <2>3. ToSet(Append(s, l)) = ToSet(s) \cup {l} /\ NoRepeats(Append(s, l))
      BY <2>1, <2>2, AppendElements
    <2> QED BY <2>1, <2>3 DEF Subs, s
  <1>9. cm[c].tracking
    <2>1. ~ \E j \in DOMAIN st : Len(st) < j
      BY DEF IsStack
    <2> QED BY <1>1, <2>1 DEF Listening, InterestFirst
  <1> QED BY <1>3, <1>4, <1>5, <1>6, <1>7, <1>8, <1>9

LEMMA RegisteredListening ==
  ASSUME NEW cm, NEW st, NEW cm2, NEW tt, NEW c, NEW e, NEW l,
         Shape(st), Listening(cm, st), Registered(cm, st, cm2, tt, c, e, l)
  PROVE  Listening(cm2, tt)
  <1>a. /\ \A d, x, k : InRegister(tt, d, x, k) <=> InRegister(st, d, x, k) /\ (d # c \/ x # e)
        /\ \A k : InRegister(st, c, e, k) => k = l
        /\ InRegister(st, c, e, l) /\ l \notin Subs(cm, c, e)
        /\ \A d \in Comps : \A x \in Events : d # c \/ x # e => Subs(cm2, d, x) = Subs(cm, d, x)
        /\ Subs(cm2, c, e) = Subs(cm, c, e) \cup {l} /\ NoRepeats(cm2[c].subs[e])
        /\ cm[c].tracking
    BY RegisteredSubs, Zenon
  <1>b. /\ \A d \in Comps : cm2[d].tracking = cm[d].tracking /\ cm2[d].marks = cm[d].marks
        /\ \A d \in Comps : \A x \in Events : d # c \/ x # e => cm2[d].subs[x] = cm[d].subs[x]
        /\ c \in Comps /\ e \in Events /\ l \in Listeners
    BY DEF Registered, SameFlags, SameWants
  <1>c. \A d \in Comps : \A x \in Events : Subs(cm, d, x) \subseteq Subs(cm2, d, x)
    BY <1>a
  <1>d. /\ \A k : ~(InRegister(st, c, "attach", k) /\ e # "attach")
        /\ e = "stop" => \A k : ~InRegister(st, c, "detach", k)
    <2>1. ASSUME NEW i \in DOMAIN st, Registers(st[i], c), st[i].event # e
          PROVE  st[i].event # "attach" /\ e # "stop"
      <3>1. i # Len(st) => i < Len(st)
        BY RegisteredFrames DEF IsStack
      <3>2. i < Len(st) /\ Registers(st[Len(st)], c) /\ st[Len(st)].event = e /\ Len(st) \in DOMAIN st
        BY <2>1, <3>1, RegisteredFrames DEF Registers
      <3> QED BY <1>b, <2>1, <3>2 DEF Listening, RegisterOrder
    <2> QED BY <2>1 DEF InRegister
  <1>1. SubsDistinct(cm2)
    BY <1>a, <1>b DEF Listening, SubsDistinct
  <1>2. SubsNested(cm2)
    <2>1. e = "detach" => l \in Subs(cm, c, "attach")
      BY <1>a, <1>b, <1>d DEF Listening, OneAfterOther
    <2>2. e = "stop" => l \in Subs(cm, c, "detach")
      BY <1>a, <1>b, <1>d DEF Listening, OneAfterOther
    <2> SUFFICES ASSUME NEW d \in Comps
                 PROVE  /\ Subs(cm2, d, "stop") \subseteq Subs(cm2, d, "detach")
                        /\ Subs(cm2, d, "detach") \subseteq Subs(cm2, d, "attach")
      BY DEF SubsNested
    <2>3. Subs(cm, d, "stop") \subseteq Subs(cm, d, "detach") /\ Subs(cm, d, "detach") \subseteq Subs(cm, d, "attach")
      BY DEF Listening, SubsNested
    <2>4. CASE d # c
      BY <1>a, <2>3, <2>4 DEF Events
    <2>5. CASE d = c /\ e = "attach"
      BY <1>a, <2>3, <2>5 DEF Events
    <2>6. CASE d = c /\ e = "detach"
      BY <1>a, <2>1, <2>3, <2>6 DEF Events
    <2>7. CASE d = c /\ e = "stop"
      BY <1>a, <2>2, <2>3, <2>7 DEF Events
    <2> QED BY <1>b, <2>4, <2>5, <2>6, <2>7 DEF Events
  <1>3. TellsSubs(cm2, tt)
    <2> SUFFICES ASSUME NEW i \in DOMAIN tt, tt[i].do = "tell"
                 PROVE  NoRepeats(tt[i].left) /\ ToSet(tt[i].left) \subseteq Subs(cm2, tt[i].c, tt[i].event)
      BY DEF TellsSubs
    <2>1. i \in DOMAIN st /\ tt[i] = st[i]
      BY RegisteredFrames
    <2>2. tt[i].c \in Comps /\ tt[i].event \in Events
      BY <2>1 DEF Shape, FramesTyped, FrameOK
    <2>3. NoRepeats(st[i].left) /\ ToSet(st[i].left) \subseteq Subs(cm, st[i].c, st[i].event)
      BY <2>1 DEF Listening, TellsSubs
    <2> QED BY <1>c, <2>1, <2>2, <2>3
  <1>4. CallsOne(cm2, tt)
    <2> SUFFICES ASSUME NEW i \in DOMAIN tt, tt[i].do = "call", tt[i].left # <<>>
                 PROVE  /\ i = Len(tt) /\ tt[i].event \in cm2[tt[i].c].marks
                        /\ \E k \in Subs(cm2, tt[i].c, tt[i].event) : tt[i].left = <<k>>
      BY DEF CallsOne
    <2>1. i = Len(st)
      <3> SUFFICES ASSUME i # Len(st)
                   PROVE  FALSE
        OBVIOUS
      <3>1. i \in DOMAIN st /\ tt[i] = st[i]
        BY RegisteredFrames
      <3> QED BY <3>1 DEF Listening, CallsOne
    <2>2. /\ i = Len(tt) /\ tt[i].event = e /\ tt[i].c = c /\ tt[i].left = <<l>>
          /\ e \in cm[c].marks
      BY <2>1, RegisteredFrames
    <2> QED BY <1>a, <1>b, <2>2
  <1>5. RegisterOrder(tt)
    <2>1. \A i \in DOMAIN tt : \A d : Registers(tt[i], d) => i \in DOMAIN st /\ tt[i] = st[i]
      BY RegisteredFrames DEF Registers
    <2> QED BY <2>1 DEF Listening, RegisterOrder
  <1>6. NotYetIn(cm2, tt)
    BY <1>a DEF Listening, NotYetIn
  <1>7. OneAfterOther(cm2, tt)
    <2> SUFFICES ASSUME NEW d \in Comps, NEW k \in Listeners
                 PROVE  /\ InRegister(tt, d, "attach", k) => InRegister(tt, d, "detach", k)
                        /\ InRegister(tt, d, "detach", k) => k \in Subs(cm2, d, "attach") \/ InRegister(tt, d, "attach", k)
                        /\ InRegister(tt, d, "stop", k) => k \in Subs(cm2, d, "detach") \/ InRegister(tt, d, "detach", k)
                        /\ k \in Subs(cm2, d, "attach") => k \in Subs(cm2, d, "detach") \/ InRegister(tt, d, "detach", k)
      BY DEF OneAfterOther
    <2>1. /\ InRegister(st, d, "attach", k) => InRegister(st, d, "detach", k)
          /\ InRegister(st, d, "detach", k) => k \in Subs(cm, d, "attach") \/ InRegister(st, d, "attach", k)
          /\ InRegister(st, d, "stop", k) => k \in Subs(cm, d, "detach") \/ InRegister(st, d, "detach", k)
          /\ k \in Subs(cm, d, "attach") => k \in Subs(cm, d, "detach") \/ InRegister(st, d, "detach", k)
      BY DEF Listening, OneAfterOther
    <2>2. CASE d # c
      BY <1>a, <2>1, <2>2 DEF Events
    <2>3. CASE d = c
      <3>1. \A x \in Events : k \in Subs(cm2, c, x) <=> k \in Subs(cm, c, x) \/ (x = e /\ k = l)
        <4> SUFFICES ASSUME NEW x \in Events
                     PROVE  k \in Subs(cm2, c, x) <=> k \in Subs(cm, c, x) \/ (x = e /\ k = l)
          OBVIOUS
        <4>1. CASE x = e
          BY <1>a, <4>1
        <4>2. CASE x # e
          BY <1>a, <1>b, <4>2
        <4> QED BY <4>1, <4>2
      <3>2. \A x \in Events : InRegister(tt, c, x, k) <=> InRegister(st, c, x, k) /\ x # e
        BY <1>a
      <3>3. InRegister(st, c, e, k) => k = l
        BY <1>a
      <3>4. "attach" \in Events /\ "detach" \in Events /\ "stop" \in Events
        BY DEF Events
      <3>5. InRegister(st, c, e, l)
        BY <1>a
      <3> QED BY <1>d, <2>1, <2>3, <3>1, <3>2, <3>3, <3>4, <3>5
    <2> QED BY <2>2, <2>3
  <1>8. InterestFirst(cm2, tt)
    <2> SUFFICES ASSUME NEW d \in Comps, ~cm2[d].tracking
                 PROVE  /\ Subs(cm2, d, "attach") = {}
                        /\ \A i \in DOMAIN tt : Registers(tt[i], d) =>
                             \E j \in DOMAIN tt : i < j /\ tt[j].do = "watch" /\ tt[j].c = d
      BY DEF InterestFirst
    <2>1. d # c /\ ~cm[d].tracking
      BY <1>a, <1>b
    <2>2. Subs(cm2, d, "attach") = {}
      BY <1>a, <2>1 DEF Listening, InterestFirst, Events
    <2>3. ASSUME NEW i \in DOMAIN tt, Registers(tt[i], d)
          PROVE  \E j \in DOMAIN tt : i < j /\ tt[j].do = "watch" /\ tt[j].c = d
      <3>1. i \in DOMAIN st /\ tt[i] = st[i]
        BY <2>3, RegisteredFrames DEF Registers
      <3>2. PICK j \in DOMAIN st : i < j /\ st[j].do = "watch" /\ st[j].c = d
        BY <2>1, <2>3, <3>1 DEF Listening, InterestFirst
      <3>3. j \in DOMAIN tt /\ tt[j] = st[j]
        BY <3>2, RegisteredFrames
      <3> QED BY <3>2, <3>3
    <2> QED BY <2>2, <2>3
  <1>9. ToldByOne(tt)
    <2> SUFFICES ASSUME NEW i \in DOMAIN tt, NEW j \in DOMAIN tt, i < j, tt[i].do = "tell",
                        tt[j].c = tt[i].c, tt[j].do \in {"register", "call"}, NEW k \in Listeners
                 PROVE  ~(k \in ToSet(tt[i].left) /\ k \in ToSet(tt[j].left))
      BY DEF ToldByOne
    <2>1. i \in DOMAIN st /\ tt[i] = st[i]
      BY RegisteredFrames
    <2>2. /\ j \in DOMAIN st /\ st[j].c = tt[j].c /\ st[j].left = tt[j].left
          /\ st[j].do \in {"register", "call"}
      BY RegisteredFrames
    <2>3. ToldByOne(st)
      BY DEF Listening
    <2> QED BY <2>1, <2>2, <2>3 DEF ToldByOne
  <1> QED BY <1>1, <1>2, <1>3, <1>4, <1>5, <1>6, <1>7, <1>8, <1>9 DEF Listening

LEMMA RegisteredTurns ==
  ASSUME NEW cm, NEW st, NEW cm2, NEW tt, NEW c, NEW e, NEW l, NEW ins,
         Shape(st), Turns(cm, ins, st), Registered(cm, st, cm2, tt, c, e, l)
  PROVE  Turns(cm2, ins, tt)
  <1>1. \A d \in Comps : cm2[d].tracking = cm[d].tracking /\ cm2[d].stopped = cm[d].stopped
    BY DEF Registered, SameFlags, SameWants
  <1>2. \A i \in DOMAIN tt : tt[i].do \notin {"call"} => i \in DOMAIN st /\ tt[i] = st[i] /\ i # Len(st)
    BY RegisteredFrames
  <1>3. HookedTracks(cm2)
    BY <1>1, ParametersAssumption DEF Turns, HookedTracks
  <1>4. TurnTracks(cm2, tt)
    BY <1>1, <1>2 DEF Turns, TurnTracks, Moving
  <1>5. EndingStopped(cm2, tt) /\ OneEnding(tt)
    BY <1>1, <1>2 DEF Turns, EndingStopped, OneEnding, Ending
  <1>6. OneTurn(ins, tt)
    BY <1>2 DEF Turns, OneTurn, Moving
  <1>7. NoStopInTelling(cm2, ins, tt)
    BY <1>1, <1>2 DEF Turns, NoStopInTelling, Tells, Ending
  <1> QED BY <1>3, <1>4, <1>5, <1>6, <1>7 DEF Turns

LEMMA RegisteredMarked ==
  ASSUME NEW cm, NEW st, NEW cm2, NEW tt, NEW c, NEW e, NEW l, NEW ins,
         Shape(st), Marked(cm, ins, st), Registered(cm, st, cm2, tt, c, e, l)
  PROVE  Marked(cm2, ins, tt) /\ \A d, x : Due(tt, d, x) <=> Due(st, d, x)
  <1>1. \A d \in Comps : cm2[d].attached = cm[d].attached /\ cm2[d].stopped = cm[d].stopped /\ cm2[d].marks = cm[d].marks
    BY DEF Registered, SameFlags, SameWants
  <1>2. \A i \in DOMAIN tt : tt[i].do \notin {"call"} => i \in DOMAIN st /\ tt[i] = st[i]
    BY RegisteredFrames
  <1>3. \A i \in DOMAIN st : st[i].do \notin {"register"} => i \in DOMAIN tt /\ tt[i] = st[i]
    BY RegisteredFrames
  <1>4. \A d, x : Due(tt, d, x) <=> Due(st, d, x)
    BY <1>2, <1>3 DEF Due, Turning
  <1>5. StoppedIsDetached(cm2)
    BY <1>1 DEF Marked, StoppedIsDetached
  <1>6. AttachMarked(cm2, ins, tt)
    BY <1>1, <1>4 DEF Marked, AttachMarked
  <1>7. StopIsLast(cm2, ins, tt)
    BY <1>1, <1>2 DEF Marked, StopIsLast, Moving, Ending
  <1>8. TurnMatches(cm2, ins, tt)
    BY <1>1, <1>2 DEF Marked, TurnMatches, Moving
  <1>9. TellIsMarked(cm2, ins, tt)
    BY <1>1, <1>2 DEF Marked, TellIsMarked
  <1> QED BY <1>4, <1>5, <1>6, <1>7, <1>8, <1>9 DEF Marked

(* A handler that is called when it registers has not heard the event, and *)
(* what it has heard is what goes before.                                  *)
LEMMA RegisteredHearing ==
  ASSUME NEW cm, NEW st, NEW cm2, NEW tt, NEW c, NEW e, NEW l, NEW ins, NEW he,
         Shape(st), Listening(cm, st), Marked(cm, ins, st), Hearing(cm, ins, st, he),
         Registered(cm, st, cm2, tt, c, e, l)
  PROVE  Hearing(cm2, ins, tt, he)
  <1>a. /\ \A d, x, k : InRegister(tt, d, x, k) <=> InRegister(st, d, x, k) /\ (d # c \/ x # e)
        /\ \A k : InRegister(st, c, e, k) => k = l
        /\ InRegister(st, c, e, l) /\ l \notin Subs(cm, c, e)
        /\ \A d \in Comps : \A x \in Events : d # c \/ x # e => Subs(cm2, d, x) = Subs(cm, d, x)
        /\ Subs(cm2, c, e) = Subs(cm, c, e) \cup {l} /\ NoRepeats(cm2[c].subs[e])
        /\ cm[c].tracking
    BY RegisteredSubs, Zenon
  <1>b. /\ \A d \in Comps : cm2[d].marks = cm[d].marks
        /\ c \in Comps /\ e \in Events /\ l \in Listeners
    BY DEF Registered
  <1>c. \A d \in Comps : \A x \in Events : Subs(cm, d, x) \subseteq Subs(cm2, d, x)
    BY <1>a
  <1>d. \A d, x : Due(tt, d, x) <=> Due(st, d, x)
    BY RegisteredMarked
  <1>e. ASSUME NEW d, NEW x, NEW k, Pending(st, d, k, x)
        PROVE  Pending(tt, d, k, x)
    <2>1. PICK i \in DOMAIN st : Informs(st[i], d) /\ st[i].event = x /\ k \in ToSet(st[i].left)
      BY <1>e DEF Pending
    <2>2. i # Len(st)
      BY <2>1, RegisteredFrames DEF Informs
    <2>3. i \in DOMAIN tt /\ tt[i] = st[i]
      BY <2>2, RegisteredFrames
    <2> QED BY <2>1, <2>3 DEF Pending
  <1>f. e \in cm[c].marks => Pending(tt, c, l, e)
    <2> SUFFICES ASSUME e \in cm[c].marks
                 PROVE  Pending(tt, c, l, e)
      OBVIOUS
    <2>1. /\ Len(st) \in DOMAIN tt /\ tt[Len(st)].do = "call" /\ tt[Len(st)].c = c
          /\ tt[Len(st)].event = e /\ tt[Len(st)].left = <<l>>
      BY RegisteredFrames
    <2>2. l \in ToSet(<<l>>)
      BY DEF ToSet
    <2> QED BY <2>1, <2>2 DEF Pending, Informs
  <1>g. ASSUME NEW i \in DOMAIN st, Registers(st[i], c), e = "stop"
        PROVE  st[i].event # "detach"
    <2>1. i # Len(st) => i < Len(st)
      BY RegisteredFrames DEF IsStack
    <2>2. Registers(st[Len(st)], c) /\ st[Len(st)].event = e /\ Len(st) \in DOMAIN st
      BY RegisteredFrames DEF Registers
    <2> QED BY <1>b, <1>g, <2>1, <2>2 DEF Listening, RegisterOrder
  <1>1. HeardSubs(cm2, he)
    BY <1>c DEF Hearing, HeardSubs, Events
  <1>2. NextFollows(ins, tt, he)
    <2> SUFFICES ASSUME NEW d \in Comps, Whole(ins, d), NEW k \in Listeners, NEW i \in DOMAIN tt,
                        Informs(tt[i], d), k \in ToSet(tt[i].left)
                 PROVE  LastHeard(he, d, k) \in Follows(tt[i].event)
      BY DEF NextFollows
    <2>1. CASE i # Len(st)
      <3>1. i \in DOMAIN st /\ tt[i] = st[i]
        BY <2>1, RegisteredFrames
      <3> QED BY <3>1 DEF Hearing, NextFollows
    <2>2. CASE i = Len(st)
      <3> DEFINE last == LastHeard(he, c, l)
      <3>1. d = c /\ tt[i].event = e /\ tt[i].left = <<l>> /\ e \in cm[c].marks
        BY <2>2, RegisteredFrames DEF Informs
      <3>2. k = l
        BY <3>1 DEF ToSet
      <3>3. last \in {"", "attach", "detach", "stop"}
        <4>1. he[c][l] \in Seq(Events)
          BY <1>b DEF Hearing, HeardTyped
        <4>2. he[c][l] # <<>> => Last(he[c][l]) \in Events
          BY <4>1, LastOf
        <4> QED BY <4>2 DEF LastHeard, Events
      <3>4. /\ last # "" => l \in Subs(cm, c, "attach")
            /\ last = "detach" => l \in Subs(cm, c, "detach")
            /\ last = "stop" => l \in Subs(cm, c, "stop")
        BY <1>b DEF Hearing, HeardSubs
      <3>5. /\ Subs(cm, c, "stop") \subseteq Subs(cm, c, "detach")
            /\ Subs(cm, c, "detach") \subseteq Subs(cm, c, "attach")
        BY <1>b DEF Listening, SubsNested
      <3>6. e = "attach" => last = ""
        BY <1>a, <3>3, <3>4
      <3>7. e = "detach" => last \in {"", "attach"}
        BY <1>a, <3>3, <3>4, <3>5
      <3>8. e = "stop" => last \in {"", "detach"}
        <4> SUFFICES ASSUME e = "stop", last = "attach"
                     PROVE  FALSE
          BY <1>a, <3>3, <3>4
        <4>1. Whole(ins, c) /\ "stop" \in cm[c].marks
          BY <3>1
        <4>2. cm[c].stopped /\ \A j \in DOMAIN st : ~Moving(st[j], c)
          BY <1>b, <4>1 DEF Marked, StopIsLast
        <4>3. "attach" \notin cm[c].marks
          BY <1>b, <4>1, <4>2 DEF Marked, StoppedIsDetached, AttachMarked
        <4>4. ~Due(st, c, "detach")
          BY <4>2 DEF Due, Turning, Moving
        <4>5. ~InRegister(st, c, "detach", l)
          BY <1>g DEF InRegister
        <4>6. ~Pending(st, c, l, "detach")
          <5> SUFFICES ASSUME NEW j \in DOMAIN st, Informs(st[j], c), st[j].event = "detach", l \in ToSet(st[j].left)
                       PROVE  FALSE
            BY DEF Pending
          <5>1. st[j].do = "call"
            BY <4>2 DEF Informs, Moving
          <5>2. st[j].left # <<>>
            BY DEF ToSet
          <5>3. j = Len(st)
            BY <5>1, <5>2 DEF Listening, CallsOne
          <5> QED BY <5>1, <5>3, RegisteredFrames
        <4> QED BY <1>b, <4>1, <4>3, <4>4, <4>5, <4>6 DEF Hearing, AttachHeard
      <3> QED BY <1>b, <3>1, <3>2, <3>6, <3>7, <3>8 DEF Follows, Events
    <2> QED BY <2>1, <2>2
  <1>3. AttachHeard(cm2, ins, tt, he)
    <2> SUFFICES ASSUME NEW d \in Comps, Whole(ins, d), NEW k \in Listeners, LastHeard(he, d, k) = "attach"
                 PROVE  \/ "attach" \in cm2[d].marks
                        \/ InRegister(tt, d, "detach", k) /\ ("detach" \in cm2[d].marks \/ Due(tt, d, "detach"))
                        \/ k \in Subs(cm2, d, "detach") /\ Due(tt, d, "detach")
                        \/ Pending(tt, d, k, "detach")
      BY DEF AttachHeard
    <2>1. \/ "attach" \in cm[d].marks
          \/ InRegister(st, d, "detach", k) /\ ("detach" \in cm[d].marks \/ Due(st, d, "detach"))
          \/ k \in Subs(cm, d, "detach") /\ Due(st, d, "detach")
          \/ Pending(st, d, k, "detach")
      BY DEF Hearing, AttachHeard
    <2>2. Subs(cm, d, "detach") \subseteq Subs(cm2, d, "detach")
      BY <1>c DEF Events
    <2>3. InRegister(st, d, "detach", k) /\ ~InRegister(tt, d, "detach", k)
          => d = c /\ e = "detach" /\ k = l
      BY <1>a
    <2>4. d = c /\ e = "detach" /\ k = l => k \in Subs(cm2, d, "detach")
      BY <1>a
    <2>5. d = c /\ e = "detach" /\ k = l /\ "detach" \in cm[d].marks => Pending(tt, d, k, "detach")
      BY <1>f
    <2> QED BY <1>b, <1>d, <1>e, <2>1, <2>2, <2>3, <2>4, <2>5
  <1>4. DetachHeard(cm2, ins, tt, he)
    BY <1>b, <1>d, <1>e DEF Hearing, DetachHeard
  <1>5. StopHeard(cm2, ins, he)
    BY <1>b DEF Hearing, StopHeard
  <1> QED BY <1>1, <1>2, <1>3, <1>4, <1>5 DEF Hearing

-----------------------------------------------------------------------------
(* A component is checked for the first time, or interesting from now on.  *)
Notes(cm, cm2) == \A c \in Comps :
  /\ cm2[c].attached = cm[c].attached /\ cm2[c].stopped = cm[c].stopped
  /\ cm2[c].marks = cm[c].marks /\ cm2[c].subs = cm[c].subs
  /\ cm[c].tracking => cm2[c].tracking

LEMMA NotesKeep ==
  ASSUME NEW cm, NEW cm2, Notes(cm, cm2), NEW st, NEW ins, NEW he,
         Shape(st), Listening(cm, st), Turns(cm, ins, st), Marked(cm, ins, st), Hearing(cm, ins, st, he)
  PROVE  /\ Listening(cm2, st) /\ Turns(cm2, ins, st) /\ Marked(cm2, ins, st)
         /\ Hearing(cm2, ins, st, he)
  <1>1. \A c \in Comps : \A e : Subs(cm2, c, e) = Subs(cm, c, e)
    BY DEF Notes, Subs
  <1>2. Listening(cm2, st)
    <2>1. SubsDistinct(cm2) /\ SubsNested(cm2)
      BY <1>1 DEF Notes, Listening, SubsDistinct, SubsNested
    <2>2. \A i \in DOMAIN st : st[i].do \in {"tell", "call"} => st[i].c \in Comps
      BY DEF Shape, FramesTyped, FrameOK
    <2>3. TellsSubs(cm2, st) /\ CallsOne(cm2, st)
      BY <1>1, <2>2 DEF Notes, Listening, TellsSubs, CallsOne
    <2>4. NotYetIn(cm2, st) /\ OneAfterOther(cm2, st)
      BY <1>1 DEF Listening, NotYetIn, OneAfterOther
    <2>5. InterestFirst(cm2, st)
      BY <1>1 DEF Notes, Listening, InterestFirst
    <2> QED BY <2>1, <2>3, <2>4, <2>5 DEF Listening
  <1>3. Turns(cm2, ins, st)
    <2>1. HookedTracks(cm2) /\ TurnTracks(cm2, st) /\ EndingStopped(cm2, st)
      BY ParametersAssumption DEF Notes, Turns, HookedTracks, TurnTracks, EndingStopped
    <2>2. NoStopInTelling(cm2, ins, st)
      BY DEF Notes, Turns, NoStopInTelling
    <2> QED BY <2>1, <2>2 DEF Turns
  <1>4. Marked(cm2, ins, st)
    BY DEF Notes, Marked, StoppedIsDetached, AttachMarked, StopIsLast, TurnMatches, TellIsMarked
  <1>5. Hearing(cm2, ins, st, he)
    <2>1. HeardSubs(cm2, he)
      BY <1>1 DEF Hearing, HeardSubs
    <2>2. AttachHeard(cm2, ins, st, he)
      BY <1>1 DEF Notes, Hearing, AttachHeard
    <2>3. DetachHeard(cm2, ins, st, he) /\ StopHeard(cm2, ins, he)
      BY DEF Notes, Hearing, DetachHeard, StopHeard
    <2> QED BY <2>1, <2>2, <2>3 DEF Hearing
  <1> QED BY <1>2, <1>3, <1>4, <1>5

-----------------------------------------------------------------------------
(* Where the stack may grow: nothing on it is in the middle of a call, and *)
(* whoever moves is tracked.                                               *)
Pausable(cm, st) ==
  /\ \A i \in DOMAIN st : st[i].do # "hook" /\ (st[i].do = "call" => st[i].left = <<>>)
  /\ \A c \in Comps : \A i \in DOMAIN st : Moving(st[i], c) => cm[c].tracking

Grows(st, tt) == Keeps(st, Len(st), tt)

LEMMA GrowsFrames ==
  ASSUME NEW st, NEW tt, Shape(st), Grows(st, tt)
  PROVE  /\ IsStack(st) /\ IsStack(tt) /\ Len(st) <= Len(tt)
         /\ \A i \in DOMAIN st : i \in DOMAIN tt /\ tt[i] = st[i] /\ i <= Len(st)
         /\ \A i \in DOMAIN tt : i \in DOMAIN st <=> i <= Len(st)
         /\ \A i, j \in DOMAIN tt : j \in DOMAIN st /\ i < j => i \in DOMAIN st
  BY DEF Grows, Keeps, IsStack

-----------------------------------------------------------------------------
(* _transition_attachment(): c turns, its mark of the opposite is taken    *)
(* away, and its hook is to run.  Nothing of c is being told: a check does *)
(* not come in between -- and nobody registers who has heard of c.         *)
ChangeEvent(to) == IF to THEN "attach" ELSE "detach"

TurnsTo(cm, st, cm2, tt, c, to) ==
  /\ c \in Comps /\ to \in BOOLEAN
  /\ cm \in [Comps -> Record] /\ cm2 \in [Comps -> Record] /\ SameWants(cm, cm2)
  /\ \A d \in Comps : d # c => cm2[d].attached = cm[d].attached /\ cm2[d].marks = cm[d].marks
  /\ \A d \in Comps : cm2[d].subs = cm[d].subs
  /\ cm[c].attached = ~to /\ cm2[c].attached = to /\ ~cm[c].stopped
  /\ cm2[c].marks = cm[c].marks \ {ChangeEvent(~to)}
  /\ Grows(st, tt) /\ Len(tt) = Len(st) + 1 /\ tt[Len(st) + 1] = Changing(c, to)

MayTurn(cm, st, ins, c, to) ==
  /\ Pausable(cm, st)
  /\ Whole(ins, c) => \A i \in DOMAIN st : ~Moving(st[i], c)
  /\ (Len(st) = 1 /\ st[1].do = "track") => st[1].c = c
  /\ to => \A l \in Listeners : InRegister(st, c, "detach", l) => l \notin Subs(cm, c, "attach")

LEMMA TurnFrames ==
  ASSUME NEW cm, NEW st, NEW cm2, NEW tt, NEW c, NEW to,
         Shape(st), TurnsTo(cm, st, cm2, tt, c, to)
  PROVE  /\ IsStack(st) /\ IsStack(tt) /\ Len(tt) \in DOMAIN tt /\ Len(tt) \notin DOMAIN st
         /\ \A i \in DOMAIN st : i \in DOMAIN tt /\ tt[i] = st[i] /\ i # Len(tt) /\ i < Len(tt)
         /\ \A i \in DOMAIN tt : i # Len(tt) => i \in DOMAIN st
         /\ FrameOK(tt[Len(tt)]) /\ tt[Len(tt)].do = "hook" /\ tt[Len(tt)].c = c
         /\ tt[Len(tt)].event = ChangeEvent(to)
         /\ ChangeEvent(to) \in {"attach", "detach"} /\ c \in Comps
  <1>1. /\ IsStack(st) /\ IsStack(tt)
        /\ \A i \in DOMAIN st : i \in DOMAIN tt /\ tt[i] = st[i] /\ i <= Len(st)
        /\ \A i \in DOMAIN tt : i \in DOMAIN st <=> i <= Len(st)
    <2>1. Grows(st, tt)
      BY DEF TurnsTo
    <2> QED BY <2>1, GrowsFrames
  <1>2. Len(tt) = Len(st) + 1 /\ tt[Len(tt)] = Changing(c, to) /\ c \in Comps /\ to \in BOOLEAN
    BY DEF TurnsTo
  <1>3. /\ Len(tt) \in DOMAIN tt /\ Len(tt) \notin DOMAIN st
        /\ \A i \in DOMAIN st : i # Len(tt) /\ i < Len(tt)
        /\ \A i \in DOMAIN tt : i # Len(tt) => i \in DOMAIN st
    BY <1>1, <1>2 DEF IsStack
  <1>4. ChangeEvent(to) \in {"attach", "detach"}
    BY DEF ChangeEvent
  <1>5. Changing(c, to) = Step("hook", c, ChangeEvent(to), <<>>)
    BY DEF Changing, ChangeEvent
  <1>6. FrameOK(Step("hook", c, ChangeEvent(to), <<>>))
    <2>1. <<>> \in Seq(Listeners \cup Comps)
      BY EmptySeq
    <2> QED BY <1>2, <1>4, <2>1 DEF FrameOK, Step, Frame, Kinds, Events
  <1> QED BY <1>1, <1>2, <1>3, <1>4, <1>5, <1>6 DEF Step

LEMMA TurnShape ==
  ASSUME NEW cm, NEW st, NEW cm2, NEW tt, NEW c, NEW to, NEW ins,
         Shape(st), TurnsTo(cm, st, cm2, tt, c, to), MayTurn(cm, st, ins, c, to)
  PROVE  Shape(tt) /\ SameBottom(st, tt)
  <1>1. FramesTyped(tt)
    BY TurnFrames DEF Shape, FramesTyped
  <1>2. BottomFrames(tt)
    BY TurnFrames DEF Shape, BottomFrames
  <1>3. HooksOnTop(tt)
    BY TurnFrames DEF MayTurn, Pausable, HooksOnTop
  <1>4. FirstCheckTurns(tt)
    <2> SUFFICES ASSUME Len(tt) > 1, tt[1].do = "track"
                 PROVE  Moving(tt[2], tt[1].c)
      BY DEF FirstCheckTurns
    <2>1. 1 \in DOMAIN tt /\ 2 \in DOMAIN tt /\ 1 # Len(tt)
      BY TurnFrames DEF IsStack
    <2>2. 1 \in DOMAIN st /\ tt[1] = st[1]
      BY <2>1, TurnFrames
    <2>3. CASE 2 = Len(tt)
      <3>1. Len(st) = 1
        <4>1. Len(tt) = Len(st) + 1
          BY Zenon DEF TurnsTo
        <4>2. Len(st) \in Nat
          BY TurnFrames DEF IsStack
        <4>3. \A m \in Nat : 2 = m + 1 => m = 1
          OBVIOUS
        <4> QED BY <2>3, <4>1, <4>2, <4>3, Zenon
      <3>2. st[1].c = c
        BY <2>2, <3>1 DEF MayTurn
      <3> QED BY <2>2, <2>3, <3>2, TurnFrames DEF Moving
    <2>4. CASE 2 # Len(tt)
      <3>1. 2 \in DOMAIN st /\ tt[2] = st[2]
        <4>1. \A i \in DOMAIN tt : i # Len(tt) => i \in DOMAIN st /\ tt[i] = st[i]
          BY TurnFrames
        <4> QED BY <2>1, <2>4, <4>1
      <3>2. Len(st) > 1
        BY <3>1, TurnFrames DEF IsStack
      <3> QED BY <2>2, <3>1, <3>2 DEF Shape, FirstCheckTurns
    <2> QED BY <2>3, <2>4
  <1>5. WatchThenRegister(tt)
    <2> SUFFICES ASSUME NEW i \in DOMAIN tt, tt[i].do = "watch"
                 PROVE  i > 1 /\ Registers(tt[i - 1], tt[i].c) /\ tt[i - 1].event = "attach"
      BY DEF WatchThenRegister
    <2>1. i \in DOMAIN st /\ tt[i] = st[i]
      BY TurnFrames
    <2>2. i > 1 /\ Registers(st[i - 1], tt[i].c) /\ st[i - 1].event = "attach"
      BY <2>1 DEF Shape, WatchThenRegister
    <2>3. i - 1 \in DOMAIN st
      BY <2>1, <2>2, TurnFrames DEF IsStack
    <2> QED BY <2>2, <2>3, TurnFrames
  <1>6. SameBottom(st, tt)
    <2>1. Keeps(st, Len(st), tt)
      BY DEF TurnsTo, Grows
    <2>2. \A i \in DOMAIN st : ~(i > Len(st))
      BY TurnFrames DEF IsStack
    <2>3. \A i \in DOMAIN tt : i > Len(st) => i = Len(tt)
      BY <2>2, TurnFrames
    <2>4. \A i \in DOMAIN tt : i > Len(st) => Quiet(tt[i])
      BY <2>3, TurnFrames DEF Quiet
    <2>5. \A i \in DOMAIN st : i > Len(st) => Quiet(st[i])
      BY <2>2
    <2> QED BY <2>1, <2>4, <2>5, BottomStays, Zenon
  <1>7. IsStack(tt)
    BY TurnFrames
  <1> QED BY <1>1, <1>2, <1>3, <1>4, <1>5, <1>6, <1>7, Zenon DEF Shape

LEMMA TurnSame ==
  ASSUME NEW cm, NEW st, NEW cm2, NEW tt, NEW c, NEW to,
         Shape(st), TurnsTo(cm, st, cm2, tt, c, to)
  PROVE  /\ \A d, x : Due(tt, d, x) <=> Due(st, d, x) \/ (d = c /\ x = ChangeEvent(to))
         /\ \A d, x, l : InRegister(tt, d, x, l) <=> InRegister(st, d, x, l)
         /\ \A d, x, l : Pending(tt, d, l, x) <=> Pending(st, d, l, x)
  <1> USE TurnFrames
  <1>1. \A d, x : Due(tt, d, x) <=> Due(st, d, x) \/ (d = c /\ x = ChangeEvent(to))
    BY DEF Due, Turning
  <1>2. \A d, x, l : InRegister(tt, d, x, l) <=> InRegister(st, d, x, l)
    BY DEF InRegister, Registers
  <1>3. \A d, x, l : Pending(tt, d, l, x) <=> Pending(st, d, l, x)
    BY DEF Pending, Informs
  <1> QED BY <1>1, <1>2, <1>3

LEMMA TurnListening ==
  ASSUME NEW cm, NEW st, NEW cm2, NEW tt, NEW c, NEW to, NEW ins,
         Shape(st), Listening(cm, st), TurnsTo(cm, st, cm2, tt, c, to), MayTurn(cm, st, ins, c, to)
  PROVE  Listening(cm2, tt)
  <1>1. /\ \A d \in Comps : cm2[d].subs = cm[d].subs /\ cm2[d].tracking = cm[d].tracking
        /\ \A d \in Comps : \A x : Subs(cm2, d, x) = Subs(cm, d, x)
    BY DEF TurnsTo, SameWants, Subs
  <1>2. \A i \in DOMAIN tt : tt[i].do # "hook" => i \in DOMAIN st /\ tt[i] = st[i] /\ FrameOK(st[i])
    BY TurnFrames DEF Shape, FramesTyped
  <1>3. SubsDistinct(cm2) /\ SubsNested(cm2)
    BY <1>1 DEF Listening, SubsDistinct, SubsNested
  <1>4. TellsSubs(cm2, tt)
    <2> SUFFICES ASSUME NEW i \in DOMAIN tt, tt[i].do = "tell"
                 PROVE  NoRepeats(tt[i].left) /\ ToSet(tt[i].left) \subseteq Subs(cm2, tt[i].c, tt[i].event)
      BY DEF TellsSubs
    <2>1. i \in DOMAIN st /\ tt[i] = st[i] /\ tt[i].c \in Comps
      BY <1>2 DEF FrameOK
    <2> QED BY <1>1, <2>1 DEF Listening, TellsSubs
  <1>5. CallsOne(cm2, tt)
    BY <1>2 DEF CallsOne, MayTurn, Pausable
  <1>6. RegisterOrder(tt)
    BY <1>2 DEF Listening, RegisterOrder, Registers
  <1>7. NotYetIn(cm2, tt) /\ OneAfterOther(cm2, tt)
    BY <1>1, TurnSame DEF Listening, NotYetIn, OneAfterOther
  <1>8. InterestFirst(cm2, tt)
    <2>1. \A d \in Comps : \A i \in DOMAIN tt : Registers(tt[i], d) => i \in DOMAIN st /\ tt[i] = st[i]
      BY <1>2 DEF Registers
    <2>2. \A j \in DOMAIN st : j \in DOMAIN tt /\ tt[j] = st[j]
      BY TurnFrames
    <2> QED BY <1>1, <2>1, <2>2 DEF Listening, InterestFirst
  <1>9. ToldByOne(tt)
    BY <1>2 DEF Listening, ToldByOne
  <1> QED BY <1>3, <1>4, <1>5, <1>6, <1>7, <1>8, <1>9 DEF Listening

LEMMA TurnTurns ==
  ASSUME NEW cm, NEW st, NEW cm2, NEW tt, NEW c, NEW to, NEW ins,
         Shape(st), Turns(cm, ins, st), TurnsTo(cm, st, cm2, tt, c, to), MayTurn(cm, st, ins, c, to)
  PROVE  Turns(cm2, ins, tt)
  <1>1. \A d \in Comps : cm2[d].tracking = cm[d].tracking /\ cm2[d].stopped = cm[d].stopped
    BY DEF TurnsTo, SameWants
  <1>2. \A i \in DOMAIN tt : tt[i].do # "hook" => i \in DOMAIN st /\ tt[i] = st[i] /\ i # Len(tt)
    BY TurnFrames
  <1>3. \A i \in DOMAIN tt : i # Len(tt) => i \in DOMAIN st /\ tt[i] = st[i]
    BY TurnFrames
  <1>4. HookedTracks(cm2)
    BY <1>1, ParametersAssumption DEF Turns, HookedTracks
  <1>5. TurnTracks(cm2, tt)
    BY <1>1, <1>3 DEF TurnTracks, MayTurn, Pausable
  <1>6. \A d : ~Ending(tt[Len(tt)], d)
    BY TurnFrames DEF Ending
  <1>7. EndingStopped(cm2, tt) /\ OneEnding(tt)
    BY <1>1, <1>3, <1>6 DEF Turns, EndingStopped, OneEnding
  <1>8. OneTurn(ins, tt)
    <2> SUFFICES ASSUME NEW d \in Comps, Whole(ins, d), NEW i \in DOMAIN tt, NEW j \in DOMAIN tt,
                        Moving(tt[i], d), Moving(tt[j], d), i # j
                 PROVE  FALSE
      BY DEF OneTurn
    <2>1. Moving(tt[Len(tt)], d) => d = c
      BY TurnFrames DEF Moving
    <2>2. d = c => \A k \in DOMAIN st : ~Moving(tt[k], d)
      BY TurnFrames DEF MayTurn
    <2>3. d # c => i \in DOMAIN st /\ j \in DOMAIN st /\ tt[i] = st[i] /\ tt[j] = st[j]
      BY <1>3, <2>1
    <2>4. d # c
      BY <1>3, <2>2
    <2> QED BY <2>3, <2>4 DEF Turns, OneTurn
  <1>9. NoStopInTelling(cm2, ins, tt)
    <2> SUFFICES ASSUME NEW d \in Comps, Whole(ins, d), NEW i \in DOMAIN tt, NEW j \in DOMAIN tt,
                        i < j, Tells(tt[i], d)
                 PROVE  ~Ending(tt[j], d) /\ (tt[j].do = "stop" /\ tt[j].c = d => cm2[d].stopped)
      BY DEF NoStopInTelling
    <2>1. i \in DOMAIN st /\ tt[i] = st[i]
      BY TurnFrames DEF Tells
    <2>2. CASE j = Len(tt)
      BY <1>6, <2>2, TurnFrames
    <2>3. CASE j # Len(tt)
      <3>1. j \in DOMAIN st /\ tt[j] = st[j]
        BY <1>3, <2>3
      <3> QED BY <1>1, <2>1, <3>1 DEF Turns, NoStopInTelling
    <2> QED BY <2>2, <2>3
  <1> QED BY <1>4, <1>5, <1>7, <1>8, <1>9 DEF Turns

LEMMA TurnMarked ==
  ASSUME NEW cm, NEW st, NEW cm2, NEW tt, NEW c, NEW to, NEW ins,
         Shape(st), Turns(cm, ins, st), Marked(cm, ins, st), TurnsTo(cm, st, cm2, tt, c, to),
         MayTurn(cm, st, ins, c, to)
  PROVE  Marked(cm2, ins, tt)
  <1>1. /\ \A d \in Comps : d # c => cm2[d].attached = cm[d].attached /\ cm2[d].marks = cm[d].marks
        /\ \A d \in Comps : cm2[d].stopped = cm[d].stopped
        /\ cm[c].attached = ~to /\ cm2[c].attached = to /\ ~cm[c].stopped /\ to \in BOOLEAN
        /\ cm2[c].marks = cm[c].marks \ {ChangeEvent(~to)} /\ c \in Comps
    BY DEF TurnsTo, SameWants
  <1>2. to => ChangeEvent(to) = "attach" /\ ChangeEvent(~to) = "detach"
    BY DEF ChangeEvent
  <1>3. ~to => ChangeEvent(to) = "detach" /\ ChangeEvent(~to) = "attach"
    BY DEF ChangeEvent
  <1>4. \A i \in DOMAIN tt : i # Len(tt) => i \in DOMAIN st /\ tt[i] = st[i]
    BY TurnFrames
  <1>5. \A d, x : Due(tt, d, x) <=> Due(st, d, x) \/ (d = c /\ x = ChangeEvent(to))
    BY TurnSame
  <1>6. StoppedIsDetached(cm2)
    BY <1>1 DEF Marked, StoppedIsDetached
  <1>7. AttachMarked(cm2, ins, tt)
    <2> SUFFICES ASSUME NEW d \in Comps, Whole(ins, d)
                 PROVE  /\ cm2[d].attached => "attach" \in cm2[d].marks \/ Due(tt, d, "attach")
                        /\ "attach" \in cm2[d].marks => cm2[d].attached
                        /\ "detach" \in cm2[d].marks => ~cm2[d].attached
      BY DEF AttachMarked
    <2>1. CASE d # c
      BY <1>1, <1>5, <2>1 DEF Marked, AttachMarked
    <2>2. CASE d = c
      <3>1. to => Due(tt, c, "attach") /\ "detach" \notin cm2[c].marks
        BY <1>1, <1>2, <1>5
      <3>2. ~to => "attach" \notin cm2[c].marks
        BY <1>1, <1>3
      <3> QED BY <1>1, <2>2, <3>1, <3>2
    <2> QED BY <2>1, <2>2
  <1>8. \A d \in Comps : d # c => ~Moving(tt[Len(tt)], d)
    BY TurnFrames DEF Moving
  <1>9. \A d : ~Ending(tt[Len(tt)], d)
    BY TurnFrames DEF Ending
  <1>10. StopIsLast(cm2, ins, tt)
    <2> SUFFICES ASSUME NEW d \in Comps, Whole(ins, d), "stop" \in cm2[d].marks
                 PROVE  /\ cm2[d].stopped
                        /\ \A i \in DOMAIN tt : ~Moving(tt[i], d) /\ (Ending(tt[i], d) => tt[i].do = "tell")
      BY DEF StopIsLast
    <2>1. "stop" \in cm[d].marks
      BY <1>1
    <2>2. /\ cm[d].stopped
          /\ \A i \in DOMAIN st : ~Moving(st[i], d) /\ (Ending(st[i], d) => st[i].do = "tell")
      BY <2>1 DEF Marked, StopIsLast
    <2>3. d # c
      BY <1>1, <2>2
    <2> QED BY <1>1, <1>4, <1>8, <1>9, <2>2, <2>3
  <1>11. TurnMatches(cm2, ins, tt)
    <2> SUFFICES ASSUME NEW d \in Comps, Whole(ins, d), NEW i \in DOMAIN tt, Moving(tt[i], d)
                 PROVE  /\ cm2[d].attached <=> tt[i].event = "attach"
                        /\ tt[i].do # "tell" => "attach" \notin cm2[d].marks /\ "detach" \notin cm2[d].marks
      BY DEF TurnMatches
    <2>1. CASE d # c
      BY <1>1, <1>4, <1>8, <2>1 DEF Marked, TurnMatches
    <2>2. CASE d = c
      <3>1. i = Len(tt)
        BY <1>4, <2>2 DEF MayTurn
      <3>2. tt[i].event = ChangeEvent(to)
        BY <3>1, TurnFrames
      <3>3. ("attach" \in cm[c].marks => cm[c].attached) /\ ("detach" \in cm[c].marks => ~cm[c].attached)
        BY <1>1, <2>2 DEF Marked, AttachMarked
      <3> QED BY <1>1, <1>2, <1>3, <2>2, <3>2, <3>3
    <2> QED BY <2>1, <2>2
  <1>12. TellIsMarked(cm2, ins, tt)
    <2> SUFFICES ASSUME NEW d \in Comps, Whole(ins, d), NEW i \in DOMAIN tt, tt[i].do = "tell", tt[i].c = d
                 PROVE  tt[i].event \in cm2[d].marks
      BY DEF TellIsMarked
    <2>1. i \in DOMAIN st /\ tt[i] = st[i]
      BY TurnFrames
    <2>2. d # c
      <3> SUFFICES ASSUME d = c
                   PROVE  FALSE
        OBVIOUS
      <3>1. CASE st[i].event = "stop"
        BY <1>1, <2>1, <3>1 DEF Ending, Turns, EndingStopped
      <3>2. CASE st[i].event # "stop"
        BY <2>1, <3>2 DEF Moving, MayTurn
      <3> QED BY <3>1, <3>2
    <2> QED BY <1>1, <2>1, <2>2 DEF Marked, TellIsMarked
  <1> QED BY <1>6, <1>7, <1>10, <1>11, <1>12 DEF Marked

LEMMA TurnHearing ==
  ASSUME NEW cm, NEW st, NEW cm2, NEW tt, NEW c, NEW to, NEW ins, NEW he,
         Shape(st), Listening(cm, st), Marked(cm, ins, st), Hearing(cm, ins, st, he),
         TurnsTo(cm, st, cm2, tt, c, to), MayTurn(cm, st, ins, c, to)
  PROVE  Hearing(cm2, ins, tt, he)
  <1>1. /\ \A d \in Comps : d # c => cm2[d].marks = cm[d].marks
        /\ cm[c].attached = ~to /\ to \in BOOLEAN
        /\ cm2[c].marks = cm[c].marks \ {ChangeEvent(~to)} /\ c \in Comps
    BY DEF TurnsTo
  <1>2. to => ChangeEvent(to) = "attach" /\ ChangeEvent(~to) = "detach"
    BY DEF ChangeEvent
  <1>3. ~to => ChangeEvent(to) = "detach" /\ ChangeEvent(~to) = "attach"
    BY DEF ChangeEvent
  <1>4. \A d \in Comps : \A x : Subs(cm2, d, x) = Subs(cm, d, x)
    BY DEF TurnsTo, Subs
  <1>5. /\ \A d, x : Due(tt, d, x) <=> Due(st, d, x) \/ (d = c /\ x = ChangeEvent(to))
        /\ \A d, x, l : InRegister(tt, d, x, l) <=> InRegister(st, d, x, l)
        /\ \A d, x, l : Pending(tt, d, l, x) <=> Pending(st, d, l, x)
    BY TurnSame
  <1>6. ASSUME Whole(ins, c), NEW x \in {"attach", "detach"}
        PROVE  ~Due(st, c, x) /\ \A l : ~Pending(st, c, l, x)
    <2>1. \A i \in DOMAIN st : ~Moving(st[i], c)
      BY <1>6 DEF MayTurn
    <2>2. ~Due(st, c, x)
      BY <2>1 DEF Due, Turning, Moving
    <2>3. \A i \in DOMAIN st : st[i].do = "call" => ToSet(st[i].left) = {}
      BY DEF MayTurn, Pausable, ToSet
    <2>4. \A l : ~Pending(st, c, l, x)
      BY <2>1, <2>3 DEF Pending, Informs, Moving
    <2> QED BY <2>2, <2>4
  <1>7. HeardSubs(cm2, he)
    BY <1>4 DEF Hearing, HeardSubs
  <1>8. NextFollows(ins, tt, he)
    BY TurnFrames DEF Hearing, NextFollows, Informs
  <1>9. AttachHeard(cm2, ins, tt, he)
    <2> SUFFICES ASSUME NEW d \in Comps, Whole(ins, d), NEW l \in Listeners, LastHeard(he, d, l) = "attach"
                 PROVE  \/ "attach" \in cm2[d].marks
                        \/ InRegister(tt, d, "detach", l) /\ ("detach" \in cm2[d].marks \/ Due(tt, d, "detach"))
                        \/ l \in Subs(cm2, d, "detach") /\ Due(tt, d, "detach")
                        \/ Pending(tt, d, l, "detach")
      BY DEF AttachHeard
    <2>1. \/ "attach" \in cm[d].marks
          \/ InRegister(st, d, "detach", l) /\ ("detach" \in cm[d].marks \/ Due(st, d, "detach"))
          \/ l \in Subs(cm, d, "detach") /\ Due(st, d, "detach")
          \/ Pending(st, d, l, "detach")
      BY DEF Hearing, AttachHeard
    <2>2. CASE d # c
      BY <1>1, <1>4, <1>5, <2>1, <2>2
    <2>3. l \in Subs(cm, d, "attach")
      BY DEF Hearing, HeardSubs
    <2>4. CASE d = c /\ ~to
      <3>1. Due(tt, c, "detach")
        BY <1>3, <1>5, <2>4
      <3>2. l \in Subs(cm, c, "detach") \/ InRegister(st, c, "detach", l)
        BY <2>3, <2>4 DEF Listening, OneAfterOther
      <3> QED BY <1>4, <1>5, <2>4, <3>1, <3>2
    <2>5. CASE d = c /\ to
      <3>1. "attach" \notin cm[c].marks
        BY <1>1, <2>5 DEF Marked, AttachMarked
      <3>2. ~InRegister(st, c, "detach", l)
        BY <2>3, <2>5 DEF MayTurn
      <3>3. ~Due(st, c, "detach") /\ ~Pending(st, c, l, "detach")
        BY <1>6, <2>5
      <3> QED BY <2>1, <2>5, <3>1, <3>2, <3>3
    <2> QED BY <1>1, <2>2, <2>4, <2>5
  <1>10. DetachHeard(cm2, ins, tt, he)
    <2> SUFFICES ASSUME NEW d \in Comps, Whole(ins, d), NEW l \in Listeners, LastHeard(he, d, l) = "detach"
                 PROVE  "detach" \in cm2[d].marks \/ Due(tt, d, "attach") \/ Pending(tt, d, l, "attach")
      BY DEF DetachHeard
    <2>1. "detach" \in cm[d].marks \/ Due(st, d, "attach") \/ Pending(st, d, l, "attach")
      BY DEF Hearing, DetachHeard
    <2>2. CASE d # c
      BY <1>1, <1>5, <2>1, <2>2
    <2>3. CASE d = c /\ to
      BY <1>2, <1>5, <2>3
    <2>4. CASE d = c /\ ~to
      <3>1. "detach" \notin cm[c].marks
        BY <1>1, <2>4 DEF Marked, AttachMarked
      <3>2. ~Due(st, c, "attach") /\ ~Pending(st, c, l, "attach")
        BY <1>6, <2>4
      <3> QED BY <2>1, <2>4, <3>1, <3>2
    <2> QED BY <1>1, <2>2, <2>3, <2>4
  <1>11. StopHeard(cm2, ins, he)
    <2>1. \A d \in Comps : "stop" \in cm[d].marks => "stop" \in cm2[d].marks
      BY <1>1 DEF ChangeEvent
    <2> QED BY <2>1 DEF Hearing, StopHeard
  <1> QED BY <1>7, <1>8, <1>9, <1>10, <1>11 DEF Hearing

-----------------------------------------------------------------------------
(* The application stops components or listens to one: what is to be done  *)
(* for it comes on top.                                                    *)
LEMMA InsideGrows ==
  ASSUME NEW ins, NEW ins2, \A c : Whole(ins2, c) => Whole(ins, c),
         NEW cm, NEW st, NEW he, NEW tr, NEW ob, NEW rc,
         Turns(cm, ins, st), Marked(cm, ins, st), Hearing(cm, ins, st, he), Observed(cm, tr, ob, rc, ins, st)
  PROVE  /\ Turns(cm, ins2, st) /\ Marked(cm, ins2, st) /\ Hearing(cm, ins2, st, he)
         /\ Observed(cm, tr, ob, rc, ins2, st)
  <1>1. Turns(cm, ins2, st)
    BY DEF Turns, OneTurn, NoStopInTelling
  <1>2. Marked(cm, ins2, st)
    BY DEF Marked, AttachMarked, StopIsLast, TurnMatches, TellIsMarked
  <1>3. Hearing(cm, ins2, st, he)
    <2>1. HeardInOrder(ins2, he) /\ NextFollows(ins2, st, he)
      BY DEF Hearing, HeardInOrder, NextFollows
    <2>2. AttachHeard(cm, ins2, st, he)
      BY DEF Hearing, AttachHeard
    <2>3. DetachHeard(cm, ins2, st, he) /\ StopHeard(cm, ins2, he)
      BY DEF Hearing, DetachHeard, StopHeard
    <2> QED BY <2>1, <2>2, <2>3 DEF Hearing
  <1>4. Observed(cm, tr, ob, rc, ins2, st)
    BY DEF Observed, TrackedWant, FirstChecked
  <1> QED BY <1>1, <1>2, <1>3, <1>4

Adds(st, tt) ==
  /\ Grows(st, tt)
  /\ \A i \in DOMAIN tt : i \notin DOMAIN st => FrameOK(tt[i]) /\ tt[i].do \in {"stop", "register", "watch"}

LEMMA AddsShape ==
  ASSUME NEW st, NEW tt, NEW cm, Shape(st), Adds(st, tt), Pausable(cm, st),
         ~(Len(st) = 1 /\ st[1].do = "track"),
         \A i \in DOMAIN tt : i \notin DOMAIN st /\ tt[i].do = "watch" =>
           i > 1 /\ Registers(tt[i - 1], tt[i].c) /\ tt[i - 1].event = "attach"
  PROVE  Shape(tt) /\ SameBottom(st, tt)
  <1>1. /\ IsStack(st) /\ IsStack(tt) /\ Len(st) <= Len(tt)
        /\ \A i \in DOMAIN st : i \in DOMAIN tt /\ tt[i] = st[i] /\ i <= Len(st)
        /\ \A i \in DOMAIN tt : i \in DOMAIN st <=> i <= Len(st)
        /\ \A i, j \in DOMAIN tt : j \in DOMAIN st /\ i < j => i \in DOMAIN st
    BY GrowsFrames DEF Adds
  <1>2. \A i \in DOMAIN tt : i \notin DOMAIN st => FrameOK(tt[i]) /\ tt[i].do \in {"stop", "register", "watch"}
    BY DEF Adds
  <1>3. FramesTyped(tt)
    BY <1>1, <1>2 DEF Shape, FramesTyped
  <1>4. BottomFrames(tt)
    BY <1>1, <1>2 DEF Shape, BottomFrames
  <1>5. HooksOnTop(tt)
    BY <1>1, <1>2 DEF Pausable, HooksOnTop
  <1>6. FirstCheckTurns(tt)
    <2> SUFFICES ASSUME Len(tt) > 1, tt[1].do = "track"
                 PROVE  Moving(tt[2], tt[1].c)
      BY DEF FirstCheckTurns
    <2>1. 1 \in DOMAIN tt
      BY <1>1 DEF IsStack
    <2>2. 1 \in DOMAIN st /\ tt[1] = st[1]
      BY <1>1, <1>2, <2>1
    <2>3. Len(st) > 1 /\ 2 \in DOMAIN st
      BY <1>1, <2>2 DEF IsStack
    <2> QED BY <1>1, <2>2, <2>3 DEF Shape, FirstCheckTurns
  <1>7. WatchThenRegister(tt)
    <2> SUFFICES ASSUME NEW i \in DOMAIN tt, tt[i].do = "watch", i \in DOMAIN st
                 PROVE  i > 1 /\ Registers(tt[i - 1], tt[i].c) /\ tt[i - 1].event = "attach"
      BY DEF WatchThenRegister
    <2>1. tt[i] = st[i]
      BY <1>1
    <2>2. i > 1 /\ Registers(st[i - 1], tt[i].c) /\ st[i - 1].event = "attach"
      BY <2>1 DEF Shape, WatchThenRegister
    <2>3. i - 1 \in DOMAIN st
      BY <1>1, <2>2 DEF IsStack
    <2> QED BY <1>1, <2>2, <2>3
  <1>8. SameBottom(st, tt)
    <2>1. Keeps(st, Len(st), tt)
      BY DEF Adds, Grows
    <2>2. \A i \in DOMAIN st : i > Len(st) => Quiet(st[i])
      BY <1>1 DEF IsStack
    <2>3. \A i \in DOMAIN tt : i > Len(st) => Quiet(tt[i])
      <3>1. \A i \in DOMAIN tt : i > Len(st) => i \notin DOMAIN st
        BY <1>1 DEF IsStack
      <3> QED BY <1>2, <3>1 DEF Quiet
    <2> QED BY <2>1, <2>2, <2>3, BottomStays
  <1> QED BY <1>1, <1>3, <1>4, <1>5, <1>6, <1>7, <1>8 DEF Shape

LEMMA AddsSame ==
  ASSUME NEW st, NEW tt, Shape(st), Adds(st, tt)
  PROVE  /\ \A c, e : Due(tt, c, e) <=> Due(st, c, e)
         /\ \A c, e, l : Pending(tt, c, l, e) <=> Pending(st, c, l, e)
         /\ \A c, e, l : InRegister(st, c, e, l) => InRegister(tt, c, e, l)
         /\ \A i \in DOMAIN st : i \in DOMAIN tt /\ tt[i] = st[i]
         /\ \A i \in DOMAIN tt : tt[i].do \notin {"stop", "register", "watch"} => i \in DOMAIN st /\ tt[i] = st[i]
         /\ \A i, j \in DOMAIN tt : j \in DOMAIN st /\ i < j => i \in DOMAIN st
  <1>1. /\ \A i \in DOMAIN st : i \in DOMAIN tt /\ tt[i] = st[i]
        /\ \A i, j \in DOMAIN tt : j \in DOMAIN st /\ i < j => i \in DOMAIN st
    BY GrowsFrames DEF Adds
  <1>2. \A i \in DOMAIN tt : tt[i].do \notin {"stop", "register", "watch"} => i \in DOMAIN st /\ tt[i] = st[i]
    BY <1>1 DEF Adds
  <1>3. \A c, e : Due(tt, c, e) <=> Due(st, c, e)
    BY <1>1, <1>2 DEF Due, Turning
  <1>4. \A c, e, l : Pending(tt, c, l, e) <=> Pending(st, c, l, e)
    BY <1>1, <1>2 DEF Pending, Informs
  <1>5. \A c, e, l : InRegister(st, c, e, l) => InRegister(tt, c, e, l)
    BY <1>1 DEF InRegister
  <1> QED BY <1>1, <1>2, <1>3, <1>4, <1>5

LEMMA AddsTurns ==
  ASSUME NEW st, NEW tt, NEW cm, NEW ins, Shape(st), Adds(st, tt), Pausable(cm, st), Turns(cm, ins, st),
         \A d \in Comps : Whole(ins, d) => \A i \in DOMAIN st : Tells(st[i], d) =>
           \A j \in DOMAIN tt : j \notin DOMAIN st /\ tt[j].do = "stop" /\ tt[j].c = d => cm[d].stopped
  PROVE  Turns(cm, ins, tt)
  <1> USE AddsSame
  <1>1. TurnTracks(cm, tt)
    BY DEF TurnTracks, Pausable, Moving
  <1>2. EndingStopped(cm, tt) /\ OneEnding(tt)
    BY DEF Turns, EndingStopped, OneEnding, Ending
  <1>3. OneTurn(ins, tt)
    BY DEF Turns, OneTurn, Moving
  <1>4. NoStopInTelling(cm, ins, tt)
    <2> SUFFICES ASSUME NEW d \in Comps, Whole(ins, d), NEW i \in DOMAIN tt, NEW j \in DOMAIN tt,
                        i < j, Tells(tt[i], d)
                 PROVE  ~Ending(tt[j], d) /\ (tt[j].do = "stop" /\ tt[j].c = d => cm[d].stopped)
      BY DEF NoStopInTelling
    <2>1. i \in DOMAIN st /\ tt[i] = st[i]
      BY DEF Tells
    <2>2. CASE j \in DOMAIN st
      <3>1. tt[j] = st[j]
        BY <2>2
      <3> QED BY <2>1, <2>2, <3>1 DEF Turns, NoStopInTelling
    <2>3. CASE j \notin DOMAIN st
      <3>1. tt[j].do \in {"stop", "register", "watch"}
        BY <2>3
      <3>2. ~Ending(tt[j], d)
        BY <3>1 DEF Ending
      <3> QED BY <2>1, <2>3, <3>2
    <2> QED BY <2>2, <2>3
  <1> QED BY <1>1, <1>2, <1>3, <1>4 DEF Turns

LEMMA AddsMarked ==
  ASSUME NEW st, NEW tt, NEW cm, NEW ins, Shape(st), Adds(st, tt), Marked(cm, ins, st)
  PROVE  Marked(cm, ins, tt)
  <1> USE AddsSame
  <1>1. AttachMarked(cm, ins, tt)
    BY DEF Marked, AttachMarked
  <1>2. StopIsLast(cm, ins, tt)
    BY DEF Marked, StopIsLast, Moving, Ending
  <1>3. TurnMatches(cm, ins, tt)
    BY DEF Marked, TurnMatches, Moving
  <1>4. TellIsMarked(cm, ins, tt)
    BY DEF Marked, TellIsMarked
  <1> QED BY <1>1, <1>2, <1>3, <1>4 DEF Marked

LEMMA AddsHearing ==
  ASSUME NEW st, NEW tt, NEW cm, NEW ins, NEW he, Shape(st), Adds(st, tt), Hearing(cm, ins, st, he)
  PROVE  Hearing(cm, ins, tt, he)
  <1>1. NextFollows(ins, tt, he)
    BY AddsSame DEF Hearing, NextFollows, Informs
  <1>2. AttachHeard(cm, ins, tt, he)
    BY AddsSame DEF Hearing, AttachHeard
  <1>3. DetachHeard(cm, ins, tt, he)
    BY AddsSame DEF Hearing, DetachHeard
  <1> QED BY <1>1, <1>2, <1>3 DEF Hearing

(* stop() of some components                                               *)
LEMMA StopsListening ==
  ASSUME NEW st, NEW tt, NEW cm, Shape(st), Adds(st, tt), Pausable(cm, st), Listening(cm, st),
         \A i \in DOMAIN tt : i \notin DOMAIN st => tt[i].do = "stop"
  PROVE  Listening(cm, tt)
  <1>1. \A i \in DOMAIN st : i \in DOMAIN tt /\ tt[i] = st[i]
    BY AddsSame
  <1>2. \A i \in DOMAIN tt : tt[i].do # "stop" => i \in DOMAIN st /\ tt[i] = st[i]
    BY <1>1
  <1>3. TellsSubs(cm, tt)
    BY <1>2 DEF Listening, TellsSubs
  <1>4. CallsOne(cm, tt)
    BY <1>2 DEF Pausable, CallsOne
  <1>5. RegisterOrder(tt)
    BY <1>2 DEF Listening, RegisterOrder, Registers
  <1>6. \A c, e, l : InRegister(tt, c, e, l) <=> InRegister(st, c, e, l)
    BY <1>1, <1>2 DEF InRegister, Registers
  <1>7. NotYetIn(cm, tt) /\ OneAfterOther(cm, tt)
    BY <1>6 DEF Listening, NotYetIn, OneAfterOther
  <1>8. InterestFirst(cm, tt)
    <2>1. \A c \in Comps : \A i \in DOMAIN tt : Registers(tt[i], c) => i \in DOMAIN st /\ tt[i] = st[i]
      BY <1>2 DEF Registers
    <2> QED BY <1>1, <2>1 DEF Listening, InterestFirst
  <1>9. ToldByOne(tt)
    BY <1>2 DEF Listening, ToldByOne
  <1> QED BY <1>3, <1>4, <1>5, <1>7, <1>8, <1>9 DEF Listening

(* on('attach'), on('detach'), on('stop') by one listener of a component   *)
Listens(cm, st, tt, c, l) ==
  /\ Grows(st, tt) /\ Len(tt) = Len(st) + 4 /\ c \in Comps /\ l \in Listeners
  /\ tt[Len(st) + 1] = Step("register", c, "stop", <<l>>)
  /\ tt[Len(st) + 2] = Step("register", c, "detach", <<l>>)
  /\ tt[Len(st) + 3] = Step("register", c, "attach", <<l>>)
  /\ tt[Len(st) + 4] = Step("watch", c, "attach", <<>>)
  /\ l \notin Subs(cm, c, "attach")
  /\ \A i \in DOMAIN st : ~Registers(st[i], c)

LEMMA ListensFrames ==
  ASSUME NEW st, NEW tt, NEW cm, NEW c, NEW l, Shape(st), Listens(cm, st, tt, c, l)
  PROVE  /\ Adds(st, tt)
         /\ \A i \in DOMAIN tt : i \notin DOMAIN st =>
              /\ tt[i].c = c
              /\ \/ i = Len(st) + 1 /\ tt[i].do = "register" /\ tt[i].event = "stop" /\ tt[i].left = <<l>>
                 \/ i = Len(st) + 2 /\ tt[i].do = "register" /\ tt[i].event = "detach" /\ tt[i].left = <<l>>
                 \/ i = Len(st) + 3 /\ tt[i].do = "register" /\ tt[i].event = "attach" /\ tt[i].left = <<l>>
                 \/ i = Len(st) + 4 /\ tt[i].do = "watch"
         /\ \A k \in {1, 2, 3, 4} : Len(st) + k \in DOMAIN tt /\ Len(st) + k \notin DOMAIN st
         /\ Len(st) \in Nat /\ Len(tt) = Len(st) + 4
         /\ \A i \in DOMAIN tt : i \notin DOMAIN st /\ tt[i].do = "watch" =>
              i > 1 /\ Registers(tt[i - 1], tt[i].c) /\ tt[i - 1].event = "attach"
  <1> DEFINE n == Len(st)
  <1>1. /\ Grows(st, tt) /\ Len(tt) = n + 4 /\ c \in Comps /\ l \in Listeners
        /\ tt[n + 1] = Step("register", c, "stop", <<l>>)
        /\ tt[n + 2] = Step("register", c, "detach", <<l>>)
        /\ tt[n + 3] = Step("register", c, "attach", <<l>>)
        /\ tt[n + 4] = Step("watch", c, "attach", <<>>)
    BY Zenon DEF Listens
  <1>2. /\ IsStack(st) /\ IsStack(tt)
        /\ \A i \in DOMAIN st : i \in DOMAIN tt /\ tt[i] = st[i] /\ i <= Len(st)
        /\ \A i \in DOMAIN tt : i \in DOMAIN st <=> i <= Len(st)
    BY <1>1, GrowsFrames
  <1>3. n \in Nat
    BY <1>2 DEF IsStack
  <1> HIDE DEF n
  <1>4. \A i \in DOMAIN tt : i \notin DOMAIN st => i \in {n + 1, n + 2, n + 3, n + 4}
    BY <1>1, <1>2, <1>3 DEF IsStack, n
  <1>5. \A k \in {1, 2, 3, 4} : n + k \in DOMAIN tt /\ n + k \notin DOMAIN st
    BY <1>1, <1>2, <1>3 DEF IsStack, n
  <1>6. /\ tt[n + 1].do = "register" /\ tt[n + 1].event = "stop" /\ tt[n + 1].left = <<l>> /\ tt[n + 1].c = c
        /\ tt[n + 2].do = "register" /\ tt[n + 2].event = "detach" /\ tt[n + 2].left = <<l>> /\ tt[n + 2].c = c
        /\ tt[n + 3].do = "register" /\ tt[n + 3].event = "attach" /\ tt[n + 3].left = <<l>> /\ tt[n + 3].c = c
        /\ tt[n + 4].do = "watch" /\ tt[n + 4].c = c
    BY <1>1 DEF Step
  <1>7. \A i \in DOMAIN tt : i \notin DOMAIN st =>
          /\ tt[i].c = c
          /\ \/ i = n + 1 /\ tt[i].do = "register" /\ tt[i].event = "stop" /\ tt[i].left = <<l>>
             \/ i = n + 2 /\ tt[i].do = "register" /\ tt[i].event = "detach" /\ tt[i].left = <<l>>
             \/ i = n + 3 /\ tt[i].do = "register" /\ tt[i].event = "attach" /\ tt[i].left = <<l>>
             \/ i = n + 4 /\ tt[i].do = "watch"
    BY <1>4, <1>6
  <1>8. /\ \A e \in Events : FrameOK(Step("register", c, e, <<l>>))
        /\ FrameOK(Step("watch", c, "attach", <<>>))
    <2>1. <<>> \in Seq(Listeners \cup Comps) /\ <<l>> \in Seq(Listeners \cup Comps)
      BY <1>1, EmptySeq
    <2> QED BY <1>1, <2>1 DEF FrameOK, Step, Frame, Kinds, Events
  <1>9. Adds(st, tt)
    <2>1. \A i \in DOMAIN tt : i \notin DOMAIN st => FrameOK(tt[i])
      BY <1>1, <1>4, <1>8 DEF Events
    <2> QED BY <1>1, <1>7, <2>1 DEF Adds
  <1>10. ASSUME NEW i \in DOMAIN tt, i \notin DOMAIN st, tt[i].do = "watch"
         PROVE  i > 1 /\ Registers(tt[i - 1], tt[i].c) /\ tt[i - 1].event = "attach"
    <2>1. i = n + 4 /\ i - 1 = n + 3 /\ i > 1
      BY <1>3, <1>7, <1>10
    <2> QED BY <1>6, <2>1 DEF Registers
  <1> QED BY <1>1, <1>3, <1>5, <1>7, <1>9, <1>10 DEF n

LEMMA ListensListening ==
  ASSUME NEW st, NEW tt, NEW cm, NEW c, NEW l, Shape(st), Pausable(cm, st), Listening(cm, st),
         Listens(cm, st, tt, c, l)
  PROVE  Listening(cm, tt)
  <1> DEFINE n == Len(st)
  <1>1. /\ \A i \in DOMAIN tt : i \notin DOMAIN st =>
             /\ tt[i].c = c
             /\ \/ i = n + 1 /\ tt[i].do = "register" /\ tt[i].event = "stop" /\ tt[i].left = <<l>>
                \/ i = n + 2 /\ tt[i].do = "register" /\ tt[i].event = "detach" /\ tt[i].left = <<l>>
                \/ i = n + 3 /\ tt[i].do = "register" /\ tt[i].event = "attach" /\ tt[i].left = <<l>>
                \/ i = n + 4 /\ tt[i].do = "watch"
        /\ \A k \in {1, 2, 3, 4} : n + k \in DOMAIN tt /\ n + k \notin DOMAIN st
        /\ n \in Nat
    BY ListensFrames
  <1>2. /\ c \in Comps /\ l \in Listeners /\ l \notin Subs(cm, c, "attach")
        /\ \A i \in DOMAIN st : ~Registers(st[i], c)
    BY DEF Listens
  <1>3. /\ \A i \in DOMAIN st : i \in DOMAIN tt /\ tt[i] = st[i]
        /\ \A i, j \in DOMAIN tt : j \in DOMAIN st /\ i < j => i \in DOMAIN st
    BY ListensFrames, AddsSame
  <1> HIDE DEF n
  <1>4. \A i \in DOMAIN tt : tt[i].do \notin {"register", "watch"} => i \in DOMAIN st /\ tt[i] = st[i]
    BY <1>1, <1>3
  <1>5. ASSUME NEW d, NEW i \in DOMAIN tt, Registers(tt[i], d)
        PROVE  \/ i \in DOMAIN st /\ tt[i] = st[i] /\ d # c
               \/ i \notin DOMAIN st /\ d = c
    BY <1>1, <1>2, <1>3, <1>5 DEF Registers
  <1>6. Subs(cm, c, "stop") \subseteq Subs(cm, c, "detach") /\ Subs(cm, c, "detach") \subseteq Subs(cm, c, "attach")
    BY <1>2 DEF Listening, SubsNested
  <1>7. \A d, e, k : d # c => (InRegister(tt, d, e, k) <=> InRegister(st, d, e, k))
    BY <1>3, <1>5 DEF InRegister
  <1>8. \A e, k : ~InRegister(st, c, e, k)
    BY <1>2 DEF InRegister
  <1>9. \A e, k : InRegister(tt, c, e, k) => k = l
    <2> SUFFICES ASSUME NEW e, NEW k, InRegister(tt, c, e, k)
                 PROVE  k = l
      OBVIOUS
    <2>1. PICK i \in DOMAIN tt : Registers(tt[i], c) /\ tt[i].left = <<k>>
      BY DEF InRegister
    <2>2. tt[i].left = <<l>>
      BY <1>1, <1>5, <2>1 DEF Registers
    <2>3. <<k>> = <<l>>
      BY <2>1, <2>2
    <2> QED BY <2>3
  <1>10. InRegister(tt, c, "stop", l) /\ InRegister(tt, c, "detach", l) /\ InRegister(tt, c, "attach", l)
    <2>1. n + 1 \in DOMAIN tt /\ n + 2 \in DOMAIN tt /\ n + 3 \in DOMAIN tt
      BY <1>1
    <2>2. n + 1 \notin DOMAIN st /\ n + 2 \notin DOMAIN st /\ n + 3 \notin DOMAIN st
      BY <1>1
    <2>3. /\ tt[n + 1].do = "register" /\ tt[n + 1].event = "stop" /\ tt[n + 1].left = <<l>> /\ tt[n + 1].c = c
          /\ tt[n + 2].do = "register" /\ tt[n + 2].event = "detach" /\ tt[n + 2].left = <<l>> /\ tt[n + 2].c = c
          /\ tt[n + 3].do = "register" /\ tt[n + 3].event = "attach" /\ tt[n + 3].left = <<l>> /\ tt[n + 3].c = c
      BY <1>1, <2>1, <2>2
    <2> QED BY <2>1, <2>3 DEF InRegister, Registers
  <1>11. SubsDistinct(cm) /\ SubsNested(cm)
    BY DEF Listening
  <1>12. TellsSubs(cm, tt)
    BY <1>4 DEF Listening, TellsSubs
  <1>13. CallsOne(cm, tt)
    BY <1>4 DEF Pausable, CallsOne
  <1>14. RegisterOrder(tt)
    <2> SUFFICES ASSUME NEW d \in Comps, NEW i \in DOMAIN tt, NEW j \in DOMAIN tt,
                        i < j, Registers(tt[i], d), Registers(tt[j], d)
                 PROVE  /\ tt[i].left = tt[j].left
                        /\ tt[i].event # "attach" /\ tt[j].event # "stop" /\ tt[i].event # tt[j].event
      BY DEF RegisterOrder
    <2>1. CASE d # c
      BY <1>5, <2>1 DEF Listening, RegisterOrder
    <2>2. CASE d = c
      <3>1. i \notin DOMAIN st /\ j \notin DOMAIN st /\ tt[i].do = "register" /\ tt[j].do = "register"
        BY <1>5, <2>2 DEF Registers
      <3>2. \/ i = n + 1 /\ tt[i].event = "stop" /\ tt[i].left = <<l>>
            \/ i = n + 2 /\ tt[i].event = "detach" /\ tt[i].left = <<l>>
            \/ i = n + 3 /\ tt[i].event = "attach" /\ tt[i].left = <<l>>
        BY <1>1, <3>1
      <3>3. \/ j = n + 1 /\ tt[j].event = "stop" /\ tt[j].left = <<l>>
            \/ j = n + 2 /\ tt[j].event = "detach" /\ tt[j].left = <<l>>
            \/ j = n + 3 /\ tt[j].event = "attach" /\ tt[j].left = <<l>>
        BY <1>1, <3>1
      <3>4. n \in Nat
        BY <1>1
      <3> QED BY <3>2, <3>3, <3>4
    <2> QED BY <2>1, <2>2
  <1>15. NotYetIn(cm, tt)
    BY <1>2, <1>6, <1>7, <1>9 DEF Listening, NotYetIn, Events
  <1>16. OneAfterOther(cm, tt)
    <2> SUFFICES ASSUME NEW d \in Comps, NEW k \in Listeners
                 PROVE  /\ InRegister(tt, d, "attach", k) => InRegister(tt, d, "detach", k)
                        /\ InRegister(tt, d, "detach", k) => k \in Subs(cm, d, "attach") \/ InRegister(tt, d, "attach", k)
                        /\ InRegister(tt, d, "stop", k) => k \in Subs(cm, d, "detach") \/ InRegister(tt, d, "detach", k)
                        /\ k \in Subs(cm, d, "attach") => k \in Subs(cm, d, "detach") \/ InRegister(tt, d, "detach", k)
      BY DEF OneAfterOther
    <2>1. CASE d # c
      BY <1>7, <2>1 DEF Listening, OneAfterOther
    <2>2. CASE d = c
      BY <1>8, <1>9, <1>10, <2>2 DEF Listening, OneAfterOther
    <2> QED BY <2>1, <2>2
  <1>17. InterestFirst(cm, tt)
    <2> SUFFICES ASSUME NEW d \in Comps, ~cm[d].tracking, NEW i \in DOMAIN tt, Registers(tt[i], d)
                 PROVE  \E j \in DOMAIN tt : i < j /\ tt[j].do = "watch" /\ tt[j].c = d
      BY DEF Listening, InterestFirst
    <2>1. CASE d # c
      <3>1. i \in DOMAIN st /\ tt[i] = st[i]
        BY <1>5, <2>1
      <3>2. PICK j \in DOMAIN st : i < j /\ st[j].do = "watch" /\ st[j].c = d
        BY <3>1 DEF Listening, InterestFirst
      <3>3. j \in DOMAIN tt /\ tt[j] = st[j]
        BY <1>3
      <3> QED BY <3>2, <3>3
    <2>2. CASE d = c
      <3>1. i \notin DOMAIN st /\ tt[i].do = "register"
        BY <1>5, <2>2 DEF Registers
      <3>2. i \in {n + 1, n + 2, n + 3} /\ n \in Nat
        BY <1>1, <3>1
      <3>3. n + 4 \in DOMAIN tt /\ n + 4 \notin DOMAIN st
        BY <1>1
      <3>4. n + 4 # n + 1 /\ n + 4 # n + 2 /\ n + 4 # n + 3 /\ i < n + 4
        BY <3>2
      <3>5. tt[n + 4].do = "watch" /\ tt[n + 4].c = c
        BY <1>1, <3>3, <3>4
      <3> QED BY <2>2, <3>3, <3>4, <3>5
    <2> QED BY <2>1, <2>2
  <1>18. ToldByOne(tt)
    <2> SUFFICES ASSUME NEW i \in DOMAIN tt, NEW j \in DOMAIN tt, i < j, tt[i].do = "tell",
                        tt[j].c = tt[i].c, tt[j].do \in {"register", "call"}, NEW k \in Listeners,
                        k \in ToSet(tt[i].left), k \in ToSet(tt[j].left)
                 PROVE  FALSE
      BY DEF ToldByOne
    <2>1. i \in DOMAIN st /\ tt[i] = st[i] /\ FrameOK(st[i])
      BY <1>4 DEF Shape, FramesTyped
    <2>2. CASE j \in DOMAIN st
      BY <1>3, <2>1, <2>2 DEF Listening, ToldByOne
    <2>3. CASE j \notin DOMAIN st
      <3>1. tt[j].c = c /\ tt[j].left = <<l>>
        BY <1>1, <2>3
      <3>2. k = l
        BY <3>1 DEF ToSet
      <3>3. l \in Subs(cm, c, st[i].event) /\ st[i].event \in Events
        BY <2>1, <3>1, <3>2 DEF Listening, TellsSubs, FrameOK
      <3> QED BY <1>2, <1>6, <3>3 DEF Events
    <2> QED BY <2>2, <2>3
  <1> QED BY <1>11, <1>12, <1>13, <1>14, <1>15, <1>16, <1>17, <1>18 DEF Listening

-----------------------------------------------------------------------------
(* _stop(): the flag is set, with the untracking still to come.            *)
StopsSelf(cm, st, cm2, tt, c, n) ==
  /\ c \in Comps /\ n \in DOMAIN st /\ IsStack(tt) /\ Len(tt) = Len(st)
  /\ \A i \in DOMAIN st : i # n => tt[i] = st[i]
  /\ st[n].do = "stop" /\ st[n].c = c /\ tt[n] = [st[n] EXCEPT !.do = "untrack"]
  /\ \A d \in Comps :
       /\ cm2[d].attached = cm[d].attached /\ cm2[d].marks = cm[d].marks /\ cm2[d].subs = cm[d].subs
       /\ cm2[d].checked = cm[d].checked /\ cm2[d].tracking = cm[d].tracking
       /\ d # c => cm2[d].stopped = cm[d].stopped
  /\ cm2[c].stopped /\ ~cm[c].stopped /\ ~cm[c].attached

LEMMA StopsSelfFrames ==
  ASSUME NEW cm, NEW st, NEW cm2, NEW tt, NEW c, NEW n, Shape(st), StopsSelf(cm, st, cm2, tt, c, n)
  PROVE  /\ IsStack(st) /\ IsStack(tt) /\ DOMAIN tt = DOMAIN st /\ Len(tt) = Len(st) /\ n \in DOMAIN st
         /\ \A i \in DOMAIN st : i # n => tt[i] = st[i]
         /\ FrameOK(tt[n]) /\ tt[n].do = "untrack" /\ tt[n].c = c /\ tt[n].event = "stop" /\ tt[n].left = <<>>
         /\ st[n].do = "stop" /\ st[n].c = c /\ c \in Comps
  <1>1. IsStack(st) /\ IsStack(tt) /\ Len(tt) = Len(st) /\ n \in DOMAIN st
    BY DEF StopsSelf, Shape
  <1>2. DOMAIN tt = DOMAIN st
    BY <1>1 DEF IsStack
  <1>3. FrameOK(st[n]) /\ st[n].do = "stop" /\ st[n].c = c /\ c \in Comps /\ tt[n] = [st[n] EXCEPT !.do = "untrack"]
    BY <1>1 DEF StopsSelf, Shape, FramesTyped
  <1>4. /\ tt[n].do = "untrack" /\ tt[n].c = c /\ tt[n].event = "stop" /\ tt[n].left = <<>>
        /\ tt[n] \in Frame
    BY <1>3 DEF FrameOK, Frame, Kinds
  <1>5. FrameOK(tt[n])
    BY <1>3, <1>4 DEF FrameOK, Events
  <1>6. \A i \in DOMAIN st : i # n => tt[i] = st[i]
    BY DEF StopsSelf
  <1> QED BY <1>1, <1>2, <1>3, <1>4, <1>5, <1>6

LEMMA StopsSelfShape ==
  ASSUME NEW cm, NEW st, NEW cm2, NEW tt, NEW c, NEW n, Shape(st), StopsSelf(cm, st, cm2, tt, c, n)
  PROVE  /\ Shape(tt)
         /\ \A d : InFirstCheck(tt, d) <=> InFirstCheck(st, d)
         /\ InBatch(tt) <=> InBatch(st)
         /\ \A d : InUntrack(tt, d) <=> InUntrack(st, d) \/ d = c
         /\ \A tr, d : Unseen(tr, tt, d) <=> Unseen(tr, st, d)
  <1> USE StopsSelfFrames
  <1>1. FramesTyped(tt)
    BY DEF Shape, FramesTyped
  <1>2. BottomFrames(tt) /\ HooksOnTop(tt)
    BY DEF Shape, BottomFrames, HooksOnTop
  <1>3. FirstCheckTurns(tt)
    BY DEF Shape, FirstCheckTurns, Moving, IsStack
  <1>4. WatchThenRegister(tt)
    BY DEF Shape, WatchThenRegister, Registers, IsStack
  <1>5. \A d : InFirstCheck(tt, d) <=> InFirstCheck(st, d)
    BY DEF InFirstCheck
  <1>6. InBatch(tt) <=> InBatch(st)
    BY DEF InBatch
  <1>7. \A d : InUntrack(tt, d) <=> InUntrack(st, d) \/ d = c
    BY DEF InUntrack
  <1>8. \A tr, d : Unseen(tr, tt, d) <=> Unseen(tr, st, d)
    BY DEF Unseen
  <1> QED BY <1>1, <1>2, <1>3, <1>4, <1>5, <1>6, <1>7, <1>8 DEF Shape

LEMMA StopsSelfSame ==
  ASSUME NEW cm, NEW st, NEW cm2, NEW tt, NEW c, NEW n, Shape(st), StopsSelf(cm, st, cm2, tt, c, n)
  PROVE  /\ \A d, e : Due(tt, d, e) <=> Due(st, d, e)
         /\ \A d, e, l : InRegister(tt, d, e, l) <=> InRegister(st, d, e, l)
         /\ \A d, e, l : Pending(tt, d, l, e) <=> Pending(st, d, l, e)
         /\ \A i \in DOMAIN st : \A d : Moving(tt[i], d) <=> Moving(st[i], d)
         /\ \A i \in DOMAIN st : \A d : Tells(tt[i], d) <=> Tells(st[i], d)
         /\ \A i \in DOMAIN st : \A d : Ending(tt[i], d) <=> Ending(st[i], d) \/ (d = c /\ i = n)
         /\ \A d \in Comps : \A e : Subs(cm2, d, e) = Subs(cm, d, e)
  <1> USE StopsSelfFrames
  <1>1. \A d, e : Due(tt, d, e) <=> Due(st, d, e)
    BY DEF Due, Turning
  <1>2. \A d, e, l : InRegister(tt, d, e, l) <=> InRegister(st, d, e, l)
    BY DEF InRegister, Registers
  <1>3. \A d, e, l : Pending(tt, d, l, e) <=> Pending(st, d, l, e)
    BY DEF Pending, Informs
  <1>4. \A i \in DOMAIN st : \A d : Moving(tt[i], d) <=> Moving(st[i], d)
    BY DEF Moving
  <1>5. \A i \in DOMAIN st : \A d : Tells(tt[i], d) <=> Tells(st[i], d)
    BY DEF Tells
  <1>6. \A i \in DOMAIN st : \A d : Ending(tt[i], d) <=> Ending(st[i], d) \/ (d = c /\ i = n)
    BY DEF Ending
  <1>7. \A d \in Comps : \A e : Subs(cm2, d, e) = Subs(cm, d, e)
    BY DEF Subs, StopsSelf
  <1> QED BY <1>1, <1>2, <1>3, <1>4, <1>5, <1>6, <1>7

LEMMA StopsSelfListening ==
  ASSUME NEW cm, NEW st, NEW cm2, NEW tt, NEW c, NEW n, Shape(st), Listening(cm, st),
         StopsSelf(cm, st, cm2, tt, c, n)
  PROVE  Listening(cm2, tt)
  <1>1. /\ \A d, e, l : InRegister(tt, d, e, l) <=> InRegister(st, d, e, l)
        /\ \A d \in Comps : \A e : Subs(cm2, d, e) = Subs(cm, d, e)
    BY StopsSelfSame
  <1>2. /\ DOMAIN tt = DOMAIN st /\ Len(tt) = Len(st)
        /\ \A i \in DOMAIN st : tt[i].do \notin {"stop", "untrack"} => tt[i] = st[i]
        /\ \A i \in DOMAIN st : st[i].do \notin {"stop", "untrack"} => tt[i] = st[i]
    BY StopsSelfFrames
  <1>3. \A d \in Comps : cm2[d].marks = cm[d].marks /\ cm2[d].subs = cm[d].subs /\ cm2[d].tracking = cm[d].tracking
    BY DEF StopsSelf
  <1>4. \A i \in DOMAIN st : st[i].do \in {"tell", "call"} => st[i].c \in Comps
    BY DEF Shape, FramesTyped, FrameOK
  <1>5. SubsDistinct(cm2) /\ SubsNested(cm2)
    BY <1>1, <1>3 DEF Listening, SubsDistinct, SubsNested
  <1>6. TellsSubs(cm2, tt)
    BY <1>1, <1>2, <1>4 DEF Listening, TellsSubs
  <1>7. CallsOne(cm2, tt)
    BY <1>1, <1>2, <1>3, <1>4 DEF Listening, CallsOne
  <1>8. RegisterOrder(tt)
    BY <1>2 DEF Listening, RegisterOrder, Registers
  <1>9. NotYetIn(cm2, tt) /\ OneAfterOther(cm2, tt)
    BY <1>1 DEF Listening, NotYetIn, OneAfterOther
  <1>10. InterestFirst(cm2, tt)
    BY <1>1, <1>2, <1>3 DEF Listening, InterestFirst, Registers
  <1>11. ToldByOne(tt)
    BY <1>2 DEF Listening, ToldByOne
  <1> QED BY <1>5, <1>6, <1>7, <1>8, <1>9, <1>10, <1>11 DEF Listening

LEMMA StopsSelfTurns ==
  ASSUME NEW cm, NEW st, NEW cm2, NEW tt, NEW c, NEW n, NEW ins, Shape(st), Turns(cm, ins, st),
         StopsSelf(cm, st, cm2, tt, c, n)
  PROVE  Turns(cm2, ins, tt)
  <1>1. /\ \A d \in Comps : cm2[d].tracking = cm[d].tracking /\ (cm[d].stopped => cm2[d].stopped)
        /\ cm2[c].stopped /\ ~cm[c].stopped
    BY DEF StopsSelf
  <1>2. /\ DOMAIN tt = DOMAIN st /\ Len(tt) = Len(st) /\ n \in DOMAIN st /\ c \in Comps
        /\ st[n].do = "stop" /\ st[n].c = c
        /\ \A i \in DOMAIN st : tt[i].do = "stop" => st[i].do = "stop" /\ st[i].c = tt[i].c
    BY StopsSelfFrames
  <1>3. /\ \A i \in DOMAIN st : \A d : Moving(tt[i], d) <=> Moving(st[i], d)
        /\ \A i \in DOMAIN st : \A d : Tells(tt[i], d) <=> Tells(st[i], d)
        /\ \A i \in DOMAIN st : \A d : Ending(tt[i], d) <=> Ending(st[i], d) \/ (d = c /\ i = n)
    BY StopsSelfSame
  <1>4. HookedTracks(cm2) /\ TurnTracks(cm2, tt)
    BY <1>1, <1>2, <1>3, ParametersAssumption DEF Turns, HookedTracks, TurnTracks
  <1>5. EndingStopped(cm2, tt)
    BY <1>1, <1>2, <1>3 DEF Turns, EndingStopped
  <1>6. OneEnding(tt)
    <2>1. \A i \in DOMAIN st : ~Ending(st[i], c)
      BY <1>1, <1>2 DEF Turns, EndingStopped
    <2> QED BY <1>2, <1>3, <2>1 DEF Turns, OneEnding
  <1>7. OneTurn(ins, tt)
    BY <1>2, <1>3 DEF Turns, OneTurn
  <1>8. NoStopInTelling(cm2, ins, tt)
    <2>1. \A i \in DOMAIN st : Whole(ins, c) /\ i < n => ~Tells(st[i], c)
      BY <1>1, <1>2 DEF Turns, NoStopInTelling
    <2> QED BY <1>1, <1>2, <1>3, <2>1 DEF Turns, NoStopInTelling
  <1> QED BY <1>4, <1>5, <1>6, <1>7, <1>8 DEF Turns

LEMMA StopsSelfMarked ==
  ASSUME NEW cm, NEW st, NEW cm2, NEW tt, NEW c, NEW n, NEW ins, Shape(st), Marked(cm, ins, st),
         StopsSelf(cm, st, cm2, tt, c, n)
  PROVE  Marked(cm2, ins, tt)
  <1>1. /\ \A d \in Comps : cm2[d].attached = cm[d].attached /\ cm2[d].marks = cm[d].marks
        /\ \A d \in Comps : d # c => cm2[d].stopped = cm[d].stopped
        /\ cm2[c].stopped /\ ~cm[c].stopped /\ ~cm[c].attached /\ c \in Comps
    BY DEF StopsSelf
  <1>2. /\ DOMAIN tt = DOMAIN st
        /\ \A i \in DOMAIN st : tt[i].do \notin {"stop", "untrack"} => tt[i] = st[i]
    BY StopsSelfFrames
  <1>3. /\ \A d, e : Due(tt, d, e) <=> Due(st, d, e)
        /\ \A i \in DOMAIN st : \A d : Moving(tt[i], d) <=> Moving(st[i], d)
        /\ \A i \in DOMAIN st : \A d : Ending(tt[i], d) <=> Ending(st[i], d) \/ (d = c /\ i = n)
    BY StopsSelfSame
  <1>4. StoppedIsDetached(cm2)
    BY <1>1 DEF Marked, StoppedIsDetached
  <1>5. AttachMarked(cm2, ins, tt)
    BY <1>1, <1>3 DEF Marked, AttachMarked
  <1>6. StopIsLast(cm2, ins, tt)
    <2> SUFFICES ASSUME NEW d \in Comps, Whole(ins, d), "stop" \in cm2[d].marks
                 PROVE  /\ cm2[d].stopped
                        /\ \A i \in DOMAIN tt : ~Moving(tt[i], d) /\ (Ending(tt[i], d) => tt[i].do = "tell")
      BY DEF StopIsLast
    <2>1. "stop" \in cm[d].marks
      BY <1>1
    <2>2. /\ cm[d].stopped
          /\ \A i \in DOMAIN st : ~Moving(st[i], d) /\ (Ending(st[i], d) => st[i].do = "tell")
      BY <2>1 DEF Marked, StopIsLast
    <2>3. d # c /\ cm2[d].stopped
      BY <1>1, <2>2
    <2>4. \A i \in DOMAIN st : st[i].do = "tell" => tt[i] = st[i]
      BY StopsSelfFrames
    <2> QED BY <1>2, <1>3, <2>2, <2>3, <2>4
  <1>7. TurnMatches(cm2, ins, tt)
    <2>1. \A i \in DOMAIN st : \A d : Moving(tt[i], d) => tt[i] = st[i]
      BY <1>2 DEF Moving
    <2> QED BY <1>1, <1>2, <1>3, <2>1 DEF Marked, TurnMatches
  <1>8. TellIsMarked(cm2, ins, tt)
    BY <1>1, <1>2 DEF Marked, TellIsMarked
  <1> QED BY <1>4, <1>5, <1>6, <1>7, <1>8 DEF Marked

LEMMA StopsSelfHearing ==
  ASSUME NEW cm, NEW st, NEW cm2, NEW tt, NEW c, NEW n, NEW ins, NEW he, Shape(st),
         Hearing(cm, ins, st, he), StopsSelf(cm, st, cm2, tt, c, n)
  PROVE  Hearing(cm2, ins, tt, he)
  <1>1. \A d \in Comps : cm2[d].marks = cm[d].marks
    BY DEF StopsSelf
  <1>2. /\ DOMAIN tt = DOMAIN st
        /\ \A i \in DOMAIN st : tt[i].do \notin {"stop", "untrack"} => tt[i] = st[i]
    BY StopsSelfFrames
  <1>3. /\ \A d, e : Due(tt, d, e) <=> Due(st, d, e)
        /\ \A d, e, l : InRegister(tt, d, e, l) <=> InRegister(st, d, e, l)
        /\ \A d, e, l : Pending(tt, d, l, e) <=> Pending(st, d, l, e)
        /\ \A d \in Comps : \A e : Subs(cm2, d, e) = Subs(cm, d, e)
    BY StopsSelfSame
  <1>4. HeardSubs(cm2, he)
    BY <1>3 DEF Hearing, HeardSubs
  <1>5. NextFollows(ins, tt, he)
    BY <1>2 DEF Hearing, NextFollows, Informs
  <1>6. AttachHeard(cm2, ins, tt, he)
    BY <1>1, <1>3 DEF Hearing, AttachHeard
  <1>7. DetachHeard(cm2, ins, tt, he) /\ StopHeard(cm2, ins, he)
    BY <1>1, <1>3 DEF Hearing, DetachHeard, StopHeard
  <1> QED BY <1>4, <1>5, <1>6, <1>7 DEF Hearing

CurrentBut(c, pl, cm, tr, rc, ins, st) == \A d \in Comps : d # c =>
  FirstCheckRight(pl, cm, ins, st, d) /\ WantIsRight(pl, cm, tr, rc, ins, st, d)

(* It is not stopped in the middle of its first check unless by a handler. *)
LEMMA StopsSelfObserved ==
  ASSUME NEW cm, NEW st, NEW cm2, NEW tt, NEW c, NEW n, NEW ins, NEW tr, NEW ob, NEW rc,
         NEW pl, ToSet(tr) \subseteq Comps,
         Shape(st), Turns(cm, ins, st), Observed(cm, tr, ob, rc, ins, st),
         StopsSelf(cm, st, cm2, tt, c, n)
  PROVE  /\ Observed(cm2, tr, ob, rc, ins, tt)
         /\ CurrentBut(c, pl, cm, tr, rc, ins, st) => Current(pl, cm2, tr, rc, ins, tt)
  <1>1. /\ \A d \in Comps : cm2[d].attached = cm[d].attached /\ cm2[d].checked = cm[d].checked
        /\ \A d \in Comps : cm2[d].tracking = cm[d].tracking /\ (d # c => cm2[d].stopped = cm[d].stopped)
        /\ cm2[c].stopped /\ ~cm[c].stopped /\ ~cm[c].attached /\ c \in Comps
    BY DEF StopsSelf
  <1>2. /\ \A d : InFirstCheck(tt, d) <=> InFirstCheck(st, d)
        /\ InBatch(tt) <=> InBatch(st)
        /\ \A d : InUntrack(tt, d) <=> InUntrack(st, d) \/ d = c
        /\ \A d : Unseen(tr, tt, d) <=> Unseen(tr, st, d)
    BY StopsSelfShape
  <1>3. InFirstCheck(st, c) => ~Whole(ins, c)
    <2> SUFFICES ASSUME NEW i \in DOMAIN st, st[i].do = "track", st[i].c = c, Whole(ins, c)
                 PROVE  FALSE
      BY DEF InFirstCheck
    <2>1. i = 1 /\ st[1].do = "track" /\ st[1].c = c
      BY DEF Shape, BottomFrames
    <2>2. n \in DOMAIN st /\ st[n].do = "stop" /\ st[n].c = c /\ IsStack(st)
      BY StopsSelfFrames
    <2>3. n > 1 /\ 2 \in DOMAIN st /\ Len(st) > 1
      BY <2>1, <2>2 DEF IsStack
    <2>4. Moving(st[2], c)
      BY <2>1, <2>3 DEF Shape, FirstCheckTurns
    <2>5. 2 # n
      BY <2>2, <2>4 DEF Moving
    <2>6. 2 < n /\ 2 # Len(st)
      BY <2>2, <2>3, <2>5 DEF IsStack
    <2>7. Tells(st[2], c)
      BY <2>3, <2>4, <2>6 DEF Shape, HooksOnTop, Moving, Tells
    <2> QED BY <1>1, <2>2, <2>3, <2>6, <2>7 DEF Turns, NoStopInTelling
  <1>4. ObserverOn(tr, ob, rc, tt)
    BY <1>2 DEF Observed, ObserverOn
  <1>5. TrackedWant(cm2, tr, ins, tt)
    BY <1>1, <1>2 DEF Observed, TrackedWant
  <1>6. FirstChecked(cm2, ins, tt)
    BY <1>1, <1>2, <1>3 DEF Observed, FirstChecked
  <1>7. WantIsTracked(cm2, tr, tt)
    BY <1>1, <1>2 DEF Observed, WantIsTracked, Wants
  <1>8. ASSUME CurrentBut(c, pl, cm, tr, rc, ins, st), NEW d \in Comps
        PROVE  FirstCheckRight(pl, cm2, ins, tt, d) /\ WantIsRight(pl, cm2, tr, rc, ins, tt, d)
    BY <1>1, <1>2, <1>8 DEF CurrentBut, FirstCheckRight, WantIsRight, Wants, Right
  <1>9. NoRepeats(tr)
    BY DEF Observed
  <1> QED BY <1>4, <1>5, <1>6, <1>7, <1>8, <1>9 DEF Observed, Current

-----------------------------------------------------------------------------
(* _stop(): untracked, and on_stop() is to run.                            *)
Untracks(st, tt, c) ==
  /\ Len(st) > 0 /\ Keeps(st, Len(st) - 1, tt) /\ Len(tt) = Len(st)
  /\ st[Len(st)].do = "untrack" /\ st[Len(st)].c = c /\ tt[Len(st)] = [st[Len(st)] EXCEPT !.do = "hook"]

LEMMA UntracksFrames ==
  ASSUME NEW st, NEW tt, NEW c, Shape(st), Untracks(st, tt, c)
  PROVE  /\ IsStack(st) /\ IsStack(tt) /\ DOMAIN tt = DOMAIN st /\ Len(tt) = Len(st)
         /\ Len(st) \in DOMAIN st /\ FrameOK(tt[Len(st)])
         /\ \A i \in DOMAIN st : i # Len(st) => tt[i] = st[i]
         /\ st[Len(st)].do = "untrack" /\ st[Len(st)].c = c
         /\ tt[Len(st)].do = "hook" /\ tt[Len(st)].c = c /\ tt[Len(st)].event = "stop"
         /\ tt[Len(st)].left = <<>> /\ c \in Comps
  <1> DEFINE n == Len(st)
  <1>1. IsStack(st) /\ IsStack(tt) /\ Len(tt) = n /\ n > 0
    BY DEF Untracks, Keeps
  <1>2. DOMAIN tt = DOMAIN st /\ n \in DOMAIN st
    BY <1>1 DEF IsStack
  <1>3. FrameOK(st[n]) /\ st[n].do = "untrack" /\ st[n].c = c /\ tt[n] = [st[n] EXCEPT !.do = "hook"]
    BY <1>2 DEF Untracks, Shape, FramesTyped
  <1>4. /\ tt[n].do = "hook" /\ tt[n].c = c /\ tt[n].event = "stop" /\ tt[n].left = <<>>
        /\ tt[n] \in Frame /\ c \in Comps
    BY <1>3 DEF FrameOK, Frame, Kinds
  <1>5. FrameOK(tt[n])
    BY <1>3, <1>4 DEF FrameOK, Events
  <1>6. \A i \in DOMAIN st : i # n => tt[i] = st[i]
    BY <1>1 DEF Untracks, Keeps, IsStack
  <1> HIDE DEF n
  <1> QED BY <1>1, <1>2, <1>3, <1>4, <1>5, <1>6 DEF n

LEMMA UntracksShape ==
  ASSUME NEW st, NEW tt, NEW c, Shape(st), Untracks(st, tt, c)
  PROVE  /\ Shape(tt)
         /\ \A d : InFirstCheck(tt, d) <=> InFirstCheck(st, d)
         /\ InBatch(tt) <=> InBatch(st)
         /\ \A d : d # c => (InUntrack(tt, d) <=> InUntrack(st, d))
         /\ \A tr, d : Unseen(tr, tt, d) <=> Unseen(tr, st, d)
  <1> USE UntracksFrames
  <1>1. FramesTyped(tt)
    BY DEF Shape, FramesTyped
  <1>2. BottomFrames(tt) /\ HooksOnTop(tt)
    BY DEF Shape, BottomFrames, HooksOnTop
  <1>3. FirstCheckTurns(tt)
    BY DEF Shape, FirstCheckTurns, Moving, IsStack
  <1>4. WatchThenRegister(tt)
    BY DEF Shape, WatchThenRegister, Registers, IsStack
  <1>5. \A d : InFirstCheck(tt, d) <=> InFirstCheck(st, d)
    BY DEF InFirstCheck
  <1>6. InBatch(tt) <=> InBatch(st)
    BY DEF InBatch
  <1>7. \A d : d # c => (InUntrack(tt, d) <=> InUntrack(st, d))
    BY DEF InUntrack
  <1>8. \A tr, d : Unseen(tr, tt, d) <=> Unseen(tr, st, d)
    BY DEF Unseen
  <1> QED BY <1>1, <1>2, <1>3, <1>4, <1>5, <1>6, <1>7, <1>8 DEF Shape

LEMMA UntracksKeep ==
  ASSUME NEW st, NEW tt, NEW c, NEW cm, NEW ins, NEW he, Shape(st), Untracks(st, tt, c),
         Listening(cm, st), Turns(cm, ins, st), Marked(cm, ins, st), Hearing(cm, ins, st, he)
  PROVE  Listening(cm, tt) /\ Turns(cm, ins, tt) /\ Marked(cm, ins, tt) /\ Hearing(cm, ins, tt, he)
  <1>1. /\ DOMAIN tt = DOMAIN st /\ Len(tt) = Len(st)
        /\ \A i \in DOMAIN st : tt[i].do # "hook" => tt[i] = st[i]
        /\ \A i \in DOMAIN st : st[i].do # "untrack" => tt[i] = st[i]
    BY UntracksFrames
  <1>2. \A d, e : e # "stop" => (Due(tt, d, e) <=> Due(st, d, e))
    BY UntracksFrames DEF Due, Turning
  <1>3. \A d, e, l : InRegister(tt, d, e, l) <=> InRegister(st, d, e, l)
    BY <1>1 DEF InRegister, Registers
  <1>4. \A d, e, l : Pending(tt, d, l, e) <=> Pending(st, d, l, e)
    BY <1>1 DEF Pending, Informs
  <1>5. \A i \in DOMAIN st : \A d : Moving(tt[i], d) <=> Moving(st[i], d)
    BY UntracksFrames DEF Moving
  <1>6. \A i \in DOMAIN st : \A d : Tells(tt[i], d) <=> Tells(st[i], d)
    BY <1>1 DEF Tells
  <1>7. \A i \in DOMAIN st : \A d : Ending(tt[i], d) <=> Ending(st[i], d)
    BY UntracksFrames DEF Ending
  <1>8. Listening(cm, tt)
    <2>1. TellsSubs(cm, tt) /\ CallsOne(cm, tt)
      BY <1>1 DEF Listening, TellsSubs, CallsOne
    <2>2. RegisterOrder(tt)
      BY <1>1 DEF Listening, RegisterOrder, Registers
    <2>3. NotYetIn(cm, tt) /\ OneAfterOther(cm, tt)
      BY <1>3 DEF Listening, NotYetIn, OneAfterOther
    <2>4. InterestFirst(cm, tt)
      BY <1>1 DEF Listening, InterestFirst, Registers
    <2>5. ToldByOne(tt)
      BY <1>1 DEF Listening, ToldByOne
    <2> QED BY <2>1, <2>2, <2>3, <2>4, <2>5 DEF Listening
  <1>9. Turns(cm, ins, tt)
    <2>1. TurnTracks(cm, tt)
      BY <1>1, <1>5 DEF Turns, TurnTracks
    <2>2. EndingStopped(cm, tt) /\ OneEnding(tt)
      BY <1>1, <1>7 DEF Turns, EndingStopped, OneEnding
    <2>3. OneTurn(ins, tt)
      BY <1>1, <1>5 DEF Turns, OneTurn
    <2>4. NoStopInTelling(cm, ins, tt)
      BY <1>1, <1>6, <1>7 DEF Turns, NoStopInTelling
    <2> QED BY <2>1, <2>2, <2>3, <2>4 DEF Turns
  <1>10. Marked(cm, ins, tt)
    <2>1. AttachMarked(cm, ins, tt)
      BY <1>2 DEF Marked, AttachMarked
    <2>2. StopIsLast(cm, ins, tt)
      <3>1. \A i \in DOMAIN st : st[i].do = "tell" => tt[i] = st[i]
        BY <1>1
      <3> QED BY <1>1, <1>5, <1>7, <3>1 DEF Marked, StopIsLast
    <2>3. TurnMatches(cm, ins, tt)
      <3>1. \A i \in DOMAIN st : \A d : Moving(tt[i], d) => tt[i] = st[i]
        BY <1>1, UntracksFrames DEF Moving
      <3> QED BY <1>1, <1>5, <3>1 DEF Marked, TurnMatches
    <2>4. TellIsMarked(cm, ins, tt)
      BY <1>1 DEF Marked, TellIsMarked
    <2> QED BY <2>1, <2>2, <2>3, <2>4 DEF Marked
  <1>11. Hearing(cm, ins, tt, he)
    <2>1. NextFollows(ins, tt, he)
      BY <1>1 DEF Hearing, NextFollows, Informs
    <2>2. AttachHeard(cm, ins, tt, he)
      BY <1>2, <1>3, <1>4 DEF Hearing, AttachHeard
    <2>3. DetachHeard(cm, ins, tt, he)
      BY <1>2, <1>4 DEF Hearing, DetachHeard
    <2> QED BY <2>1, <2>2, <2>3 DEF Hearing
  <1> QED BY <1>8, <1>9, <1>10, <1>11

-----------------------------------------------------------------------------
(* The set of the tracked and the observer.                                *)
Kept(tr, ob, rc, tr2, ob2, rc2) ==
  tr2 \in Seq(Comps) /\ ob2 = (ob /\ tr2 # <<>>) /\ rc2 = (rc /\ tr2 # <<>>)

LEMMA Membership ==
  ASSUME NEW S, NEW s \in Seq(S)
  PROVE  s = <<>> <=> ToSet(s) = {}
  <1>1. s # <<>> => 1 \in DOMAIN s
    BY EmptySeq
  <1>2. s # <<>> => s[1] \in ToSet(s)
    BY <1>1 DEF ToSet
  <1>3. s = <<>> => ToSet(s) = {}
    BY DEF ToSet
  <1> QED BY <1>2, <1>3

LEMMA UntracksObserved ==
  ASSUME NEW cm, NEW st, NEW tt, NEW c, NEW ins, NEW pl, NEW tr \in Seq(Comps), NEW ob \in BOOLEAN, NEW rc \in BOOLEAN,
         NEW tr2, NEW ob2, NEW rc2,
         Shape(st), Turns(cm, ins, st), Untracks(st, tt, c), Observed(cm, tr, ob, rc, ins, st),
         Current(pl, cm, tr, rc, ins, st),
         Kept(tr, ob, rc, tr2, ob2, rc2), tr2 = RemoveFirst(tr, c)
  PROVE  Observed(cm, tr2, ob2, rc2, ins, tt) /\ Current(pl, cm, tr2, rc2, ins, tt)
  <1>1. tr2 \in Seq(Comps) /\ NoRepeats(tr2) /\ ToSet(tr2) = ToSet(tr) \ {c}
    BY RemoveFirstElements DEF Observed
  <1>2. (tr = <<>> <=> ToSet(tr) = {}) /\ (tr2 = <<>> <=> ToSet(tr2) = {})
    BY <1>1, Membership
  <1>3. cm[c].stopped /\ c \in Comps
    BY UntracksFrames DEF Turns, EndingStopped, Ending
  <1>4. /\ \A d : InFirstCheck(tt, d) <=> InFirstCheck(st, d)
        /\ InBatch(tt) <=> InBatch(st)
        /\ \A d : d # c => (InUntrack(tt, d) <=> InUntrack(st, d))
        /\ \A d : Unseen(tr2, tt, d) <=> Unseen(tr2, st, d)
    BY UntracksShape
  <1>5. ob2 = (ob /\ tr2 # <<>>) /\ rc2 = (rc /\ tr2 # <<>>)
    BY DEF Kept
  <1>6. ObserverOn(tr2, ob2, rc2, tt)
    <2>1. (tr # <<>> => ob) /\ (rc => ob)
      BY DEF Observed, ObserverOn
    <2>2. tr2 # <<>> => tr # <<>>
      BY <1>1, <1>2
    <2> QED BY <1>5, <2>1, <2>2 DEF ObserverOn
  <1>7. TrackedWant(cm, tr2, ins, tt)
    BY <1>1, <1>4 DEF Observed, TrackedWant
  <1>8. FirstChecked(cm, ins, tt)
    BY <1>4 DEF Observed, FirstChecked
  <1>9. WantIsTracked(cm, tr2, tt)
    BY <1>1, <1>3, <1>4 DEF Observed, WantIsTracked, Wants
  <1>10. ASSUME NEW d \in Comps
         PROVE  FirstCheckRight(pl, cm, ins, tt, d) /\ WantIsRight(pl, cm, tr2, rc2, ins, tt, d)
    <2>1. FirstCheckRight(pl, cm, ins, st, d) /\ WantIsRight(pl, cm, tr, rc, ins, st, d)
      BY DEF Current
    <2>2. FirstCheckRight(pl, cm, ins, tt, d)
      BY <1>4, <2>1 DEF FirstCheckRight
    <2>3. SUFFICES ASSUME Wants(cm, d)
                   PROVE  Right(pl, cm, d) \/ rc2 \/ MovedInside(ins, d) \/ Unseen(tr2, tt, d)
      BY <2>2 DEF WantIsRight
    <2>4. d # c
      BY <1>3, <2>3 DEF Wants
    <2>5. CASE tr2 = <<>>
      <3>1. InFirstCheck(tt, d)
        BY <1>2, <1>9, <2>3, <2>5 DEF WantIsTracked
      <3> QED BY <2>2, <2>3, <3>1 DEF FirstCheckRight, Wants
    <2>6. CASE tr2 # <<>>
      <3>1. rc2 = rc
        BY <1>5, <2>6
      <3>2. Unseen(tr, st, d) => Unseen(tr2, st, d)
        BY <1>1, <2>4 DEF Unseen
      <3> QED BY <1>4, <2>1, <2>3, <3>1, <3>2 DEF WantIsRight
    <2> QED BY <2>5, <2>6
  <1> QED BY <1>1, <1>6, <1>7, <1>8, <1>9, <1>10 DEF Observed, Current

(* track_attachment()                                                      *)
LEMMA TrackElements ==
  ASSUME NEW tr \in Seq(Comps), NoRepeats(tr), NEW c \in Comps,
         NEW tr2, tr2 = IF Contains(tr, c) THEN tr ELSE Append(tr, c)
  PROVE  tr2 \in Seq(Comps) /\ NoRepeats(tr2) /\ ToSet(tr2) = ToSet(tr) \cup {c}
  <1>1. Contains(tr, c) <=> c \in ToSet(tr)
    BY DEF Contains, ToSet
  <1>2. CASE c \in ToSet(tr)
    BY <1>1, <1>2
  <1>3. CASE c \notin ToSet(tr)
    <2>1. tr2 = Append(tr, c)
      BY <1>1, <1>3
    <2>2. /\ Append(tr, c) \in Seq(Comps) /\ ToSet(Append(tr, c)) = ToSet(tr) \cup {c}
          /\ NoRepeats(Append(tr, c))
      BY <1>3, AppendElements
    <2> QED BY <2>1, <2>2
  <1> QED BY <1>2, <1>3

(* c is added if need be, and the observer is there.                       *)
Adding(need, c, tr, ob, tr2, ob2) ==
  /\ need => NoRepeats(tr2) /\ ToSet(tr2) = ToSet(tr) \cup {c} /\ ob2
  /\ ~need => tr2 = tr /\ ob2 = ob

Atop(st, do, c) == Len(st) > 0 /\ st[Len(st)].do = do /\ st[Len(st)].c = c

LEMMA OnlyFrame ==
  ASSUME NEW st, Shape(st), Len(st) > 0, st[Len(st)].do \in {"track", "batch"}
  PROVE  /\ Len(st) = 1 /\ DOMAIN st = {1}
         /\ \A i \in DOMAIN st : i = 1 /\ i = Len(st)
  <1>1. Len(st) \in DOMAIN st
    BY DEF Shape, IsStack
  <1>2. Len(st) = 1
    BY <1>1 DEF Shape, BottomFrames
  <1> QED BY <1>2 DEF Shape, IsStack

(* The end of _attachment_first_check()                                    *)
LEMMA TracksAfter ==
  ASSUME NEW cm, NEW st, NEW tt, NEW c, NEW ins, NEW pl, NEW tr \in Seq(Comps), NEW ob \in BOOLEAN, NEW rc \in BOOLEAN,
         NEW tr2, NEW ob2,
         Shape(st), Done(st, tt), Atop(st, "track", c),
         Observed(cm, tr, ob, rc, ins, st), Current(pl, cm, tr, rc, ins, st),
         Adding(cm[c].tracking, c, tr, ob, tr2, ob2)
  PROVE  Observed(cm, tr2, ob2, rc, ins, tt) /\ Current(pl, cm, tr2, rc, ins, tt)
  <1> USE DEF Adding, Atop
  <1>1. Len(st) = 1 /\ \A i \in DOMAIN st : i = 1
    BY OnlyFrame DEF Done
  <1>2. \A i : i \notin DOMAIN tt
    BY <1>1, DoneFrames
  <1>3. st[1].do = "track" /\ st[1].c = c /\ 1 \in DOMAIN st /\ c \in Comps
    BY <1>1, DoneFrames DEF FrameOK
  <1>4. /\ ~InBatch(st) /\ \A d : ~InUntrack(st, d) /\ (InFirstCheck(st, d) <=> d = c) /\ ~Unseen(tr, st, d)
    BY <1>1, <1>3 DEF InBatch, InUntrack, InFirstCheck, Unseen
  <1>5. ~InBatch(tt) /\ \A d : ~InUntrack(tt, d) /\ ~InFirstCheck(tt, d)
    BY <1>2 DEF InBatch, InUntrack, InFirstCheck
  <1>6. cm[c].checked /\ (cm[c].stopped => ~Whole(ins, c))
    BY <1>3, <1>4 DEF Observed, FirstChecked
  <1>7. ObserverOn(tr2, ob2, rc, tt)
    <2>1. (tr # <<>> => ob) /\ (ob => tr # <<>>) /\ (rc => ob)
      BY <1>4 DEF Observed, ObserverOn
    <2>2. cm[c].tracking => tr2 # <<>>
      <3>1. <<>> \in Seq(Comps) /\ ToSet(<<>>) = {}
        BY Membership, EmptySeq
      <3>2. cm[c].tracking => c \in ToSet(tr2)
        OBVIOUS
      <3> QED BY <3>1, <3>2
    <2> QED BY <2>1, <2>2 DEF ObserverOn
  <1>8. TrackedWant(cm, tr2, ins, tt)
    <2>1. \A d \in ToSet(tr) : cm[d].checked /\ cm[d].tracking /\ ~(cm[d].stopped /\ Whole(ins, d))
      BY <1>4 DEF Observed, TrackedWant
    <2> QED BY <1>6, <2>1 DEF TrackedWant
  <1>9. FirstChecked(cm, ins, tt)
    BY <1>5 DEF FirstChecked
  <1>10. WantIsTracked(cm, tr2, tt)
    BY <1>4 DEF Observed, WantIsTracked, Wants
  <1>11. NoRepeats(tr2)
    BY DEF Observed
  <1>12. Current(pl, cm, tr2, rc, ins, tt)
    BY <1>4, <1>5 DEF Current, FirstCheckRight, WantIsRight, Wants
  <1> QED BY <1>7, <1>8, <1>9, <1>10, <1>11, <1>12 DEF Observed

(* The end of on_mutation()'s loop: everyone who is tracked has been seen. *)
LEMMA BatchEnds ==
  ASSUME NEW cm, NEW st, NEW tt, NEW ins, NEW pl, NEW tr \in Seq(Comps), NEW ob \in BOOLEAN, NEW rc \in BOOLEAN,
         NEW ob2, NEW rc2,
         Shape(st), Done(st, tt), st[Len(st)].do = "batch", ToSet(tr) \subseteq ToSet(st[Len(st)].left),
         Observed(cm, tr, ob, rc, ins, st), Current(pl, cm, tr, rc, ins, st), Kept(tr, ob, rc, tr, ob2, rc2)
  PROVE  Observed(cm, tr, ob2, rc2, ins, tt) /\ Current(pl, cm, tr, rc2, ins, tt)
  <1>1. Len(st) = 1 /\ \A i \in DOMAIN st : i = 1
    BY OnlyFrame DEF Done
  <1>2. \A i : i \notin DOMAIN tt
    BY <1>1, DoneFrames
  <1>3. st[1].do = "batch"
    BY <1>1
  <1>4. \A d : ~InUntrack(st, d) /\ ~InFirstCheck(st, d) /\ ~Unseen(tr, st, d)
    BY <1>1, <1>3 DEF InUntrack, InFirstCheck, Unseen
  <1>5. ~InBatch(tt) /\ \A d : ~InUntrack(tt, d) /\ ~InFirstCheck(tt, d)
    BY <1>2 DEF InBatch, InUntrack, InFirstCheck
  <1>6. ob2 = (ob /\ tr # <<>>) /\ rc2 = (rc /\ tr # <<>>)
    BY DEF Kept
  <1>7. ObserverOn(tr, ob2, rc2, tt)
    BY <1>6 DEF Observed, ObserverOn
  <1>8. TrackedWant(cm, tr, ins, tt)
    BY <1>4 DEF Observed, TrackedWant
  <1>9. FirstChecked(cm, ins, tt)
    BY <1>5 DEF FirstChecked
  <1>10. WantIsTracked(cm, tr, tt)
    BY <1>4 DEF Observed, WantIsTracked
  <1>11. ASSUME NEW d \in Comps
         PROVE  FirstCheckRight(pl, cm, ins, tt, d) /\ WantIsRight(pl, cm, tr, rc2, ins, tt, d)
    <2>1. Wants(cm, d) => tr # <<>>
      BY <1>5, <1>10 DEF WantIsTracked, ToSet
    <2>2. WantIsRight(pl, cm, tr, rc, ins, st, d)
      BY DEF Current
    <2> QED BY <1>4, <1>5, <1>6, <2>1, <2>2 DEF FirstCheckRight, WantIsRight
  <1> QED BY <1>7, <1>8, <1>9, <1>10, <1>11 DEF Observed, Current

(* A stopped component that is still in the Set is taken out.              *)
LEMMA BatchRemoves ==
  ASSUME NEW cm, NEW st, NEW ins, NEW pl, NEW tr \in Seq(Comps), NEW ob \in BOOLEAN, NEW rc \in BOOLEAN,
         NEW c \in Comps, cm[c].stopped, InBatch(st),
         Observed(cm, tr, ob, rc, ins, st), Current(pl, cm, tr, rc, ins, st)
  PROVE  /\ RemoveFirst(tr, c) \in Seq(Comps)
         /\ Observed(cm, RemoveFirst(tr, c), ob, rc, ins, st) /\ Current(pl, cm, RemoveFirst(tr, c), rc, ins, st)
  <1> DEFINE tr2 == RemoveFirst(tr, c)
  <1>1. tr2 \in Seq(Comps) /\ NoRepeats(tr2) /\ ToSet(tr2) = ToSet(tr) \ {c}
    BY RemoveFirstElements DEF Observed
  <1>2. (tr = <<>> <=> ToSet(tr) = {}) /\ (tr2 = <<>> <=> ToSet(tr2) = {})
    BY <1>1, Membership
  <1> HIDE DEF tr2
  <1>3. ObserverOn(tr2, ob, rc, st)
    BY <1>1, <1>2 DEF Observed, ObserverOn
  <1>4. TrackedWant(cm, tr2, ins, st)
    BY <1>1 DEF Observed, TrackedWant
  <1>5. WantIsTracked(cm, tr2, st)
    BY <1>1 DEF Observed, WantIsTracked, Wants
  <1>6. ASSUME NEW d \in Comps
        PROVE  FirstCheckRight(pl, cm, ins, st, d) /\ WantIsRight(pl, cm, tr2, rc, ins, st, d)
    <2>1. d # c => (Unseen(tr2, st, d) <=> Unseen(tr, st, d))
      BY <1>1 DEF Unseen
    <2>2. Wants(cm, d) => d # c
      BY DEF Wants
    <2> QED BY <2>1, <2>2 DEF Current, WantIsRight
  <1> QED BY <1>1, <1>3, <1>4, <1>5, <1>6 DEF Observed, Current, tr2

-----------------------------------------------------------------------------
(* Nothing of any component is on the stack.                               *)
Idle(st) == IsStack(st) /\ Len(st) <= 1 /\ \A i \in DOMAIN st : FrameOK(st[i]) /\ st[i].do \in {"track", "batch"}

LEMMA IdleKeeps ==
  ASSUME NEW st, NEW tt, Idle(st), Idle(tt), NEW cm, NEW ins, NEW he,
         Listening(cm, st), Turns(cm, ins, st), Marked(cm, ins, st), Hearing(cm, ins, st, he)
  PROVE  /\ Shape(tt) /\ Listening(cm, tt) /\ Turns(cm, ins, tt) /\ Marked(cm, ins, tt)
         /\ Hearing(cm, ins, tt, he) /\ Pausable(cm, tt)
         /\ \A d : \A i \in DOMAIN tt : ~Moving(tt[i], d)
         /\ \A d, e, l : ~InRegister(tt, d, e, l)
  <1>1. \A i \in DOMAIN tt : tt[i].do \in {"track", "batch"}
    BY DEF Idle
  <1>2. \A i \in DOMAIN st : st[i].do \in {"track", "batch"}
    BY DEF Idle
  <1>3. \A d : \A i \in DOMAIN tt : ~Moving(tt[i], d) /\ ~Ending(tt[i], d) /\ ~Registers(tt[i], d) /\ ~Informs(tt[i], d)
    BY <1>1 DEF Moving, Ending, Registers, Informs
  <1>4. \A d, e, l : ~Due(tt, d, e) /\ ~InRegister(tt, d, e, l) /\ ~Pending(tt, d, l, e)
    BY <1>1 DEF Due, Turning, InRegister, Registers, Pending, Informs
  <1>5. \A d, e, l : ~Due(st, d, e) /\ ~InRegister(st, d, e, l) /\ ~Pending(st, d, l, e)
    BY <1>2 DEF Due, Turning, InRegister, Registers, Pending, Informs
  <1>6. Shape(tt)
    <2>1. \A i \in DOMAIN tt : i = 1
      BY DEF Idle, IsStack
    <2> QED BY <1>1, <2>1 DEF Idle, IsStack, Shape, FramesTyped, BottomFrames, HooksOnTop, FirstCheckTurns, WatchThenRegister
  <1>7. Listening(cm, tt)
    <2>1. TellsSubs(cm, tt) /\ CallsOne(cm, tt) /\ RegisterOrder(tt) /\ ToldByOne(tt)
      BY <1>1, <1>3 DEF TellsSubs, CallsOne, RegisterOrder, ToldByOne
    <2>2. NotYetIn(cm, tt) /\ OneAfterOther(cm, tt)
      BY <1>4, <1>5 DEF Listening, NotYetIn, OneAfterOther
    <2>3. InterestFirst(cm, tt)
      BY <1>3 DEF Listening, InterestFirst
    <2> QED BY <2>1, <2>2, <2>3 DEF Listening
  <1>8. Turns(cm, ins, tt)
    BY <1>1, <1>3 DEF Turns, TurnTracks, EndingStopped, OneEnding, OneTurn, NoStopInTelling, Tells
  <1>9. Marked(cm, ins, tt)
    <2>1. AttachMarked(cm, ins, tt)
      BY <1>5 DEF Marked, AttachMarked
    <2>2. StopIsLast(cm, ins, tt)
      BY <1>3 DEF Marked, StopIsLast
    <2> QED BY <1>1, <1>3, <2>1, <2>2 DEF Marked, TurnMatches, TellIsMarked
  <1>10. Hearing(cm, ins, tt, he)
    <2>1. NextFollows(ins, tt, he)
      BY <1>3 DEF NextFollows
    <2>2. AttachHeard(cm, ins, tt, he) /\ DetachHeard(cm, ins, tt, he)
      BY <1>5 DEF Hearing, AttachHeard, DetachHeard
    <2> QED BY <2>1, <2>2 DEF Hearing
  <1>11. Pausable(cm, tt)
    BY <1>1, <1>3 DEF Pausable
  <1> QED BY <1>3, <1>4, <1>6, <1>7, <1>8, <1>9, <1>10, <1>11

-----------------------------------------------------------------------------
(* A turn keeps all of it.                                                 *)
LEMMA TurnSound ==
  ASSUME NEW cm, NEW st, NEW cm2, NEW tt, NEW c, NEW to, NEW ins, NEW he,
         Sound(cm, ins, st, he), TurnsTo(cm, st, cm2, tt, c, to), MayTurn(cm, st, ins, c, to)
  PROVE  Sound(cm2, ins, tt, he) /\ SameBottom(st, tt)
  <1>1. /\ Shape(st) /\ Listening(cm, st) /\ Turns(cm, ins, st)
        /\ Marked(cm, ins, st) /\ Hearing(cm, ins, st, he)
    BY Zenon DEF Sound
  <1>2. Shape(tt) /\ SameBottom(st, tt)
    BY <1>1, TurnShape, Zenon
  <1>3. Listening(cm2, tt)
    BY <1>1, TurnListening, Zenon
  <1>4. Turns(cm2, ins, tt)
    BY <1>1, TurnTurns, Zenon
  <1>5. Marked(cm2, ins, tt)
    BY <1>1, TurnMarked, Zenon
  <1>6. Hearing(cm2, ins, tt, he)
    BY <1>1, TurnHearing, Zenon
  <1> QED BY <1>2, <1>3, <1>4, <1>5, <1>6, Zenon DEF Sound

(* What is believed of the others does not change; what is believed of c   *)
(* is what is so.                                                          *)
LEMMA TurnCurrent ==
  ASSUME NEW cm, NEW st, NEW cm2, NEW tt, NEW c, NEW to, NEW ins, NEW pl, NEW tr, NEW rc,
         TurnsTo(cm, st, cm2, tt, c, to), SameBottom(st, tt), CurrentBut(c, pl, cm, tr, rc, ins, st)
  PROVE  /\ CurrentBut(c, pl, cm2, tr, rc, ins, tt)
         /\ to = Connected(pl, c) => Current(pl, cm2, tr, rc, ins, tt)
  <1>1. /\ SameWants(cm, cm2) /\ cm2[c].attached = to /\ c \in Comps
        /\ \A d \in Comps : d # c => cm2[d].attached = cm[d].attached
    BY DEF TurnsTo
  <1>2. \A d \in Comps : d # c => (Right(pl, cm2, d) <=> Right(pl, cm, d))
    BY <1>1 DEF Right
  <1>3. \A d \in Comps : Wants(cm2, d) <=> Wants(cm, d)
    BY <1>1 DEF Wants, SameWants
  <1>4. \A d \in Comps : cm2[d].stopped = cm[d].stopped
    BY <1>1 DEF SameWants
  <1>5. ASSUME NEW d \in Comps, d # c
        PROVE  FirstCheckRight(pl, cm2, ins, tt, d) /\ WantIsRight(pl, cm2, tr, rc, ins, tt, d)
    <2>1. FirstCheckRight(pl, cm, ins, st, d) /\ WantIsRight(pl, cm, tr, rc, ins, st, d)
      BY <1>5 DEF CurrentBut
    <2>2. FirstCheckRight(pl, cm2, ins, tt, d)
      BY <1>2, <1>4, <1>5, <2>1 DEF FirstCheckRight, SameBottom
    <2>3. WantIsRight(pl, cm2, tr, rc, ins, tt, d)
      BY <1>2, <1>3, <1>5, <2>1 DEF WantIsRight, SameBottom
    <2> QED BY <2>2, <2>3
  <1>6. ASSUME to = Connected(pl, c)
        PROVE  FirstCheckRight(pl, cm2, ins, tt, c) /\ WantIsRight(pl, cm2, tr, rc, ins, tt, c)
    BY <1>1, <1>6 DEF FirstCheckRight, WantIsRight, Right
  <1> QED BY <1>5, <1>6 DEF CurrentBut, Current

(* _attachment_check() of c: nothing, or a turn to what is so.             *)
Checks(cm, st, cm2, tt, c) ==
  cm2 = [cm EXCEPT ![c] = Checked(cm[c], c)] /\ tt = st \o CheckSteps(cm[c], c)

LEMMA CheckTurns ==
  ASSUME NEW cm \in [Comps -> Record], NEW c \in Comps, NEW st \in Seq(Frame),
         NEW cm2, NEW tt, Checks(cm, st, cm2, tt, c), NEW to \in BOOLEAN, cm[c].attached = ~to
  PROVE  \/ cm2 = cm /\ tt = st /\ (cm[c].stopped \/ Right(placed, cm, c))
         \/ /\ TurnsTo(cm, st, cm2, tt, c, to) /\ to = Connected(placed, c)
            /\ cm2 \in [Comps -> Record] /\ tt \in Seq(Frame)
  <1>0. cm[c] \in Record /\ to = ~cm[c].attached
    BY DEF Record
  <1>1. CASE ~(~cm[c].stopped /\ cm[c].attached # Connected(placed, c))
    <2>1. cm2 = cm
      BY <1>1 DEF Checked, Checks
    <2>2. tt = st
      <3>1. CheckSteps(cm[c], c) = <<>>
        BY <1>1 DEF CheckSteps
      <3> QED BY <3>1, ConcatEmptySeq DEF Checks
    <2>3. cm[c].stopped \/ Right(placed, cm, c)
      BY <1>1 DEF Right
    <2> QED BY <2>1, <2>2, <2>3
  <1>2. CASE ~cm[c].stopped /\ cm[c].attached # Connected(placed, c)
    <2>0. Changing(c, to) \in Frame
      BY EmptySeq DEF Changing, Step, Frame, Kinds, Events
    <2>1. tt = Append(st, Changing(c, to)) /\ tt \in Seq(Frame)
      <3>1. CheckSteps(cm[c], c) = <<Changing(c, to)>>
        BY <1>0, <1>2 DEF CheckSteps
      <3> QED BY <3>1, <2>0, AppendIsConcat, AppendProperties DEF Checks
    <2>2. cm2 = [cm EXCEPT ![c] = Turned(cm[c], to)]
      BY <1>0, <1>2 DEF Checked, Checks
    <2>3. /\ Turned(cm[c], to) \in Record /\ Turned(cm[c], to).attached = to
          /\ Turned(cm[c], to).marks = cm[c].marks \ {ChangeEvent(~to)}
          /\ Turned(cm[c], to).checked = cm[c].checked /\ Turned(cm[c], to).tracking = cm[c].tracking
          /\ Turned(cm[c], to).stopped = cm[c].stopped /\ Turned(cm[c], to).subs = cm[c].subs
      BY <1>0 DEF Turned, Record, ChangeEvent
    <2>4. cm2 \in [Comps -> Record]
      BY <2>2, <2>3
    <2>5. Grows(st, tt) /\ Len(tt) = Len(st) + 1 /\ tt[Len(st) + 1] = Changing(c, to)
      <3>1. IsPush(Frame, st, Changing(c, to), Append(st, Changing(c, to)))
        BY <2>0, Pushed
      <3> QED BY <2>1, <3>1 DEF IsPush, Grows
    <2>6. TurnsTo(cm, st, cm2, tt, c, to)
      <3>1. cm2[c] = Turned(cm[c], to) /\ \A d \in Comps : d # c => cm2[d] = cm[d]
        BY <2>2
      <3>2. SameWants(cm, cm2) /\ \A d \in Comps : cm2[d].subs = cm[d].subs
        BY <2>3, <3>1 DEF SameWants
      <3>3. cm2[c].attached = to /\ cm2[c].marks = cm[c].marks \ {ChangeEvent(~to)}
        BY <2>3, <3>1
      <3>4. \A d \in Comps : d # c => cm2[d].attached = cm[d].attached /\ cm2[d].marks = cm[d].marks
        BY <3>1
      <3> QED BY <1>2, <2>4, <2>5, <3>2, <3>3, <3>4, Zenon DEF TurnsTo
    <2>7. to = Connected(placed, c)
      BY <1>0, <1>2 DEF Connected
    <2> QED BY <2>1, <2>4, <2>6, <2>7
  <1> QED BY <1>1, <1>2

LEMMA CheckKeeps ==
  ASSUME NEW cm \in [Comps -> Record], NEW c \in Comps, NEW st \in Seq(Frame), NEW ins, NEW he,
         NEW tr, ToSet(tr) \subseteq Comps, NEW ob, NEW rc,
         Sound(cm, ins, st, he), Observed(cm, tr, ob, rc, ins, st),
         CurrentBut(c, placed, cm, tr, rc, ins, st),
         NEW to \in BOOLEAN, cm[c].attached = ~to, MayTurn(cm, st, ins, c, to),
         NEW cm2, NEW tt, Checks(cm, st, cm2, tt, c)
  PROVE  /\ cm2 \in [Comps -> Record] /\ tt \in Seq(Frame)
         /\ Sound(cm2, ins, tt, he) /\ Observed(cm2, tr, ob, rc, ins, tt)
         /\ Current(placed, cm2, tr, rc, ins, tt)
  <1>1. \/ cm2 = cm /\ tt = st /\ (cm[c].stopped \/ Right(placed, cm, c))
        \/ /\ TurnsTo(cm, st, cm2, tt, c, to) /\ to = Connected(placed, c)
           /\ cm2 \in [Comps -> Record] /\ tt \in Seq(Frame)
    BY CheckTurns
  <1>2. CASE cm2 = cm /\ tt = st /\ (cm[c].stopped \/ Right(placed, cm, c))
    <2>1. FirstCheckRight(placed, cm, ins, st, c) /\ WantIsRight(placed, cm, tr, rc, ins, st, c)
      BY <1>2 DEF FirstCheckRight, WantIsRight, Wants
    <2>2. Current(placed, cm, tr, rc, ins, st)
      BY <2>1 DEF Current, CurrentBut
    <2> QED BY <1>2, <2>2
  <1>3. CASE /\ TurnsTo(cm, st, cm2, tt, c, to) /\ to = Connected(placed, c)
             /\ cm2 \in [Comps -> Record] /\ tt \in Seq(Frame)
    <2>1. Sound(cm2, ins, tt, he) /\ SameBottom(st, tt)
      BY <1>3, TurnSound, Zenon
    <2>2. SameWants(cm, cm2)
      BY <1>3 DEF TurnsTo
    <2>3. Observed(cm2, tr, ob, rc, ins, tt)
      BY <2>1, <2>2, ObservedStays, Zenon
    <2>4. Current(placed, cm2, tr, rc, ins, tt)
      BY <1>3, <2>1, TurnCurrent, Zenon
    <2> QED BY <1>3, <2>1, <2>3, <2>4
  <1> QED BY <1>1, <1>2, <1>3

-----------------------------------------------------------------------------
(* _watch_attachment(): c is of interest from now on, and is checked when  *)
(* it was not yet tracked.                                                 *)
Watches(cm, st, cm2, tt, c) ==
  /\ Done(st, tt) /\ Atop(st, "watch", c)
  /\ Notes(cm, cm2) /\ cm2[c].tracking
  /\ \A d \in Comps : cm2[d].checked = cm[d].checked /\ (d # c => cm2[d].tracking = cm[d].tracking)

Newly(cm, c) == ~cm[c].tracking /\ cm[c].checked /\ ~cm[c].stopped

LEMMA WatchSound ==
  ASSUME NEW cm, NEW st, NEW cm2, NEW tt, NEW c, NEW ins, NEW he,
         Sound(cm, ins, st, he), Watches(cm, st, cm2, tt, c)
  PROVE  /\ Sound(cm2, ins, tt, he) /\ SameBottom(st, tt)
         /\ c \in Comps
         /\ ~cm[c].tracking => \A to : MayTurn(cm2, tt, ins, c, to)
  <1>1. /\ Shape(st) /\ Listening(cm, st) /\ Turns(cm, ins, st)
        /\ Marked(cm, ins, st) /\ Hearing(cm, ins, st, he)
    BY Zenon DEF Sound
  <1>2. /\ Done(st, tt) /\ st[Len(st)].do = "watch" /\ st[Len(st)].c = c
        /\ Notes(cm, cm2) /\ cm2[c].tracking
    BY Zenon DEF Watches, Atop
  <1>3. /\ Listening(cm2, st) /\ Turns(cm2, ins, st) /\ Marked(cm2, ins, st) /\ Hearing(cm2, ins, st, he)
    BY <1>1, <1>2, NotesKeep, Zenon
  <1>4. Spent(st[Len(st)]) /\ Quiet(st[Len(st)])
    BY <1>2 DEF Spent, Quiet
  <1>5. Shape(tt) /\ \A i \in DOMAIN tt : tt[i].do # "hook"
    BY <1>1, <1>2, DoneShape, Zenon
  <1>6. Listening(cm2, tt)
    BY <1>1, <1>2, <1>3, <1>4, SpentListening
  <1>7. Turns(cm2, ins, tt)
    BY <1>1, <1>2, <1>3, SpentTurns, Zenon
  <1>8. Marked(cm2, ins, tt)
    BY <1>1, <1>2, <1>3, <1>4, SpentMarked, Zenon
  <1>9. Hearing(cm2, ins, tt, he)
    BY <1>1, <1>2, <1>3, <1>4, SpentHearing, Zenon
  <1>10. SameBottom(st, tt)
    BY <1>1, <1>2, <1>4, DoneBottom, Zenon
  <1>11. c \in Comps /\ Len(st) \in DOMAIN st
    BY <1>1, <1>2, DoneFrames DEF FrameOK
  <1>12. \A i \in DOMAIN tt : i \in DOMAIN st /\ i # Len(st) /\ tt[i] = st[i]
    BY <1>1, <1>2, DoneFrames
  <1>13. ASSUME ~cm[c].tracking, NEW to
         PROVE  MayTurn(cm2, tt, ins, c, to)
    <2>1. \A i \in DOMAIN tt : tt[i].do = "call" => tt[i].left = <<>>
      BY <1>1, <1>12 DEF Listening, CallsOne
    <2>2. \A d \in Comps : \A i \in DOMAIN tt : Moving(tt[i], d) => cm[d].tracking
      BY <1>1, <1>12 DEF Turns, TurnTracks
    <2>3. \A d \in Comps : cm[d].tracking => cm2[d].tracking
      BY <1>2 DEF Notes
    <2>4. Pausable(cm2, tt)
      BY <1>5, <2>1, <2>2, <2>3 DEF Pausable
    <2>5. \A i \in DOMAIN tt : ~Moving(tt[i], c)
      BY <1>11, <1>13, <2>2
    <2>6. ~(Len(tt) = 1 /\ tt[1].do = "track")
      <3>1. Len(st) > 1 /\ st[Len(st) - 1].do = "register"
        BY <1>1, <1>2, <1>11 DEF Shape, WatchThenRegister, Registers, IsStack
      <3>2. Len(tt) = Len(st) - 1 /\ Len(st) - 1 \in DOMAIN tt
        BY <1>1, <1>2, <3>1, DoneFrames DEF IsStack
      <3> QED BY <1>12, <3>1, <3>2
    <2>7. Subs(cm2, c, "attach") = {}
      <3>1. Subs(cm, c, "attach") = {}
        BY <1>1, <1>11, <1>13 DEF Listening, InterestFirst
      <3> QED BY <1>2, <1>11, <3>1 DEF Notes, Subs
    <2> QED BY <2>4, <2>5, <2>6, <2>7 DEF MayTurn
  <1> QED BY <1>5, <1>6, <1>7, <1>8, <1>9, <1>10, <1>11, <1>13 DEF Sound

LEMMA WatchObserved ==
  ASSUME NEW cm, NEW st, NEW cm2, NEW tt, NEW c \in Comps, NEW ins, NEW pl,
         NEW tr \in Seq(Comps), NEW ob \in BOOLEAN, NEW rc \in BOOLEAN, NEW tr2, NEW ob2,
         SameBottom(st, tt), Watches(cm, st, cm2, tt, c),
         Observed(cm, tr, ob, rc, ins, st), Current(pl, cm, tr, rc, ins, st),
         Adding(Newly(cm, c), c, tr, ob, tr2, ob2)
  PROVE  /\ Observed(cm2, tr2, ob2, rc, ins, tt) /\ CurrentBut(c, pl, cm2, tr2, rc, ins, tt)
         /\ ~Newly(cm, c) => Current(pl, cm2, tr2, rc, ins, tt)
  <1> USE DEF Adding
  <1>1. \A d \in Comps : /\ cm2[d].attached = cm[d].attached /\ cm2[d].stopped = cm[d].stopped
                         /\ cm2[d].checked = cm[d].checked /\ (cm[d].tracking => cm2[d].tracking)
                         /\ d # c => cm2[d].tracking = cm[d].tracking
    BY DEF Watches, Notes
  <1>2. \A d \in Comps : d # c \/ ~Newly(cm, c) => (Wants(cm2, d) <=> Wants(cm, d))
    BY <1>1 DEF Wants, Newly
  <1>3. ToSet(tr) \subseteq ToSet(tr2) /\ ToSet(tr) \subseteq Comps /\ \A d \in ToSet(tr2) : d # c => d \in ToSet(tr)
    <2>1. ToSet(tr) \subseteq Comps
      BY DEF ToSet
    <2> QED BY <2>1
  <1>4. ObserverOn(tr2, ob2, rc, tt)
    <2>1. CASE Newly(cm, c)
      <3>1. <<>> \in Seq(Comps) /\ ToSet(<<>>) = {}
        BY Membership, EmptySeq
      <3>2. tr2 # <<>>
        BY <2>1, <3>1
      <3> QED BY <2>1, <3>2 DEF ObserverOn
    <2>2. CASE ~Newly(cm, c)
      BY <2>2 DEF Observed, ObserverOn, SameBottom
    <2> QED BY <2>1, <2>2
  <1>5. TrackedWant(cm2, tr2, ins, tt)
    <2>1. \A d \in ToSet(tr) : /\ cm[d].checked /\ cm[d].tracking /\ d \in Comps
                               /\ cm[d].stopped /\ Whole(ins, d) => InUntrack(tt, d)
      BY <1>3 DEF Observed, TrackedWant, SameBottom
    <2>2. \A d \in ToSet(tr2) : d \in ToSet(tr) \/ (d = c /\ Newly(cm, c))
      BY <1>3
    <2>3. cm2[c].tracking
      BY DEF Watches
    <2> QED BY <1>1, <2>1, <2>2, <2>3 DEF TrackedWant, Newly
  <1>6. FirstChecked(cm2, ins, tt)
    BY <1>1 DEF Observed, FirstChecked, SameBottom
  <1>7. WantIsTracked(cm2, tr2, tt)
    <2>1. \A d \in Comps : Wants(cm2, d) => Wants(cm, d) \/ d \in ToSet(tr2)
      BY <1>2
    <2> QED BY <1>3, <2>1 DEF Observed, WantIsTracked, SameBottom
  <1>8. NoRepeats(tr2)
    BY DEF Observed
  <1>9. ASSUME NEW d \in Comps, d # c \/ ~Newly(cm, c)
        PROVE  FirstCheckRight(pl, cm2, ins, tt, d) /\ WantIsRight(pl, cm2, tr2, rc, ins, tt, d)
    <2>1. Right(pl, cm2, d) <=> Right(pl, cm, d)
      BY <1>1 DEF Right
    <2>2. Unseen(tr, st, d) => Unseen(tr2, tt, d)
      BY <1>3 DEF SameBottom, Unseen
    <2>3. FirstCheckRight(pl, cm, ins, st, d) /\ WantIsRight(pl, cm, tr, rc, ins, st, d)
      BY DEF Current
    <2>4. FirstCheckRight(pl, cm2, ins, tt, d)
      BY <1>1, <2>1, <2>3 DEF FirstCheckRight, SameBottom
    <2>5. WantIsRight(pl, cm2, tr2, rc, ins, tt, d)
      BY <1>2, <1>9, <2>1, <2>2, <2>3 DEF WantIsRight
    <2> QED BY <2>4, <2>5
  <1>10. CurrentBut(c, pl, cm2, tr2, rc, ins, tt)
    BY <1>9 DEF CurrentBut
  <1>11. ~Newly(cm, c) => Current(pl, cm2, tr2, rc, ins, tt)
    BY <1>9 DEF Current
  <1> QED BY <1>4, <1>5, <1>6, <1>7, <1>8, <1>10, <1>11 DEF Observed

-----------------------------------------------------------------------------
(* _stop() of a component that is attached: it turns first.                *)
LEMMA StopMayTurn ==
  ASSUME NEW cm, NEW st, NEW c \in Comps, NEW ins, Shape(st), Listening(cm, st), Turns(cm, ins, st),
         Len(st) > 0, st[Len(st)].do = "stop", st[Len(st)].c = c, ~cm[c].stopped
  PROVE  MayTurn(cm, st, ins, c, FALSE)
  <1> DEFINE n == Len(st)
  <1>1. n \in DOMAIN st /\ n \in Nat /\ \A i \in DOMAIN st : i # n => i < n
    BY DEF Shape, IsStack
  <1>2. \A i \in DOMAIN st : st[i].do # "hook"
    BY DEF Shape, HooksOnTop
  <1>3. \A i \in DOMAIN st : st[i].do = "call" => st[i].left = <<>>
    BY DEF Listening, CallsOne
  <1>4. \A d \in Comps : \A i \in DOMAIN st : Moving(st[i], d) => i # n /\ cm[d].tracking
    BY DEF Turns, TurnTracks, Moving
  <1>5. Pausable(cm, st)
    BY <1>2, <1>3, <1>4 DEF Pausable
  <1>6. ASSUME Whole(ins, c), NEW i \in DOMAIN st, Moving(st[i], c)
        PROVE  FALSE
    <2>1. Tells(st[i], c) /\ i < n
      BY <1>1, <1>2, <1>4, <1>6 DEF Moving, Tells
    <2> QED BY <1>1, <1>6, <2>1 DEF Turns, NoStopInTelling
  <1>7. ~(Len(st) = 1 /\ st[1].do = "track")
    OBVIOUS
  <1> QED BY <1>5, <1>6, <1>7 DEF MayTurn

LEMMA StopsHold ==
  ASSUME NEW cm, NEW st, NEW cm2, NEW tt, NEW c, NEW n, NEW pl, NEW tr, ToSet(tr) \subseteq Comps,
         NEW ob, NEW rc, NEW ins, NEW he,
         Sound(cm, ins, st, he), Observed(cm, tr, ob, rc, ins, st), CurrentBut(c, pl, cm, tr, rc, ins, st),
         StopsSelf(cm, st, cm2, tt, c, n)
  PROVE  Holds(pl, cm2, tr, ob, rc, ins, tt, he)
  <1>1. /\ Shape(st) /\ Listening(cm, st) /\ Turns(cm, ins, st)
        /\ Marked(cm, ins, st) /\ Hearing(cm, ins, st, he)
    BY Zenon DEF Sound
  <1>2. Shape(tt)
    BY <1>1, StopsSelfShape, Zenon
  <1>3. Listening(cm2, tt)
    BY <1>1, StopsSelfListening, Zenon
  <1>4. Turns(cm2, ins, tt)
    BY <1>1, StopsSelfTurns, Zenon
  <1>5. Marked(cm2, ins, tt)
    BY <1>1, StopsSelfMarked, Zenon
  <1>6. Hearing(cm2, ins, tt, he)
    BY <1>1, StopsSelfHearing, Zenon
  <1>7. Observed(cm2, tr, ob, rc, ins, tt) /\ Current(pl, cm2, tr, rc, ins, tt)
    BY <1>1, StopsSelfObserved, Zenon
  <1> QED BY <1>2, <1>3, <1>4, <1>5, <1>6, <1>7, Zenon DEF Sound, Holds

LEMMA AttachedStops ==
  ASSUME NEW cm, NEW st, NEW cm1, NEW tt1, NEW cm2, NEW tt, NEW c \in Comps, NEW n, NEW pl,
         NEW tr, ToSet(tr) \subseteq Comps, NEW ob, NEW rc, NEW ins, NEW he,
         Holds(pl, cm, tr, ob, rc, ins, st, he),
         Atop(st, "stop", c), ~cm[c].stopped,
         TurnsTo(cm, st, cm1, tt1, c, FALSE), StopsSelf(cm1, tt1, cm2, tt, c, n)
  PROVE  Holds(pl, cm2, tr, ob, rc, ins, tt, he)
  <1>1. /\ Sound(cm, ins, st, he) /\ Shape(st) /\ Listening(cm, st) /\ Turns(cm, ins, st)
        /\ Observed(cm, tr, ob, rc, ins, st) /\ Current(pl, cm, tr, rc, ins, st)
    BY Zenon DEF Holds, Sound
  <1>2. MayTurn(cm, st, ins, c, FALSE)
    BY <1>1, StopMayTurn DEF Atop
  <1>3. CurrentBut(c, pl, cm, tr, rc, ins, st)
    BY <1>1 DEF Current, CurrentBut
  <1>4. /\ Sound(cm1, ins, tt1, he) /\ Observed(cm1, tr, ob, rc, ins, tt1)
        /\ CurrentBut(c, pl, cm1, tr, rc, ins, tt1)
    <2>1. Sound(cm1, ins, tt1, he) /\ SameBottom(st, tt1)
      BY <1>1, <1>2, TurnSound, Zenon
    <2>2. SameWants(cm, cm1)
      BY DEF TurnsTo
    <2>3. Observed(cm1, tr, ob, rc, ins, tt1)
      BY <1>1, <2>1, <2>2, ObservedStays, Zenon
    <2>4. CurrentBut(c, pl, cm1, tr, rc, ins, tt1)
      BY <1>3, <2>1, TurnCurrent, Zenon
    <2> QED BY <2>1, <2>3, <2>4
  <1> QED BY <1>4, StopsHold, Zenon

-----------------------------------------------------------------------------
(* What starts with an empty stack, and on_mutation().                     *)
Empty(st) == IsStack(st) /\ Len(st) = 0
One(st, f) == IsStack(st) /\ Len(st) = 1 /\ st[1] = f

LEMMA EmptyFrames ==
  ASSUME NEW st, Empty(st)
  PROVE  /\ Idle(st) /\ \A i : i \notin DOMAIN st
         /\ ~InBatch(st) /\ \A c : ~InFirstCheck(st, c) /\ ~InUntrack(st, c) /\ \A tr : ~Unseen(tr, st, c)
  <1>1. \A i : i \notin DOMAIN st
    BY DEF Empty, IsStack
  <1> QED BY <1>1 DEF Empty, Idle, InBatch, InFirstCheck, InUntrack, Unseen

LEMMA OneFrames ==
  ASSUME NEW st, NEW f, One(st, f), FrameOK(f), f.do \in {"track", "batch"}
  PROVE  /\ Idle(st) /\ \A i : i \in DOMAIN st <=> i = 1
         /\ InBatch(st) <=> f.do = "batch"
         /\ \A c : InFirstCheck(st, c) <=> f.do = "track" /\ f.c = c
         /\ \A c : ~InUntrack(st, c)
         /\ \A tr, c : Unseen(tr, st, c) <=> f.do = "batch" /\ c \in ToSet(tr) \ ToSet(f.left)
  <1>1. (\A i : i \in DOMAIN st <=> i = 1) /\ st[1] = f
    BY DEF One, IsStack
  <1> QED BY <1>1 DEF One, Idle, InBatch, InFirstCheck, InUntrack, Unseen

(* on_mutation() goes on to c, which has not been looked at.               *)
LEMMA BatchLooksAt ==
  ASSUME NEW st, NEW tt, NEW f, NEW g, One(st, f), One(tt, g), FrameOK(f), FrameOK(g),
         f.do = "batch", g.do = "batch", NEW c, ToSet(g.left) = ToSet(f.left) \cup {c},
         NEW cm, NEW tr, NEW ob, NEW rc, NEW ins, NEW pl,
         Observed(cm, tr, ob, rc, ins, st), Current(pl, cm, tr, rc, ins, st)
  PROVE  Observed(cm, tr, ob, rc, ins, tt) /\ CurrentBut(c, pl, cm, tr, rc, ins, tt)
  <1>1. /\ InBatch(st) /\ InBatch(tt)
        /\ \A d : ~InFirstCheck(st, d) /\ ~InFirstCheck(tt, d) /\ ~InUntrack(st, d) /\ ~InUntrack(tt, d)
    BY OneFrames
  <1>2. \A d : d # c => (Unseen(tr, tt, d) <=> Unseen(tr, st, d))
    <2>1. \A d : Unseen(tr, st, d) <=> d \in ToSet(tr) \ ToSet(f.left)
      BY OneFrames
    <2>2. \A d : Unseen(tr, tt, d) <=> d \in ToSet(tr) \ ToSet(g.left)
      BY OneFrames
    <2> QED BY <2>1, <2>2
  <1>3. Observed(cm, tr, ob, rc, ins, tt)
    BY <1>1 DEF Observed, ObserverOn, TrackedWant, FirstChecked, WantIsTracked
  <1>4. CurrentBut(c, pl, cm, tr, rc, ins, tt)
    BY <1>1, <1>2 DEF Current, CurrentBut, FirstCheckRight, WantIsRight
  <1> QED BY <1>3, <1>4

(* The first check of c: c is tracked after it, if it was not checked yet. *)
LooksFirst(cm, cm2, tt, f, c) ==
  /\ \A d \in Comps : /\ cm2[d].attached = cm[d].attached /\ cm2[d].stopped = cm[d].stopped
                      /\ cm2[d].tracking = cm[d].tracking /\ (d # c => cm2[d].checked = cm[d].checked)
  /\ ~cm[c].stopped /\ cm2[c].checked
  /\ cm[c].checked => Empty(tt)
  /\ ~cm[c].checked => One(tt, f) /\ FrameOK(f) /\ f.do = "track" /\ f.c = c

LEMMA FirstLook ==
  ASSUME NEW st, NEW tt, NEW f, Empty(st), NEW c \in Comps, NEW cm, NEW cm2, NEW tr, NEW ob, NEW rc, NEW ins, NEW pl,
         ToSet(tr) \subseteq Comps, LooksFirst(cm, cm2, tt, f, c),
         Observed(cm, tr, ob, rc, ins, st), Current(pl, cm, tr, rc, ins, st)
  PROVE  /\ Idle(tt) /\ Observed(cm2, tr, ob, rc, ins, tt) /\ CurrentBut(c, pl, cm2, tr, rc, ins, tt)
         /\ (Len(tt) = 1 /\ tt[1].do = "track") => tt[1].c = c
  <1>0. /\ \A d \in Comps : /\ cm2[d].attached = cm[d].attached /\ cm2[d].stopped = cm[d].stopped
                           /\ cm2[d].tracking = cm[d].tracking /\ (d # c => cm2[d].checked = cm[d].checked)
        /\ ~cm[c].stopped /\ cm2[c].checked
        /\ cm[c].checked => Empty(tt)
        /\ ~cm[c].checked => One(tt, f) /\ FrameOK(f) /\ f.do = "track" /\ f.c = c
    BY DEF LooksFirst
  <1>1. ~InBatch(st) /\ \A d : ~InFirstCheck(st, d) /\ ~InUntrack(st, d) /\ ~Unseen(tr, st, d)
    BY EmptyFrames
  <1>2. /\ Idle(tt) /\ ~InBatch(tt) /\ \A d : ~InUntrack(tt, d) /\ ~Unseen(tr, tt, d)
        /\ \A d : InFirstCheck(tt, d) <=> d = c /\ ~cm[c].checked
    <2>1. CASE cm[c].checked
      BY <1>0, <2>1, EmptyFrames
    <2>2. CASE ~cm[c].checked
      <3>1. One(tt, f) /\ FrameOK(f) /\ f.do = "track" /\ f.c = c
        BY <1>0, <2>2
      <3>2. f.do # "batch" /\ f.do \in {"track", "batch"}
        BY <3>1
      <3> QED BY <2>2, <3>1, <3>2, OneFrames
    <2> QED BY <2>1, <2>2
  <1>3. ObserverOn(tr, ob, rc, tt)
    BY <1>1 DEF Observed, ObserverOn
  <1>4. TrackedWant(cm2, tr, ins, tt)
    BY <1>0, <1>1 DEF Observed, TrackedWant
  <1>5. FirstChecked(cm2, ins, tt)
    BY <1>0, <1>2 DEF FirstChecked
  <1>6. WantIsTracked(cm2, tr, tt)
    BY <1>0, <1>1, <1>2 DEF Observed, WantIsTracked, Wants
  <1>7. CurrentBut(c, pl, cm2, tr, rc, ins, tt)
    <2> SUFFICES ASSUME NEW d \in Comps, d # c
                 PROVE  FirstCheckRight(pl, cm2, ins, tt, d) /\ WantIsRight(pl, cm2, tr, rc, ins, tt, d)
      BY DEF CurrentBut
    <2>1. WantIsRight(pl, cm, tr, rc, ins, st, d)
      BY DEF Current
    <2> QED BY <1>0, <1>1, <1>2, <2>1 DEF FirstCheckRight, WantIsRight, Wants, Right
  <1>8. (Len(tt) = 1 /\ tt[1].do = "track") => tt[1].c = c
    BY <1>0 DEF Empty, One
  <1> QED BY <1>2, <1>3, <1>4, <1>5, <1>6, <1>7, <1>8 DEF Observed

(* The observer delivers: everyone who is tracked is to be looked at.      *)
LEMMA Delivers ==
  ASSUME NEW st, NEW tt, NEW f, Empty(st), One(tt, f), FrameOK(f), f.do = "batch", f.left = <<>>,
         NEW ins, NEW ins2, \A c : Whole(ins2, c) => Whole(ins, c),
         NEW cm, NEW tr, NEW ob, NEW rc, NEW pl,
         Observed(cm, tr, ob, rc, ins, st), Current(pl, cm, tr, rc, ins, st)
  PROVE  Observed(cm, tr, ob, FALSE, ins2, tt) /\ Current(pl, cm, tr, FALSE, ins2, tt)
  <1>1. ~InBatch(st) /\ \A d : ~InFirstCheck(st, d) /\ ~InUntrack(st, d)
    BY EmptyFrames
  <1>2. ToSet(f.left) = {}
    <2>1. <<>> \in Seq(Comps) /\ ToSet(<<>>) = {}
      BY Membership, EmptySeq
    <2> QED BY <2>1
  <1>3. InBatch(tt) /\ \A d : ~InFirstCheck(tt, d) /\ ~InUntrack(tt, d) /\ (Unseen(tr, tt, d) <=> d \in ToSet(tr))
    BY <1>2, OneFrames
  <1>4. Observed(cm, tr, ob, FALSE, ins2, tt)
    BY <1>1, <1>3 DEF Observed, ObserverOn, TrackedWant, FirstChecked, WantIsTracked
  <1>5. Current(pl, cm, tr, FALSE, ins2, tt)
    BY <1>1, <1>3 DEF Observed, WantIsTracked, Current, FirstCheckRight, WantIsRight
  <1> QED BY <1>4, <1>5

-----------------------------------------------------------------------------
(* What the application does.                                              *)
LEMMA OrderOfSet ==
  ASSUME NEW S, IsFiniteSet(S)
  PROVE  SetToSeq(S) \in Seq(S)
  <1>1. Cardinality(S) \in Nat /\ ExistsBijection(1 .. Cardinality(S), S)
    BY FS_CardinalityType
  <1>2. \E f \in [1 .. Cardinality(S) -> S] : IsInjective(f)
    BY <1>1 DEF ExistsBijection, Bijection, Injection, IsInjective
  <1>3. SetToSeq(S) \in [1 .. Cardinality(S) -> S]
    BY <1>2, Zenon DEF SetToSeq
  <1> QED BY <1>1, <1>3

(* A move flips what is so of the component that is moved and of those     *)
(* inside it, all of them where the observer sees it.                      *)
Flips(pl, pl2, d) == Connected(pl, d) # Connected(pl2, d)

LEMMA FlipsAreSeen ==
  ASSUME NEW pl, NEW pl2, NEW c \in Comps, NEW d \in Comps, Flips(pl, pl2, d),
         pl2 = IF c \in pl THEN pl \ {c} ELSE pl \cup {c}
  PROVE  Parent[c] = None \/ Parent[c] \in pl
  <1>1. \A e \in Comps : Parent[e] # e
    BY ParametersAssumption
  <1>2. \A e : e # c => (e \in pl2 <=> e \in pl)
    OBVIOUS
  <1>3. CASE d = c
    <2>1. Parent[c] \in pl2 <=> Parent[c] \in pl
      BY <1>1, <1>2
    <2> QED BY <1>3, <2>1 DEF Flips, Connected
  <1>4. CASE d # c /\ Parent[d] = c
    BY <1>4, ParametersAssumption
  <1>5. CASE d # c /\ Parent[d] # c
    <2>1. (d \in pl2 <=> d \in pl) /\ (Parent[d] \in pl2 <=> Parent[d] \in pl)
      BY <1>2, <1>5
    <2> QED BY <2>1 DEF Flips, Connected
  <1> QED BY <1>3, <1>4, <1>5

Moves(c, pl, pl2, ob, rc, rc2) ==
  /\ pl2 = IF c \in pl THEN pl \ {c} ELSE pl \cup {c}
  /\ rc2 = (rc \/ (ob /\ (Parent[c] = None \/ Parent[c] \in pl)))

LEMMA MoveHolds ==
  ASSUME NEW pl, NEW pl2, NEW cm, NEW tr, NEW ob \in BOOLEAN, NEW rc \in BOOLEAN, NEW rc2, NEW ins, NEW ins2,
         NEW st, NEW he, NEW c \in Comps, Holds(pl, cm, tr, ob, rc, ins, st, he),
         Moves(c, pl, pl2, ob, rc, rc2), ins \subseteq ins2, \A d : Whole(ins2, d) <=> Whole(ins, d),
         \A d \in Comps : Flips(pl, pl2, d) /\ InFirstCheck(st, d) => MovedInside(ins2, d)
  PROVE  Holds(pl2, cm, tr, ob, rc2, ins2, st, he)
  <1>1. /\ Shape(st) /\ Listening(cm, st) /\ Turns(cm, ins, st) /\ Marked(cm, ins, st)
        /\ Hearing(cm, ins, st, he) /\ Observed(cm, tr, ob, rc, ins, st) /\ Current(pl, cm, tr, rc, ins, st)
    BY Zenon DEF Holds, Sound
  <1>2. /\ Turns(cm, ins2, st) /\ Marked(cm, ins2, st) /\ Hearing(cm, ins2, st, he)
        /\ Observed(cm, tr, ob, rc, ins2, st)
    BY <1>1, InsideGrows, Zenon
  <1>3. Observed(cm, tr, ob, rc2, ins2, st)
    BY <1>2 DEF Observed, ObserverOn, Moves
  <1>4. ASSUME NEW d \in Comps, ~Flips(pl, pl2, d)
        PROVE  FirstCheckRight(pl2, cm, ins2, st, d) /\ WantIsRight(pl2, cm, tr, rc2, ins2, st, d)
    <2>1. Right(pl2, cm, d) <=> Right(pl, cm, d)
      BY <1>4 DEF Right, Flips
    <2>2. MovedInside(ins, d) => MovedInside(ins2, d)
      BY DEF MovedInside
    <2>3. FirstCheckRight(pl, cm, ins, st, d) /\ WantIsRight(pl, cm, tr, rc, ins, st, d)
      BY <1>1 DEF Current
    <2>4. rc => rc2
      BY DEF Moves
    <2> QED BY <2>1, <2>2, <2>3, <2>4 DEF FirstCheckRight, WantIsRight
  <1>5. ASSUME NEW d \in Comps, Flips(pl, pl2, d)
        PROVE  FirstCheckRight(pl2, cm, ins2, st, d) /\ WantIsRight(pl2, cm, tr, rc2, ins2, st, d)
    <2>1. InFirstCheck(st, d) => MovedInside(ins2, d)
      BY <1>5
    <2>2. ob => rc2
      BY <1>5, FlipsAreSeen DEF Moves
    <2>3. Wants(cm, d) => d \in ToSet(tr) \/ InFirstCheck(st, d)
      BY <1>1 DEF Observed, WantIsTracked
    <2>4. d \in ToSet(tr) => ob
      <3>1. d \in ToSet(tr) => tr # <<>>
        <4>1. <<>> \in Seq(Comps) /\ ToSet(<<>>) = {}
          BY Membership, EmptySeq
        <4> QED BY <4>1
      <3> QED BY <1>1, <3>1 DEF Observed, ObserverOn
    <2> QED BY <2>1, <2>2, <2>3, <2>4 DEF FirstCheckRight, WantIsRight
  <1>6. Current(pl2, cm, tr, rc2, ins2, st)
    BY <1>4, <1>5 DEF Current
  <1> QED BY <1>1, <1>2, <1>3, <1>6, Zenon DEF Holds, Sound

(* What is to be done comes on top of what is being done.                  *)
Room(cm, st) == Pausable(cm, st) /\ ~(Len(st) = 1 /\ st[1].do = "track")

LEMMA AddsHold ==
  ASSUME NEW pl, NEW cm, NEW tr, ToSet(tr) \subseteq Comps, NEW ob, NEW rc, NEW ins, NEW ins2, NEW st, NEW tt, NEW he,
         Holds(pl, cm, tr, ob, rc, ins, st, he), Room(cm, st), Adds(st, tt), Listening(cm, tt),
         \A i \in DOMAIN tt : i \notin DOMAIN st /\ tt[i].do = "watch" =>
           i > 1 /\ Registers(tt[i - 1], tt[i].c) /\ tt[i - 1].event = "attach",
         ins \subseteq ins2,
         \A d \in Comps : Whole(ins2, d) => \A i \in DOMAIN st : Tells(st[i], d) =>
           \A j \in DOMAIN tt : j \notin DOMAIN st /\ tt[j].do = "stop" /\ tt[j].c = d => cm[d].stopped
  PROVE  Holds(pl, cm, tr, ob, rc, ins2, tt, he)
  <1>1. /\ Shape(st) /\ Listening(cm, st) /\ Turns(cm, ins, st) /\ Marked(cm, ins, st)
        /\ Hearing(cm, ins, st, he) /\ Observed(cm, tr, ob, rc, ins, st) /\ Current(pl, cm, tr, rc, ins, st)
    BY Zenon DEF Holds, Sound
  <1>2. \A d : Whole(ins2, d) => Whole(ins, d)
    BY DEF Whole
  <1>3. /\ Turns(cm, ins2, st) /\ Marked(cm, ins2, st) /\ Hearing(cm, ins2, st, he)
        /\ Observed(cm, tr, ob, rc, ins2, st)
    BY <1>1, <1>2, InsideGrows, Zenon
  <1>4. Pausable(cm, st) /\ ~(Len(st) = 1 /\ st[1].do = "track")
    BY DEF Room
  <1>5. Shape(tt) /\ SameBottom(st, tt)
    BY <1>1, <1>4, AddsShape
  <1>6. Turns(cm, ins2, tt)
    BY <1>1, <1>3, <1>4, AddsTurns, Zenon
  <1>7. Marked(cm, ins2, tt)
    BY <1>1, <1>3, AddsMarked, Zenon
  <1>8. Hearing(cm, ins2, tt, he)
    BY <1>1, <1>3, AddsHearing, Zenon
  <1>9. SameWants(cm, cm) /\ SameFlags(cm, cm)
    BY DEF SameWants, SameFlags
  <1>10. Observed(cm, tr, ob, rc, ins2, tt)
    BY <1>3, <1>5, <1>9, ObservedStays, Zenon
  <1>11. Current(pl, cm, tr, rc, ins2, st)
    BY <1>1 DEF Current, FirstCheckRight, WantIsRight, MovedInside
  <1>12. Current(pl, cm, tr, rc, ins2, tt)
    BY <1>5, <1>9, <1>11, CurrentStays, Zenon
  <1> QED BY <1>5, <1>6, <1>7, <1>8, <1>10, <1>12, Zenon DEF Holds, Sound

Typed(pl, cm, tr, ob, rc, st, ac, ins) ==
  /\ pl \subseteq Comps /\ cm \in [Comps -> Record]
  /\ tr \in Seq(Comps) /\ ob \in BOOLEAN /\ rc \in BOOLEAN
  /\ st \in Seq(Frame) /\ ac \in 0 .. MaxActs /\ ins \subseteq Comps \X {"stopped", "moved"}

IsLonger(S, s, m, t) ==
  /\ t \in Seq(S) /\ Len(t) = Len(s) + Len(m) /\ Grows(s, t)
  /\ \A k \in DOMAIN m : t[Len(s) + k] = m[k]
  /\ \A i \in DOMAIN t : i \notin DOMAIN s => \E k \in DOMAIN m : t[i] = m[k]

LEMMA Longer ==
  ASSUME NEW S, NEW s \in Seq(S), NEW m \in Seq(S)
  PROVE  IsLonger(S, s, m, s \o m)
  <1> DEFINE t == s \o m
  <1>1. /\ t \in Seq(S) /\ Len(t) = Len(s) + Len(m)
        /\ \A i \in 1 .. Len(s) + Len(m) : t[i] = IF i <= Len(s) THEN s[i] ELSE m[i - Len(s)]
    BY ConcatProperties
  <1> HIDE DEF t
  <1>2. IsStack(s) /\ IsStack(m) /\ IsStack(t)
    BY <1>1, StackOf
  <1>3. Grows(s, t)
    BY <1>1, <1>2 DEF Grows, Keeps, IsStack
  <1>4. \A k \in DOMAIN m : t[Len(s) + k] = m[k]
    BY <1>1, <1>2 DEF IsStack
  <1>5. \A i \in DOMAIN t : i \notin DOMAIN s => i - Len(s) \in DOMAIN m /\ t[i] = m[i - Len(s)]
    BY <1>1, <1>2 DEF IsStack
  <1> QED BY <1>1, <1>3, <1>4, <1>5 DEF IsLonger, t

LEMMA MoveKeeps ==
  ASSUME NEW rest, Typed(placed, comp, tracked, observer, records, rest, acts, inside), NEW he,
         Holds(placed, comp, tracked, observer, records, inside, rest, he),
         NEW c \in Comps, Move(c, rest)
  PROVE  /\ placed' \subseteq Comps /\ records' \in BOOLEAN /\ inside' \subseteq Comps \X {"stopped", "moved"}
         /\ stack' = rest /\ comp' = comp /\ tracked' = tracked /\ observer' = observer
         /\ Holds(placed', comp, tracked, observer, records', inside', rest, he)
  <1> DEFINE to == IF c \in placed THEN placed \ {c} ELSE placed \cup {c}
             moved == {d \in Comps : Connected(placed, d) # Connected(to, d)}
             news == {<<d, "moved">> : d \in {e \in moved : FirstChecking(e, rest)}}
  <1>1. /\ placed' = to /\ records' = (records \/ (observer /\ (Parent[c] = None \/ Parent[c] \in placed)))
        /\ inside' = inside \cup news /\ stack' = rest
        /\ comp' = comp /\ tracked' = tracked /\ observer' = observer
    BY DEF Move
  <1>2. to \subseteq Comps /\ observer \in BOOLEAN /\ records \in BOOLEAN
    BY DEF Typed
  <1>3. news \subseteq Comps \X {"stopped", "moved"}
    OBVIOUS
  <1>4. \A d : Whole(inside \cup news, d) <=> Whole(inside, d)
    <2>1. \A d : <<d, "stopped">> \notin news
      OBVIOUS
    <2> QED BY <2>1 DEF Whole
  <1>5. \A d \in Comps : Flips(placed, to, d) /\ InFirstCheck(rest, d) => MovedInside(inside \cup news, d)
    <2> SUFFICES ASSUME NEW d \in Comps, Flips(placed, to, d), InFirstCheck(rest, d)
                 PROVE  <<d, "moved">> \in news
      BY DEF MovedInside
    <2>1. d \in moved
      BY DEF Flips
    <2>2. FirstChecking(d, rest)
      BY DEF FirstChecking, InFirstCheck
    <2> QED BY <2>1, <2>2
  <1>6. inside \cup news \subseteq Comps \X {"stopped", "moved"}
    BY <1>3 DEF Typed
  <1> HIDE DEF moved, news
  <1>7. Holds(placed', comp, tracked, observer, records', inside', rest, he)
    <2>1. Moves(c, placed, placed', observer, records, records')
      BY <1>1 DEF Moves
    <2>2. observer \in BOOLEAN /\ records \in BOOLEAN /\ c \in Comps /\ inside \subseteq inside'
      BY <1>1, <1>2
    <2>3. /\ \A d : Whole(inside', d) <=> Whole(inside, d)
          /\ \A d \in Comps : Flips(placed, placed', d) /\ InFirstCheck(rest, d) => MovedInside(inside', d)
      BY <1>1, <1>4, <1>5
    <2> QED BY <2>1, <2>2, <2>3, MoveHolds, Zenon
  <1>8. records' \in BOOLEAN
    BY <1>1, <1>2
  <1> QED BY <1>1, <1>2, <1>6, <1>7, <1>8

LEMMA StopKeeps ==
  ASSUME NEW rest, Typed(placed, comp, tracked, observer, records, rest, acts, inside), NEW he,
         Holds(placed, comp, tracked, observer, records, inside, rest, he), Room(comp, rest),
         NEW c \in Comps, Stop(c, rest)
  PROVE  /\ stack' \in Seq(Frame) /\ inside' \subseteq Comps \X {"stopped", "moved"}
         /\ placed' = placed /\ comp' = comp /\ tracked' = tracked /\ observer' = observer /\ records' = records
         /\ Holds(placed, comp, tracked, observer, records, inside', stack', he)
  <1> DEFINE ones == {d \in placed : Parent[d] = c /\ ~comp[d].stopped}
             order == <<c>> \o SetToSeq(ones)
             news == {<<d, "stopped">> : d \in {e \in ToSet(order) : ~comp[e].stopped /\ Telling(e, rest)}}
             more == [i \in DOMAIN order |-> Step("stop", order[i], "stop", <<>>)]
  <1>1. /\ stack' = rest \o more /\ inside' = inside \cup news
        /\ placed' = placed /\ comp' = comp /\ tracked' = tracked /\ observer' = observer /\ records' = records
    BY DEF Stop
  <1>2. order \in Seq(Comps)
    <2>1. ones \subseteq Comps /\ IsFiniteSet(ones)
      BY ParametersAssumption, FS_Subset DEF Typed
    <2>2. SetToSeq(ones) \in Seq(ones)
      BY <2>1, OrderOfSet
    <2>3. SetToSeq(ones) \in Seq(Comps)
      BY <2>1, <2>2, SeqMonotonic
    <2>4. <<c>> \in Seq(Comps)
      OBVIOUS
    <2> QED BY <2>3, <2>4, ConcatProperties
  <1> HIDE DEF ones
  <1> HIDE DEF order
  <1>3. \A i \in DOMAIN order : FrameOK(Step("stop", order[i], "stop", <<>>))
    <2>1. \A i \in DOMAIN order : order[i] \in Comps
      BY <1>2
    <2>2. <<>> \in Seq(Listeners \cup Comps)
      BY EmptySeq
    <2> QED BY <2>1, <2>2 DEF FrameOK, Step, Frame, Kinds, Events
  <1>4. /\ more \in Seq(Frame) /\ Len(more) = Len(order)
        /\ \A i \in DOMAIN more : i \in DOMAIN order /\ more[i] = Step("stop", order[i], "stop", <<>>)
    <2>1. \A i \in DOMAIN order : Step("stop", order[i], "stop", <<>>) \in Frame
      BY <1>3 DEF FrameOK
    <2>2. DOMAIN order = 1 .. Len(order) /\ Len(order) \in Nat
      BY <1>2
    <2> QED BY <2>1, <2>2
  <1> HIDE DEF more
  <1>5. rest \in Seq(Frame)
    BY DEF Typed
  <1>6. IsLonger(Frame, rest, more, stack')
    <2>1. IsLonger(Frame, rest, more, rest \o more)
      BY <1>4, <1>5, Longer, Zenon
    <2> QED BY <1>1, <2>1, Zenon
  <1>7. stack' \in Seq(Frame) /\ Grows(rest, stack')
    BY <1>6, Zenon DEF IsLonger
  <1>8. \A i \in DOMAIN stack' : i \notin DOMAIN rest => \E k \in DOMAIN more : stack'[i] = more[k]
    BY <1>6, Zenon DEF IsLonger
  <1>9. \A i \in DOMAIN stack' : i \notin DOMAIN rest =>
          \E k \in DOMAIN order : stack'[i] = Step("stop", order[k], "stop", <<>>)
    BY <1>4, <1>8
  <1>10. \A i \in DOMAIN stack' : i \notin DOMAIN rest =>
           FrameOK(stack'[i]) /\ stack'[i].do = "stop" /\ stack'[i].c \in ToSet(order)
    <2> SUFFICES ASSUME NEW i \in DOMAIN stack', i \notin DOMAIN rest
                 PROVE  FrameOK(stack'[i]) /\ stack'[i].do = "stop" /\ stack'[i].c \in ToSet(order)
      OBVIOUS
    <2>1. PICK k \in DOMAIN order : stack'[i] = Step("stop", order[k], "stop", <<>>)
      BY <1>9
    <2>2. order[k] \in ToSet(order)
      BY DEF ToSet
    <2> QED BY <1>3, <2>1, <2>2 DEF Step
  <1>11. Adds(rest, stack')
    BY <1>7, <1>10 DEF Adds
  <1>12. Shape(rest) /\ Listening(comp, rest) /\ Pausable(comp, rest)
    BY Zenon DEF Holds, Sound, Room
  <1>13. Listening(comp, stack')
    BY <1>10, <1>11, <1>12, StopsListening
  <1>14. \A d \in Comps : Whole(inside', d) => \A i \in DOMAIN rest : Tells(rest[i], d) =>
           \A j \in DOMAIN stack' : j \notin DOMAIN rest /\ stack'[j].do = "stop" /\ stack'[j].c = d => comp[d].stopped
    <2> SUFFICES ASSUME NEW d \in Comps, NEW i \in DOMAIN rest, Tells(rest[i], d),
                        d \in ToSet(order), ~comp[d].stopped
                 PROVE  <<d, "stopped">> \in inside'
      BY <1>10 DEF Whole
    <2>1. Telling(d, rest)
      BY DEF Tells, Telling
    <2> QED BY <1>1, <2>1
  <1>15. inside' \subseteq Comps \X {"stopped", "moved"} /\ inside \subseteq inside'
    <2>1. ToSet(order) \subseteq Comps
      BY <1>2 DEF ToSet
    <2>2. inside \subseteq Comps \X {"stopped", "moved"}
      BY DEF Typed
    <2> QED BY <1>1, <2>1, <2>2
  <1>16. \A i \in DOMAIN stack' : i \notin DOMAIN rest /\ stack'[i].do = "watch" =>
           i > 1 /\ Registers(stack'[i - 1], stack'[i].c) /\ stack'[i - 1].event = "attach"
    BY <1>10
  <1>17. ToSet(tracked) \subseteq Comps
    BY DEF Typed, ToSet
  <1>18. Holds(placed, comp, tracked, observer, records, inside', stack', he)
    BY <1>11, <1>13, <1>14, <1>15, <1>16, <1>17, AddsHold, Zenon
  <1> QED BY <1>1, <1>7, <1>15, <1>18

LEMMA ListenKeeps ==
  ASSUME NEW rest, Typed(placed, comp, tracked, observer, records, rest, acts, inside), NEW he,
         Holds(placed, comp, tracked, observer, records, inside, rest, he), Room(comp, rest),
         NEW c \in Comps, NEW l \in Listeners, Listen(c, l, rest)
  PROVE  /\ stack' \in Seq(Frame) /\ inside' = inside
         /\ placed' = placed /\ comp' = comp /\ tracked' = tracked /\ observer' = observer /\ records' = records
         /\ Holds(placed, comp, tracked, observer, records, inside, stack', he)
  <1> DEFINE a == Step("register", c, "stop", <<l>>)
             b == Step("register", c, "detach", <<l>>)
             d == Step("register", c, "attach", <<l>>)
             e == Step("watch", c, "attach", <<>>)
             more == <<a, b, d, e>>
  <1>1. /\ stack' = rest \o more /\ inside' = inside /\ ~Contains(comp[c].subs["attach"], l)
        /\ \A i \in DOMAIN rest : ~(rest[i].do = "register" /\ rest[i].c = c)
        /\ placed' = placed /\ comp' = comp /\ tracked' = tracked /\ observer' = observer /\ records' = records
    BY DEF Listen
  <1>2. a \in Frame /\ b \in Frame /\ d \in Frame /\ e \in Frame
    <2>1. <<l>> \in Seq(Listeners \cup Comps) /\ <<>> \in Seq(Listeners \cup Comps)
      BY EmptySeq
    <2> QED BY <2>1 DEF Step, Frame, Kinds, Events
  <1> HIDE DEF a, b, d, e
  <1>3. more \in Seq(Frame) /\ Len(more) = 4 /\ more[1] = a /\ more[2] = b /\ more[3] = d /\ more[4] = e
    BY <1>2
  <1> HIDE DEF more
  <1>4. rest \in Seq(Frame)
    BY DEF Typed
  <1>5. IsLonger(Frame, rest, more, stack')
    <2>1. IsLonger(Frame, rest, more, rest \o more)
      BY <1>3, <1>4, Longer, Zenon
    <2> QED BY <1>1, <2>1, Zenon
  <1>6. stack' \in Seq(Frame) /\ Grows(rest, stack') /\ Len(stack') = Len(rest) + Len(more)
    BY <1>5, Zenon DEF IsLonger
  <1>7. DOMAIN more = 1 .. 4
    BY <1>3
  <1>8. stack'[Len(rest) + 1] = a /\ stack'[Len(rest) + 2] = b /\ stack'[Len(rest) + 3] = d /\ stack'[Len(rest) + 4] = e
    <2>1. \A k \in DOMAIN more : stack'[Len(rest) + k] = more[k]
      BY <1>5, Zenon DEF IsLonger
    <2>2. 1 \in DOMAIN more /\ 2 \in DOMAIN more /\ 3 \in DOMAIN more /\ 4 \in DOMAIN more
      BY <1>7
    <2>3. /\ stack'[Len(rest) + 1] = more[1] /\ stack'[Len(rest) + 2] = more[2]
          /\ stack'[Len(rest) + 3] = more[3] /\ stack'[Len(rest) + 4] = more[4]
      BY <2>1, <2>2, Zenon
    <2> QED BY <1>3, <2>3, Zenon
  <1>9. l \notin Subs(comp, c, "attach")
    <2>1. ToSet(comp[c].subs["attach"]) = {comp[c].subs["attach"][i] : i \in DOMAIN comp[c].subs["attach"]}
      BY DEF ToSet
    <2>2. \A i \in DOMAIN comp[c].subs["attach"] : comp[c].subs["attach"][i] # l
      <3>1. DOMAIN comp[c].subs["attach"] = 1 .. Len(comp[c].subs["attach"])
        <4>1. comp[c].subs["attach"] \in Seq(Listeners)
          BY DEF Typed, Record, Events
        <4> QED BY <4>1
      <3> QED BY <1>1, <3>1 DEF Contains
    <2> QED BY <2>1, <2>2 DEF Subs
  <1>10. \A i \in DOMAIN rest : ~Registers(rest[i], c)
    BY <1>1 DEF Registers
  <1>11. Listens(comp, rest, stack', c, l)
    BY <1>3, <1>6, <1>8, <1>9, <1>10 DEF Listens, a, b, d, e
  <1>12. Shape(rest) /\ Listening(comp, rest) /\ Pausable(comp, rest)
    BY Zenon DEF Holds, Sound, Room
  <1>13. Listening(comp, stack')
    BY <1>11, <1>12, ListensListening, Zenon
  <1>14. /\ Adds(rest, stack')
         /\ \A i \in DOMAIN stack' : i \notin DOMAIN rest => stack'[i].do # "stop"
         /\ \A i \in DOMAIN stack' : i \notin DOMAIN rest /\ stack'[i].do = "watch" =>
              i > 1 /\ Registers(stack'[i - 1], stack'[i].c) /\ stack'[i - 1].event = "attach"
    BY <1>11, <1>12, ListensFrames
  <1>15. ToSet(tracked) \subseteq Comps
    BY DEF Typed, ToSet
  <1>16. Holds(placed, comp, tracked, observer, records, inside, stack', he)
    BY <1>13, <1>14, <1>15, AddsHold
  <1> QED BY <1>1, <1>6, <1>16

LEMMA ActKeeps ==
  ASSUME NEW rest, Typed(placed, comp, tracked, observer, records, rest, acts, inside), NEW he,
         Holds(placed, comp, tracked, observer, records, inside, rest, he), Room(comp, rest), Act(rest)
  PROVE  /\ Typed(placed', comp', tracked', observer', records', stack', acts', inside')
         /\ Holds(placed', comp', tracked', observer', records', inside', stack', he)
  <1>1. acts' \in 0 .. MaxActs
    BY ParametersAssumption DEF Act, Typed
  <1>2. PICK c \in Comps : Move(c, rest) \/ Stop(c, rest) \/ \E l \in Listeners : Listen(c, l, rest)
    BY DEF Act
  <1>3. /\ placed \subseteq Comps /\ comp \in [Comps -> Record] /\ tracked \in Seq(Comps) /\ observer \in BOOLEAN
        /\ records \in BOOLEAN /\ rest \in Seq(Frame) /\ inside \subseteq Comps \X {"stopped", "moved"}
    BY DEF Typed
  <1>4. CASE Move(c, rest)
    <2>1. /\ placed' \subseteq Comps /\ records' \in BOOLEAN /\ inside' \subseteq Comps \X {"stopped", "moved"}
          /\ stack' = rest /\ comp' = comp /\ tracked' = tracked /\ observer' = observer
          /\ Holds(placed', comp, tracked, observer, records', inside', rest, he)
      BY <1>4, MoveKeeps
    <2> QED BY <1>1, <1>3, <2>1 DEF Typed
  <1>5. CASE Stop(c, rest)
    <2>1. /\ stack' \in Seq(Frame) /\ inside' \subseteq Comps \X {"stopped", "moved"}
          /\ placed' = placed /\ comp' = comp /\ tracked' = tracked /\ observer' = observer /\ records' = records
          /\ Holds(placed, comp, tracked, observer, records, inside', stack', he)
      BY <1>5, StopKeeps
    <2> QED BY <1>1, <1>3, <2>1 DEF Typed
  <1>6. CASE \E l \in Listeners : Listen(c, l, rest)
    <2>1. /\ stack' \in Seq(Frame) /\ inside' = inside
          /\ placed' = placed /\ comp' = comp /\ tracked' = tracked /\ observer' = observer /\ records' = records
          /\ Holds(placed, comp, tracked, observer, records, inside, stack', he)
      BY <1>6, ListenKeeps
    <2> QED BY <1>1, <1>3, <2>1 DEF Typed
  <1> QED BY <1>2, <1>4, <1>5, <1>6

-----------------------------------------------------------------------------
(* The actions.                                                            *)
HeardMaps == [Comps -> [Listeners -> Seq(Events)]]

LEMMA InvIs ==
  /\ IInv <=> /\ Typed(placed, comp, tracked, observer, records, stack, acts, inside) /\ heard \in HeardMaps
              /\ Holds(placed, comp, tracked, observer, records, inside, stack, heard)
  /\ IInv' <=> /\ Typed(placed', comp', tracked', observer', records', stack', acts', inside') /\ heard' \in HeardMaps
               /\ Holds(placed', comp', tracked', observer', records', inside', stack', heard')
  BY DEF IInv, TypeOK, Typed, HeardMaps

LEMMA TopOf ==
  ASSUME IInv, stack # <<>>
  PROVE  /\ stack \in Seq(Frame) /\ Len(stack) \in Nat /\ Len(stack) > 0 /\ Len(stack) \in DOMAIN stack
         /\ Top = stack[Len(stack)] /\ Top \in Frame /\ FrameOK(Top) /\ Shape(stack)
  <1>1. Shape(stack) /\ stack \in Seq(Frame)
    BY Zenon DEF IInv, TypeOK, Holds, Sound
  <1>2. /\ Len(stack) \in Nat /\ Len(stack) > 0 /\ IsStack(stack)
        /\ Last(stack) = stack[Len(stack)] /\ Last(stack) \in Frame /\ Len(stack) \in DOMAIN stack
    BY <1>1, LastOf
  <1>3. FrameOK(stack[Len(stack)])
    BY <1>1, <1>2 DEF Shape, FramesTyped
  <1> QED BY <1>1, <1>2, <1>3 DEF Top

LEMMA ReplacesTop ==
  ASSUME IInv, stack # <<>>, NEW f \in Frame
  PROVE  IsReplace(Frame, stack, f, Append(Below, f))
  BY TopOf, Replaced DEF Below

LEMMA DoneTop ==
  ASSUME IInv, stack # <<>>
  PROVE  Below \in Seq(Frame) /\ Done(stack, Below)
  BY TopOf, Popped DEF Below, Done

LEMMA RunsKeep ==
  ASSUME NEW rest, Typed(placed, comp, tracked, observer, records, rest, acts, inside), NEW he,
         Holds(placed, comp, tracked, observer, records, inside, rest, he), Room(comp, rest), Runs(rest)
  PROVE  /\ Typed(placed', comp', tracked', observer', records', stack', acts', inside')
         /\ Holds(placed', comp', tracked', observer', records', inside', stack', he)
  <1>1. CASE Act(rest)
    BY <1>1, ActKeeps, Zenon
  <1>2. CASE stack' = rest /\ UNCHANGED <<placed, comp, tracked, observer, records, acts, inside>>
    BY <1>2
  <1> QED BY <1>1, <1>2 DEF Runs

(* The step of a frame that leaves the flags and the bottom alone.         *)
LEMMA BottomHolds ==
  ASSUME NEW pl, NEW cm, NEW cm2, NEW tr, ToSet(tr) \subseteq Comps, NEW ob, NEW rc, NEW ins, NEW st, NEW tt, NEW he, NEW he2,
         Holds(pl, cm, tr, ob, rc, ins, st, he), Sound(cm2, ins, tt, he2), SameFlags(cm, cm2), SameBottom(st, tt)
  PROVE  Holds(pl, cm2, tr, ob, rc, ins, tt, he2)
  <1>1. Observed(cm, tr, ob, rc, ins, st) /\ Current(pl, cm, tr, rc, ins, st)
    BY Zenon DEF Holds
  <1>2. SameWants(cm, cm2)
    BY DEF SameFlags
  <1>3. Observed(cm2, tr, ob, rc, ins, tt)
    BY <1>1, <1>2, ObservedStays, Zenon
  <1>4. Current(pl, cm2, tr, rc, ins, tt)
    BY <1>1, CurrentStays, Zenon
  <1> QED BY <1>3, <1>4, Zenon DEF Holds

LEMMA FlagsStay == \A cm : SameFlags(cm, cm)
  BY DEF SameFlags, SameWants

LEMMA RanHolds ==
  ASSUME NEW pl, NEW cm, NEW tr, ToSet(tr) \subseteq Comps, NEW ob, NEW rc, NEW ins, NEW st, NEW tt, NEW he,
         Holds(pl, cm, tr, ob, rc, ins, st, he), Ran(st, tt)
  PROVE  Holds(pl, cm, tr, ob, rc, ins, tt, he)
  <1>1. /\ Shape(st) /\ Listening(cm, st) /\ Turns(cm, ins, st) /\ Marked(cm, ins, st) /\ Hearing(cm, ins, st, he)
    BY Zenon DEF Holds, Sound
  <1>2. Shape(tt) /\ Listening(cm, tt) /\ SameBottom(st, tt)
    BY <1>1, RanShape, RanListening, RanBottom, Zenon
  <1>3. Turns(cm, ins, tt) /\ Marked(cm, ins, tt)
    BY <1>1, RanTurns, RanMarked, Zenon
  <1>4. Hearing(cm, ins, tt, he)
    BY <1>1, RanHearing, Zenon
  <1>5. Sound(cm, ins, tt, he)
    BY <1>2, <1>3, <1>4, Zenon DEF Sound
  <1> QED BY <1>2, <1>5, FlagsStay, BottomHolds, Zenon

LEMMA RanRoom ==
  ASSUME NEW cm, NEW st, NEW tt, NEW ins, Shape(st), Listening(cm, st), Turns(cm, ins, st), Ran(st, tt),
         st[Len(st)].event = "stop" \/ st[Len(st)].c \in Hooked
  PROVE  Room(cm, tt)
  <1> USE RanFrames
  <1>1. \A i \in DOMAIN tt : tt[i].do # "hook"
    BY DEF Shape, HooksOnTop
  <1>2. \A i \in DOMAIN tt : tt[i].do = "call" => tt[i].left = <<>>
    BY DEF Listening, CallsOne
  <1>3. \A c \in Comps : \A i \in DOMAIN tt : Moving(tt[i], c) => cm[c].tracking
    <2> SUFFICES ASSUME NEW c \in Comps, NEW i \in DOMAIN tt, Moving(tt[i], c)
                 PROVE  cm[c].tracking
      OBVIOUS
    <2>1. CASE i = Len(st)
      BY <2>1 DEF Moving, Turns, HookedTracks
    <2>2. CASE i # Len(st)
      BY <2>2 DEF Turns, TurnTracks
    <2> QED BY <2>1, <2>2
  <1> QED BY <1>1, <1>2, <1>3 DEF Room, Pausable

LEMMA HookKeeps ==
  ASSUME IInv, Hook
  PROVE  IInv'
  <1> DEFINE f == [Top EXCEPT !.do = "trigger"]
             rest == Append(Below, f)
  <1>1. stack # <<>> /\ Top.do = "hook" /\ heard' = heard
    BY DEF Hook, Doing, Top
  <1>2. f \in Frame
    BY <1>1, TopOf DEF Frame, Kinds
  <1>3. IsReplace(Frame, stack, f, rest)
    BY <1>1, <1>2, ReplacesTop
  <1>4. \/ (Top.event = "stop" \/ Top.c \in Hooked) /\ Runs(rest)
        \/ stack' = rest /\ UNCHANGED <<placed, comp, tracked, observer, records, acts, inside>>
    BY DEF Hook
  <1>5. Ran(stack, rest)
    BY <1>1, <1>3, TopOf DEF Ran, IsReplace
  <1>6. rest \in Seq(Frame)
    BY <1>3 DEF IsReplace
  <1> HIDE DEF rest
  <1>7. /\ Typed(placed, comp, tracked, observer, records, stack, acts, inside) /\ heard \in HeardMaps
        /\ Holds(placed, comp, tracked, observer, records, inside, stack, heard)
    BY InvIs, Zenon
  <1>8. Typed(placed, comp, tracked, observer, records, rest, acts, inside) /\ ToSet(tracked) \subseteq Comps
    BY <1>6, <1>7 DEF Typed, ToSet
  <1>9. Holds(placed, comp, tracked, observer, records, inside, rest, heard)
    BY <1>5, <1>7, <1>8, RanHolds, Zenon
  <1>10. /\ Typed(placed', comp', tracked', observer', records', stack', acts', inside')
         /\ Holds(placed', comp', tracked', observer', records', inside', stack', heard)
    <2>1. CASE stack' = rest /\ UNCHANGED <<placed, comp, tracked, observer, records, acts, inside>>
      BY <1>8, <1>9, <2>1
    <2>2. CASE (Top.event = "stop" \/ Top.c \in Hooked) /\ Runs(rest)
      <3>1. Shape(stack) /\ Listening(comp, stack) /\ Turns(comp, inside, stack)
        BY <1>7, Zenon DEF Holds, Sound
      <3>2. stack[Len(stack)].event = "stop" \/ stack[Len(stack)].c \in Hooked
        BY <1>1, <2>2, TopOf
      <3>3. Room(comp, rest)
        BY <1>5, <3>1, <3>2, RanRoom, Zenon
      <3> QED BY <1>8, <1>9, <2>2, <3>3, RunsKeep, Zenon
    <2> QED BY <1>4, <2>1, <2>2
  <1> QED BY <1>1, <1>7, <1>10, InvIs, Zenon

LEMMA TriggeredSound ==
  ASSUME NEW cm, NEW st, NEW cm2, NEW tt, NEW c, NEW e, NEW ins, NEW he,
         Sound(cm, ins, st, he), Triggered(cm, st, cm2, tt, c, e)
  PROVE  Sound(cm2, ins, tt, he) /\ SameBottom(st, tt) /\ SameFlags(cm, cm2)
  <1>1. /\ Shape(st) /\ Listening(cm, st) /\ Turns(cm, ins, st) /\ Marked(cm, ins, st) /\ Hearing(cm, ins, st, he)
    BY Zenon DEF Sound
  <1>2. Shape(tt) /\ SameBottom(st, tt)
    BY <1>1, TriggeredShape, Zenon
  <1>3. Listening(cm2, tt)
    BY <1>1, TriggeredListening, Zenon
  <1>4. Turns(cm2, ins, tt)
    BY <1>1, TriggeredTurns, Zenon
  <1>5. Marked(cm2, ins, tt)
    BY <1>1, TriggeredMarked, Zenon
  <1>6. Hearing(cm2, ins, tt, he)
    BY <1>1, TriggeredHearing, Zenon
  <1>7. SameFlags(cm, cm2)
    BY DEF Triggered, Marks
  <1> QED BY <1>2, <1>3, <1>4, <1>5, <1>6, <1>7, Zenon DEF Sound

LEMMA TriggerKeeps ==
  ASSUME IInv, Trigger
  PROVE  IInv'
  <1> DEFINE c == Top.c
             e == Top.event
             f == Step("tell", c, e, comp[c].subs[e])
  <1>1. /\ stack # <<>> /\ Top.do = "trigger" /\ comp' = [comp EXCEPT ![c].marks = @ \cup {e}]
        /\ stack' = Append(Below, f)
        /\ UNCHANGED <<placed, tracked, observer, records, heard, acts, inside>>
    BY DEF Trigger, Doing, Top, Self
  <1>2. /\ Typed(placed, comp, tracked, observer, records, stack, acts, inside) /\ heard \in HeardMaps
        /\ Holds(placed, comp, tracked, observer, records, inside, stack, heard)
    BY InvIs, Zenon
  <1>3. comp \in [Comps -> Record] /\ ToSet(tracked) \subseteq Comps
    BY <1>2 DEF Typed, ToSet
  <1>4. c \in Comps /\ e \in Events
    BY <1>1, TopOf DEF FrameOK
  <1>5. f \in Frame
    <2>1. comp[c].subs[e] \in Seq(Listeners)
      BY <1>3, <1>4 DEF Record
    <2>2. comp[c].subs[e] \in Seq(Listeners \cup Comps)
      BY <2>1, SeqMonotonic
    <2> QED BY <1>4, <2>2 DEF Step, Frame, Kinds
  <1>6. IsReplace(Frame, stack, f, stack')
    BY <1>1, <1>5, ReplacesTop
  <1>7. Marks(comp, comp', c, e)
    <2> DEFINE r == [comp[c] EXCEPT !.marks = @ \cup {e}]
    <2>1. comp[c] \in Record
      BY <1>3, <1>4
    <2>2. /\ r \in Record /\ r.marks = comp[c].marks \cup {e} /\ r.subs = comp[c].subs
          /\ r.attached = comp[c].attached /\ r.checked = comp[c].checked
          /\ r.tracking = comp[c].tracking /\ r.stopped = comp[c].stopped
      BY <1>4, <2>1 DEF Record
    <2>3. comp' = [comp EXCEPT ![c] = r]
      BY <1>1
    <2> HIDE DEF r
    <2>4. comp' \in [Comps -> Record] /\ comp'[c] = r /\ \A d \in Comps : d # c => comp'[d] = comp[d]
      BY <1>3, <1>4, <2>2, <2>3
    <2> QED BY <1>3, <2>2, <2>4 DEF Marks, SameFlags, SameWants
  <1>8. Triggered(comp, stack, comp', stack', c, e)
    BY <1>1, <1>4, <1>6, <1>7, TopOf DEF Triggered, IsReplace
  <1> HIDE DEF c, e
  <1>9. Sound(comp', inside, stack', heard) /\ SameBottom(stack, stack') /\ SameFlags(comp, comp')
    <2>1. Sound(comp, inside, stack, heard)
      BY <1>2, Zenon DEF Holds
    <2> QED BY <1>8, <2>1, TriggeredSound, Zenon
  <1>10. Holds(placed, comp', tracked, observer, records, inside, stack', heard)
    BY <1>2, <1>3, <1>9, BottomHolds, Zenon
  <1>11. Typed(placed, comp', tracked, observer, records, stack', acts, inside)
    BY <1>2, <1>6, <1>7 DEF Typed, IsReplace, Marks
  <1> QED BY <1>1, <1>2, <1>10, <1>11, InvIs

LEMMA SpentHolds ==
  ASSUME NEW pl, NEW cm, NEW tr, ToSet(tr) \subseteq Comps, NEW ob, NEW rc, NEW ins, NEW st, NEW tt, NEW he,
         Holds(pl, cm, tr, ob, rc, ins, st, he), Done(st, tt), Spent(st[Len(st)]), Quiet(st[Len(st)]),
         st[Len(st)].do # "watch"
  PROVE  Holds(pl, cm, tr, ob, rc, ins, tt, he)
  <1>1. /\ Shape(st) /\ Listening(cm, st) /\ Turns(cm, ins, st) /\ Marked(cm, ins, st) /\ Hearing(cm, ins, st, he)
    BY Zenon DEF Holds, Sound
  <1>2. Shape(tt)
    BY <1>1, DoneShape, Zenon
  <1>3. Listening(cm, tt)
    BY <1>1, SpentListening, Zenon
  <1>4. Turns(cm, ins, tt) /\ Marked(cm, ins, tt)
    BY <1>1, SpentTurns, SpentMarked, Zenon
  <1>5. Hearing(cm, ins, tt, he)
    BY <1>1, SpentHearing, Zenon
  <1>6. SameBottom(st, tt)
    BY <1>1, DoneBottom, Zenon
  <1>7. Sound(cm, ins, tt, he)
    BY <1>2, <1>3, <1>4, <1>5, Zenon DEF Sound
  <1> QED BY <1>6, <1>7, FlagsStay, BottomHolds, Zenon

LEMMA ToldHolds ==
  ASSUME NEW pl, NEW cm, NEW tr, ToSet(tr) \subseteq Comps, NEW ob, NEW rc, NEW ins, NEW st, NEW tt, NEW he, NEW he2,
         NEW c, NEW e, NEW l,
         Holds(pl, cm, tr, ob, rc, ins, st, he), Told(st, tt, c, e, l), Heard(he, he2, c, l, e)
  PROVE  Holds(pl, cm, tr, ob, rc, ins, tt, he2) /\ Room(cm, tt)
  <1>1. /\ Shape(st) /\ Listening(cm, st) /\ Turns(cm, ins, st) /\ Marked(cm, ins, st) /\ Hearing(cm, ins, st, he)
    BY Zenon DEF Holds, Sound
  <1>2. Shape(tt) /\ SameBottom(st, tt)
    BY <1>1, ToldShape, Zenon
  <1>3. Listening(cm, tt)
    BY <1>1, ToldListening, Zenon
  <1>4. Turns(cm, ins, tt)
    BY <1>1, ToldTurns, Zenon
  <1>5. Marked(cm, ins, tt)
    BY <1>1, ToldMarked, Zenon
  <1>6. Hearing(cm, ins, tt, he2)
    BY <1>1, ToldHearing, Zenon
  <1>7. Sound(cm, ins, tt, he2)
    BY <1>2, <1>3, <1>4, <1>5, <1>6, Zenon DEF Sound
  <1>8. Holds(pl, cm, tr, ob, rc, ins, tt, he2)
    BY <1>2, <1>7, FlagsStay, BottomHolds, Zenon
  <1>9. Room(cm, tt)
    <2>0. /\ DOMAIN tt = DOMAIN st /\ Len(st) \in DOMAIN st /\ Len(tt) = Len(st)
          /\ \A i \in DOMAIN st : i # Len(st) => tt[i] = st[i]
          /\ tt[Len(st)].do \in {"tell", "call"} /\ tt[Len(st)].c = c
          /\ tt[Len(st)].do = st[Len(st)].do
      BY <1>1, ToldFrames
    <2>1. /\ cm[c].tracking
          /\ st[Len(st)].do = "call" => tt[Len(st)].left = <<>>
      BY <1>1, ToldLeft
    <2>2. \A i \in DOMAIN tt : tt[i].do # "hook"
      BY <1>1, <2>0 DEF Shape, HooksOnTop
    <2>3. \A i \in DOMAIN tt : tt[i].do = "call" => tt[i].left = <<>>
      BY <1>1, <2>0, <2>1 DEF Listening, CallsOne
    <2>4. \A d \in Comps : \A i \in DOMAIN tt : Moving(tt[i], d) => cm[d].tracking
      <3> SUFFICES ASSUME NEW d \in Comps, NEW i \in DOMAIN tt, Moving(tt[i], d)
                   PROVE  cm[d].tracking
        OBVIOUS
      <3>1. CASE i = Len(st)
        BY <2>0, <2>1, <3>1 DEF Moving
      <3>2. CASE i # Len(st)
        BY <1>1, <2>0, <3>2 DEF Turns, TurnTracks
      <3> QED BY <3>1, <3>2
    <2> QED BY <2>0, <2>2, <2>3, <2>4 DEF Room, Pausable
  <1> QED BY <1>8, <1>9

LEMMA TellKeeps ==
  ASSUME IInv, Tell
  PROVE  IInv'
  <1> DEFINE c == Top.c
             e == Top.event
             l == Head(Top.left)
             f == [Top EXCEPT !.left = Tail(@)]
             rest == Append(Below, f)
  <1>1. /\ stack # <<>> /\ Top.do \in {"tell", "call"}
        /\ \/ /\ Top.left = <<>> /\ stack' = Below
              /\ UNCHANGED <<placed, comp, tracked, observer, records, heard, acts, inside>>
           \/ Top.left # <<>> /\ Hear(c, l, e) /\ Runs(rest)
    BY DEF Tell, Doing, Top
  <1>2. /\ Typed(placed, comp, tracked, observer, records, stack, acts, inside) /\ heard \in HeardMaps
        /\ Holds(placed, comp, tracked, observer, records, inside, stack, heard)
    BY InvIs, Zenon
  <1>3. ToSet(tracked) \subseteq Comps
    BY <1>2 DEF Typed, ToSet
  <1>4. Top = stack[Len(stack)] /\ Len(stack) > 0
    BY <1>1, TopOf
  <1>5. CASE /\ Top.left = <<>> /\ stack' = Below
             /\ UNCHANGED <<placed, comp, tracked, observer, records, heard, acts, inside>>
    <2>1. Below \in Seq(Frame) /\ Done(stack, Below)
      BY <1>1, DoneTop
    <2>2. Spent(stack[Len(stack)]) /\ Quiet(stack[Len(stack)]) /\ stack[Len(stack)].do # "watch"
      BY <1>1, <1>4, <1>5 DEF Spent, Quiet
    <2>3. Holds(placed, comp, tracked, observer, records, inside, Below, heard)
      BY <1>2, <1>3, <2>1, <2>2, SpentHolds, Zenon
    <2>4. Typed(placed, comp, tracked, observer, records, Below, acts, inside)
      BY <1>2, <2>1 DEF Typed
    <2> QED BY <1>2, <1>5, <2>3, <2>4, InvIs
  <1>6. CASE Top.left # <<>> /\ Hear(c, l, e) /\ Runs(rest)
    <2>1. c \in Comps /\ e \in Events /\ Top.left \in Seq(Listeners) /\ Top \in Frame
      BY <1>1, TopOf DEF FrameOK
    <2>2. l \in Listeners /\ f \in Frame
      <3>1. Tail(Top.left) \in Seq(Listeners) /\ l \in Listeners
        BY <1>6, <2>1, TailElements
      <3>2. Tail(Top.left) \in Seq(Listeners \cup Comps)
        BY <3>1, SeqMonotonic
      <3> QED BY <2>1, <3>1, <3>2 DEF Frame
    <2>3. IsReplace(Frame, stack, f, rest)
      BY <1>1, <2>2, ReplacesTop
    <2>4. Told(stack, rest, c, e, l)
      BY <1>1, <1>4, <1>6, <2>3 DEF Told, IsReplace
    <2>5. Heard(heard, heard', c, l, e) /\ heard' \in HeardMaps
      <3> DEFINE new == LastTwo(Append(heard[c][l], e))
      <3>1. heard' = [heard EXCEPT ![c][l] = new]
        BY <1>6 DEF Hear, LastTwo
      <3>2. \A d \in Comps : heard[d] \in [Listeners -> Seq(Events)]
        BY <1>2 DEF HeardMaps
      <3>3. new \in Seq(Events)
        <4>1. Append(heard[c][l], e) \in Seq(Events) /\ Append(heard[c][l], e) # <<>>
          BY <2>1, <2>2, <3>2, AppendElements
        <4>2. Tail(Append(heard[c][l], e)) \in Seq(Events)
          BY <4>1, TailElements
        <4> QED BY <4>1, <4>2 DEF LastTwo
      <3> HIDE DEF new
      <3>4. [heard[c] EXCEPT ![l] = new] \in [Listeners -> Seq(Events)]
        BY <2>1, <2>2, <3>2, <3>3
      <3>5. heard' = [heard EXCEPT ![c] = [heard[c] EXCEPT ![l] = new]]
        BY <3>1
      <3>6. heard' \in HeardMaps
        BY <1>2, <2>1, <3>4, <3>5 DEF HeardMaps
      <3>7. heard'[c][l] = new /\ \A d \in Comps : \A k \in Listeners : d # c \/ k # l => heard'[d][k] = heard[d][k]
        BY <1>2, <2>1, <2>2, <3>2, <3>5 DEF HeardMaps
      <3> QED BY <3>6, <3>7 DEF Heard, new
    <2>6. rest \in Seq(Frame)
      BY <2>3 DEF IsReplace
    <2> HIDE DEF c, e, l, f, rest
    <2>7. Holds(placed, comp, tracked, observer, records, inside, rest, heard') /\ Room(comp, rest)
      BY <1>2, <1>3, <2>4, <2>5, ToldHolds, Zenon
    <2>8. Typed(placed, comp, tracked, observer, records, rest, acts, inside)
      BY <1>2, <2>6 DEF Typed
    <2>9. /\ Typed(placed', comp', tracked', observer', records', stack', acts', inside')
          /\ Holds(placed', comp', tracked', observer', records', inside', stack', heard')
      BY <1>6, <2>7, <2>8, RunsKeep, Zenon
    <2> QED BY <2>5, <2>9, InvIs, Zenon
  <1> QED BY <1>1, <1>5, <1>6

LEMMA RegisteredSound ==
  ASSUME NEW cm, NEW st, NEW cm2, NEW tt, NEW c, NEW e, NEW l, NEW ins, NEW he,
         Sound(cm, ins, st, he), Registered(cm, st, cm2, tt, c, e, l)
  PROVE  Sound(cm2, ins, tt, he) /\ SameBottom(st, tt) /\ SameFlags(cm, cm2)
  <1>1. /\ Shape(st) /\ Listening(cm, st) /\ Turns(cm, ins, st) /\ Marked(cm, ins, st) /\ Hearing(cm, ins, st, he)
    BY Zenon DEF Sound
  <1>2. Shape(tt) /\ SameBottom(st, tt)
    BY <1>1, RegisteredShape, Zenon
  <1>3. Listening(cm2, tt)
    BY <1>1, RegisteredListening, Zenon
  <1>4. Turns(cm2, ins, tt)
    BY <1>1, RegisteredTurns, Zenon
  <1>5. Marked(cm2, ins, tt)
    BY <1>1, RegisteredMarked, Zenon
  <1>6. Hearing(cm2, ins, tt, he)
    BY <1>1, RegisteredHearing, Zenon
  <1>7. SameFlags(cm, cm2)
    BY DEF Registered
  <1> QED BY <1>2, <1>3, <1>4, <1>5, <1>6, <1>7, Zenon DEF Sound

LEMMA RegisterKeeps ==
  ASSUME IInv, Register
  PROVE  IInv'
  <1> DEFINE c == Top.c
             e == Top.event
             f == [Top EXCEPT !.do = "call"]
  <1>1. /\ stack # <<>> /\ Top.do = "register" /\ comp' = [comp EXCEPT ![c].subs[e] = @ \o Top.left]
        /\ stack' = IF e \in comp[c].marks THEN Append(Below, f) ELSE Below
        /\ UNCHANGED <<placed, tracked, observer, records, heard, acts, inside>>
    BY DEF Register, Doing, Top, Self
  <1>2. /\ Typed(placed, comp, tracked, observer, records, stack, acts, inside) /\ heard \in HeardMaps
        /\ Holds(placed, comp, tracked, observer, records, inside, stack, heard)
    BY InvIs, Zenon
  <1>3. comp \in [Comps -> Record] /\ ToSet(tracked) \subseteq Comps
    BY <1>2 DEF Typed, ToSet
  <1>4. /\ c \in Comps /\ e \in Events /\ Top \in Frame /\ Top = stack[Len(stack)] /\ Len(stack) > 0
        /\ \E l \in Listeners : Top.left = <<l>>
    BY <1>1, TopOf DEF FrameOK
  <1>5. PICK l \in Listeners : Top.left = <<l>>
    BY <1>4
  <1>6. f \in Frame /\ Below \in Seq(Frame) /\ Done(stack, Below)
    BY <1>1, <1>4, DoneTop DEF Frame, Kinds
  <1>7. /\ Keeps(stack, Len(stack) - 1, stack') /\ stack' \in Seq(Frame)
        /\ \/ e \notin comp[c].marks /\ Len(stack') = Len(stack) - 1
           \/ e \in comp[c].marks /\ Len(stack') = Len(stack) /\ stack'[Len(stack)] = f
    <2>1. CASE e \in comp[c].marks
      <3>1. IsReplace(Frame, stack, f, stack')
        BY <1>1, <1>6, <2>1, ReplacesTop
      <3> QED BY <2>1, <3>1, Zenon DEF IsReplace
    <2>2. CASE e \notin comp[c].marks
      BY <1>1, <1>6, <2>2 DEF Done
    <2> QED BY <2>1, <2>2
  <1> DEFINE s == [comp[c].subs EXCEPT ![e] = Append(@, l)]
             r == [comp[c] EXCEPT !.subs = s]
  <1>8. comp[c] \in Record /\ comp[c].subs \in [Events -> Seq(Listeners)]
    BY <1>3, <1>4 DEF Record
  <1>9. comp' = [comp EXCEPT ![c] = r]
    <2>1. comp[c].subs[e] \in Seq(Listeners)
      BY <1>4, <1>8
    <2>2. Append(comp[c].subs[e], l) = comp[c].subs[e] \o <<l>>
      BY <2>1, AppendIsConcat
    <2> QED BY <1>1, <1>5, <2>2
  <1>10. /\ s \in [Events -> Seq(Listeners)] /\ s[e] = Append(comp[c].subs[e], l)
         /\ \A x \in Events : x # e => s[x] = comp[c].subs[x]
    <2>1. Append(comp[c].subs[e], l) \in Seq(Listeners)
      BY <1>4, <1>8, AppendProperties
    <2> QED BY <1>4, <1>8, <2>1
  <1> HIDE DEF s
  <1>11. /\ r \in Record /\ r.subs = s /\ r.marks = comp[c].marks
         /\ r.attached = comp[c].attached /\ r.checked = comp[c].checked
         /\ r.tracking = comp[c].tracking /\ r.stopped = comp[c].stopped
    BY <1>8, <1>10 DEF Record
  <1> HIDE DEF r
  <1>12. comp' \in [Comps -> Record] /\ comp'[c] = r /\ \A d \in Comps : d # c => comp'[d] = comp[d]
    BY <1>3, <1>4, <1>9, <1>11
  <1>13. SameFlags(comp, comp') /\ \A d \in Comps : comp'[d].marks = comp[d].marks
    BY <1>11, <1>12 DEF SameFlags, SameWants
  <1>14. /\ \A d \in Comps : \A x \in Events : d # c \/ x # e => comp'[d].subs[x] = comp[d].subs[x]
         /\ comp'[c].subs[e] = Append(comp[c].subs[e], l)
    BY <1>10, <1>11, <1>12
  <1>15. Registered(comp, stack, comp', stack', c, e, l)
    BY <1>1, <1>3, <1>4, <1>5, <1>7, <1>12, <1>13, <1>14 DEF Registered
  <1> HIDE DEF c, e, f
  <1>16. Sound(comp', inside, stack', heard) /\ SameBottom(stack, stack') /\ SameFlags(comp, comp')
    <2>1. Sound(comp, inside, stack, heard)
      BY <1>2, Zenon DEF Holds
    <2> QED BY <1>15, <2>1, RegisteredSound, Zenon
  <1>17. Holds(placed, comp', tracked, observer, records, inside, stack', heard)
    BY <1>2, <1>3, <1>16, BottomHolds, Zenon
  <1>18. Typed(placed, comp', tracked, observer, records, stack', acts, inside)
    BY <1>2, <1>7, <1>12 DEF Typed
  <1> QED BY <1>1, <1>2, <1>17, <1>18, InvIs

LEMMA TrackIs ==
  ASSUME NEW c \in Comps, tracked \in Seq(Comps), NoRepeats(tracked), Track(c)
  PROVE  /\ tracked' \in Seq(Comps) /\ NoRepeats(tracked') /\ ToSet(tracked') = ToSet(tracked) \cup {c}
         /\ observer' = TRUE /\ records' = records
  BY TrackElements DEF Track

LEMMA WatchKeeps ==
  ASSUME IInv, Watch
  PROVE  IInv'
  <1> DEFINE c == Top.c
             r == [comp[c] EXCEPT !.tracking = TRUE]
             cm == [comp EXCEPT ![c] = r]
  <1>1. /\ stack # <<>> /\ Top.do = "watch" /\ UNCHANGED <<placed, heard, acts, inside>>
        /\ \/ Newly(comp, c) /\ Track(c) /\ Check(c, r, Below)
           \/ ~Newly(comp, c) /\ comp' = [comp EXCEPT ![c].tracking = TRUE] /\ stack' = Below
              /\ UNCHANGED <<tracked, observer, records>>
    BY DEF Watch, Doing, Top, Self, Newly
  <1>2. /\ Typed(placed, comp, tracked, observer, records, stack, acts, inside) /\ heard \in HeardMaps
        /\ Holds(placed, comp, tracked, observer, records, inside, stack, heard)
    BY InvIs, Zenon
  <1>3. /\ comp \in [Comps -> Record] /\ tracked \in Seq(Comps) /\ observer \in BOOLEAN /\ records \in BOOLEAN
        /\ placed \subseteq Comps /\ acts \in 0 .. MaxActs /\ inside \subseteq Comps \X {"stopped", "moved"}
    BY <1>2 DEF Typed
  <1>4. c \in Comps /\ Top = stack[Len(stack)]
    BY <1>1, TopOf DEF FrameOK
  <1>5. Below \in Seq(Frame) /\ Done(stack, Below)
    BY <1>1, DoneTop
  <1>6. /\ r \in Record /\ r.tracking = TRUE /\ r.attached = comp[c].attached /\ r.checked = comp[c].checked
        /\ r.stopped = comp[c].stopped /\ r.marks = comp[c].marks /\ r.subs = comp[c].subs
    BY <1>3, <1>4 DEF Record
  <1> HIDE DEF r
  <1>7. cm \in [Comps -> Record] /\ cm[c] = r /\ \A d \in Comps : d # c => cm[d] = comp[d]
    BY <1>3, <1>4, <1>6
  <1>8. [cm EXCEPT ![c] = Checked(cm[c], c)] = [comp EXCEPT ![c] = Checked(r, c)]
    BY <1>3, <1>4, <1>7
  <1> HIDE DEF cm
  <1>9. Watches(comp, stack, cm, Below, c)
    <2>1. Notes(comp, cm)
      BY <1>6, <1>7 DEF Notes
    <2>2. \A d \in Comps : cm[d].checked = comp[d].checked /\ (d # c => cm[d].tracking = comp[d].tracking)
      BY <1>6, <1>7
    <2> QED BY <1>1, <1>4, <1>5, <1>6, <1>7, <2>1, <2>2, TopOf DEF Watches, Atop
  <1>10. cm[c].attached \in BOOLEAN /\ cm[c].tracking
    BY <1>4, <1>6, <1>7 DEF Record
  <1>11. /\ Sound(comp, inside, stack, heard) /\ Observed(comp, tracked, observer, records, inside, stack)
         /\ Current(placed, comp, tracked, records, inside, stack)
    BY <1>2, Zenon DEF Holds
  <1>12. /\ Adding(Newly(comp, c), c, tracked, observer, tracked', observer')
         /\ tracked' \in Seq(Comps) /\ records' = records /\ observer' \in BOOLEAN
    <2>1. CASE Newly(comp, c)
      <3>1. NoRepeats(tracked)
        BY <1>11, Zenon DEF Observed
      <3> QED BY <1>1, <1>3, <1>4, <2>1, <3>1, TrackIs DEF Adding
    <2>2. CASE ~Newly(comp, c)
      BY <1>1, <1>3, <2>2 DEF Adding
    <2> QED BY <2>1, <2>2
  <1> HIDE DEF c
  <1>13. /\ Sound(cm, inside, Below, heard) /\ SameBottom(stack, Below)
         /\ ~comp[c].tracking => \A to : MayTurn(cm, Below, inside, c, to)
    BY <1>9, <1>11, WatchSound
  <1>14. /\ Observed(cm, tracked', observer', records, inside, Below)
         /\ CurrentBut(c, placed, cm, tracked', records, inside, Below)
         /\ ~Newly(comp, c) => Current(placed, cm, tracked', records, inside, Below)
    <2>1. tracked \in Seq(Comps) /\ observer \in BOOLEAN /\ records \in BOOLEAN /\ c \in Comps
      BY <1>3, <1>4
    <2>2. Adding(Newly(comp, c), c, tracked, observer, tracked', observer') /\ SameBottom(stack, Below)
      BY <1>12, <1>13
    <2> QED BY <1>9, <1>11, <2>1, <2>2, WatchObserved, Zenon
  <1>15. CASE /\ ~Newly(comp, c) /\ comp' = [comp EXCEPT ![c].tracking = TRUE] /\ stack' = Below
              /\ UNCHANGED <<tracked, observer, records>>
    <2>1. comp' = cm
      BY <1>15 DEF cm, r
    <2>2. Holds(placed, cm, tracked, observer, records, inside, Below, heard)
      BY <1>13, <1>14, <1>15 DEF Holds
    <2>3. Typed(placed, cm, tracked, observer, records, Below, acts, inside)
      BY <1>3, <1>5, <1>7 DEF Typed
    <2> QED BY <1>1, <1>2, <1>15, <2>1, <2>2, <2>3, InvIs
  <1>16. CASE Newly(comp, c) /\ Track(c) /\ Check(c, r, Below)
    <2>1. Checks(cm, Below, comp', stack', c)
      BY <1>7, <1>8, <1>16 DEF Check, Checks
    <2>2. \A to : MayTurn(cm, Below, inside, c, to)
      BY <1>13, <1>16 DEF Newly
    <2>3. PICK to \in BOOLEAN : cm[c].attached = ~to
      BY <1>10
    <2>4. ToSet(tracked') \subseteq Comps
      BY <1>12 DEF ToSet
    <2>5. MayTurn(cm, Below, inside, c, to)
      BY <2>2
    <2>6. /\ comp' \in [Comps -> Record] /\ stack' \in Seq(Frame)
          /\ Sound(comp', inside, stack', heard) /\ Observed(comp', tracked', observer', records, inside, stack')
          /\ Current(placed, comp', tracked', records, inside, stack')
      BY <1>4, <1>5, <1>7, <1>13, <1>14, <2>1, <2>3, <2>4, <2>5, CheckKeeps, Zenon
    <2>7. Holds(placed, comp', tracked', observer', records, inside, stack', heard)
      BY <2>6, Zenon DEF Holds
    <2>8. Typed(placed, comp', tracked', observer', records, stack', acts, inside)
      BY <1>3, <1>12, <2>6 DEF Typed
    <2> QED BY <1>1, <1>2, <1>12, <2>7, <2>8, InvIs
  <1> QED BY <1>1, <1>15, <1>16

LEMMA TrackAfterKeeps ==
  ASSUME IInv, TrackAfter
  PROVE  IInv'
  <1> DEFINE c == Top.c
  <1>1. /\ stack # <<>> /\ Top.do = "track" /\ stack' = Below /\ UNCHANGED <<placed, comp, heard, acts, inside>>
        /\ IF comp[c].tracking THEN Track(c) ELSE UNCHANGED <<tracked, observer, records>>
    BY DEF TrackAfter, Doing, Top, Self
  <1>2. /\ Typed(placed, comp, tracked, observer, records, stack, acts, inside) /\ heard \in HeardMaps
        /\ Holds(placed, comp, tracked, observer, records, inside, stack, heard)
    BY InvIs, Zenon
  <1>3. /\ comp \in [Comps -> Record] /\ tracked \in Seq(Comps) /\ observer \in BOOLEAN /\ records \in BOOLEAN
        /\ placed \subseteq Comps /\ acts \in 0 .. MaxActs /\ inside \subseteq Comps \X {"stopped", "moved"}
    BY <1>2 DEF Typed
  <1>4. c \in Comps /\ Top = stack[Len(stack)]
    BY <1>1, TopOf DEF FrameOK
  <1>5. Below \in Seq(Frame) /\ Done(stack, Below)
    BY <1>1, DoneTop
  <1>6. /\ Sound(comp, inside, stack, heard) /\ Observed(comp, tracked, observer, records, inside, stack)
        /\ Current(placed, comp, tracked, records, inside, stack)
    BY <1>2, Zenon DEF Holds
  <1>7. /\ Shape(stack) /\ Listening(comp, stack) /\ Turns(comp, inside, stack)
        /\ Marked(comp, inside, stack) /\ Hearing(comp, inside, stack, heard)
    BY <1>6, Zenon DEF Sound
  <1>8. /\ Adding(comp[c].tracking, c, tracked, observer, tracked', observer')
        /\ tracked' \in Seq(Comps) /\ records' = records /\ observer' \in BOOLEAN
    <2>1. CASE comp[c].tracking
      <3>1. NoRepeats(tracked)
        BY <1>6, Zenon DEF Observed
      <3> QED BY <1>1, <1>3, <1>4, <2>1, <3>1, TrackIs DEF Adding
    <2>2. CASE ~comp[c].tracking
      BY <1>1, <1>3, <2>2 DEF Adding
    <2> QED BY <2>1, <2>2
  <1>9. Spent(stack[Len(stack)]) /\ stack[Len(stack)].do # "watch" /\ Atop(stack, "track", c)
    BY <1>1, <1>4, TopOf DEF Spent, Atop
  <1> HIDE DEF c
  <1>10. Shape(Below) /\ Turns(comp, inside, Below)
    BY <1>5, <1>7, DoneShape, SpentTurns
  <1>11. Listening(comp, Below)
    BY <1>5, <1>7, <1>9, SpentListening
  <1>12. Marked(comp, inside, Below) /\ Hearing(comp, inside, Below, heard)
    BY <1>5, <1>7, <1>9, SpentMarked, SpentHearing
  <1>13. Observed(comp, tracked', observer', records, inside, Below) /\ Current(placed, comp, tracked', records, inside, Below)
    <2>1. tracked \in Seq(Comps) /\ observer \in BOOLEAN /\ records \in BOOLEAN
      BY <1>3
    <2>2. Adding(comp[c].tracking, c, tracked, observer, tracked', observer') /\ Atop(stack, "track", c)
      BY <1>8, <1>9
    <2> QED BY <1>5, <1>6, <1>7, <2>1, <2>2, TracksAfter, Zenon
  <1>14. Holds(placed, comp, tracked', observer', records, inside, Below, heard)
    BY <1>10, <1>11, <1>12, <1>13, Zenon DEF Holds, Sound
  <1>15. Typed(placed, comp, tracked', observer', records, Below, acts, inside)
    BY <1>3, <1>5, <1>8 DEF Typed
  <1> QED BY <1>1, <1>2, <1>8, <1>14, <1>15, InvIs

LEMMA StopSelfKeeps ==
  ASSUME IInv, StopSelf
  PROVE  IInv'
  <1> DEFINE c == Top.c
             u == [Top EXCEPT !.do = "untrack"]
             h == Changing(c, FALSE)
             n == Len(stack)
  <1>1. /\ stack # <<>> /\ Top.do = "stop" /\ UNCHANGED <<placed, tracked, observer, records, heard, acts, inside>>
        /\ comp' = [comp EXCEPT ![c] =
             IF @.attached /\ ~@.stopped THEN Turned([@ EXCEPT !.stopped = TRUE], FALSE)
             ELSE [@ EXCEPT !.stopped = TRUE]]
        /\ comp[c].stopped => stack' = Below
        /\ ~comp[c].stopped /\ comp[c].attached => stack' = Below \o <<u, h>>
        /\ ~comp[c].stopped /\ ~comp[c].attached => stack' = Append(Below, u)
    BY DEF StopSelf, Doing, Top, Self
  <1>2. /\ Typed(placed, comp, tracked, observer, records, stack, acts, inside) /\ heard \in HeardMaps
        /\ Holds(placed, comp, tracked, observer, records, inside, stack, heard)
    BY InvIs, Zenon
  <1>3. comp \in [Comps -> Record] /\ ToSet(tracked) \subseteq Comps
    BY <1>2 DEF Typed, ToSet
  <1>4. /\ c \in Comps /\ Top \in Frame /\ Top = stack[n] /\ n > 0 /\ n \in Nat /\ n \in DOMAIN stack
        /\ stack \in Seq(Frame) /\ FrameOK(Top) /\ IsStack(stack)
    BY <1>1, TopOf, StackOf DEF FrameOK
  <1>5. u \in Frame /\ h \in Frame
    <2>1. u \in Frame
      BY <1>4 DEF Frame, Kinds
    <2>2. h \in Frame
      BY <1>4, EmptySeq DEF Changing, Step, Frame, Kinds, Events
    <2> QED BY <2>1, <2>2
  <1>6. Below \in Seq(Frame) /\ Done(stack, Below)
    BY <1>1, DoneTop
  <1>7. comp[c] \in Record
    BY <1>3, <1>4
  <1>8. /\ Sound(comp, inside, stack, heard) /\ Observed(comp, tracked, observer, records, inside, stack)
        /\ Current(placed, comp, tracked, records, inside, stack)
    BY <1>2, Zenon DEF Holds
  <1>9. ASSUME comp' \in [Comps -> Record], stack' \in Seq(Frame),
               Holds(placed, comp', tracked, observer, records, inside, stack', heard)
        PROVE  IInv'
    <2>1. Typed(placed, comp', tracked, observer, records, stack', acts, inside)
      BY <1>2, <1>9 DEF Typed
    <2> QED BY <1>1, <1>2, <1>9, <2>1, InvIs
  <1>10. CASE comp[c].stopped
    <2>1. [comp[c] EXCEPT !.stopped = TRUE] = comp[c]
      BY <1>7, <1>10 DEF Record
    <2>2. comp' = comp
      BY <1>1, <1>3, <1>4, <1>10, <2>1
    <2>3. Spent(stack[n]) /\ Quiet(stack[n]) /\ stack[n].do # "watch"
      BY <1>1, <1>4 DEF Spent, Quiet
    <2>4. Holds(placed, comp, tracked, observer, records, inside, Below, heard)
      BY <1>2, <1>3, <1>6, <2>3, SpentHolds, Zenon
    <2> QED BY <1>1, <1>3, <1>6, <1>9, <1>10, <2>2, <2>4
  <1>11. CASE ~comp[c].stopped /\ ~comp[c].attached
    <2> DEFINE r == [comp[c] EXCEPT !.stopped = TRUE]
    <2>1. /\ r \in Record /\ r.stopped /\ r.attached = comp[c].attached /\ r.marks = comp[c].marks
          /\ r.subs = comp[c].subs /\ r.checked = comp[c].checked /\ r.tracking = comp[c].tracking
      BY <1>7 DEF Record
    <2>2. comp' = [comp EXCEPT ![c] = r]
      BY <1>1, <1>11
    <2> HIDE DEF r
    <2>3. comp' \in [Comps -> Record] /\ comp'[c] = r /\ \A d \in Comps : d # c => comp'[d] = comp[d]
      BY <1>3, <1>4, <2>1, <2>2
    <2>4. IsReplace(Frame, stack, u, stack')
      BY <1>1, <1>5, <1>11, ReplacesTop
    <2>5. /\ IsStack(stack') /\ Len(stack') = Len(stack) /\ stack'[n] = u /\ stack' \in Seq(Frame)
          /\ \A i \in DOMAIN stack : i # n => stack'[i] = stack[i]
      BY <1>4, <2>4 DEF IsReplace, Keeps, IsStack
    <2>6. StopsSelf(comp, stack, comp', stack', c, n)
      <3>1. stack[n].do = "stop" /\ stack[n].c = c /\ stack'[n] = [stack[n] EXCEPT !.do = "untrack"]
        BY <1>1, <1>4, <2>5
      <3> QED BY <1>4, <1>11, <2>1, <2>3, <2>5, <3>1 DEF StopsSelf
    <2>7. CurrentBut(c, placed, comp, tracked, records, inside, stack)
      BY <1>8 DEF Current, CurrentBut
    <2> HIDE DEF c, n
    <2>8. Holds(placed, comp', tracked, observer, records, inside, stack', heard)
      BY <1>3, <1>8, <2>6, <2>7, StopsHold, Zenon
    <2> QED BY <1>9, <2>3, <2>5, <2>8
  <1>12. CASE ~comp[c].stopped /\ comp[c].attached
    <2> DEFINE r1 == Turned(comp[c], FALSE)
               r == Turned([comp[c] EXCEPT !.stopped = TRUE], FALSE)
               cm == [comp EXCEPT ![c] = r1]
               tt == Append(stack, h)
    <2>1. /\ r1 \in Record /\ r1.attached = FALSE /\ r1.stopped = comp[c].stopped
          /\ r1.marks = comp[c].marks \ {ChangeEvent(~FALSE)}
          /\ r1.subs = comp[c].subs /\ r1.checked = comp[c].checked /\ r1.tracking = comp[c].tracking
      BY <1>7 DEF Record, Turned, ChangeEvent
    <2>2. /\ r \in Record /\ r.attached = r1.attached /\ r.stopped = TRUE /\ r.marks = r1.marks
          /\ r.subs = r1.subs /\ r.checked = r1.checked /\ r.tracking = r1.tracking
      BY <1>7 DEF Record, Turned
    <2>3. comp' = [comp EXCEPT ![c] = r]
      BY <1>1, <1>12
    <2> HIDE DEF r, r1
    <2>4. cm \in [Comps -> Record] /\ cm[c] = r1 /\ \A d \in Comps : d # c => cm[d] = comp[d]
      BY <1>3, <1>4, <2>1
    <2> HIDE DEF cm
    <2>5. comp' \in [Comps -> Record] /\ comp'[c] = r /\ \A d \in Comps : d # c => comp'[d] = cm[d]
      BY <1>3, <1>4, <2>2, <2>3, <2>4
    <2>6. IsPush(Frame, stack, h, tt)
      BY <1>4, <1>5, Pushed
    <2> HIDE DEF tt
    <2>7. /\ Grows(stack, tt) /\ Len(tt) = n + 1 /\ tt[n + 1] = h /\ IsStack(tt)
          /\ \A i \in DOMAIN stack : tt[i] = stack[i]
      BY <1>4, <2>6 DEF IsPush, Grows, Keeps, IsStack
    <2>8. TurnsTo(comp, stack, cm, tt, c, FALSE)
      <3>1. SameWants(comp, cm) /\ \A d \in Comps : cm[d].subs = comp[d].subs
        BY <2>1, <2>4 DEF SameWants
      <3>2. \A d \in Comps : d # c => cm[d].attached = comp[d].attached /\ cm[d].marks = comp[d].marks
        BY <2>4
      <3>3. cm[c].attached = FALSE /\ cm[c].marks = comp[c].marks \ {ChangeEvent(~FALSE)}
        BY <2>1, <2>4
      <3>4. comp[c].attached = ~FALSE
        BY <1>7, <1>12 DEF Record
      <3> QED BY <1>3, <1>4, <1>12, <2>4, <2>7, <3>1, <3>2, <3>3, <3>4 DEF TurnsTo
    <2>9. IsLonger(Frame, Below, <<u, h>>, stack')
      <3>1. <<u, h>> \in Seq(Frame)
        <4>1. \A S : \A a, b \in S : <<a, b>> \in Seq(S)
          OBVIOUS
        <4> QED BY <1>5, <4>1, Zenon
      <3>2. IsLonger(Frame, Below, <<u, h>>, Below \o <<u, h>>)
        BY <1>6, <3>1, Longer, Zenon
      <3> QED BY <1>1, <1>12, <3>2
    <2>10. /\ stack' \in Seq(Frame) /\ IsStack(stack') /\ Len(stack') = n + 1
           /\ stack'[n] = u /\ stack'[n + 1] = h /\ \A i \in DOMAIN stack : i # n => stack'[i] = stack[i]
      <3>1. /\ stack' \in Seq(Frame) /\ Len(stack') = Len(Below) + Len(<<u, h>>) /\ Grows(Below, stack')
            /\ \A k \in DOMAIN <<u, h>> : stack'[Len(Below) + k] = <<u, h>>[k]
        BY <2>9, Zenon DEF IsLonger
      <3>2. Len(Below) = n - 1 /\ Keeps(stack, n - 1, Below)
        BY <1>6 DEF Done
      <3> HIDE DEF n, u, h
      <3>3. stack'[n] = u /\ stack'[n + 1] = h /\ Len(stack') = n + 1
        BY <1>4, <3>1, <3>2
      <3>4. IsStack(stack') /\ \A i \in DOMAIN stack : i # n => stack'[i] = stack[i]
        BY <1>4, <3>1, <3>2 DEF Grows, Keeps, IsStack, n
      <3> QED BY <3>1, <3>3, <3>4
    <2>11. StopsSelf(cm, tt, comp', stack', c, n)
      <3>1. tt[n].do = "stop" /\ tt[n].c = c /\ stack'[n] = [tt[n] EXCEPT !.do = "untrack"]
        BY <1>1, <1>4, <2>7, <2>10
      <3>2. n \in DOMAIN tt /\ \A i \in DOMAIN tt : i # n => stack'[i] = tt[i]
        <4>1. \A i \in DOMAIN tt : i \in DOMAIN stack \/ i = n + 1
          BY <1>4, <2>7 DEF IsStack
        <4>2. n \in DOMAIN tt
          BY <1>4, <2>7 DEF IsStack
        <4> QED BY <2>7, <2>10, <4>1, <4>2
      <3>3. /\ \A d \in Comps :
                 /\ comp'[d].attached = cm[d].attached /\ comp'[d].marks = cm[d].marks /\ comp'[d].subs = cm[d].subs
                 /\ comp'[d].checked = cm[d].checked /\ comp'[d].tracking = cm[d].tracking
                 /\ d # c => comp'[d].stopped = cm[d].stopped
            /\ comp'[c].stopped /\ ~cm[c].stopped /\ ~cm[c].attached
        BY <1>4, <1>12, <2>1, <2>2, <2>4, <2>5
      <3> QED BY <1>4, <2>7, <2>10, <3>1, <3>2, <3>3 DEF StopsSelf
    <2>12. Atop(stack, "stop", c)
      BY <1>1, <1>4 DEF Atop
    <2> HIDE DEF c, n
    <2>13. Holds(placed, comp', tracked, observer, records, inside, stack', heard)
      BY <1>2, <1>3, <1>4, <1>12, <2>8, <2>11, <2>12, AttachedStops, Zenon
    <2> QED BY <1>9, <2>5, <2>10, <2>13
  <1> QED BY <1>10, <1>11, <1>12

LEMMA StopUntracksKeeps ==
  ASSUME IInv, StopUntracks
  PROVE  IInv'
  <1> DEFINE c == Top.c
             f == [Top EXCEPT !.do = "hook"]
  <1>1. /\ stack # <<>> /\ Top.do = "untrack" /\ UNCHANGED <<placed, comp, heard, acts, inside>>
        /\ stack' = Append(Below, f) /\ tracked' = RemoveFirst(tracked, c)
        /\ observer' = (observer /\ tracked' # <<>>) /\ records' = (records /\ tracked' # <<>>)
    BY DEF StopUntracks, Doing, Top, Untrack, Keep
  <1>2. /\ Typed(placed, comp, tracked, observer, records, stack, acts, inside) /\ heard \in HeardMaps
        /\ Holds(placed, comp, tracked, observer, records, inside, stack, heard)
    BY InvIs, Zenon
  <1>3. comp \in [Comps -> Record] /\ tracked \in Seq(Comps) /\ observer \in BOOLEAN /\ records \in BOOLEAN
    BY <1>2 DEF Typed
  <1>4. c \in Comps /\ Top \in Frame /\ Top = stack[Len(stack)] /\ Len(stack) > 0
    BY <1>1, TopOf DEF FrameOK
  <1>5. f \in Frame
    BY <1>4 DEF Frame, Kinds
  <1>6. IsReplace(Frame, stack, f, stack')
    BY <1>1, <1>5, ReplacesTop
  <1>7. Untracks(stack, stack', c)
    BY <1>1, <1>4, <1>6 DEF Untracks, IsReplace
  <1>8. /\ Sound(comp, inside, stack, heard) /\ Observed(comp, tracked, observer, records, inside, stack)
        /\ Current(placed, comp, tracked, records, inside, stack)
    BY <1>2, Zenon DEF Holds
  <1>9. /\ Shape(stack) /\ Listening(comp, stack) /\ Turns(comp, inside, stack)
        /\ Marked(comp, inside, stack) /\ Hearing(comp, inside, stack, heard)
    BY <1>8, Zenon DEF Sound
  <1>10. tracked' \in Seq(Comps)
    <2>1. NoRepeats(tracked)
      BY <1>8, Zenon DEF Observed
    <2> QED BY <1>1, <1>3, <2>1, RemoveFirstElements
  <1>11. Kept(tracked, observer, records, tracked', observer', records') /\ tracked' = RemoveFirst(tracked, c)
    BY <1>1, <1>10 DEF Kept
  <1> HIDE DEF c, f
  <1>12. Shape(stack')
    BY <1>7, <1>9, UntracksShape, Zenon
  <1>13. Listening(comp, stack') /\ Turns(comp, inside, stack') /\ Marked(comp, inside, stack') /\ Hearing(comp, inside, stack', heard)
    BY <1>7, <1>9, UntracksKeep, Zenon
  <1>14. Observed(comp, tracked', observer', records', inside, stack') /\ Current(placed, comp, tracked', records', inside, stack')
    BY <1>3, <1>7, <1>8, <1>9, <1>11, UntracksObserved
  <1>15. Holds(placed, comp, tracked', observer', records', inside, stack', heard)
    BY <1>12, <1>13, <1>14, Zenon DEF Holds, Sound
  <1>16. Typed(placed, comp, tracked', observer', records', stack', acts, inside)
    BY <1>1, <1>2, <1>3, <1>6, <1>10 DEF Typed, IsReplace
  <1> QED BY <1>1, <1>2, <1>15, <1>16, InvIs

LEMMA BatchKeeps ==
  ASSUME IInv, Batch
  PROVE  IInv'
  <1> DEFINE at == SelectInSeq(tracked, LAMBDA d : d \notin ToSet(Top.left))
             c == tracked[at]
             g == [Top EXCEPT !.left = Append(@, c)]
             rest == Append(Below, g)
  <1>1. /\ stack # <<>> /\ Top.do = "batch" /\ UNCHANGED <<placed, heard, acts, inside>>
        /\ \/ at = 0 /\ Keep(tracked) /\ stack' = Below /\ UNCHANGED comp
           \/ at # 0 /\ comp[c].stopped /\ tracked' = RemoveFirst(tracked, c)
              /\ UNCHANGED <<comp, stack, observer, records>>
           \/ at # 0 /\ ~comp[c].stopped /\ Check(c, comp[c], rest) /\ UNCHANGED <<tracked, observer, records>>
    BY DEF Batch, Doing, Top
  <1>2. /\ Typed(placed, comp, tracked, observer, records, stack, acts, inside) /\ heard \in HeardMaps
        /\ Holds(placed, comp, tracked, observer, records, inside, stack, heard)
    BY InvIs, Zenon
  <1>3. /\ comp \in [Comps -> Record] /\ tracked \in Seq(Comps) /\ observer \in BOOLEAN /\ records \in BOOLEAN
        /\ placed \subseteq Comps /\ acts \in 0 .. MaxActs /\ inside \subseteq Comps \X {"stopped", "moved"}
    BY <1>2 DEF Typed
  <1>4. /\ Top \in Frame /\ FrameOK(Top) /\ Top = stack[Len(stack)] /\ Len(stack) > 0
        /\ Len(stack) \in DOMAIN stack /\ stack \in Seq(Frame)
    BY <1>1, TopOf
  <1>5. Top.c = None /\ Top.left \in Seq(Comps)
    BY <1>1, <1>4 DEF FrameOK
  <1>6. /\ Sound(comp, inside, stack, heard) /\ Observed(comp, tracked, observer, records, inside, stack)
        /\ Current(placed, comp, tracked, records, inside, stack)
    BY <1>2, Zenon DEF Holds
  <1>7. /\ Shape(stack) /\ Listening(comp, stack) /\ Turns(comp, inside, stack)
        /\ Marked(comp, inside, stack) /\ Hearing(comp, inside, stack, heard)
    BY <1>6, Zenon DEF Sound
  <1>8. /\ at = 0 => ToSet(tracked) \subseteq ToSet(Top.left)
        /\ at # 0 => at \in DOMAIN tracked /\ c \notin ToSet(Top.left) /\ c \in Comps
    <2> DEFINE I == {i \in 1 .. Len(tracked) : tracked[i] \notin ToSet(Top.left)}
    <2>1. at = IF I # {} THEN Min(I) ELSE 0
      BY Zenon DEF SelectInSeq
    <2>2. I # {} => Min(I) \in I
      <3> SUFFICES ASSUME I # {}
                   PROVE  Min(I) \in I
        OBVIOUS
      <3>1. \E x \in I : \A y \in I : x <= y
        <4>1. \E x \in I : \A y \in I : <<y, x>> \notin OpToRel(<, Nat)
          <5>1. I \subseteq Nat
            BY <1>3
          <5> QED BY <5>1, NatLessThanWellFounded, WFMin
        <4>2. I \subseteq Nat
          BY <1>3
        <4>3. PICK x \in I : \A y \in I : <<y, x>> \notin OpToRel(<, Nat)
          BY <4>1
        <4>4. \A y \in I : ~(y < x)
          BY <4>2, <4>3 DEF OpToRel
        <4>5. \A y \in I : x <= y
          BY <4>2, <4>4
        <4> QED BY <4>5
      <3> QED BY <3>1, Zenon DEF Min
    <2>3. at = 0 => I = {}
      <3>1. 0 \notin I
        OBVIOUS
      <3> QED BY <2>1, <2>2, <3>1
    <2>4. at # 0 => at \in I
      BY <2>1, <2>2
    <2>5. DOMAIN tracked = 1 .. Len(tracked) /\ \A i \in DOMAIN tracked : tracked[i] \in Comps
      BY <1>3
    <2> HIDE DEF at
    <2>6. at = 0 => ToSet(tracked) \subseteq ToSet(Top.left)
      BY <2>3, <2>5 DEF ToSet
    <2> QED BY <2>4, <2>5, <2>6
  <1> HIDE DEF at
  <1>9. Atop(stack, "batch", None)
    BY <1>1, <1>4, <1>5 DEF Atop
  <1>10. Len(stack) = 1 /\ \A i \in DOMAIN stack : i = 1
    BY <1>1, <1>4, <1>7, OnlyFrame
  <1>11. One(stack, Top)
    BY <1>4, <1>7, <1>10 DEF One, Shape
  <1>12. CASE at = 0 /\ Keep(tracked) /\ stack' = Below /\ UNCHANGED comp
    <2>1. Below \in Seq(Frame) /\ Done(stack, Below)
      BY <1>1, DoneTop
    <2>2. Spent(stack[Len(stack)]) /\ stack[Len(stack)].do = "batch" /\ stack[Len(stack)].do # "watch"
      BY <1>1, <1>4 DEF Spent
    <2>3. Shape(Below) /\ Turns(comp, inside, Below)
      BY <1>7, <2>1, DoneShape, SpentTurns
    <2>4. Listening(comp, Below)
      BY <1>7, <2>1, <2>2, SpentListening
    <2>5. Marked(comp, inside, Below) /\ Hearing(comp, inside, Below, heard)
      BY <1>7, <2>1, <2>2, SpentMarked, SpentHearing
    <2>6. /\ tracked' = tracked /\ observer' = (observer /\ tracked # <<>>) /\ records' = (records /\ tracked # <<>>)
          /\ Kept(tracked, observer, records, tracked, observer', records')
      BY <1>3, <1>12 DEF Keep, Kept
    <2>7. ToSet(tracked) \subseteq ToSet(stack[Len(stack)].left)
      BY <1>4, <1>8, <1>12
    <2>8. Observed(comp, tracked, observer', records', inside, Below) /\ Current(placed, comp, tracked, records', inside, Below)
      BY <1>3, <1>6, <1>7, <2>1, <2>2, <2>6, <2>7, BatchEnds
    <2>9. Holds(placed, comp, tracked, observer', records', inside, Below, heard)
      BY <2>3, <2>4, <2>5, <2>8, Zenon DEF Holds, Sound
    <2>10. Typed(placed, comp, tracked, observer', records', Below, acts, inside)
      BY <1>3, <2>1, <2>6 DEF Typed
    <2> QED BY <1>1, <1>2, <1>12, <2>6, <2>9, <2>10, InvIs
  <1>13. CASE /\ at # 0 /\ comp[c].stopped /\ tracked' = RemoveFirst(tracked, c)
              /\ UNCHANGED <<comp, stack, observer, records>>
    <2>1. InBatch(stack)
      BY <1>1, <1>4 DEF InBatch
    <2>2. c \in Comps
      BY <1>8, <1>13
    <2>3. /\ RemoveFirst(tracked, c) \in Seq(Comps)
          /\ Observed(comp, RemoveFirst(tracked, c), observer, records, inside, stack)
          /\ Current(placed, comp, RemoveFirst(tracked, c), records, inside, stack)
      BY <1>3, <1>6, <1>13, <2>1, <2>2, BatchRemoves
    <2>4. Holds(placed, comp, RemoveFirst(tracked, c), observer, records, inside, stack, heard)
      BY <1>6, <2>3, Zenon DEF Holds
    <2>5. Typed(placed, comp, RemoveFirst(tracked, c), observer, records, stack, acts, inside)
      BY <1>3, <1>4, <2>3 DEF Typed
    <2> QED BY <1>1, <1>2, <1>13, <2>4, <2>5, InvIs
  <1>14. CASE /\ at # 0 /\ ~comp[c].stopped /\ Check(c, comp[c], rest) /\ UNCHANGED <<tracked, observer, records>>
    <2>1. c \in Comps /\ c \notin ToSet(Top.left)
      BY <1>8, <1>14
    <2> HIDE DEF c
    <2>2. /\ Append(Top.left, c) \in Seq(Comps) /\ ToSet(Append(Top.left, c)) = ToSet(Top.left) \cup {c}
      BY <1>5, <2>1, AppendElements
    <2>3. /\ g \in Frame /\ FrameOK(g) /\ g.do = "batch" /\ g.left = Append(Top.left, c)
      <3>1. Append(Top.left, c) \in Seq(Listeners \cup Comps)
        BY <2>2, SeqMonotonic
      <3>2. g \in Frame /\ g.do = "batch" /\ g.c = None /\ g.left = Append(Top.left, c)
        BY <1>1, <1>4, <1>5, <3>1 DEF Frame
      <3> HIDE DEF g
      <3> QED BY <2>2, <3>2 DEF FrameOK
    <2>4. IsReplace(Frame, stack, g, rest)
      BY <1>1, <2>3, ReplacesTop
    <2> HIDE DEF g, rest
    <2>5. One(rest, g) /\ rest \in Seq(Frame)
      BY <1>10, <2>4 DEF One, IsReplace, Keeps
    <2>6. Idle(stack) /\ Idle(rest)
      BY <1>1, <1>4, <1>11, <2>3, <2>5, OneFrames
    <2>7. /\ Shape(rest) /\ Listening(comp, rest) /\ Turns(comp, inside, rest) /\ Marked(comp, inside, rest)
          /\ Hearing(comp, inside, rest, heard) /\ Pausable(comp, rest)
          /\ \A d : \A i \in DOMAIN rest : ~Moving(rest[i], d)
          /\ \A d, e, l : ~InRegister(rest, d, e, l)
      BY <1>7, <2>6, IdleKeeps, Zenon
    <2>8. Sound(comp, inside, rest, heard)
      BY <2>7, Zenon DEF Sound
    <2>9. \A to : MayTurn(comp, rest, inside, c, to)
      <3>1. ~(Len(rest) = 1 /\ rest[1].do = "track")
        BY <2>3, <2>5 DEF One
      <3> QED BY <2>7, <3>1 DEF MayTurn
    <2>10. /\ Observed(comp, tracked, observer, records, inside, rest)
           /\ CurrentBut(c, placed, comp, tracked, records, inside, rest)
      BY <1>1, <1>4, <1>6, <1>11, <2>2, <2>3, <2>5, BatchLooksAt
    <2>11. Checks(comp, rest, comp', stack', c)
      BY <1>14 DEF Check, Checks
    <2>12. PICK to \in BOOLEAN : comp[c].attached = ~to
      BY <1>3, <2>1 DEF Record
    <2>13. ToSet(tracked) \subseteq Comps /\ MayTurn(comp, rest, inside, c, to)
      BY <1>3, <2>9 DEF ToSet
    <2>14. comp \in [Comps -> Record] /\ c \in Comps /\ rest \in Seq(Frame)
      BY <1>3, <2>1, <2>5
    <2>15. /\ comp' \in [Comps -> Record] /\ stack' \in Seq(Frame)
           /\ Sound(comp', inside, stack', heard) /\ Observed(comp', tracked, observer, records, inside, stack')
           /\ Current(placed, comp', tracked, records, inside, stack')
      BY <2>8, <2>10, <2>11, <2>12, <2>13, <2>14, CheckKeeps, Zenon
    <2>16. Holds(placed, comp', tracked, observer, records, inside, stack', heard)
      BY <2>15, Zenon DEF Holds
    <2>17. Typed(placed, comp', tracked, observer, records, stack', acts, inside)
      BY <1>3, <2>15 DEF Typed
    <2> QED BY <1>1, <1>2, <1>14, <2>16, <2>17, InvIs
  <1> QED BY <1>1, <1>12, <1>13, <1>14

LEMMA EmptyStack ==
  ASSUME stack = <<>>
  PROVE  Empty(stack) /\ Idle(stack) /\ Room(comp, stack)
  <1>1. Len(stack) = 0 /\ DOMAIN stack = 1 .. 0
    OBVIOUS
  <1>2. Empty(stack)
    BY <1>1 DEF Empty, IsStack
  <1>3. Idle(stack) /\ \A i : i \notin DOMAIN stack
    BY <1>2, EmptyFrames
  <1>4. Room(comp, stack)
    BY <1>1, <1>3 DEF Room, Pausable
  <1> QED BY <1>2, <1>3, <1>4

LEMMA ReadyKeeps ==
  ASSUME IInv, NEW c \in Comps, Ready(c)
  PROVE  IInv'
  <1> DEFINE r == [comp[c] EXCEPT !.checked = TRUE]
             cm == [comp EXCEPT ![c] = r]
             f == Step("track", c, "", <<>>)
             rest == IF comp[c].checked THEN <<>> ELSE <<f>>
  <1>1. /\ stack = <<>> /\ ~comp[c].stopped /\ Check(c, r, rest)
        /\ UNCHANGED <<placed, tracked, observer, records, heard, acts, inside>>
    BY DEF Ready
  <1>2. /\ Typed(placed, comp, tracked, observer, records, stack, acts, inside) /\ heard \in HeardMaps
        /\ Holds(placed, comp, tracked, observer, records, inside, stack, heard)
    BY InvIs, Zenon
  <1>3. /\ comp \in [Comps -> Record] /\ tracked \in Seq(Comps) /\ observer \in BOOLEAN /\ records \in BOOLEAN
        /\ placed \subseteq Comps /\ acts \in 0 .. MaxActs /\ inside \subseteq Comps \X {"stopped", "moved"}
    BY <1>2 DEF Typed
  <1>4. /\ Sound(comp, inside, stack, heard) /\ Observed(comp, tracked, observer, records, inside, stack)
        /\ Current(placed, comp, tracked, records, inside, stack)
    BY <1>2, Zenon DEF Holds
  <1>5. /\ Shape(stack) /\ Listening(comp, stack) /\ Turns(comp, inside, stack)
        /\ Marked(comp, inside, stack) /\ Hearing(comp, inside, stack, heard)
    BY <1>4, Zenon DEF Sound
  <1>6. /\ r \in Record /\ r.checked = TRUE /\ r.attached = comp[c].attached /\ r.tracking = comp[c].tracking
        /\ r.stopped = comp[c].stopped /\ r.marks = comp[c].marks /\ r.subs = comp[c].subs
    BY <1>3 DEF Record
  <1> HIDE DEF r
  <1>7. cm \in [Comps -> Record] /\ cm[c] = r /\ \A d \in Comps : d # c => cm[d] = comp[d]
    BY <1>3, <1>6
  <1>8. [cm EXCEPT ![c] = Checked(cm[c], c)] = [comp EXCEPT ![c] = Checked(r, c)]
    BY <1>3, <1>7
  <1> HIDE DEF cm
  <1>9. Notes(comp, cm)
    BY <1>6, <1>7 DEF Notes
  <1>10. f \in Frame /\ FrameOK(f) /\ f.do = "track" /\ f.c = c
    BY EmptySeq DEF FrameOK, Step, Frame, Kinds, Events
  <1> HIDE DEF f
  <1>11. /\ rest \in Seq(Frame)
         /\ comp[c].checked => Empty(rest)
         /\ ~comp[c].checked => One(rest, f)
    <2>1. <<f>> \in Seq(Frame) /\ Len(<<f>>) = 1 /\ <<f>>[1] = f
      BY <1>10
    <2>2. <<>> \in Seq(Frame)
      BY EmptySeq
    <2> QED BY <2>1, <2>2, StackOf DEF Empty, One
  <1> HIDE DEF rest
  <1>12. Empty(stack) /\ Idle(stack)
    BY <1>1, EmptyStack
  <1>13. ToSet(tracked) \subseteq Comps
    BY <1>3 DEF ToSet
  <1>14. /\ Idle(rest) /\ Observed(cm, tracked, observer, records, inside, rest)
         /\ CurrentBut(c, placed, cm, tracked, records, inside, rest)
         /\ (Len(rest) = 1 /\ rest[1].do = "track") => rest[1].c = c
    <2>1. \A d \in Comps : /\ cm[d].attached = comp[d].attached /\ cm[d].stopped = comp[d].stopped
                           /\ cm[d].tracking = comp[d].tracking /\ (d # c => cm[d].checked = comp[d].checked)
      BY <1>6, <1>7
    <2>2. cm[c].checked
      BY <1>6, <1>7
    <2>3. LooksFirst(comp, cm, rest, f, c)
      <3>1. ~comp[c].checked => One(rest, f) /\ FrameOK(f) /\ f.do = "track" /\ f.c = c
        BY <1>10, <1>11
      <3> QED BY <1>1, <1>11, <2>1, <2>2, <3>1, Zenon DEF LooksFirst
    <2> QED BY <1>4, <1>12, <1>13, <2>3, FirstLook, Zenon
  <1>15. /\ Listening(cm, stack) /\ Turns(cm, inside, stack) /\ Marked(cm, inside, stack)
         /\ Hearing(cm, inside, stack, heard)
    BY <1>5, <1>9, NotesKeep, Zenon
  <1>16. /\ Shape(rest) /\ Listening(cm, rest) /\ Turns(cm, inside, rest) /\ Marked(cm, inside, rest)
         /\ Hearing(cm, inside, rest, heard) /\ Pausable(cm, rest)
         /\ \A d : \A i \in DOMAIN rest : ~Moving(rest[i], d)
         /\ \A d, e, l : ~InRegister(rest, d, e, l)
    BY <1>12, <1>14, <1>15, IdleKeeps, Zenon
  <1>17. Sound(cm, inside, rest, heard)
    BY <1>16, Zenon DEF Sound
  <1>18. \A to : MayTurn(cm, rest, inside, c, to)
    BY <1>14, <1>16 DEF MayTurn
  <1>19. Checks(cm, rest, comp', stack', c)
    BY <1>1, <1>7, <1>8 DEF Check, Checks
  <1>20. PICK to \in BOOLEAN : cm[c].attached = ~to
    BY <1>6, <1>7 DEF Record
  <1>21. MayTurn(cm, rest, inside, c, to)
    BY <1>18
  <1>22. /\ comp' \in [Comps -> Record] /\ stack' \in Seq(Frame)
         /\ Sound(comp', inside, stack', heard) /\ Observed(comp', tracked, observer, records, inside, stack')
         /\ Current(placed, comp', tracked, records, inside, stack')
    <2>1. cm \in [Comps -> Record] /\ rest \in Seq(Frame) /\ c \in Comps /\ to \in BOOLEAN
      BY <1>7, <1>11, <1>20
    <2>2. /\ Observed(cm, tracked, observer, records, inside, rest)
          /\ CurrentBut(c, placed, cm, tracked, records, inside, rest)
      BY <1>14
    <2> QED BY <2>1, <2>2, <1>13, <1>17, <1>19, <1>20, <1>21, CheckKeeps, Zenon
  <1>23. Holds(placed, comp', tracked, observer, records, inside, stack', heard)
    BY <1>22, Zenon DEF Holds
  <1>24. Typed(placed, comp', tracked, observer, records, stack', acts, inside)
    BY <1>3, <1>22 DEF Typed
  <1> QED BY <1>1, <1>2, <1>23, <1>24, InvIs

LEMMA DeliverKeeps ==
  ASSUME IInv, Deliver
  PROVE  IInv'
  <1> DEFINE f == Step("batch", None, "", <<>>)
             ins == {x \in inside : x[2] # "moved"}
  <1>1. /\ stack = <<>> /\ records' = FALSE /\ stack' = <<f>> /\ inside' = ins
        /\ UNCHANGED <<placed, comp, tracked, observer, heard, acts>>
    BY DEF Deliver
  <1>2. /\ Typed(placed, comp, tracked, observer, records, stack, acts, inside) /\ heard \in HeardMaps
        /\ Holds(placed, comp, tracked, observer, records, inside, stack, heard)
    BY InvIs, Zenon
  <1>3. /\ Sound(comp, inside, stack, heard) /\ Observed(comp, tracked, observer, records, inside, stack)
        /\ Current(placed, comp, tracked, records, inside, stack)
    BY <1>2, Zenon DEF Holds
  <1>4. /\ Shape(stack) /\ Listening(comp, stack) /\ Turns(comp, inside, stack)
        /\ Marked(comp, inside, stack) /\ Hearing(comp, inside, stack, heard)
    BY <1>3, Zenon DEF Sound
  <1>5. f \in Frame /\ FrameOK(f) /\ f.do = "batch" /\ f.left = <<>>
    BY EmptySeq DEF FrameOK, Step, Frame, Kinds, Events
  <1> HIDE DEF f
  <1>6. stack' \in Seq(Frame) /\ One(stack', f)
    <2>1. <<f>> \in Seq(Frame) /\ Len(<<f>>) = 1 /\ <<f>>[1] = f
      BY <1>5
    <2> QED BY <1>1, <2>1, StackOf DEF One
  <1>7. ins \subseteq inside /\ \A c : Whole(ins, c) => Whole(inside, c)
    BY DEF Whole
  <1> HIDE DEF ins
  <1>8. Empty(stack) /\ Idle(stack) /\ Idle(stack')
    BY <1>1, <1>5, <1>6, EmptyStack, OneFrames
  <1>9. /\ Turns(comp, ins, stack) /\ Marked(comp, ins, stack) /\ Hearing(comp, ins, stack, heard)
    BY <1>3, <1>4, <1>7, InsideGrows
  <1>10. /\ Shape(stack') /\ Listening(comp, stack') /\ Turns(comp, ins, stack') /\ Marked(comp, ins, stack')
         /\ Hearing(comp, ins, stack', heard) /\ Pausable(comp, stack')
         /\ \A d : \A i \in DOMAIN stack' : ~Moving(stack'[i], d)
         /\ \A d, e, l : ~InRegister(stack', d, e, l)
    BY <1>4, <1>8, <1>9, IdleKeeps, Zenon
  <1>11. Observed(comp, tracked, observer, FALSE, ins, stack') /\ Current(placed, comp, tracked, FALSE, ins, stack')
    BY <1>3, <1>5, <1>6, <1>7, <1>8, Delivers
  <1>12. Holds(placed, comp, tracked, observer, FALSE, ins, stack', heard)
    BY <1>10, <1>11, Zenon DEF Holds, Sound
  <1>13. Typed(placed, comp, tracked, observer, FALSE, stack', acts, ins)
    BY <1>2, <1>6, <1>7 DEF Typed
  <1> QED BY <1>1, <1>2, <1>12, <1>13, InvIs

LEMMA ActsKeep ==
  ASSUME IInv, stack = <<>>, Act(<<>>), UNCHANGED heard
  PROVE  IInv'
  <1>1. /\ Typed(placed, comp, tracked, observer, records, stack, acts, inside) /\ heard \in HeardMaps
        /\ Holds(placed, comp, tracked, observer, records, inside, stack, heard)
    BY InvIs, Zenon
  <1>2. Room(comp, stack)
    BY EmptyStack
  <1>3. Act(stack)
    OBVIOUS
  <1>4. /\ Typed(placed', comp', tracked', observer', records', stack', acts', inside')
        /\ Holds(placed', comp', tracked', observer', records', inside', stack', heard)
    BY <1>1, <1>2, <1>3, ActKeeps, Zenon
  <1> QED BY <1>1, <1>4, InvIs, Zenon

-----------------------------------------------------------------------------
LEMMA InitIs ==
  ASSUME Init
  PROVE  IInv
  <1> DEFINE rec(c) == [attached |-> FALSE, checked |-> FALSE, tracking |-> c \in Hooked, stopped |-> FALSE,
                        marks |-> {}, subs |-> [e \in Events |-> <<>>]]
  <1>1. /\ placed \subseteq Comps /\ comp = [c \in Comps |-> rec(c)]
        /\ tracked = <<>> /\ observer = FALSE /\ records = FALSE /\ stack = <<>> /\ acts = 0 /\ inside = {}
        /\ heard = [c \in Comps |-> [l \in Listeners |-> <<>>]]
    BY DEF Init
  <1>2. Empty(stack) /\ Idle(stack) /\ \A i : i \notin DOMAIN stack
    BY <1>1, EmptyStack, EmptyFrames
  <1>3. /\ ToSet(tracked) = {} /\ tracked \in Seq(Comps) /\ stack \in Seq(Frame) /\ NoRepeats(tracked)
        /\ <<>> \in Seq(Listeners) /\ <<>> \in Seq(Events) /\ ToSet(<<>>) = {} /\ NoRepeats(<<>>)
    <2>1. <<>> \in Seq(Comps) /\ <<>> \in Seq(Frame) /\ <<>> \in Seq(Listeners) /\ <<>> \in Seq(Events)
      BY EmptySeq
    <2>2. DOMAIN <<>> = {}
      OBVIOUS
    <2>3. ToSet(<<>>) = {} /\ NoRepeats(<<>>)
      BY <2>2 DEF ToSet, NoRepeats
    <2> QED BY <1>1, <2>1, <2>3
  <1>4. \A c \in Comps : /\ comp[c].attached = FALSE /\ comp[c].checked = FALSE /\ comp[c].stopped = FALSE
                         /\ (comp[c].tracking <=> c \in Hooked)
                         /\ comp[c].marks = {} /\ \A e \in Events : comp[c].subs[e] = <<>>
    BY <1>1
  <1>5. comp \in [Comps -> Record]
    <2>1. \A c \in Comps : rec(c) \in Record
      <3>1. [e \in Events |-> <<>>] \in [Events -> Seq(Listeners)]
        BY <1>3
      <3> QED BY <3>1 DEF Record
    <2> QED BY <1>1, <2>1
  <1>6. heard \in HeardMaps /\ \A c \in Comps : \A l \in Listeners : heard[c][l] = <<>>
    BY <1>1, <1>3 DEF HeardMaps
  <1> HIDE DEF rec
  <1>7. \A c \in Comps : \A e \in Events : Subs(comp, c, e) = {}
    BY <1>3, <1>4 DEF Subs
  <1>8. Shape(stack)
    BY <1>2 DEF Idle, Empty, IsStack, Shape, FramesTyped, BottomFrames, HooksOnTop, FirstCheckTurns, WatchThenRegister
  <1>9. Listening(comp, stack)
    <2>1. SubsDistinct(comp)
      BY <1>3, <1>4 DEF SubsDistinct
    <2>2. SubsNested(comp)
      BY <1>7 DEF SubsNested, Events
    <2>3. \A c, e, l : ~InRegister(stack, c, e, l)
      BY <1>2 DEF InRegister
    <2>4. OneAfterOther(comp, stack)
      BY <1>7, <2>3 DEF OneAfterOther, Events
    <2>5. NotYetIn(comp, stack)
      BY <2>3 DEF NotYetIn
    <2>6. InterestFirst(comp, stack)
      BY <1>2, <1>7 DEF InterestFirst, Events
    <2>7. TellsSubs(comp, stack) /\ CallsOne(comp, stack) /\ RegisterOrder(stack) /\ ToldByOne(stack)
      BY <1>2 DEF TellsSubs, CallsOne, RegisterOrder, ToldByOne
    <2> QED BY <2>1, <2>2, <2>4, <2>5, <2>6, <2>7 DEF Listening
  <1>10. Turns(comp, inside, stack)
    <2>1. HookedTracks(comp)
      BY <1>4, ParametersAssumption DEF HookedTracks
    <2> QED BY <1>2, <2>1 DEF Turns, TurnTracks, EndingStopped, OneEnding, OneTurn, NoStopInTelling
  <1>11. Marked(comp, inside, stack)
    BY <1>2, <1>4 DEF Marked, StoppedIsDetached, AttachMarked, StopIsLast, TurnMatches, TellIsMarked
  <1>12. Hearing(comp, inside, stack, heard)
    <2>1. \A c \in Comps : \A l \in Listeners : LastHeard(heard, c, l) = ""
      BY <1>6 DEF LastHeard
    <2>2. HeardTyped(heard) /\ HeardInOrder(inside, heard)
      <3>1. <<>> \in Seq(Events) /\ Len(<<>>) = 0
        BY <1>3
      <3>2. InOrder(<<>>)
        BY <3>1 DEF InOrder
      <3>3. Len(<<>>) <= 2
        BY <3>1
      <3> HIDE DEF HeardMaps
      <3> QED BY <1>6, <3>1, <3>2, <3>3, Zenon DEF HeardTyped, HeardInOrder
    <2>3. HeardSubs(comp, heard) /\ NextFollows(inside, stack, heard)
      BY <1>2, <2>1 DEF HeardSubs, NextFollows
    <2>4. /\ AttachHeard(comp, inside, stack, heard) /\ DetachHeard(comp, inside, stack, heard)
          /\ StopHeard(comp, inside, heard)
      BY <2>1 DEF AttachHeard, DetachHeard, StopHeard
    <2> QED BY <2>2, <2>3, <2>4, Zenon DEF Hearing
  <1>13. Sound(comp, inside, stack, heard)
    BY <1>8, <1>9, <1>10, <1>11, <1>12, Zenon DEF Sound
  <1>14. \A c \in Comps : ~Wants(comp, c) /\ ~InFirstCheck(stack, c)
    BY <1>2, <1>4 DEF Wants, InFirstCheck
  <1>15. Observed(comp, tracked, observer, records, inside, stack)
    BY <1>1, <1>3, <1>14 DEF Observed, ObserverOn, TrackedWant, FirstChecked, WantIsTracked
  <1>16. Current(placed, comp, tracked, records, inside, stack)
    BY <1>14 DEF Current, FirstCheckRight, WantIsRight
  <1>17. Holds(placed, comp, tracked, observer, records, inside, stack, heard)
    BY <1>13, <1>15, <1>16, Zenon DEF Holds
  <1>18. Typed(placed, comp, tracked, observer, records, stack, acts, inside)
    <2>1. acts \in 0 .. MaxActs
      BY <1>1, ParametersAssumption
    <2>2. observer \in BOOLEAN /\ records \in BOOLEAN /\ inside \subseteq Comps \X {"stopped", "moved"}
      BY <1>1
    <2> QED BY <1>1, <1>3, <1>5, <2>1, <2>2, Zenon DEF Typed
  <1> QED BY <1>6, <1>17, <1>18, InvIs, Zenon

-----------------------------------------------------------------------------
LEMMA NextKeeps ==
  ASSUME IInv, [Next]_vars
  PROVE  IInv'
  <1>1. CASE stack = <<>> /\ Act(<<>>) /\ UNCHANGED heard
    BY <1>1, ActsKeep
  <1>2. CASE \E c \in Comps : Ready(c)
    BY <1>2, ReadyKeeps
  <1>3. CASE Deliver
    BY <1>3, DeliverKeeps
  <1>4. CASE Hook
    BY <1>4, HookKeeps
  <1>5. CASE Trigger
    BY <1>5, TriggerKeeps
  <1>6. CASE Tell
    BY <1>6, TellKeeps
  <1>7. CASE Register
    BY <1>7, RegisterKeeps
  <1>8. CASE Watch
    BY <1>8, WatchKeeps
  <1>9. CASE TrackAfter
    BY <1>9, TrackAfterKeeps
  <1>10. CASE StopSelf
    BY <1>10, StopSelfKeeps
  <1>11. CASE StopUntracks
    BY <1>11, StopUntracksKeeps
  <1>12. CASE Batch
    BY <1>12, BatchKeeps
  <1>13. CASE UNCHANGED vars
    BY <1>13 DEF vars, IInv, TypeOK
  <1> QED BY <1>1, <1>2, <1>3, <1>4, <1>5, <1>6, <1>7, <1>8, <1>9, <1>10, <1>11, <1>12, <1>13 DEF Next

(* What the invariant says of what the application and a listener see.     *)
LEMMA EventsAreInOrder ==
  ASSUME IInv
  PROVE  EventsInOrder
  <1>1. HeardInOrder(inside, heard)
    BY Zenon DEF IInv, Holds, Sound, Hearing
  <1> QED BY <1>1 DEF HeardInOrder, Whole, EventsInOrder

LEMMA RestFrames ==
  ASSUME IInv, stack = <<>>
  PROVE  /\ ~InBatch(stack) /\ \A c : ~InFirstCheck(stack, c) /\ ~InUntrack(stack, c) /\ ~Unseen(tracked, stack, c)
         /\ \A c, e : ~Due(stack, c, e)
         /\ Observed(comp, tracked, observer, records, inside, stack)
         /\ Current(placed, comp, tracked, records, inside, stack)
         /\ AttachMarked(comp, inside, stack)
         /\ tracked \in Seq(Comps) /\ observer \in BOOLEAN
  <1>1. Empty(stack)
    BY EmptyStack
  <1>2. /\ ~InBatch(stack) /\ \A i : i \notin DOMAIN stack
        /\ \A c : ~InFirstCheck(stack, c) /\ ~InUntrack(stack, c) /\ ~Unseen(tracked, stack, c)
    BY <1>1, EmptyFrames
  <1>3. \A c, e : ~Due(stack, c, e)
    BY <1>2 DEF Due
  <1>4. Holds(placed, comp, tracked, observer, records, inside, stack, heard) /\ TypeOK
    BY Zenon DEF IInv
  <1>5. /\ Observed(comp, tracked, observer, records, inside, stack)
        /\ Current(placed, comp, tracked, records, inside, stack) /\ AttachMarked(comp, inside, stack)
    BY <1>4, Zenon DEF Holds, Sound, Marked
  <1>6. tracked \in Seq(Comps) /\ observer \in BOOLEAN
    BY <1>4 DEF TypeOK
  <1> QED BY <1>2, <1>3, <1>5, <1>6

LEMMA ObserverIsAsNeeded ==
  ASSUME IInv
  PROVE  ObserverAsNeeded
  <1> SUFFICES ASSUME stack = <<>>
               PROVE  /\ observer = (tracked # <<>>)
                      /\ \A c \in Comps : Interested(c) => Contains(tracked, c)
                      /\ \A c \in ToSet(tracked) : Interested(c) \/ <<c, "stopped">> \in inside
    BY DEF ObserverAsNeeded
  <1>1. /\ ~InBatch(stack) /\ \A c : ~InFirstCheck(stack, c) /\ ~InUntrack(stack, c)
        /\ ObserverOn(tracked, observer, records, stack) /\ TrackedWant(comp, tracked, inside, stack)
        /\ WantIsTracked(comp, tracked, stack)
        /\ tracked \in Seq(Comps) /\ observer \in BOOLEAN
    BY RestFrames DEF Observed
  <1>2. observer = (tracked # <<>>)
    BY <1>1 DEF ObserverOn
  <1>3. ASSUME NEW c \in Comps, Interested(c)
        PROVE  Contains(tracked, c)
    <2>1. c \in ToSet(tracked)
      BY <1>1, <1>3 DEF WantIsTracked, Wants, Interested
    <2>2. PICK i \in DOMAIN tracked : tracked[i] = c
      BY <2>1 DEF ToSet
    <2>3. i \in 1 .. Len(tracked)
      BY <1>1
    <2> QED BY <2>2, <2>3 DEF Contains
  <1>4. \A c \in ToSet(tracked) : Interested(c) \/ <<c, "stopped">> \in inside
    BY <1>1 DEF TrackedWant, Whole, Interested
  <1> QED BY <1>2, <1>3, <1>4

LEMMA BeliefsAreCurrent ==
  ASSUME IInv
  PROVE  BeliefIsCurrent
  <1> SUFFICES ASSUME stack = <<>>, ~records, NEW c \in Comps
               PROVE  /\ Interested(c) /\ <<c, "moved">> \notin inside => comp[c].attached = Connected(placed, c)
                      /\ <<c, "stopped">> \notin inside =>
                           /\ "attach" \in comp[c].marks <=> comp[c].attached
                           /\ "detach" \in comp[c].marks => ~comp[c].attached
    BY DEF BeliefIsCurrent, AtRest
  <1>1. /\ ~Unseen(tracked, stack, c) /\ \A e : ~Due(stack, c, e)
        /\ Current(placed, comp, tracked, records, inside, stack) /\ AttachMarked(comp, inside, stack)
    BY RestFrames
  <1>2. Interested(c) /\ <<c, "moved">> \notin inside => comp[c].attached = Connected(placed, c)
    BY <1>1 DEF Current, WantIsRight, Wants, Interested, Right, MovedInside
  <1>3. <<c, "stopped">> \notin inside =>
          /\ "attach" \in comp[c].marks <=> comp[c].attached
          /\ "detach" \in comp[c].marks => ~comp[c].attached
    BY <1>1 DEF AttachMarked, Whole
  <1> QED BY <1>2, <1>3

-----------------------------------------------------------------------------
(* The invariant, and with it the type of every variable: what the nested  *)
(* calls of _transition_attachment(), event_on() and on_mutation() leave   *)
(* half done is accounted for by what is still to return (component.ts,    *)
(* "DOM attachment state machine").                                        *)
THEOREM Invariance == Spec => []IInv
  <1>1. Init => IInv
    BY InitIs
  <1>2. IInv /\ [Next]_vars => IInv'
    BY NextKeeps
  <1> QED BY <1>1, <1>2, PTL DEF Spec

(* A listener never hears 'attach' twice in a row, 'detach' twice in a     *)
(* row, 'stop' right after 'attach', or anything after 'stop' -- whenever  *)
(* it came, and whatever hooks and handlers move, stop or listen to in the *)
(* middle of it, short of stopping the component that is just telling      *)
(* (component.ts:2631-2634).                                               *)
THEOREM ListenersHearInOrder == Spec => []EventsInOrder
  <1>1. IInv => EventsInOrder
    BY EventsAreInOrder
  <1> QED BY <1>1, Invariance, PTL

(* Whenever nothing is running and the observer has delivered, a component *)
(* somebody is interested in believes what is so of its place, and its     *)
(* marks, which answer late listeners, say what it believes.               *)
THEOREM NobodyMissesAMove == Spec => []BeliefIsCurrent
  <1>1. IInv => BeliefIsCurrent
    BY BeliefsAreCurrent
  <1> QED BY <1>1, Invariance, PTL

(* Between tasks, the one MutationObserver is installed exactly while      *)
(* somebody is tracked, and tracked are the live components of interest    *)
(* (dom-attachment.ts, track_attachment() and untrack_attachment()).       *)
THEOREM ObserverThereAsNeeded == Spec => []ObserverAsNeeded
  <1>1. IInv => ObserverAsNeeded
    BY ObserverIsAsNeeded
  <1> QED BY <1>1, Invariance, PTL
=============================================================================
