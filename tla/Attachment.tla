----------------------------- MODULE Attachment -----------------------------
(***************************************************************************)
(* Whether a component is in the document (component.ts, "DOM attachment   *)
(* state machine", and dom-attachment.ts).  A component has a belief that  *)
(* it is attached; checks compare it with the document and, on a           *)
(* difference, run a hook and an event.  Checks run after 'ready', when    *)
(* somebody becomes interested, and for every tracked component when the   *)
(* one MutationObserver delivers.                                          *)
(*                                                                         *)
(* All of it is synchronous: hooks and event handlers, which may move,     *)
(* stop and listen to components themselves, run in the middle of it.  The *)
(* stack holds what is still to be done, the innermost last.               *)
(***************************************************************************)
EXTENDS Naturals, FiniteSets, SequencesExt

CONSTANTS Comps,      \* the components
          Parent,     \* component -> the one its root is inside of, or None
          None,
          Hooked,     \* those that override on_attach() or on_detach()
          Listeners,  \* who listens to a component: on attach, detach and stop
          MaxActs     \* bound: what the application does

VARIABLES placed,     \* components whose root is in its parent's, or in the document
          comp,       \* component -> its record
          tracked,    \* dom-attachment.ts: the Set, in insertion order
          observer,   \* whether the observer is installed
          records,    \* whether mutations wait to be delivered to it
          stack,      \* what is still to be done, the innermost last
          heard,      \* component -> listener -> the last two events it heard
          acts,       \* how much the application has done
          inside      \* history: <<c, "stopped">> or <<c, "moved">> in the middle of
                      \* what c was telling or checking

vars == <<placed, comp, tracked, observer, records, stack, heard, acts, inside>>

Events == {"attach", "detach", "stop"}
Opposite(event) == IF event = "attach" THEN "detach" ELSE "attach"

Connected(where, c) ==
  c \in where /\ (Parent[c] = None \/ Parent[c] \in where)

ASSUME ParametersAssumption ==
  /\ None \notin Comps /\ IsFiniteSet(Comps) /\ Hooked \subseteq Comps /\ MaxActs \in Nat
  /\ \A c \in Comps : Parent[c] = None \/ (Parent[c] \in Comps /\ Parent[Parent[c]] = None)

Init ==
  /\ placed \in SUBSET Comps
  /\ comp = [c \in Comps |->
       [attached |-> FALSE,            \* _attached
        checked |-> FALSE,             \* _attachment_checked
        tracking |-> c \in Hooked,     \* _attachment_tracking
        stopped |-> FALSE,             \* _stopped
        marks |-> {},                  \* _lifecycle_states
        subs |-> [e \in Events |-> <<>>]]]   \* _lifecycle_callbacks
  /\ tracked = <<>> /\ observer = FALSE /\ records = FALSE
  /\ stack = <<>>
  /\ heard = [c \in Comps |-> [l \in Listeners |-> <<>>]]
  /\ acts = 0 /\ inside = {}

-----------------------------------------------------------------------------
(* The steps that wait on the stack.                                       *)
Step(do, c, event, left) == [do |-> do, c |-> c, event |-> event, left |-> left]

Changing(c, to) == Step("hook", c, IF to THEN "attach" ELSE "detach", <<>>)

(* A component record after the first half of _transition_attachment()     *)
Turned(r, to) ==
  [r EXCEPT !.attached = to, !.marks = @ \ {IF to THEN "detach" ELSE "attach"}]

(* _attachment_check() of c with record r: what becomes of the record, and *)
(* what is put on the stack.                                               *)
Checked(r, c) ==
  IF ~r.stopped /\ r.attached # Connected(placed, c) THEN Turned(r, ~r.attached) ELSE r
CheckSteps(r, c) ==
  IF ~r.stopped /\ r.attached # Connected(placed, c) THEN <<Changing(c, ~r.attached)>> ELSE <<>>

Check(c, r, rest) ==
  /\ comp' = [comp EXCEPT ![c] = Checked(r, c)]
  /\ stack' = rest \o CheckSteps(r, c)

(* track_attachment() and untrack_attachment()                             *)
Track(c) ==
  /\ tracked' = IF Contains(tracked, c) THEN tracked ELSE Append(tracked, c)
  /\ observer' = TRUE
  /\ UNCHANGED records

(* faulty variant: the observer stays when nobody is left                  *)
KeepObserving(left) ==
  /\ tracked' = left
  /\ UNCHANGED <<observer, records>>

(* disconnect() when nobody is left, with what was not delivered           *)
Keep(left) ==
  /\ tracked' = left
  /\ observer' = (observer /\ left # <<>>)
  /\ records' = (records /\ left # <<>>)

Untrack(c) == Keep(RemoveFirst(tracked, c))

-----------------------------------------------------------------------------
(* What the application does, at its own pace or in a hook or handler; the *)
(* rest of what was being done comes after it.                             *)

(* c is in the middle of telling that it is attached or detached, or of    *)
(* its first check.                                                        *)
Telling(c, rest) ==
  \E i \in DOMAIN rest :
    rest[i].c = c /\ rest[i].event # "stop" /\ rest[i].do \in {"trigger", "tell"}
FirstChecking(c, rest) == \E i \in DOMAIN rest : rest[i].c = c /\ rest[i].do = "track"

(* A root is moved natively: in and out of its parent or the document.     *)
Move(c, rest) ==
  LET to == IF c \in placed THEN placed \ {c} ELSE placed \cup {c}
      moved == {d \in Comps : Connected(placed, d) # Connected(to, d)}
  IN /\ placed' = to
     /\ records' = (records \/ (observer /\ (Parent[c] = None \/ Parent[c] \in placed)))
     /\ inside' = inside \cup {<<d, "moved">> : d \in {e \in moved : FirstChecking(e, rest)}}
     /\ stack' = rest
     /\ UNCHANGED <<comp, tracked, observer>>

(* stop(): _stop() of the components that are inside now, then of c; one   *)
(* whose root was moved out lives on.                                      *)
Stop(c, rest) ==
  LET order == <<c>> \o SetToSeq({d \in placed : Parent[d] = c /\ ~comp[d].stopped})
  IN /\ stack' = rest \o [i \in DOMAIN order |-> Step("stop", order[i], "stop", <<>>)]
     /\ inside' = inside \cup
          {<<d, "stopped">> : d \in {e \in ToSet(order) : ~comp[e].stopped /\ Telling(e, rest)}}
     /\ UNCHANGED <<placed, comp, tracked, observer, records>>

(* on('attach'), on('detach'), on('stop'), one after the other             *)
Listen(c, l, rest) ==
  /\ ~Contains(comp[c].subs["attach"], l)
  /\ \A i \in DOMAIN rest : ~(rest[i].do = "register" /\ rest[i].c = c)
  /\ stack' = rest \o <<Step("register", c, "stop", <<l>>), Step("register", c, "detach", <<l>>),
                        Step("register", c, "attach", <<l>>), Step("watch", c, "attach", <<>>)>>
  /\ UNCHANGED <<placed, comp, tracked, observer, records, inside>>

Act(rest) ==
  /\ acts < MaxActs /\ acts' = acts + 1
  /\ \E c \in Comps :
       \/ Move(c, rest)
       \/ Stop(c, rest)
       \/ \E l \in Listeners : Listen(c, l, rest)

-----------------------------------------------------------------------------
(* What is on top of the stack is done.                                    *)
Doing(what) == stack # <<>> /\ Last(stack).do = what
Top == Last(stack)
Below == Front(stack)
Self == comp[Top.c]

(* The application's code runs, and may act once before it returns.        *)
Runs(rest) ==
  \/ stack' = rest /\ UNCHANGED <<placed, comp, tracked, observer, records, acts, inside>>
  \/ Act(rest)

(* The hook of a transition or of a stop has run, if it is overridden.     *)
Hook ==
  /\ Doing("hook")
  /\ LET rest == Append(Below, [Top EXCEPT !.do = "trigger"])
     IN IF Top.event = "stop" \/ Top.c \in Hooked THEN Runs(rest)
        ELSE stack' = rest /\ UNCHANGED <<placed, comp, tracked, observer, records, acts, inside>>
  /\ UNCHANGED heard

(* event_trigger(): the mark, then a snapshot of the handlers              *)
Trigger ==
  /\ Doing("trigger")
  /\ comp' = [comp EXCEPT ![Top.c].marks = @ \cup {Top.event}]
  /\ stack' = Append(Below, Step("tell", Top.c, Top.event, Self.subs[Top.event]))
  /\ UNCHANGED <<placed, tracked, observer, records, heard, acts, inside>>

Hear(c, l, event) ==
  LET all == Append(heard[c][l], event)
  IN heard' = [heard EXCEPT ![c][l] = IF Len(all) > 2 THEN Tail(all) ELSE all]

Tell ==
  /\ Doing("tell") \/ Doing("call")
  /\ IF Top.left = <<>>
     THEN /\ stack' = Below
          /\ UNCHANGED <<placed, comp, tracked, observer, records, heard, acts, inside>>
     ELSE /\ Hear(Top.c, Head(Top.left), Top.event)
          /\ Runs(Append(Below, [Top EXCEPT !.left = Tail(@)]))

(* event_on(): registered, and told at once what has occurred              *)
Register ==
  /\ Doing("register")
  /\ comp' = [comp EXCEPT ![Top.c].subs[Top.event] = @ \o Top.left]
  /\ stack' = IF Top.event \in Self.marks THEN Append(Below, [Top EXCEPT !.do = "call"]) ELSE Below
  /\ UNCHANGED <<placed, tracked, observer, records, heard, acts, inside>>

(* faulty variant: interest is noted, and nothing compared                 *)
WatchOnly ==
  /\ Doing("watch")
  /\ comp' = [comp EXCEPT ![Top.c].tracking = TRUE]
  /\ stack' = Below
  /\ IF ~Self.tracking /\ Self.checked /\ ~Self.stopped THEN Track(Top.c)
     ELSE UNCHANGED <<tracked, observer, records>>
  /\ UNCHANGED <<placed, heard, acts, inside>>

(* _watch_attachment()                                                     *)
Watch ==
  /\ Doing("watch")
  /\ IF ~Self.tracking /\ Self.checked /\ ~Self.stopped
     THEN Track(Top.c) /\ Check(Top.c, [Self EXCEPT !.tracking = TRUE], Below)
     ELSE /\ comp' = [comp EXCEPT ![Top.c].tracking = TRUE]
          /\ stack' = Below
          /\ UNCHANGED <<tracked, observer, records>>
  /\ UNCHANGED <<placed, heard, acts, inside>>

(* The end of _attachment_first_check()                                    *)
TrackAfter ==
  /\ Doing("track")
  /\ IF Self.tracking THEN Track(Top.c) ELSE UNCHANGED <<tracked, observer, records>>
  /\ stack' = Below
  /\ UNCHANGED <<placed, comp, heard, acts, inside>>

(* faulty variant: a stopped component is not detached                     *)
StopSelfAttached ==
  /\ Doing("stop")
  /\ comp' = [comp EXCEPT ![Top.c].stopped = TRUE]
  /\ stack' = Below \o IF Self.stopped THEN <<>> ELSE <<[Top EXCEPT !.do = "untrack"]>>
  /\ UNCHANGED <<placed, tracked, observer, records, heard, acts, inside>>

(* _stop(), up to the hook on_stop()                                       *)
StopSelf ==
  /\ Doing("stop")
  /\ comp' = [comp EXCEPT ![Top.c] =
       IF @.attached /\ ~@.stopped THEN Turned([@ EXCEPT !.stopped = TRUE], FALSE)
       ELSE [@ EXCEPT !.stopped = TRUE]]
  /\ stack' = CASE Self.stopped -> Below
                [] ~Self.stopped /\ Self.attached ->
                     Below \o <<[Top EXCEPT !.do = "untrack"], Changing(Top.c, FALSE)>>
                [] OTHER -> Append(Below, [Top EXCEPT !.do = "untrack"])
  /\ UNCHANGED <<placed, tracked, observer, records, heard, acts, inside>>

StopUntracks ==
  /\ Doing("untrack")
  /\ Untrack(Top.c)
  /\ stack' = Append(Below, [Top EXCEPT !.do = "hook"])
  /\ UNCHANGED <<placed, comp, heard, acts, inside>>

(* on_mutation(): one round of its loop over the live Set, or its end      *)
Batch ==
  /\ Doing("batch")
  /\ LET at == SelectInSeq(tracked, LAMBDA d : d \notin ToSet(Top.left))
         c == tracked[at]
     IN IF at = 0 THEN Keep(tracked) /\ stack' = Below /\ UNCHANGED comp
        ELSE IF comp[c].stopped
        THEN /\ tracked' = RemoveFirst(tracked, c)
             /\ UNCHANGED <<comp, stack, observer, records>>
        ELSE /\ Check(c, comp[c], Append(Below, [Top EXCEPT !.left = Append(@, c)]))
             /\ UNCHANGED <<tracked, observer, records>>
  /\ UNCHANGED <<placed, heard, acts, inside>>

-----------------------------------------------------------------------------
(* What starts with an empty stack.                                        *)

(* 'ready' has been triggered: _attachment_first_check().  Every component *)
(* is checked then, tracked or not, and those of interest tracked after    *)
(* the first.                                                              *)
Ready(c) ==
  /\ stack = <<>> /\ ~comp[c].stopped
  /\ Check(c, [comp[c] EXCEPT !.checked = TRUE],
           IF comp[c].checked THEN <<>> ELSE <<Step("track", c, "", <<>>)>>)
  /\ UNCHANGED <<placed, tracked, observer, records, heard, acts, inside>>

(* The observer's microtask                                                *)
Deliver ==
  /\ stack = <<>> /\ records
  /\ records' = FALSE
  /\ stack' = <<Step("batch", None, "", <<>>)>>
  /\ inside' = {x \in inside : x[2] # "moved"}
  /\ UNCHANGED <<placed, comp, tracked, observer, heard, acts>>

Next ==
  \/ stack = <<>> /\ Act(<<>>) /\ UNCHANGED heard
  \/ \E c \in Comps : Ready(c)
  \/ Deliver
  \/ Hook \/ Trigger \/ Tell \/ Register \/ Watch \/ TrackAfter
  \/ StopSelf \/ StopUntracks \/ Batch

Spec == Init /\ [][Next]_vars

-----------------------------------------------------------------------------
(* What a listener hears of a component fits together, whenever it came    *)
(* and whatever handlers do: attach and detach alternate, and 'detach'     *)
(* always precedes 'stop', the last one (component.ts:2631-2634) -- unless *)
(* the component was stopped by a handler that was just being told.        *)
InOrder(events) ==
  Len(events) = 2 =>
    events \in {<<"attach", "detach">>, <<"detach", "attach">>, <<"detach", "stop">>}

EventsInOrder ==
  \A c \in Comps : <<c, "stopped">> \notin inside =>
    \A l \in Listeners : InOrder(heard[c][l])

(* 14_lifecycle_complete_specification.md:1439: "attach and detach         *)
(* strictly alternate", and component.ts:2631: "'detach' always precedes   *)
(* 'stop'"; without the exception.                                         *)
AlwaysInOrder == \A c \in Comps : \A l \in Listeners : InOrder(heard[c][l])

(* Once the observer has delivered, nobody has missed a move: whoever is   *)
(* interested believes what is so, and whoever asks now is told so.        *)
Interested(c) == comp[c].checked /\ comp[c].tracking /\ ~comp[c].stopped
AtRest == stack = <<>> /\ ~records

BeliefIsCurrent ==
  AtRest => \A c \in Comps :
    /\ Interested(c) /\ <<c, "moved">> \notin inside => comp[c].attached = Connected(placed, c)
    /\ <<c, "stopped">> \notin inside =>
         /\ "attach" \in comp[c].marks <=> comp[c].attached
         /\ "detach" \in comp[c].marks => ~comp[c].attached

(* ... without the exception: "the state flips on an observed change", and *)
(* none goes unobserved.                                                   *)
NoMoveMissed ==
  AtRest => \A c \in Comps : Interested(c) => comp[c].attached = Connected(placed, c)

(* The observer is there for the components that are interested and live,  *)
(* and for no others: "installed on the first interest and disconnected    *)
(* when the last interested component stops".                              *)
ObserverAsNeeded ==
  stack = <<>> =>
    /\ observer = (tracked # <<>>)
    /\ \A c \in Comps : Interested(c) => Contains(tracked, c)
    /\ \A c \in ToSet(tracked) : Interested(c) \/ <<c, "stopped">> \in inside
=============================================================================
