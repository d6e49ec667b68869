---------------------------- MODULE EventDispatch ----------------------------
(***************************************************************************)
(* The events of one component: component-events.ts (on, once, trigger,    *)
(* invalidate), Jqhtml_Component._settle_on() behind ready() and rendered()*)
(* and the 'stop' event of _stop() (component.ts).                         *)
(*                                                                         *)
(* Everything here is synchronous: what makes it hard is re-entrance.  A   *)
(* handler may register, trigger, invalidate or stop in the middle of a    *)
(* dispatch, and so may the handlers those call.  The call stack is a      *)
(* variable; one action is what happens between two calls or returns of    *)
(* user code, and a handler that throws returns like any other (dispatch   *)
(* catches it).                                                            *)
(***************************************************************************)
EXTENDS Naturals, Sequences, FiniteSets, SequencesExt

CONSTANTS OnHandlers,    \* callbacks given to on()
          OnceHandlers,  \* callbacks given to once()
          Waiters,       \* promises made by _settle_on()
          Events,        \* event names
          Stop,          \* 'stop'
          NoEvent,       \* the event of a handler not registered yet
          MaxTriggers    \* bound on the number of triggers but 'stop'

Handlers == OnHandlers \cup OnceHandlers \cup Waiters

ASSUME EventsAssumption ==
  /\ Stop \in Events /\ NoEvent \notin Events
  /\ OnHandlers \cap OnceHandlers = {} /\ OnHandlers \cap Waiters = {}
  /\ OnceHandlers \cap Waiters = {}
  /\ MaxTriggers \in Nat

VARIABLES
  callbacks,  \* _lifecycle_callbacks: the live array of each event
  states,     \* _lifecycle_states: the last trigger of each event, 0 if none
  stopped,    \* _stopped
  fired,      \* once() wrappers and _settle_on() promises that are used up
  stack,      \* the call stack, see Frames
  log,        \* history: the event of each trigger; its index is the payload
  event,      \* history: what each handler was registered for
  since,      \* history: how many triggers preceded the registration
  got         \* history: the payloads each callback was called with

vars == <<callbacks, states, stopped, fired, stack, log, event, since, got>>
queues == <<callbacks, states>>
registration == <<event, since>>

(* A dispatch (a sticky call is one whose snapshot is empty), or _stop()   *)
(* inside on_stop().  User code runs on top of a frame that is running.    *)
Frame(e, n, rest, running) ==
  [kind |-> "dispatch", event |-> e, payload |-> n, rest |-> rest, running |-> running]
StopFrame ==
  [kind |-> "on_stop", event |-> Stop, payload |-> 0, rest |-> <<>>, running |-> TRUE]

Frames == [kind : {"dispatch", "on_stop"}, event : Events, payload : Nat,
           rest : Seq(Handlers), running : BOOLEAN]

TypeOK ==
  /\ callbacks \in [Events -> Seq(Handlers)]
  /\ states \in [Events -> Nat]
  /\ stopped \in BOOLEAN
  /\ fired \in SUBSET Handlers
  /\ stack \in Seq(Frames)
  /\ log \in Seq(Events)
  /\ event \in [Handlers -> Events \cup {NoEvent}]
  /\ since \in [Handlers -> Nat]
  /\ got \in [Handlers -> Seq(Nat)]

Init ==
  /\ callbacks = [e \in Events |-> <<>>]
  /\ states = [e \in Events |-> 0]
  /\ stopped = FALSE
  /\ fired = {}
  /\ stack = <<>>
  /\ log = <<>>
  /\ event = [h \in Handlers |-> NoEvent]
  /\ since = [h \in Handlers |-> 0]
  /\ got = [h \in Handlers |-> <<>>]

-----------------------------------------------------------------------------
Top == stack[Len(stack)]
Push(f) == Append(stack, f)
Replace(f) == Append(Front(stack), f)

(* The event loop, or a handler or hook on top of the stack, makes a call. *)
UserCode == stack # <<>> => Top.running

Occurred(e) == states[e] # 0

Enter(h, e) ==
  /\ event[h] = NoEvent
  /\ event' = [event EXCEPT ![h] = e]
  /\ since' = [since EXCEPT ![h] = Len(log)]

Receives(h, n) == got' = [got EXCEPT ![h] = Append(@, n)]

(* The callback is called at once, with the payload of the last trigger *)
Sticky(h, e) ==
  /\ stack' = Push(Frame(e, states[e], <<>>, TRUE))
  /\ Receives(h, states[e])

(* on(): registers, and fires at once if the event has occurred *)
On(h, e) ==
  /\ UserCode /\ h \in OnHandlers
  /\ Enter(h, e)
  /\ callbacks' = [callbacks EXCEPT ![e] = Append(@, h)]
  /\ IF Occurred(e) THEN Sticky(h, e) ELSE UNCHANGED <<stack, got>>
  /\ UNCHANGED <<states, stopped, fired, log>>

OnceOnlyRegisters(h, e) ==                                   \* faulty variant
  /\ UserCode /\ h \in OnceHandlers
  /\ Enter(h, e)
  /\ callbacks' = [callbacks EXCEPT ![e] = Append(@, h)]
  /\ UNCHANGED <<states, stopped, fired, stack, got, log>>

(* once(): fires at once, or registers a wrapper; never both *)
Once(h, e) ==
  /\ UserCode /\ h \in OnceHandlers
  /\ Enter(h, e)
  /\ IF Occurred(e)
     THEN Sticky(h, e) /\ fired' = fired \cup {h} /\ UNCHANGED callbacks
     ELSE /\ callbacks' = [callbacks EXCEPT ![e] = Append(@, h)]
          /\ UNCHANGED <<fired, stack, got>>
  /\ UNCHANGED <<states, stopped, log>>

SettleOnEventFirst(h, e) ==                                  \* faulty variant
  /\ UserCode /\ h \in Waiters /\ e # Stop
  /\ Enter(h, e)
  /\ IF stopped
     THEN fired' = fired \cup {h} /\ UNCHANGED <<callbacks, stack, got>>
     ELSE IF Occurred(e)
     THEN /\ Sticky(h, e) /\ fired' = fired \cup {h}
          /\ callbacks' = [callbacks EXCEPT ![Stop] = Append(@, h)]
     ELSE /\ callbacks' = [callbacks EXCEPT ![e] = Append(@, h), ![Stop] = Append(@, h)]
          /\ UNCHANGED <<fired, stack, got>>
  /\ UNCHANGED <<states, stopped, log>>

SettleOnEventOnly(h, e) ==                                   \* faulty variant
  /\ UserCode /\ h \in Waiters /\ e # Stop
  /\ Enter(h, e)
  /\ IF stopped
     THEN fired' = fired \cup {h} /\ UNCHANGED <<callbacks, stack, got>>
     ELSE IF Occurred(e)
     THEN Sticky(h, e) /\ fired' = fired \cup {h} /\ UNCHANGED callbacks
     ELSE /\ callbacks' = [callbacks EXCEPT ![e] = Append(@, h)]
          /\ UNCHANGED <<fired, stack, got>>
  /\ UNCHANGED <<states, stopped, log>>

(* _settle_on(): resolved at once on a stopped component, without the      *)
(* callback; else registered for 'stop' and the event.  If the event has   *)
(* occurred its registration settles the promise, which takes both         *)
(* registrations back before anybody else runs.                            *)
SettleOn(h, e) ==
  /\ UserCode /\ h \in Waiters /\ e # Stop
  /\ Enter(h, e)
  /\ IF stopped
     THEN fired' = fired \cup {h} /\ UNCHANGED <<callbacks, stack, got>>
     ELSE IF Occurred(e)
     THEN Sticky(h, e) /\ fired' = fired \cup {h} /\ UNCHANGED callbacks
     ELSE /\ callbacks' = [callbacks EXCEPT ![e] = Append(@, h), ![Stop] = Append(@, h)]
          /\ UNCHANGED <<fired, stack, got>>
  /\ UNCHANGED <<states, stopped, log>>

(* Marks the event as occurred and takes the snapshot: the head of         *)
(* trigger(), whose frame is put on the frames `below`.                    *)
Dispatch(e, below) ==
  /\ log' = Append(log, e)
  /\ states' = [states EXCEPT ![e] = Len(log')]
  /\ stack' = Append(below, Frame(e, Len(log'), callbacks[e], FALSE))

(* trigger() of any event but 'stop', which only _stop() triggers *)
Trigger(e) ==
  /\ UserCode /\ e # Stop /\ Cardinality({n \in DOMAIN log : log[n] # Stop}) < MaxTriggers
  /\ Dispatch(e, stack)
  /\ UNCHANGED <<callbacks, stopped, fired, registration, got>>

(* invalidate(): only 'ready' is invalidated by the framework, any event   *)
(* but 'stop' by its users                                                 *)
Invalidate(e) ==
  /\ UserCode /\ e # Stop
  /\ states' = [states EXCEPT ![e] = 0]
  /\ UNCHANGED <<callbacks, stopped, fired, stack, log, registration, got>>

(* _stop(): the flag first, then on_stop() *)
BeginStop ==
  /\ UserCode /\ ~stopped
  /\ stopped' = TRUE
  /\ stack' = Push(StopFrame)
  /\ UNCHANGED <<queues, fired, log, registration, got>>

(* on_stop() returned: 'stop' *)
OnStopReturns ==
  /\ stack # <<>> /\ Top.kind = "on_stop"
  /\ Dispatch(Stop, Front(stack))
  /\ UNCHANGED <<callbacks, stopped, fired, registration, got>>

(* on_stop() threw: out of _stop(), before its trigger *)
OnStopThrows ==
  /\ stack # <<>> /\ Top.kind = "on_stop"
  /\ stack' = Front(stack)
  /\ UNCHANGED <<queues, stopped, fired, log, registration, got>>

-----------------------------------------------------------------------------
(* The dispatch loop.                                                      *)
InLoop == stack # <<>> /\ Top.kind = "dispatch" /\ ~Top.running

(* The next callback of the snapshot *)
Next1 == Head(Top.rest)

Advance(running) == Replace([Top EXCEPT !.rest = Tail(@), !.running = running])

CallOn ==
  /\ InLoop /\ Top.rest # <<>> /\ Next1 \in OnHandlers
  /\ Receives(Next1, Top.payload)
  /\ stack' = Advance(TRUE)
  /\ UNCHANGED <<queues, stopped, fired, log, registration>>

(* A wrapper or settle() that is used up already, still in this snapshot *)
SkipFired ==
  /\ InLoop /\ Top.rest # <<>> /\ Next1 \in fired
  /\ stack' = Advance(FALSE)
  /\ UNCHANGED <<queues, stopped, fired, log, registration, got>>

CallOnceUnguarded ==                                         \* faulty variant
  /\ InLoop /\ Top.rest # <<>> /\ Next1 \in OnceHandlers
  /\ fired' = fired \cup {Next1}
  /\ callbacks' = [callbacks EXCEPT ![Top.event] = RemoveFirst(@, Next1)]
  /\ Receives(Next1, Top.payload)
  /\ stack' = Advance(TRUE)
  /\ UNCHANGED <<states, stopped, log, registration>>

CallOnceLiveArray ==                                         \* faulty variant
  /\ InLoop /\ Top.rest # <<>> /\ Next1 \in OnceHandlers \ fired
  /\ fired' = fired \cup {Next1}
  /\ callbacks' = [callbacks EXCEPT ![Top.event] = RemoveFirst(@, Next1)]
  /\ Receives(Next1, Top.payload)
  /\ stack' = Replace([Top EXCEPT !.rest = IF Len(@) > 1 THEN Tail(Tail(@)) ELSE <<>>,
                                  !.running = TRUE])
  /\ UNCHANGED <<states, stopped, log, registration>>

(* A once() wrapper leaves the live array, not the snapshots, and fires *)
CallOnce ==
  /\ InLoop /\ Top.rest # <<>> /\ Next1 \in OnceHandlers \ fired
  /\ fired' = fired \cup {Next1}
  /\ callbacks' = [callbacks EXCEPT ![Top.event] = RemoveFirst(@, Next1)]
  /\ Receives(Next1, Top.payload)
  /\ stack' = Advance(TRUE)
  /\ UNCHANGED <<states, stopped, log, registration>>

(* settle(): out of both arrays; 'stop' settles without the callback *)
CallWaiter ==
  /\ InLoop /\ Top.rest # <<>> /\ Next1 \in Waiters \ fired
  /\ fired' = fired \cup {Next1}
  /\ callbacks' = [callbacks EXCEPT ![event[Next1]] = RemoveFirst(@, Next1),
                                    ![Stop] = RemoveFirst(@, Next1)]
  /\ IF Top.event = Stop
     THEN UNCHANGED got /\ stack' = Advance(FALSE)
     ELSE Receives(Next1, Top.payload) /\ stack' = Advance(TRUE)
  /\ UNCHANGED <<states, stopped, log, registration>>

(* A callback returns, or throws and is caught *)
Return ==
  /\ stack # <<>> /\ Top.kind = "dispatch" /\ Top.running
  /\ stack' = Replace([Top EXCEPT !.running = FALSE])
  /\ UNCHANGED <<queues, stopped, fired, log, registration, got>>

EndOfDispatch ==
  /\ InLoop /\ Top.rest = <<>>
  /\ stack' = Front(stack)
  /\ UNCHANGED <<queues, stopped, fired, log, registration, got>>

-----------------------------------------------------------------------------
Register == \E h \in Handlers, e \in Events : On(h, e) \/ Once(h, e) \/ SettleOn(h, e)

Next ==
  \/ Register
  \/ \E e \in Events : Trigger(e) \/ Invalidate(e)
  \/ BeginStop \/ OnStopReturns \/ OnStopThrows
  \/ CallOn \/ SkipFired \/ CallOnce \/ CallWaiter \/ Return \/ EndOfDispatch

Spec == Init /\ [][Next]_vars

-----------------------------------------------------------------------------
Idle == stack = <<>>

(* once() and the callback of ready() run once, however deep the dispatch  *)
(* that runs them is nested and although snapshots taken before still hold *)
(* them.  (component-events.ts:75-91, component.ts:2087-2106)              *)
OnceIsOnce == \A h \in OnceHandlers \cup Waiters : Len(got[h]) <= 1

(* "Every one of them is invoked exactly once for that trigger": an on()   *)
(* handler gets every trigger after its registration once, plus at most    *)
(* the one that was the last when it registered - also when it registered  *)
(* in the middle of that very dispatch.                                    *)
(* (component-events.ts:106-129, docs/reference/14_...:2502-2516)          *)
Times(h, n) == Cardinality({i \in DOMAIN got[h] : got[h][i] = n})

ExactlyOnce ==
  \A h \in OnHandlers : event[h] # NoEvent =>
    \A n \in DOMAIN log :
      /\ log[n] # event[h] => Times(h, n) = 0
      /\ Times(h, n) <= 1
      /\ Idle /\ log[n] = event[h] /\ n > since[h] => Times(h, n) = 1

(* A handler registered while the event stands as occurred has heard of it *)
(* and a once() or ready() not registered any more has been used: nobody   *)
(* who came late waits for a trigger that has been.                        *)
LateIsInformed ==
  Idle => \A h \in Handlers :
    event[h] # NoEvent /\ (Occurred(event[h]) \/ \E n \in DOMAIN log :
                             n > since[h] /\ log[n] = event[h])
      => h \in fired \/ (h \in OnHandlers /\ got[h] # <<>>)

(* A used up once() or ready() is in no array, and one in use is in the    *)
(* arrays it needs: repeated waits on a long-lived component leave nothing *)
(* behind, and no waiter is dropped.  (component.ts:2081-2117)             *)
Registered(h, e) == h \in ToSet(callbacks[e])

NothingLeftBehind ==
  \A h \in OnceHandlers \cup Waiters : event[h] # NoEvent =>
    /\ h \in fired => \A e \in Events : ~Registered(h, e)
    /\ h \notin fired => /\ Registered(h, event[h])
                         /\ h \in Waiters => Registered(h, Stop)

(* 'stop' releases every waiter, those included that were made between the *)
(* flag and the event.  (component.ts:2070-2078, 2606-2652)                *)
StopReleases ==
  Idle /\ Occurred(Stop) => \A h \in Waiters : event[h] # NoEvent => h \in fired

(* component.ts:2076-2078: "waiters on a failed or stopped component are   *)
(* RELEASED".                                                              *)
StoppedReleases ==
  Idle /\ stopped => \A h \in Waiters : event[h] # NoEvent => h \in fired
=============================================================================
