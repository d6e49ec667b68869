----------------------------- MODULE SsrServer -----------------------------
(***************************************************************************)
(* The SSR server (packages/ssr/src: server.js, protocol.js,               *)
(* environment.js, http-intercept.js, storage.js).  Connections deliver    *)
(* their requests in chunks cut anywhere; every chunk starts a handler of  *)
(* its own, and the handler of a render waits for the component while      *)
(* other handlers run.  What a render runs in is kept in Node's globals.   *)
(***************************************************************************)
EXTENDS BundleCache, FiniteSets, Functions

CONSTANTS Requests, Conns,
          Stream,      \* connection -> the sequence of symbols it sends
          KindOf,      \* request -> "ping", "flush", "render", "spa", "invalid"
          BundlesOf    \* request -> the bundles of a render; <<b>> or <<>> of a flush

None == "none"

(* A message is its text and a newline; a request is one message.          *)
NewLine == None
Message(r) == <<r, NewLine>>

ASSUME RequestsAssumption ==
  /\ None \notin Requests
  /\ \A c \in Conns : Stream[c] \in Seq(Requests \cup {NewLine})
  /\ \A c, d \in Conns : \A i \in DOMAIN Stream[c], j \in DOMAIN Stream[d] :
       Stream[c][i] = Stream[d][j] /\ Stream[c][i] # NewLine => c = d /\ i = j
  /\ \A r \in Requests : KindOf[r] \in {"ping", "flush", "render", "spa", "invalid"}

Renders == {r \in Requests : KindOf[r] \in {"render", "spa"}}

VARIABLES arrived,    \* connection -> how many symbols of its stream have
          buffer,     \* connection -> messageBuffer: what no newline ended
          handlers,   \* connection -> what each of its 'data' handlers has
                      \* still to handle, the one it waits for first
          stage,      \* request -> where it stands
          cache,      \* bundleCache
          window,     \* whose environment is in Node's globals
          fetch,      \* global.fetch: who wraps it, and what is under that
          via,        \* render -> the fetch it has been given
          stored,     \* render -> who wrote to the storage of its environment
          work,       \* render -> whether its component has run
          answer,     \* render -> what it was answered
          code,       \* history: render -> whose prepared bundles it ran
          flushed,    \* history: renders whose prepared bundles were flushed
          overlap     \* history: render -> those it was not alone with

wire == <<arrived, buffer, handlers>>
environment == <<window, fetch, via, stored>>
history == <<code, flushed, overlap>>
vars == <<wire, stage, cache, environment, work, answer, history>>

NoFetch == [there |-> FALSE, native |-> FALSE, through |-> {}]
NodeFetch == [there |-> TRUE, native |-> TRUE, through |-> {}]

NoAnswer == [status |-> None, storage |-> {}, document |-> None, through |-> {}]

Init ==
  /\ arrived = [c \in Conns |-> 0]
  /\ buffer = [c \in Conns |-> <<>>]
  /\ handlers = [c \in Conns |-> {}]
  /\ stage = [r \in Requests |-> "unsent"]
  /\ cache = EmptyCache
  /\ window = None /\ fetch = NodeFetch
  /\ via = [r \in Renders |-> NoFetch]
  /\ stored = [r \in Renders |-> {}]
  /\ work = [r \in Renders |-> "none"]
  /\ answer = [r \in Renders |-> NoAnswer]
  /\ code = [r \in Renders |-> None]
  /\ flushed = {}
  /\ overlap = [r \in Renders |-> {}]

-----------------------------------------------------------------------------
(* Framing: messageBuffer.push()                                           *)

(* The messages that end in text, and what is left                         *)
Ended(text) == SelectLastInSeq(text, LAMBDA x : x = NewLine)
Rest(text) == SubSeq(text, Ended(text) + 1, Len(text))

MessagesIn(text) == Without(SubSeq(text, 1, Ended(text)), {NewLine})

(* A chunk of n symbols arrives: the messages that are complete are given  *)
(* to a new handler.                                                       *)
Deliver(c, n) ==
  LET chunk == SubSeq(Stream[c], arrived[c] + 1, arrived[c] + n)
      text == buffer[c] \o chunk
      messages == MessagesIn(text)
  IN /\ arrived[c] + n <= Len(Stream[c])
     /\ arrived' = [arrived EXCEPT ![c] = @ + n]
     /\ buffer' = [buffer EXCEPT ![c] = Rest(text)]
     /\ handlers' = [handlers EXCEPT ![c] = IF messages = <<>> THEN @ ELSE @ \cup {messages}]
     /\ stage' = [r \in Requests |-> IF r \in ToSet(messages) THEN "queued" ELSE stage[r]]
     /\ UNCHANGED <<cache, environment, work, answer, history>>

-----------------------------------------------------------------------------
(* Handling one message                                                    *)

(* A handler is at r.                                                      *)
IsNext(r) == \E c \in Conns : \E h \in handlers[c] : Head(h) = r

(* The handler that waits for r goes on: r is answered.                    *)
Answered(r) ==
  /\ stage' = [stage EXCEPT ![r] = "answered"]
  /\ handlers' = [c \in Conns |->
       {h \in {IF Head(g) = r THEN Tail(g) ELSE g : g \in handlers[c]} : h # <<>>}]
  /\ UNCHANGED <<arrived, buffer>>

Pending(r) == stage[r] = "queued" /\ IsNext(r)
Waiting == {r \in Renders : stage[r] \in {"polling", "rendering"}}

(* Renders that have been given up but whose component still runs          *)
Late == {r \in Renders : stage[r] = "answered" /\ work[r] = "running"}

(* A message that does not parse or fails validation is an error answer.   *)
Rejected(r) == KindOf[r] = "invalid"

HandleAtOnce(r) ==
  /\ Pending(r) /\ (Rejected(r) \/ KindOf[r] = "ping")
  /\ Answered(r)
  /\ UNCHANGED <<cache, environment, work, answer, history>>

(* Those whose bundles a flush names                                       *)
Named(r) ==
  {q \in Renders : code[q] = q /\ (BundlesOf[r] = <<>> \/ Contains(BundlesOf[q], BundlesOf[r][1]))}

HandleFlush(r) ==
  /\ Pending(r) /\ KindOf[r] = "flush"
  /\ cache' = IF BundlesOf[r] = <<>> THEN EmptyCache ELSE Flushed(cache, BundlesOf[r][1])
  /\ flushed' = flushed \cup Named(r)
  /\ Answered(r)
  /\ UNCHANGED <<environment, work, answer, code, overlap>>

(* The bundles of a render: from the cache, or prepared and put there      *)
Loads(r) ==
  LET key == BundlesOf[r]
  IN \E later \in BOOLEAN :
       IF Has(cache, key)
       THEN /\ cache' = Used(cache, key, later)
            /\ code' = [code EXCEPT ![r] = CodeAt(cache, key)]
       ELSE /\ cache' = Put(cache, key, r, later)
            /\ code' = [code EXCEPT ![r] = r]

Answer(r, a) == answer' = [answer EXCEPT ![r] = a]
Error(status) == [NoAnswer EXCEPT !.status = status]

(* A bundle's file is not there: neither cache nor environment are touched.*)
PrepareFails(r) ==
  /\ Pending(r) /\ KindOf[r] = "spa" /\ ~Has(cache, BundlesOf[r])
  /\ Answer(r, Error("error"))
  /\ Answered(r)
  /\ UNCHANGED <<cache, environment, work, history>>

(* faulty variant: global.fetch is left alone                              *)
DestroyKeepingFetch(r) ==
  /\ window' = None
  /\ fetch' = fetch
  /\ via' = [via EXCEPT ![r] = NoFetch]
  /\ stored' = [stored EXCEPT ![r] = {}]

(* env.destroy()                                                           *)
Destroy(r) ==
  /\ window' = None
  /\ fetch' = NoFetch
  /\ via' = [via EXCEPT ![r] = NoFetch]
  /\ stored' = [stored EXCEPT ![r] = {}]

(* env.init() throws, the bundles throw or do not register the component:  *)
(* the environment comes and goes within one step.                         *)
RenderFails(r) ==
  /\ Pending(r) /\ r \in Renders
  /\ Loads(r)
  /\ Destroy(r)
  /\ Answer(r, Error("error"))
  /\ Answered(r)
  /\ overlap' = [q \in Renders |-> IF q \in Waiting THEN overlap[q] \cup {r} ELSE overlap[q]]
  /\ UNCHANGED <<work, flushed>>

(* createFetch() wraps the fetch it finds, or has one of its own.          *)
Wrapped(r) ==
  [there |-> TRUE, native |-> fetch.there /\ fetch.native,
   through |-> {r} \cup (IF fetch.there THEN fetch.through ELSE {})]

(* init(), execute(), and the component is created: a page is awaited      *)
(* until its component appears.                                            *)
StartRender(r) ==
  /\ Pending(r) /\ r \in Renders
  /\ Loads(r)
  /\ window' = r /\ fetch' = Wrapped(r)
  /\ via' = [via EXCEPT ![r] = Wrapped(r)]
  /\ stored' = [stored EXCEPT ![r] = {}]
  /\ work' = [work EXCEPT ![r] = "running"]
  /\ stage' = [stage EXCEPT ![r] = IF KindOf[r] = "spa" THEN "polling" ELSE "rendering"]
  /\ overlap' = [q \in Renders |->
                   IF q = r THEN Waiting \cup Late
                   ELSE IF q \in Waiting THEN overlap[q] \cup {r} ELSE overlap[q]]
  /\ UNCHANGED <<wire, answer, flushed>>

-----------------------------------------------------------------------------
(* While a render waits                                                    *)

(* _waitForComponent() finds the component.                                *)
Appears(r) ==
  /\ r \in Renders /\ stage[r] = "polling"
  /\ stage' = [stage EXCEPT ![r] = "rendering"]
  /\ UNCHANGED <<wire, cache, environment, work, answer, history>>

(* The component's code runs and writes what it has loaded to the          *)
(* localStorage of the globals, also when nobody waits for it any more.    *)
Runs(r) ==
  /\ r \in Waiting \cup Late /\ work[r] = "running"
  /\ work' = [work EXCEPT ![r] = IF r \in Late THEN "none"
                                 ELSE IF window = None THEN "failed" ELSE "done"]
  /\ stored' = IF window = None THEN stored ELSE [stored EXCEPT ![window] = @ \cup {r}]
  /\ UNCHANGED <<wire, stage, cache, window, fetch, via, answer, history>>

(* The metadata of a page is read from global.document.                    *)
Document(r) == IF KindOf[r] = "spa" THEN window ELSE r

(* component.ready() is first: html, metadata and the storage are taken.   *)
Ready(r) ==
  /\ r \in Renders /\ stage[r] = "rendering" /\ work[r] = "done"
  /\ Answer(r, [status |-> "success", storage |-> stored[r], document |-> Document(r),
                through |-> via[r].through])
  /\ Destroy(r)
  /\ Answered(r)
  /\ work' = [work EXCEPT ![r] = "none"]
  /\ UNCHANGED <<cache, history>>

(* The component fails, or the timer is first.                             *)
Throws(r) ==
  /\ r \in Renders /\ stage[r] = "rendering"
  /\ Answer(r, Error("error"))
  /\ Destroy(r)
  /\ Answered(r)
  /\ work' = [work EXCEPT ![r] = "none"]
  /\ UNCHANGED <<cache, history>>

(* faulty variant: waiting for the component to appear has no timeout      *)
TimeoutOfReady(r) ==
  /\ r \in Renders /\ stage[r] = "rendering"
  /\ Answer(r, Error("timeout"))
  /\ Destroy(r)
  /\ Answered(r)
  /\ work' = [work EXCEPT ![r] = IF @ = "running" THEN @ ELSE "none"]
  /\ UNCHANGED <<cache, history>>

Timeout(r) ==
  /\ r \in Waiting
  /\ Answer(r, Error("timeout"))
  /\ Destroy(r)
  /\ Answered(r)
  /\ work' = [work EXCEPT ![r] = IF @ = "running" THEN @ ELSE "none"]
  /\ UNCHANGED <<cache, history>>

Handle(r) ==
  \/ HandleAtOnce(r) \/ HandleFlush(r)
  \/ PrepareFails(r) \/ RenderFails(r) \/ StartRender(r)

Next ==
  \/ \E c \in Conns : \E n \in 1..Len(Stream[c]) : Deliver(c, n)
  \/ \E r \in Requests : Handle(r)
  \/ \E r \in Renders : Appears(r) \/ Runs(r) \/ Ready(r) \/ Throws(r) \/ Timeout(r)

(* The event loop runs a handler that can go on, and timers go off.        *)
Fairness == \A r \in Requests : WF_vars(Handle(r)) /\ WF_vars(Timeout(r))

Spec == Init /\ [][Next]_vars /\ Fairness

-----------------------------------------------------------------------------
(* "One request cannot affect another": what a render that was alone is    *)
(* answered, and where its requests go, is its own; what it contains of    *)
(* others, which the documentation does not rule out for renders at the    *)
(* same time, comes from one that had started and was not done, a component*)
(* still running after its timeout included.                               *)
OwnResult ==
  \A r \in Renders : answer[r].status = "success" =>
    /\ answer[r].storage \cup answer[r].through \subseteq {r} \cup overlap[r]
    /\ overlap[r] = {} => answer[r].storage = {r} /\ answer[r].document = r

(* After a flush of a bundle no render runs code that was prepared from it *)
(* before, whatever set of bundles it was prepared in.                     *)
FlushedIsGone ==
  [][\A r \in Renders : code'[r] # code[r] => code'[r] \notin flushed]_vars

(* Every request that has arrived is answered, also when its component is  *)
(* never ready or never appears, and so is what waits behind it.           *)
EveryRequestAnswered == []<>(\A r \in Requests : stage[r] \in {"unsent", "answered"})

(* "Use native fetch if available": every render of a Node that has one    *)
(* gets it.                                                                *)
NativeFetchKept == \A r \in Renders : via[r].there => via[r].native
=============================================================================
