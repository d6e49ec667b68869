# jqhtml: a TLA+ model of the component runtime and its tools

jqhtml compiles templates, runs the components made from them in a browser page,
and renders the same components in a server. This directory holds TLA+ models of
the runtime (`packages/core/src/`), of the template compiler
(`packages/parser/src/`) and of the SSR server (`packages/ssr/src/`), the TLC
runs that check them on small instances, and TLAPS proofs that hold for every
instance.

The runtime and the server are each one thread, so nothing runs in parallel;
what makes them hard is that every `await`, `.then()`, `setTimeout` and socket
event lets any other code in: user hooks, other components, other requests,
`stop()`. In the modules about them **one action is one uninterrupted turn** of
the event loop, and a program counter per actor (`phase`, `stage`) says where it
will go on. Two modules are about what happens within one turn, when user code
re-enters (`EventDispatch`, `Attachment`); there the call stack is a variable.

## Inventory

| Part | State it keeps | Operations | Hard behaviour | What makes it correct |
|---|---|---|---|---|
| Lifecycle queue, `component-queue.ts` | `_busy`, `_booting`, `_pending`, `_promoted_running`, `_release_deferred`, armed timers | `begin_boot`, `end_boot`, `enqueue`, `promote`, `_run`, `_execute`, `_release` | merging into the tail, promotion out of the middle, the macrotask gap | one owner of the lock, no call lost, call order, every call settled |
| Load coordinator, `load-coordinator.ts`, `data-proxy.ts` | `_registry` of entries: status, waiting list, leader's data | `should_execute_on_load`, `register_leader`, `get_coordination_promise`, `_complete_coordination`, `get_leader_data`, `handle_leader_error` | leaders that fail or stop, followers that stop, a newcomer taking the key over before the followers wake | a leader settles its own group, no entry leaks, nobody waits for ever, followers adopt their own leader's data |
| Component lifecycle, `component.ts`, `lifecycle-manager.ts` | `_ready_state`, the sticky markers, `_ready_owed`, `_async_hook`, `_load_seq`, `_load_queue`, `_render_count`, `_stopped` | boot, `render`, `load`, `reload`, `refresh`, `redraw`, `ready`, `stop`, gates | calls awaited inside `on_ready()`, superseded loads, a cycle that fails, `stop()` in every gap | no self-deadlock, `ready` neither early nor lost, data never goes back, nothing runs after stop |
| Parent and child readiness, `component.ts` | `_dom_children`, `_dom_parent`, `_on_render_complete` | `_wait_for_children_ready`, `_wait_for_children_on_render` | children stopping, failing or reloading while waited for | bottom-up ready, no hang |
| Events, `component-events.ts` | `_lifecycle_callbacks`, `_lifecycle_states` | `on`, `once`, `trigger`, `invalidate`, `_settle_on` | dispatch over a snapshot, handlers that re-enter | once is once, no handler skipped or left behind |
| Attachment, `dom-attachment.ts` | tracked set, observer, `_attached`, `_attachment_checked` | `track_attachment`, `untrack_attachment`, `_attachment_check`, `_transition_attachment` | observer batches, late interest, hooks that move or stop components while they are told | attach/detach alternation, no move missed, an observer only while it is needed |
| Data, `data-proxy.ts`, the serializer | `this.data`, its text, the initial snapshot | freeze, copy, restore | objects the author keeps, changes and puts in again | nothing changes behind the text; each load starts from what `on_create()` left |
| Cache, `component-cache.ts`, `local-storage.ts`, `cache-key-serializer.ts` | entries and scope marker in `localStorage`, `_cache_key`, `_data_cache_key` | create, load and reload reads and writes, `set_cache_key`, quota retry | tabs sharing storage, args changed mid-life, failed loads | an entry is only read under the scope and key it was written for |
| Preload data, `preload-data.ts` | capture buffer, preload map | capture, seed, consume | several components with one key | each entry used once |
| Registries, `component-registry.ts` | classes, templates, memo tables | register, resolve | registration after resolution | memo never stale |
| SSR server, `packages/ssr/src/` | connections, bundle cache, Node globals | `ping`, `flush_cache`, `render`, `render_spa` | messages cut anywhere, overlapping renders that share globals, timeouts, what runs on after one | every request answered, a render's result its own, flushed code gone |
| Template compiler, `packages/parser/src/` | none between calls | preprocess, lex, parse, generate | HTML, JavaScript blocks and slots that overlap; brackets and delimiters in literals and comments | rejected exactly when it does not nest; nothing lost or moved; lines kept |
| Instruction processor, `instruction-processor.ts`, `markup.ts` | little | instructions to DOM | content written by one component and shown by another | content is bound to its writer |
| jQuery plugin, boot, viewport, debug | little | finding and booting components | boots children without awaiting them | - |

How they interact: a template instruction or the jQuery plugin constructs a
component and calls its boot without awaiting it. Boot takes the component's
queue lock, calls `create()`, `_render()` (which boots the children), `_load()`
(through the coordinator, which couples components with equal args), then waits
for the children's `ready` events and calls `on_ready()`. `render()`, `load()`,
`reload()` and `refresh()` go through the queue. `stop()` goes through nothing:
it sets a flag every cycle has to look at.

## Modules

| Module | Models | Lines |
|---|---|---|
| `SerialCalls` | abstract: calls served in batches, in order, one at a time, except those a running cycle waits for | what callers of the queue may rely on |
| `LifecycleQueue` | `Component_Queue`, every operation; what an executor does is left open | `component-queue.ts` |
| `LifecycleQueue_proofs` | TLAPS proofs about it | |
| `LoadCoordinator` | the coordinator and the boot-time `_load()` that drives it, for several components | `load-coordinator.ts`, `component.ts` 1433-1650, `data-proxy.ts` 511-556 |
| `LoadCoordinator_proofs` | TLAPS proofs about it | |
| `ComponentCycles` | one component's boot, `render()`, `load()`, `reload()`, hooks, ready state and `stop()`, on top of an instance of `LifecycleQueue` | `component.ts`, `lifecycle-manager.ts` |
| `ComponentCycles_proofs` | TLAPS proofs about it, on top of those about the queue | |
| `EventDispatch` | events of one component under re-entrance, with the waiters of `ready()` and the `stop` event | `component-events.ts`, `component.ts` 2085-2119, 2606-2652 |
| `EventDispatch_proofs` | TLAPS proofs about it | |
| `ReadyTree` | boot, `render()`, `reload()`, `refresh()` and `stop()` of a tree of components, and what parents wait for | `component.ts`, `lifecycle-manager.ts`, `component-cache.ts` 312-475 |
| `ReadyTree_proofs` | TLAPS proofs about it | |
| `CachedLoads` | components of several tabs over one `localStorage`: boots, loads, reloads, what they file, find and show | `component.ts`, `component-cache.ts`, `preload-data.ts` |
| `CachedLoads_proofs` | TLAPS proofs about it | |
| `BrowserStorage` | the operations on the storage: scopes, quota, clearing | `local-storage.ts` |
| `ArgKeys` | cache keys, invocation keys and the JSON of args | `cache-key-serializer.ts`, `load-coordinator.ts`, `component-cache.ts` |
| `DataFreeze` | `this.data` as objects in a heap the author has references into | `data-proxy.ts`, the serializer in `local-storage.ts`, `component.ts` |
| `Attachment` | whether components are in the document, and who is told | `dom-attachment.ts`, `component.ts` 2606-2652, 2760-2970 |
| `Attachment_proofs` | TLAPS proofs about it | |
| `SsrServer` | connections, framing, requests, renders in shared globals | `server.js`, `protocol.js`, `environment.js`, `http-intercept.js`, `storage.js` |
| `SsrServer_proofs` | TLAPS proofs about it | |
| `BundleCache` | the LRU of prepared bundles; used by `SsrServer` | `bundle-cache.js` |
| `JsScanner` | skipping over JavaScript | `js_scanner.ts` |
| `TemplateLexer` | preprocessing and tokens; uses `JsScanner` | `lexer.ts` |
| `TemplateParser` | tokens to tree; uses `TemplateLexer` | `parser.ts` |
| `TemplateCodegen` | tree to render function; uses `TemplateParser` | `codegen.ts` |
| `RenderFunction` | what running it outputs, and the page; uses `TemplateCodegen` | `instruction-processor.ts`, `markup.ts`, `component.ts` |
| `TemplateCompiler` | a template written, compiled and rendered; the composition of the five | `compiler.ts` |
| `MC...` | instances of the above for TLC | |

### LifecycleQueue

An entry is named after the call that created it; `entryOf` says which entry a
merged call joined. `phase` is where an entry is: `pending`, `holding` (runs with
the lock), `nested` (promoted), and `releasing`/`returning` for the microtask
between settling the callers and the reaction that releases the lock or counts
the promoted entry out. `timers` counts the `setTimeout`s of `_release()` that
have not fired; the invariant `LockAccounted` implies there is never more than
one. The queue implements `SerialCalls` under the mapping `Served`: the pending
entries are its waiting batches, the executing ones its running batches.

### LoadCoordinator

`_load()` runs once per component (boot), so an entry is named after the
component that registered it, and the registry maps a key to that name. The
status of an entry also stands for its promise. JavaScript runs reactions in the
order they were queued. That matters in one place: a promise queues the
reactions of all its followers back to back, so nothing can begin a load between
two of them (`BetweenReactions`), and what a load does after an `await` comes
after wake-ups that were already queued when it began (`Turn`). Everything else
is left to interleave. `on_load()` and `on_load_error()` take any number of
turns; an applied result may be rejected (data that is no object, an
`on_loaded()` that throws), which fails the boot and stops the component.

### ComponentCycles

Each entry of the queue is given the executor the code gives it, as a sequence
of stages: `on_load`, `fetched`, `apply` (waiting in `_load_queue`),
`on_loaded`, `children`, `on_ready`, `returned` or `threw`, `ended`. Every action
that touches the queue conjoins an action of `LifecycleQueue` with what the
component does in that turn, and `QueueSpec` checks that the whole implements
`LifecycleQueue!Spec`. `Start` is what an executor does before its first `await`,
in the same turn in which the queue starts it.

`_call_lifecycle()`'s record of running hooks is `asyncHook` (the innermost one)
and `previous`; `ReadyRun` is the walk of `_queue_call()` over it. A call is
either made by anybody (`Call`) or awaited by a running `on_ready()`
(`AwaitedCall`), which then does not settle before the call has. `.then()` of the
returned promise, where the promotion happens, is a turn of its own (`ThenRuns`):
the promise of `reload()` and `load()` is awaited some microtasks after the call.

Abstracted: the component overrides `on_load()`, has no load gate and no cache;
whether a reload re-renders is not modelled (it always does, as `reload()`
without a cache hit does); `on_load_error()` is part of `LoadSettles`: recovered,
it is a load that takes longer, not recovered, one that throws. Children take any
time to become ready. The microtask yields of boot are not separate steps: a
`stop()` in them is seen at the next stage.

### EventDispatch

All of it is synchronous, so the call stack is a variable: a frame is a running
`event_trigger()` with what is left of its snapshot, a sticky call (a dispatch
whose snapshot is empty), or `_stop()` inside `on_stop()`. An action is what
happens between two calls or returns of user code; user code (`UserCode`) runs in
the event loop or on top of a frame whose callback has been called, and may
register, trigger, invalidate or stop. A callback that throws returns like any
other, because the dispatch catches it; an `on_stop()` that throws does not, and
leaves `_stop()` before its trigger. A handler is named after its registration: a
`once()` wrapper and the pair of listeners of a `_settle_on()` are one handler
each, whose flag (`fired`, `settled`) is membership in `fired`. The payload of a
trigger is its number, so that `got` tells which triggers a handler has heard of;
`log`, `event`, `since` and `got` are history. `invalidate('stop')` and a
`trigger('stop')` by user code are left out: only `_stop()` triggers that event.

### ReadyTree

An instance is a number. A render takes the next free numbers for the components
of its template, any number of them in any shape, each with or without an
`on_load()`; a component that was stopped keeps its number, so "the same child
again" is a new instance, as in the code. What `_render()` does to the tree is
one step, `Renders`: every component inside is stopped (`Inside` is the closure
of parenthood, as `find('.Component')` is), the new ones run their boot up to its
first await. `comp` holds one record per instance; `phase` says which await the
running cycle is in, and `waits` the children whose promise it holds, which is
fixed when the wait begins. `_settle_on()` is the guard of `ChildrenReady` with
`FiresReady`: a promise is resolved by `ready`, by `stop`, or at once by a sticky
marker.

Abstracted: the queue is one waiting call, without promotion (that is in
`LifecycleQueue` and `ComponentCycles`), and no hook awaits a call. A load, the
application of its result and the re-render that follows are one turn; nothing
the tree looks at changes in between. A stopped component's cycle is cut off,
because every await of it is followed by a check of `_stopped` (the one that is
not, `hook_after_stop`, changes no readiness). Whether data has changed, the args
have, and a cache has an entry are free choices, so the model also lets an
instance use the cache after its load has failed, which the code does not. Left
out are boots that find their html in the cache, truncated and detached boots,
components that user code adds to the page by itself, and a `_render()` that
throws in a `render()` (`render_failure`).

### CachedLoads, BrowserStorage, ArgKeys

`localStorage` is one record, `disk`: the entries found under kind, key and
scope, the scope marker, and the room others take. `BrowserStorage` holds the
operations on it and keeps the two ways in which they fail apart: an entry over
the quota clears all of jqhtml's entries and is tried again, and writing the
marker again after that clearing may itself hit the quota, where nothing catches
it. A tab is a page with its own copy of the module (`tab`), and loading another
page in it (`PageLoad`) starts that copy and the components afresh.

Data is a text, and carries what it was loaded for (`of`), which is history and
what the properties speak about. `Args` are a few records of arg values;
`ArgKeys` computes their keys as the code does: the walk that declines what is
no plain data, names in order, internal args left out, `cache_id()`. So two
components whose args differ in the order of their properties have one key, and
one whose filter holds a callback has none; the run's instance has each of them.
`JSON.stringify`, which `reload()` uses to see whether args have changed, leaves
functions out and is a third notion of equality (`SameJson`).

A call of a component runs alone (the queue sees to that) and its phases are its
awaits. `ArgsMove` says in which of them a parent may set the args. In the run
that is while the component is gated or idle. During a load the code files data
fetched for the old args under the key of the new ones (see below).

### DataFreeze

Objects are nodes of a heap with one property of their own and one that may hold
another object, so a cycle, a shared object and an object inside another of
another kind all occur. The author has objects of their own (`Own`) and may keep
one they got (`kept`). `root` is the object behind `this.data`; reading goes
through wrappers as far as objects are plain, and an instance of a class is read
as it is, which is the one hole the source accepts: `TextIsCurrent` and
`HotIsCold` speak of the part that is wrapped (`WrappedPart`). `Swept` frees what
nobody can reach, so that nodes can be used again.

### Attachment

`stack` holds what is still to be done, the innermost last: hooks and handlers
run in the middle of transitions and may move, stop or listen (`Act`), and what
they interrupted goes on after them. A transition, a check, a dispatch, the
steps of `_stop()` and one round of the observer's loop are steps of their own
because user code may run between any two. `heard` keeps the last two events of
each listener, which is what alternation needs. `inside` is history: which
components were stopped, or moved natively, in the middle of being told. The
observer's loop runs over a live `Set`, as in the code: what is added is visited,
what is removed is not. `stop()` takes the components it finds inside its element
at that moment: one that was moved out lives on.

### SsrServer, BundleCache

A connection is a sequence of messages and newlines, delivered in chunks cut
anywhere; every chunk that completes messages starts a handler that answers
them one after the other, so two handlers of one connection, and those of two
connections, interleave. What a render finds in Node's globals is `window` and
`fetch`; a step of a render is a turn: `init()`, `execute()` and the creation of
the component happen in one. A render that timed out is answered and its
environment destroyed, but its component runs on (`Late`) and writes to whatever
environment the globals hold by then. `code`, `flushed` and `overlap` are
history. The bundle cache keeps of `Date.now()` only the order of uses and
whether the clock has moved, which is what ties in `_evictLRU()` depend on.
`Without` is what the loops of `push()` and `_handleFlushCache()` keep, written as a
recursive function because the provers cannot unfold `SelectSeq`.

### The template compiler

A text is a sequence of atoms: a delimiter, a bracket, a quote, a tag with its
name, a word, a blank, a newline. `JsScanner` to `TemplateCodegen` are functions
that correspond to the source files and call each other as those do. Line
numbers are kept throughout, because keeping them is what the code generator is
about. `RenderFunction` runs a generated function: each author's block runs as
often as `choice` says, and instructions become entries of a page, each with the
component it is bound to.

`TemplateCompiler` is where they are put to use. A template is written from
pieces; a piece is some atoms **with their meaning**, and what the compiler must
do is said in terms of the meanings of the pieces alone: when they nest
(`Accepted`), on which lines they are (`Places`) and what they show (`Reading`).
That is the reference definition, and it knows nothing of tokens, modes or
brackets. It is recursive, as are the parser and the generator, so these modules
are outside what TLAPS can prove about; they are checked for every template that
can be written from ten vocabularies.

## Runs

| Run | Instance | Shows |
|---|---|---|
| `lifecycle_queue` | boot + 3 calls, 2 keys | who owns the lock and that promotion keeps it, no call lost, `SerialCalls` refinement, every call settled |
| `load_coordinator` | 3 components, 1 key, fair | leaders own their entry, no leak, adoption, stop takes nothing, every load ends |
| `event_dispatch` | 2 `on()` handlers, a `once()`, a waiter, 2 events, 2 triggers and `stop` | every trigger reaches every handler once, once is once, late handlers are informed, no handler left behind, `stop` releases |
| `component_cycles` | boot + 3 calls of any method, every kind may throw, one awaited call at a time, symmetric | queue refinement, awaited calls run, `ready` at the right time |
| `component_cycles_live` | boot + 2 calls, load, reload and boot may throw, fair | no self-deadlock, `ready()` waiters are released |
| `ready_tree` | 3 instances, 2 calls on two of them, one caching its html, boots and reloads may throw, fair | parents become ready after their children; every component ends up ready or stopped |
| `cached_loads` | 2 tabs, 2 scopes (one of each mode), a component each, 4 args with 3 identities and 2 keys, room for 3 entries, 2 calls or events | entries are what their key says, the page shows `this.data`, entries are wiped only for a reason |
| `data_values` | one object of the author's, of each kind, 3 writes or assignments | frozen data does not change, cached data is what is read back, loads start from what `on_create()` left |
| `attachment` | a component inside another, 2 listeners, 5 acts, symmetric | attach/detach alternation, no move missed, the observer lives as long as it is needed |
| `ssr_server` | 2 connections with 2 renders, a page, a flush and a ping; one bundle set cached; fair | a render's result is its own, flushed code is gone, every request is answered |
| `template_compiler` | all templates of up to 5 pieces from 10 vocabularies | rejected exactly when it does not nest, lines kept, the page is what was written |
| `ssr_fetch_lost` | as `ssr_server` | a disagreement between documentation and code, see below |

Bounds. Three calls are what the queue's cases need: one running, one waiting
that is promoted from behind or merged into another, and two promoted entries at
once whose ends can come in either order. Three components are a leader, a
follower and a newcomer that takes the key over before the follower wakes;
operations of the coordinator touch one key only, so one key suffices, and the
safety half holds for any number (see Proofs). Two triggers are a dispatch and
one nested in it, or one after an `invalidate()`; with `stop` that makes
dispatches three deep, and four handlers of three kinds meet in each snapshot. In
`component_cycles` an `on_ready()` awaits one call at a time (`MaxAwait` = 1),
calls nested in calls included; with two at once the code goes wrong
(`CyclesPromotionLost`), which is a disagreement and not a bound. The run
`component_cycles_live` has two calls because a liveness check cannot use
symmetry. In `ready_tree` three instances are a parent, its child and the child
that replaces it, or a chain of three, or two children; two calls are a cycle and
one queued behind it, or cycles of a parent and of its child at the same time.
Calls are bounded, so that they cease, which is what `TreeSettles` supposes. What
may throw there is a boot and a reload, not a reload that rendered from the cache
(`TreeGaps`) nor a `render()` (`CyclesRenderFailure`).

`cached_loads`: the two components file under one key and under different ones,
read what the other tab filed, and fill the storage; three units of room are an
entry of each kind and the marker, so that the next write hits the quota. Two
events after the boots are args that move and the call that follows, a call
beside another tab's page load, or a clearing between two writes. Only one
component's methods are called and may fail: the other is there to share the
storage. `data_values`: seven nodes are the author's object, `this.data`, the
draft and the copies that come of them, chains of two each; three edits are to
put an object in, to keep it and to change it. `attachment`: five acts are to
listen, to move away and back before the observer delivers, and to do something
in a handler on each way; `EventsInOrder` needs two events, which one listener
hears in three acts. `ssr_server`: three renders are one that times out, one that
overlaps it and a later one, on two connections, so that two overlap with their
flush and ping queued before and behind; a cache of one bundle set makes every
other render evict; the bundle that is flushed is in one set and its id begins an
id in the other, which the code's search in the key's text flushes too (`PartOf`).
`template_compiler`: five pieces are an opening, a block
overlapping it, and what is between; the vocabularies are chosen for what
interacts (elements and blocks, components and blocks, slots, attributes, dynamic
tags and `content()`, raw text, comments, literals, regular expressions).

Deadlock is not checked, except in `data_values`, where a next instance can
always be created: calls, components, loads, acts and messages are finite in
number and the system may really come to rest.

Types. The type invariants of `LifecycleQueue`, `LoadCoordinator`,
`EventDispatch` and `ReadyTree` are proved (`TypeCorrect`) and not checked again;
those of `ComponentCycles` and `CachedLoads` are both checked and proved. The one
of `CachedLoads` includes that the storage is never over its quota and that no
entry is over the size limit. The types of `SsrServer` are part of its proved
invariant. `DataFreeze`, `Attachment` and the template compiler state none.

Each property of a passing run has a faulty variant of one definition next to
the original ("faulty variant"); putting it in the original's place must make
TLC find the property violated.

### Fairness

In `ReadyTree` a component's cycle goes on when what it waits for has come: loads
and hooks settle, promises that are resolved wake their waiters, and a waiting
call is started. That is weak fairness of each component's `Turn`; nobody has to
call or stop anything. In the other modules:

Assumed are only the event loop and the hooks' ends: reactions and timers that
are queued run (`GapOver`, `ThenRuns`, `Ends`, `Continues`), a hook settles when
everything it awaits has (`HookSettles`), children become ready or stop. Nobody
has to call, stop or boot anything in `ComponentCycles` and `LoadCoordinator`.
`LifecycleQueue` also assumes that boot begins and executors end; whether they
do is the question of `ComponentCycles`. Weak fairness suffices: none of these
steps, once possible, is disabled by another except by being taken, or by
`stop()`, which itself lets the actor go on.

`CachedLoads`, `DataFreeze`, `Attachment` and `TemplateCompiler` state safety
only and assume no fairness. `SsrServer` assumes that a handler that can go on
does (`Handle`, the event loop) and that a timer goes off (`Timeout`); nobody
has to send the rest of a message, and a component need never become ready.

### Disagreements found

Where the code does not do what its documentation, a comment or a test says, a
configuration shows it: TLC finds the property violated. `ssr_fetch_lost` is run
with the others; the rest are kept beside them, as `tlc -config X.cfg M`. `TreeGaps.cfg` and
`AttachmentGaps.cfg` state two violated properties each: `tlc -continue` shows
both.

* `SsrFetchLost.cfg` (`MCSsrServer`): `destroy()` sets `global.fetch` to undefined
  and nothing restores Node's own, so every render after the first falls back to
  the `http` module, or wraps the fetch of a render that is under way
  (`environment.js:408`; `http-intercept.js:47` says "Use native fetch if
  available", `SPECIFICATION.md:73-79` promises each render fresh global state).
* `EventDispatchStopHook.cfg` (`MCEventDispatch`): `_settle_on()` promises that
  waiters on a stopped component are released (`component.ts:2076-2078`). When
  `on_stop()` throws, `_stop()` is left before its `trigger('stop')` (2642); the
  component is stopped and its waiters hang.
* `CyclesPromotionLost.cfg` (`MCComponentCycles`): `await
  Promise.all([this.load(), this.reload()])` in `on_ready()`, then another awaited
  call: the hook record is a single pointer (`component.ts:529`), lost when nested
  hooks settle out of order, and the third call deadlocks
  (`14_lifecycle_complete_specification.md:838-843`).
* `CyclesRenderFailure.cfg` (`MCComponentCycles`): a `render()` that throws never
  puts the `ready` marker back (`component.ts:1098`), while `ready()` should
  "never hang and never reject" (specification, 1334-1335).
* `CyclesHookAfterStop.cfg` (`MCComponentCycles`): `stop()` while a load waits for
  its turn in `_apply_load_result()` (`component.ts:1756`) is followed by a data
  assignment and `on_loaded()` (specification, 1233-1234: no hook runs after
  `on_stop()`).
* `TreeGaps.cfg` (`MCReadyTree`): a reload with new args renders from the
  cache, then its load fails. `_reload()` restores the ready state of "its
  previous render" (`component.ts:2414-2417`), but that render is gone, and the
  children of the cached one are still booting: `ready` fires above children that
  have never been ready.
* `TreeGaps.cfg`, second property: `_ready()` takes the html snapshot after its
  direct children have rendered what they loaded (`component.ts:1831`). A
  grandchild may still be loading, and is stored as it was before its load, while
  `15_deduplication_and_caching.md:1014-1018` has the snapshot taken of the fully
  rendered DOM, after all children are ready.
* `DataOwnCopy.cfg` (`MCDataFreeze`): `create()` makes `this.data` "jqhtml's own
  copy of what on_create() left, for EVERY component" (`component.ts:1282`), but
  an empty object the author assigned counts as untouched and stays theirs.
* `TemplateComment.cfg` (`MCTemplateCompiler`): `codegen.ts:572-573` emits an HTML
  comment "exactly as written"; a `<% %>` with a JavaScript comment in it is
  rewritten inside an HTML comment too, by the preprocessing of code blocks
  (`lexer.ts:285-352`).
* `TemplateRawHandler.cfg` (`MCTemplateCompiler`): `LLM_REFERENCE.md:211` says
  "`@click` works on child elements inside the template". A `<textarea>` or `<pre>`
  that has content is a raw tag, whose attributes are written only if they are
  text (`instruction-processor.ts:423`): the handler is dropped without a word.
* `AttachmentGaps.cfg` (`MCAttachment`): "'detach' always precedes 'stop'" and
  strict alternation (`component.ts:2631-2634`, specification, 1439). A hook or
  handler that stops its component while it is being told makes later listeners
  hear the inner events first: detach before the attach that caused it.
* `AttachmentGaps.cfg`, second property: `_attachment_first_check()` checks and
  then begins to track (`component.ts:2828-2833`), unlike `_watch_attachment()`. An
  `on_attach()` that natively takes the root out of the document during that check
  is seen by no observer, and the component goes on believing it is attached.

Seen while reading, without a configuration: a follower that a new leader of
its key overtakes loads by itself (`load-coordinator.ts:214`, intended). Args that
change during a load file its data under the new key (`component.ts:1217-1232`;
`component-cache.ts:303-306` means to exclude that). The quota clean-up's own
write of the marker is outside the `try` (`local-storage.ts:1184`).
`capture_component_data()` uses `JSON` where `local-storage.ts:24-32` asks for one
serializer (`preload-data.ts:73`). `merge_output_pushes()` is called
behaviour-preserving, but pulls output out of an `if` without braces that ends the
line before it. A stop inside the first check leaves the stopped
component tracked until the next batch of the observer.

## Proofs

`LifecycleQueue_proofs` proves, for any finite set of calls and any keys:
`TypeCorrect`, `LockHasOneOwner`, `LockKeptForPromoted` and `NoCallIsLost`, that
is `Spec => []Inv` for the invariants of the run `lifecycle_queue` and the types. The only
assumption is `CallsAssumption` of the module: calls are finitely many and
different from boot and from the null values.

The argument is one inductive invariant, `IInv`. None of the four is inductive
alone: that a release happens once needs the count of promoted entries to be
right, which needs a promoted entry to come out of `pending` and not be there
twice, which needs merged calls to point to entries that are still waiting. The
counting lemmas (`PhaseMove`, `RunsMove`, `NoRuns`) say how the cardinalities of
the sets of running entries change when one entry changes phase;
`RemoveAtPositions` says what promotion does to the queue. There is one lemma per
action, and `Invariance` puts them together.

The same module proves that the queue implements `SerialCalls`
(`QueueServesCallsInOrder`): each step of it is, under `Served`, a step of calls
served in batches or a stutter. That needs more than `IInv`, namely which entry a
call belongs to and that an entry settles with all of its calls (`RInv`, theorem
`CallsAttributed`), for without it "the caller is told the result of its own
batch" would be read off the mapping.

`ComponentCycles_proofs` first proves `CyclesUseTheQueue`: every step of a
component's cycles is a step of `LifecycleQueue` or leaves its variables alone,
so `RInv` and everything proved of the queue holds for components too. On top of
that come the types (`TypeCorrect`), that `ready` is never fired in the middle of
a cycle (`ReadyFiresAlone`), that an owed `ready` is paid last
(`OwedReadyPaidLast`), and that a call a running `on_ready()` awaits is not left
behind the cycle it waits in (`AwaitedOneByOneRuns`). Its invariant `CInv` says
that what executes in the queue is what has a stage, that loads are applied in
turn, and, for the nesting, that no set of promoted entries waits only for itself
(`NestedAreHosted`); this is what makes the entry that holds the lock the root of
all promoted ones, and "the last to end" well defined. `AwaitedOneByOneRuns` has
the hypothesis `MaxAwait = 1`, a hook that awaits one call at a time, because with
two the code goes wrong (`CyclesPromotionLost`). Assumed are `MethodsAssumption`
and `EntriesAssumption` (calls are finitely many and not null values).

`LoadCoordinator_proofs` proves, for any finite set of components and any keys,
the types and the three invariants of the run `load_coordinator` (`TypeCorrect`,
`OneLeaderPerKey`, `RegistryDoesNotLeak`, `FollowersAdoptTheirGroup`) and its
action property (`StoppedIsLeftAlone`), from `ComponentsAssumption` alone (the
null values are told apart from real ones). Its inductive invariant says that a
follower is on the waiting list of the group it joined and on no other
(`Groups`), that everybody on the list of an entry still in the registry has yet
to wake (`RegistryLive`), and the fact the adoption rests on (`SuccessorWaits`):
a leader that took the key of a group that still has to wake began after that
group was settled, so the group's reactions are queued ahead of anything the new
leader does after an `await`. Without that ordering a follower could adopt the
data of a later leader. `LeaderOwnsEntry` is inductive together with the typing.

`EventDispatch_proofs` proves, for any handlers, any events and any number of
triggers, however deep the calls nest, that a `once()` handler or `ready()`
callback runs at most once (`OnceHandlersFireOnce`), that arrays do not
accumulate used up handlers and never lose a waiting one
(`ArraysDoNotAccumulate`), and that `stop` leaves no waiter behind
(`StopReleasesWaiters`), from `EventsAssumption` alone. The inductive invariant
speaks of the elements of arrays and snapshots, not of positions: a handler is
only in the arrays and snapshots of events it was registered for (`Arrays`,
`Snapshots`), so taking it out of those takes it out of all of them; and while
the dispatch of `stop` runs, whoever still waits is in a snapshot that is still
on the stack (`StopServes`), which is why nobody is left when the stack is empty.

A second invariant, `DInv`, follows a trigger through the stack, and with it
`OnHandlersHearEachTriggerOnce` and `LatecomersAreInformed` are proved. A handler
that `on()` registered stays in the array of its event (`StaysRegistered`); a
trigger after its registration has been heard or is in a frame that will still
call it (`Owed`), and never both (`Dispatching`), nor in two frames, because
frames with something left dispatch different triggers (`Nested`). A handler whose
event has happened has been called or is in a frame (`Informed`). When the stack
is empty there are no frames, and both properties follow.

`ReadyTree_proofs` proves, for any number of instances, any number of calls and
any choice of who may throw, that the tree is well typed (`TypeCorrect`), and, if
no load fails after a render from the cache (`NoCachedFailure`), that components
become ready from the bottom up (`ChildrenBeforeParents`), from
`ParametersAssumption` alone. `BottomUp` speaks of the end of a wait only; the
invariant follows the wait. A component that waits has, for every child, either
the child in `waits` or a child that has been ready, and one that has stopped
waiting (`Waited`) has only the latter (`ChildrenOK`). It is kept by everybody
else's steps because children never lose `everReady`, because only a component's
own render gives it children, and because a parent is older than its children, so
that a render inside a subtree does not reach above it. `RecordOK` says where in
a cycle a component can be in state 4: it leaves that state with the render that
takes its children away, except when it injects cached html, which has none. The
four ways a step changes the tree (`BecomesKeeps`, `FiresKeeps`, `StopsKeeps`,
`RendersKeeps`) are proved once, and every action is an instance of one.

`CachedLoads_proofs` proves, for any tabs, components, args, scopes and quota, the
types and the quota (`TypeCorrect`), that a boot, `reload()` or `refresh()` that
has ended left its data on screen (`DataIsOnScreen`), that entries are only wiped
for a reason (`EntriesOutlivePages`), and that entries are what their key says
(`EntriesHoldTheirKeys`). `SInv` says what each component has on screen at each
stage of its call: a boot has drawn what it will compare its data with
(`BootStage`), `reload()` and `refresh()` know what is on screen by `lastData`, and
after a hit in the cache that is the data before the load (`CallStage`). `TInv`
adds what data was loaded for, on its way from the fetch to the entry
(`CallIsTrue`). Assumed are `StorageAssumption`, `PreloadsAssumption` and
`ParametersAssumption`, which type the constants. `EntriesHoldTheirKeys` has three
hypotheses, each named: `KeysIdentify`, that args with equal keys mean the same,
which TLC finds for the args of the run `cached_loads` as `ArgKeys` computes their
keys (for all args it is an induction over values, which the provers cannot do);
`PreloadsAreTrue`, that the server preloads
data under its own key; and `ArgsKeptWhileLoading`, without which the code files
data under the wrong key (see the end of "Disagreements found").

`SsrServer_proofs` proves, for any connections, streams, requests, bundles and
size of the cache, that a render's answer is its own (`RendersGetTheirOwn`), that
flushed code is gone (`FlushedCodeIsGone`), that no request gets lost
(`NoRequestIsLost`), and that the cache keeps its limit and serves code of the
bundles asked for (`CacheServesItsBundles`), from `RequestsAssumption` (a request
is one message of one connection) and `MaxBundlesAssumption`. The invariant `SInv`
has two halves. The wire: the buffer is the end of what has arrived and has not
been handed out (`Buffered`), who is under way is with one handler, once
(`HandlersHold`, `OneHandlerEach`), and a render that waits is the one its handler
waits for (`NobodyLost`), which is why answering it moves on exactly one handler.
The renders: whoever is in Node's globals waits, renders that wait at the same
time know of each other (`Together`), what a render has collected comes from those
it knows of (`Sources`), and one that knows of none has the globals to itself
(`Alone`); an entry of the cache holds code prepared for its key and not flushed
(`CacheGood`). That no request gets lost is the safe half of
`EveryRequestAnswered`; that it is answered in the end stays with TLC.

`Attachment_proofs` proves, for any finite set of components in which a component
may be inside another one, any listeners, any hooks and any number of things the
application does, however deep they nest, the three invariants of the run
`attachment`: `ListenersHearInOrder`, `NobodyMissesAMove` and
`ObserverThereAsNeeded`, from `ParametersAssumption` (finitely many components, a
parent has no parent, hooks belong to components). A step changes the top of the
stack only, so `IInv` speaks of the frames by their positions and of pairs `i < j`,
where `j` is done before `i` goes on. Its parts, `Sound`, `Observed` and `Current`,
are written as operators of the values they depend on, because the application
acts in the middle of a step: after `event_trigger()` has called a handler and
before it calls the next. That a handler's `move`, `stop()` or `on()` keeps them is
proved once (`ActKeeps`), for the stack as the step has left it.

* `Turns`: unless a handler that is being told stops it, a component makes one turn
  at a time (`OneTurn`), and `_stop()` passes its flag once (`OneEnding`). This is
  where the exception of `EventsInOrder` comes from.
* `Listening`: who is registered for `stop` is registered for `detach`, and who is
  for `detach` is for `attach`, up to registrations that are still on the stack
  (`OneAfterOther`); a listener is not in the array before that (`NotYetIn`), and is
  not told twice, by a dispatch and by its own registration (`ToldByOne`).
* `Marked`, `Hearing`: the marks agree with the belief but for a turn that is
  under way (`AttachMarked`, `TurnMatches`), and a listener whose last event the
  marks no longer show is owed the next one by a frame (`AttachHeard`,
  `DetachHeard`). With `NextFollows`, whoever is about to be told has heard what
  comes before it.
* `Observed`, `Current`: a component of interest is tracked or about to be
  (`WantIsTracked`), and what it believes is so, unless mutations wait to be
  delivered, the batch has not come to it yet, or it was moved inside its first
  check (`WantIsRight`). A move that changes where a component is leaves records
  if the observer is installed, and it is while somebody is tracked (`ObserverOn`,
  `FlipsAreSeen`).

Induction. The provers cannot instantiate the library's induction theorems, which
take an operator. Where a recursive function has to be followed, lemmas state what
takes sets instead: a set of numbers with 0 and closed under successor is all of
`Nat` (`NatSetInduction`), and a first value and a function on values have a
sequence of iterates (`RecursionOnNat`, `UnrollsOnNat`). The walk of
`_queue_call()` over nested hooks and the filter of the bundle cache are proved
with these.

The lemmas about arrays (`AppendElements`, `TailElements`, `RemoveFirstElements` and
the like) are repeated in the modules whose proofs use them.

Only model-checked: `DataFreeze` (its invariants compare texts along chains of
references in a heap, and hold where there are enough free nodes to copy into),
the keys of `ArgKeys` (recursive over values), the template compiler (recursive
operators), and all liveness (TLAPS has no support for `ENABLED` and fairness).

## Not modelled

* Registries, jQuery plugin and the boot of server-rendered markup: they run while
  a page starts, before the components the models begin with. Planned.
* Viewport, debug and overlay, the Laravel bridge, the webpack loader and the
  scripts: no state anything else depends on. Compiler tables (entities, element
  lists) and the wording of errors: constants.
* Of the lifecycle: truncated and detached boots in `ComponentCycles` and
  `ReadyTree`, components that user code adds to the page by itself, `refresh()`
  and gates other than in `CachedLoads`; of the coordinator, deduplication keys
  other than equal ones.
* Of the data: chains of more than two objects, more than one object of the
  author's at once, changes inside instances of classes (the accepted hole), the
  proxy of `this.args`.
* Of attachment: weak references and documents without a `MutationObserver`; a hook
  or handler acts at most once per call.
* Of the SSR server: the cut of a multibyte character (`server.js:97`), messages
  that are JSON but no object, `stop()`, `$.ajaxTransport` and the token header, the
  `http` fallback itself, bundle ids with a `|` in them. `OwnResult` rules out what
  a render gets from renders it was not together with; for renders at the same
  time the documentation promises nothing.
* Of the compiler: backslash escapes, square brackets and the keywords before a
  regular expression, reserved names, slot parameters, source columns, the merging
  of pushes, the module wrapper; of rendering, ids, default attributes, style
  merging and the data attributes of raw tags. The author's blocks are `if` and
  `for` statements run up to twice.

Hazards that no property covers: those the code gets wrong, which the
configurations of "Disagreements found" show (a stop during the wait to apply a
load, a throwing `on_stop()`, a failed reload that rendered from the cache, the
half-loaded snapshot); preload data used twice, which would be the same data under
its own key; the registries. `OwedReadyIsFinal` speaks of a `ready` that is owed: a
cycle that owes none fires it at its end although a `render()` is queued behind it.

## Plan

1. Done: all modules above, with proofs of `LifecycleQueue` (types, invariants,
   refinement), `LoadCoordinator`, `EventDispatch`, `ReadyTree`, `ComponentCycles`,
   `CachedLoads`, `SsrServer` and `Attachment`.
2. Proofs left: `TextIsCurrent` and `HotIsCold` of `DataFreeze`, which need lemmas
   about reachability.
3. `PageBoot`: the registries' memo tables and the boot of server-rendered markup.
