----------------------------- MODULE DataFreeze -----------------------------
(***************************************************************************)
(* What this.data is: a copy of its own of what on_create() or on_load()   *)
(* left, read-only in between (packages/core/src/data-proxy.ts, the        *)
(* serializer of local-storage.ts, create(), _data_text() and              *)
(* _assign_load_result() of component.ts).                                 *)
(*                                                                         *)
(* Objects are nodes of a heap.  A node has a property of its own and one  *)
(* that may hold another object, so what is reachable from a node is a     *)
(* chain, which may run into itself.  The text of an object is the         *)
(* sequence of <<kind, property>> along its chain.                         *)
(***************************************************************************)
EXTENDS Naturals, FiniteSets, SequencesExt, FiniteSetsExt

CONSTANTS Nodes,        \* objects, 1..n
          Own,          \* those the author creates outside this.data
          MaxLength,    \* objects of a chain, at most
          MaxEdits,     \* bound: writes and assignments of the author
          Kinds         \* functions from Own to their kinds, to start from

None == 0
NoText == <<>>

(* "plain"  a plain object or array: read through a wrapper while frozen   *)
(* "class"  Date, Map, Set or an instance of a registered class: restored  *)
(*          as itself, and read as it is                                   *)
(* "stray"  an instance of a class nobody registered                       *)
(* "other"  a function, promise, element, component or symbol, or an       *)
(*          instance whose to_plain() throws                               *)
ObjectKinds == {"plain", "class", "stray", "other"}

(* The property is not there, is there but undefined, or holds something.  *)
Values == {"absent", "undefined", "x"}

ASSUME ParametersAssumption ==
  /\ Nodes \subseteq Nat \ {None} /\ Own \subseteq Nodes
  /\ MaxLength \in Nat \ {0} /\ MaxEdits \in Nat
  /\ Kinds \subseteq [Own -> ObjectKinds]

VARIABLES heap,     \* the objects: their kind, their value and the one they refer to
          root,     \* the object behind the proxy this.data
          phase,    \* on_create() runs, nothing runs, or on_load() runs
          text,     \* __data_text ...
            \* ... and __data_text_of
          initial,  \* __initial_data_text
          draft,    \* this.data of the running on_load()
          kept,     \* an object the author got from jqhtml and still holds
          entry,    \* the cache entry of the component's key
          created,  \* history: what on_create() left
          filed,    \* history: this.data is what was written to entry
          edits     \* bound: writes and assignments so far

vars == <<heap, root, phase, text, initial, draft, kept, entry, created, filed, edits>>

Blank == [kind |-> "plain", val |-> "absent", next |-> None]
Empty == <<<<"plain", "absent">>>>   \* the text {}

(* this.data can be written while on_create() runs.                        *)
Frozen == phase # "creating"

-----------------------------------------------------------------------------
(* The serializer                                                          *)

(* The objects of a chain, at most one more than MaxLength                 *)
Chain(h, n) ==
  LET upTo[i \in 1..MaxLength + 1] ==
        IF i = 1 THEN <<n>>
        ELSE LET s == upTo[i - 1]
                 m == h[Last(s)].next
             IN IF m = None \/ m \in ToSet(s) THEN s ELSE Append(s, m)
  IN upTo[MaxLength + 1]

(* Bound: chains have at most MaxLength objects.                           *)
Short(h, n) == Len(Chain(h, n)) <= MaxLength

(* process_for_serialization(): it ends where a value cannot be expressed  *)
(* and where a cycle closes; the instance of an unknown class is a plain   *)
(* object.                                                                 *)
Expressed(h, n) ==
  LET s == Chain(h, n)
      others == {i \in DOMAIN s : h[s[i]].kind = "other"}
  IN IF others = {} THEN s
     ELSE SubSeq(s, 1, (CHOOSE i \in others : \A j \in others : i <= j) - 1)

KindText(kind) == IF kind = "stray" THEN "plain" ELSE kind

(* snapshot() keeps a property that is undefined, serialize() does not.    *)
SnapshotText(h, n) ==
  LET s == Expressed(h, n)
  IN [i \in DOMAIN s |-> <<KindText(h[s[i]].kind), h[s[i]].val>>]

DataText(h, n) ==
  LET s == Expressed(h, n)
      Property(v) == IF v = "undefined" THEN "absent" ELSE v
  IN [i \in DOMAIN s |-> <<KindText(h[s[i]].kind), Property(h[s[i]].val)>>]

(* normalize(): a value that cannot be expressed at all is {}              *)
NormalText(h, n) == IF DataText(h, n) = NoText THEN Empty ELSE DataText(h, n)

(* What is alive; other nodes are free, and blank.                         *)
Live(h, roots) == UNION {ToSet(Chain(h, r)) : r \in roots}
Swept(h, roots) ==
  LET live == Live(h, roots)
  IN [n \in Nodes |-> IF n \in live THEN h[n] ELSE Blank]

(* deserialize(): new objects, one after the other from New(h, roots) on   *)
New(h, roots) == Min(Nodes \ Live(h, roots))

Restored(h, roots, t) ==
  LET free == Nodes \ Live(h, roots)
      Rank(n) == Cardinality({m \in free : m <= n})
      At(i) == CHOOSE n \in free : Rank(n) = i
  IN [n \in Nodes |->
       IF n \in free /\ Rank(n) <= Len(t)
       THEN [kind |-> t[Rank(n)][1], val |-> t[Rank(n)][2],
             next |-> IF Rank(n) < Len(t) THEN At(Rank(n) + 1) ELSE None]
       ELSE h[n]]

(* All that is referred to                                                 *)
Roots == Own \cup ({root, draft, kept} \ {None})

-----------------------------------------------------------------------------
(* What the author gets at through an object that is not wrapped           *)

Raw ==
  LET held == Own \cup ({kept, draft} \ {None})
      opened == IF Frozen THEN {} ELSE {root}
  IN Live(heap, held \cup opened)

(* What is read through wrappers: this.data, and the objects inside it as  *)
(* far as they are plain.                                                  *)
Wrapped(h, n) ==
  LET s == Chain(h, n)
      bare == {i \in DOMAIN s \ {1} : h[s[i]].kind # "plain"}
  IN IF bare = {} THEN s
     ELSE SubSeq(s, 1, (CHOOSE i \in bare : \A j \in bare : i <= j) - 1)

(* The part of a text that is wrapped once it is restored                  *)
WrappedPart(t) ==
  LET bare == {i \in DOMAIN t \ {1} : t[i][1] # "plain"}
  IN IF bare = {} THEN t
     ELSE SubSeq(t, 1, (CHOOSE i \in bare : \A j \in bare : i <= j) - 1)

-----------------------------------------------------------------------------
Init ==
  /\ heap \in {[n \in Nodes |-> IF n \in Own THEN [Blank EXCEPT !.kind = k[n]] ELSE Blank] :
                 k \in Kinds}
  /\ root = New(heap, Own)
  /\ phase = "creating"
  /\ text = NoText /\ initial = NoText
  /\ draft = None /\ kept = None
  /\ entry = NoText
  /\ created = NoText /\ filed = FALSE /\ edits = 0

(* this.data becomes the restored t, as the setter makes it: no text.      *)
Install(t) ==
  /\ root' = New(heap, Roots)
  /\ heap' = Restored(heap, Roots, t)

Edit == edits < MaxEdits /\ edits' = edits + 1

(* on_create(): this.data.x = ..., this.data = o                           *)
CreateWrites(v, o) ==
  /\ phase = "creating"
  /\ heap' = [heap EXCEPT ![root].val = v, ![root].next = o]
  /\ Short(heap', root)
  /\ Edit
  /\ UNCHANGED <<root, phase, text, initial, draft, kept, entry, created, filed>>

CreateAssigns(o) ==
  /\ phase = "creating" /\ heap[o].kind # "other"
  /\ root' = o
  /\ heap' = Swept(heap, Own \cup ({kept} \ {None}))
  /\ Edit
  /\ UNCHANGED <<phase, text, initial, draft, kept, entry, created, filed>>

(* create() after on_create(): the snapshot, the cache read and, if that   *)
(* found nothing, a copy in the place of what on_create() left.  An empty  *)
(* object is taken for untouched and kept.                                 *)
Touched(n) == heap[n] # Blank

(* faulty variant: the snapshot is a cache text                            *)
CreateEndsSerialized(hit) ==
  LET left == IF Touched(root) THEN DataText(heap, root) ELSE Empty
  IN /\ phase = "creating"
     /\ hit => entry # NoText
     /\ initial' = left /\ created' = SnapshotText(heap, root)
     /\ phase' = "idle" /\ filed' = hit
     /\ IF hit THEN Install(entry)
        ELSE IF Touched(root) THEN Install(left) ELSE UNCHANGED <<heap, root>>
     /\ UNCHANGED <<text, draft, kept, entry, edits>>

CreateEnds(hit) ==
  LET left == IF Touched(root) THEN SnapshotText(heap, root) ELSE Empty
  IN /\ phase = "creating"
     /\ hit => entry # NoText
     /\ initial' = left /\ created' = SnapshotText(heap, root)
     /\ phase' = "idle" /\ filed' = hit
     /\ IF hit THEN Install(entry)
        ELSE IF Touched(root) THEN Install(left) ELSE UNCHANGED <<heap, root>>
     /\ UNCHANGED <<text, draft, kept, entry, edits>>

(* The author changes an object that is not wrapped; to change a wrapped   *)
(* one throws.                                                             *)
AuthorSets(n, o) ==
  /\ Edit
  /\ heap[n].kind # "other" /\ (phase = "creating" => n # root)
  /\ heap' = Swept([heap EXCEPT ![n].val = "x", ![n].next = o], Roots)
  /\ \A m \in Roots : Short(heap', m)
  /\ UNCHANGED <<root, phase, text, initial, draft, kept, entry, created, filed>>

(* faulty variant: only the first level is wrapped                         *)
KeepNested(n) ==
  /\ n # kept
  /\ \/ phase = "loading" /\ n = draft
     \/ Frozen /\ n = heap[root].next /\ n # None
  /\ kept' = n
  /\ heap' = Swept(heap, Own \cup {n} \cup ({root, draft} \ {None}))
  /\ UNCHANGED <<root, phase, text, initial, draft, entry, created, filed, edits>>

(* The author keeps something that is not wrapped: this.data of on_load(), *)
(* or what is at the end of the wrappers.                                  *)
Keep(n) ==
  /\ n # kept
  /\ \/ phase = "loading" /\ n = draft
     \/ /\ Frozen
        /\ n = heap[Last(Wrapped(heap, root))].next
        /\ n # None /\ heap[n].kind # "plain"
  /\ kept' = n
  /\ heap' = Swept(heap, Own \cup {n} \cup ({root, draft} \ {None}))
  /\ UNCHANGED <<root, phase, text, initial, draft, entry, created, filed, edits>>

-----------------------------------------------------------------------------
(* _data_text(): computed once for each object that becomes this.data      *)
CurrentText == IF text # NoText THEN text ELSE DataText(heap, root)

(* A load starts: the text of this.data, and a copy of the snapshot for    *)
(* on_load() to write to                                                   *)
StartLoad ==
  /\ phase = "idle"
  /\ phase' = "loading"
  /\ text' = CurrentText
  /\ LET roots == Own \cup ({root, kept} \ {None})
         h == Swept(heap, roots)
     IN draft' = New(h, roots) /\ heap' = Restored(h, roots, initial)
  /\ UNCHANGED <<root, initial, kept, entry, created, filed, edits>>

(* on_load(): this.data = o                                                *)
LoadAssigns(o) ==
  /\ phase = "loading" /\ heap[o].kind # "other" /\ draft # o
  /\ draft' = o
  /\ heap' = Swept(heap, Own \cup ({root, kept} \ {None}))
  /\ Edit
  /\ UNCHANGED <<root, phase, text, initial, kept, entry, created, filed>>

(* faulty variant: what on_load() left becomes this.data as it is          *)
LoadReturnsAliased ==
  LET t == NormalText(heap, draft)
      writes == t # text /\ t # Empty
  IN /\ phase = "loading" /\ phase' = "idle"
     /\ root' = draft /\ text' = t
     /\ heap' = Swept(heap, Own \cup {draft} \cup ({kept} \ {None}))
     /\ draft' = None
     /\ entry' = IF writes THEN t ELSE entry
     /\ filed' = (writes \/ (t = entry /\ filed))
     /\ UNCHANGED <<initial, kept, created, edits>>

(* on_load() has returned: _assign_load_result(), and the write to the     *)
(* cache if the data changed                                               *)
LoadReturns ==
  LET t == NormalText(heap, draft)
      roots == Own \cup ({draft, kept} \ {None})
      h == Swept(heap, roots)
      writes == t # text /\ t # Empty
  IN /\ phase = "loading" /\ phase' = "idle"
     /\ root' = New(h, roots) /\ text' = t
     /\ heap' = Swept(Restored(h, roots, t), Own \cup {root'} \cup ({kept} \ {None}))
     /\ draft' = None
     /\ entry' = IF writes THEN t ELSE entry
     /\ filed' = (writes \/ (t = entry /\ filed))
     /\ UNCHANGED <<initial, kept, created, edits>>

(* on_load() has thrown: this.data stays what it was.                      *)
LoadFails ==
  /\ phase = "loading" /\ phase' = "idle"
  /\ draft' = None
  /\ heap' = Swept(heap, Own \cup ({root, kept} \ {None}))
  /\ UNCHANGED <<root, text, initial, kept, entry, created, filed, edits>>

(* check_cache_on_reload(): the cached data becomes this.data              *)
ReloadFromCache ==
  /\ phase = "idle" /\ entry \notin {NoText, Empty}
  /\ Install(entry)
  /\ text' = NoText
  /\ filed' = TRUE
  /\ UNCHANGED <<phase, initial, draft, kept, entry, created, edits>>

(* _reload_without_data()                                                  *)
Blanked ==
  /\ phase = "idle"
  /\ Install(initial)
  /\ text' = NoText
  /\ filed' = FALSE /\ entry' = NoText
  /\ UNCHANGED <<phase, initial, draft, kept, created, edits>>

(* Another instance is created, over the same cache; objects of Own may be *)
(* kept by the application.                                                *)
NextInstance ==
  /\ phase = "idle" /\ phase' = "creating"
  /\ LET h == Swept(heap, Own)
     IN heap' = h /\ root' = New(h, Own)
  /\ text' = NoText /\ initial' = NoText
  /\ draft' = None /\ kept' = None /\ created' = NoText /\ filed' = FALSE
  /\ UNCHANGED <<entry, edits>>

Next ==
  \/ \E v \in Values, o \in Own \cup {None} : CreateWrites(v, o)
  \/ \E o \in Own : CreateAssigns(o) \/ LoadAssigns(o)
  \/ \E hit \in BOOLEAN : CreateEnds(hit)
  \/ \E n \in Raw, o \in Own \cup {None} : AuthorSets(n, o)
  \/ \E n \in Nodes : Keep(n)
  \/ StartLoad \/ LoadReturns \/ LoadFails
  \/ ReloadFromCache \/ Blanked \/ NextInstance

Spec == Init /\ [][Next]_vars

-----------------------------------------------------------------------------
(* this.data is never an object of the author's: create() makes it         *)
(* "jqhtml's own copy of what on_create() left, for EVERY component".      *)
OwnCopy == Frozen => root \notin Own

(* The text kept of this.data is its text now, as far as it is wrapped:    *)
(* whatever references the author has kept from on_create(), on_load() or  *)
(* earlier data, nobody changes frozen data behind the freeze, and no      *)
(* change of data goes unseen by a reload() or refresh() that compares     *)
(* texts.                                                                  *)
TextIsCurrent ==
  Frozen /\ root \notin Own /\ text # NoText =>
    WrappedPart(DataText(heap, root)) = WrappedPart(text)

(* Hot is cold: data that was written to the cache, or came from it, is    *)
(* what the next instance will read there.                                 *)
HotIsCold ==
  Frozen /\ filed => WrappedPart(SnapshotText(heap, root)) = WrappedPart(entry)

(* Every on_load() starts from what on_create() left, also when this.data  *)
(* came from the cache or has been loaded since; only what cannot be       *)
(* expressed at all is missing.                                            *)
StartsAsCreated ==
  [][phase = "idle" /\ phase' = "loading" => SnapshotText(heap', draft') = created']_vars

=============================================================================
