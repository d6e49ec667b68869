---------------------------- MODULE BrowserStorage ----------------------------
(***************************************************************************)
(* Jqhtml_Local_Storage (packages/core/src/local-storage.ts): what the     *)
(* tabs of one site keep in the localStorage they share.                   *)
(*                                                                         *)
(* The storage is a record [items, marker, foreign]: the entries of        *)
(* jqhtml, the scope marker, and how much room others take.  An entry is   *)
(* found under <<kind, key, scope>>; every entry and the marker take one   *)
(* unit of Capacity.  These are the operations on it; CachedLoads calls    *)
(* them.                                                                   *)
(***************************************************************************)
EXTENDS Naturals, FiniteSets, Functions

CONSTANTS Scopes,    \* <version>::<cache key>, see set_cache_key()
          NoScope,
          Capacity,  \* the quota
          Oversized  \* texts over the limit of 1 MB

ASSUME StorageAssumption == Capacity \in Nat /\ NoScope \notin Scopes

EmptyDisk == [items |-> <<>>, marker |-> NoScope, foreign |-> 0]

Used(disk) ==
  Cardinality(DOMAIN disk.items) + disk.foreign
    + (IF disk.marker = NoScope THEN 0 ELSE 1)

(* faulty variant: one entry over the quota                                *)
FullLate(disk) == Used(disk) > Capacity

Full(disk) == Used(disk) >= Capacity

(* setItem() of an entry that is there replaces it                         *)
Fits(disk, id) == id \in DOMAIN disk.items \/ ~Full(disk)

With(disk, id, value) ==
  [disk EXCEPT !.items = [e \in DOMAIN @ \cup {id} |-> IF e = id THEN value ELSE @[e]]]

Without(disk, ids) == [disk EXCEPT !.items = Restrict(@, DOMAIN @ \ ids)]

(* _clear_jqhtml_keys(): the entries of every scope; the marker's name has *)
(* another prefix.                                                         *)
Cleared(disk) == Without(disk, DOMAIN disk.items)

(* faulty variant: the marker the quota clean-up leaves is not the scope   *)
StampedUnversioned(disk, scope) == [disk EXCEPT !.marker = <<scope>>]

(* setItem() of the marker                                                 *)
MarkerFits(disk) == disk.marker # NoScope \/ ~Full(disk)
Stamped(disk, scope) == [disk EXCEPT !.marker = scope]

-----------------------------------------------------------------------------
(* A tab's module: [scope, mode, available, ready]                         *)

Fresh == [scope |-> NoScope, mode |-> "data", available |-> "unknown", ready |-> FALSE]

(* _init(): storage is available if a test key could be written.           *)
Available(tab, disk) ==
  IF tab.available = "unknown" THEN IF Full(disk) THEN "no" ELSE "yes"
  ELSE tab.available

(* set_cache_key()                                                         *)
Configured(tab, disk, scope, mode) ==
  LET available == Available(tab, disk)
  IN [scope |-> scope, mode |-> mode, available |-> available,
      ready |-> tab.ready \/ available = "yes"]

(* _validate_scope(): another scope's entries are cleared; a marker that   *)
(* does not fit is only reported.                                          *)
Validated(tab, disk, scope) ==
  CASE Available(tab, disk) = "no" -> disk
    [] disk.marker \notin {NoScope, scope} -> Stamped(Cleared(disk), scope)
    [] MarkerFits(disk) -> Stamped(disk, scope)
    [] OTHER -> disk

(* get()                                                                   *)
Entry(tab, kind, key) == <<kind, key, tab.scope>>
Holds(tab, disk, kind, key) == tab.ready /\ Entry(tab, kind, key) \in DOMAIN disk.items
Get(tab, disk, kind, key) == disk.items[Entry(tab, kind, key)]

(* remove()                                                                *)
Removed(tab, disk, kinds, key) ==
  IF tab.ready THEN Without(disk, {Entry(tab, kind, key) : kind \in kinds}) ELSE disk

(* set(), set_serialized() and _set_item(): a text over the limit removes  *)
(* the entry; when the quota is hit all of jqhtml's entries are cleared,   *)
(* the marker is written again and the write is tried once more.           *)
Written(tab, disk, kind, key, value) ==
  LET id == Entry(tab, kind, key)
      room == Stamped(Cleared(disk), tab.scope)
  IN CASE ~tab.ready -> disk
       [] tab.ready /\ value.text \in Oversized -> Without(disk, {id})
       [] tab.ready /\ value.text \notin Oversized /\ Fits(disk, id) -> With(disk, id, value)
       [] OTHER -> IF Fits(room, id) THEN With(room, id, value) ELSE room

(* ... and writing the marker again may itself hit the quota: that is not  *)
(* caught.                                                                 *)
WriteThrows(tab, disk, kind, key, value) ==
  /\ tab.ready /\ value.text \notin Oversized
  /\ ~Fits(disk, Entry(tab, kind, key))
  /\ ~MarkerFits(Cleared(disk))

=============================================================================
