---------------------------- MODULE BundleCache ----------------------------
(***************************************************************************)
(* The SSR server's cache of prepared bundle code                          *)
(* (packages/ssr/src/bundle-cache.js): a Map in insertion order, each      *)
(* entry with the time of its last use.  Keys are the sequences of bundle  *)
(* ids.                                                                    *)
(***************************************************************************)
EXTENDS Naturals, SequencesExt, FiniteSetsExt

CONSTANTS MaxBundles,  \* options.maxBundles || 10
          PartOf       \* <<a, b>>: the text of bundle id a is a part of that of b

ASSUME MaxBundlesAssumption == MaxBundles \in Nat \ {0}

EmptyCache == <<>>

At(cache, key) == SelectInSeq(cache, LAMBDA e : e.key = key)

Has(cache, key) == At(cache, key) # 0
CodeAt(cache, key) == cache[At(cache, key)].code

(* Date.now() is that of the latest use, or later.  Only the order of the  *)
(* uses matters: each is kept as the number of milliseconds before it in   *)
(* which another entry was last used.                                      *)
Now(cache, later) ==
  LET uses == {cache[i].used : i \in DOMAIN cache}
  IN Max(uses \cup {0}) + (IF later THEN 1 ELSE 0)

Ranked(cache) ==
  [i \in DOMAIN cache |-> [cache[i] EXCEPT !.used =
     Cardinality({cache[j].used : j \in {k \in DOMAIN cache : cache[k].used < cache[i].used}})]]

(* get() of an entry that is there                                         *)
Used(cache, key, later) ==
  Ranked([cache EXCEPT ![At(cache, key)].used = Now(cache, later)])

(* _evictLRU(): the first of those used in the earliest millisecond        *)
Oldest(cache) ==
  CHOOSE i \in DOMAIN cache :
    \A j \in DOMAIN cache :
      cache[i].used < cache[j].used \/ (cache[i].used = cache[j].used /\ i <= j)

Evicted(cache) == IF cache = EmptyCache THEN cache ELSE RemoveAt(cache, Oldest(cache))

(* set() of a key that is not there: the callers have just missed it.      *)
Put(cache, key, code, later) ==
  LET room == IF Len(cache) >= MaxBundles THEN Evicted(cache) ELSE cache
  IN Ranked(Append(room, [key |-> key, code |-> code, used |-> Now(cache, later)]))

(* The elements of s that are not among these, in their order.  A          *)
(* recursive function, for the proofs: they cannot unfold SelectSeq.       *)
Without(s, these) ==
  LET kept[n \in 0 .. Len(s)] ==
        IF n = 0 THEN <<>>
        ELSE IF s[n] \in these THEN kept[n - 1] ELSE Append(kept[n - 1], s[n])
  IN kept[Len(s)]

(* faulty variant: only the set of bundles that is just this one           *)
FlushedExactly(cache, bundle) == Without(cache, {e \in ToSet(cache) : e.key = <<bundle>>})

(* key.includes(bundle): its text is in that of a key also as a part of    *)
(* another id.                                                             *)
Names(key, bundle) ==
  Contains(key, bundle) \/ \E i \in DOMAIN key : <<bundle, key[i]>> \in PartOf

(* flush_cache of one bundle: every set whose key has its text in it       *)
Flushed(cache, bundle) == Without(cache, {e \in ToSet(cache) : Names(e.key, bundle)})
=============================================================================
