------------------------------- MODULE ArgKeys -------------------------------
(***************************************************************************)
(* The cache key of a component (packages/core/src/component-cache.ts,     *)
(* load-coordinator.ts, cache-key-serializer.ts): its name and the text of *)
(* its args, or no key when some arg is not plain data.                    *)
(*                                                                         *)
(* A text is the sequence of the pieces it is put together from: a piece   *)
(* holds the length of the string it encodes, so that two sequences of     *)
(* pieces are the same text only if they are equal.  Names are numbers,    *)
(* ordered as sort() orders them.                                          *)
(***************************************************************************)
EXTENDS Naturals, Sequences, SequencesExt

CONSTANTS MaxKeySize,     \* MAX_KEY_BYTES, in pieces
          InternalNames,  \* names of args that start with '_'
          UseCachedData,  \* the name 'use_cached_data'
          Values,         \* values of args, and of what is inside them
          NoKey

(* The value of an arg is a tuple whose first element says what it is:     *)
(*   <<"prim", x>>  a number, string, boolean, null or undefined           *)
(*   <<"date", x>>  a Date                                                 *)
(*   <<"array", s>> and <<"object", s>>  an array, s its items, and a plain *)
(*                  object, s its properties <<name, value>> in the order  *)
(*                  they were set                                          *)
(*   <<"id", x>>    a function or object that says its cache id            *)
(*   <<"ref", x>>   a function, symbol, bigint, element, class instance or *)
(*                  cycle: nothing but the reference itself identifies it  *)
Declined == <<<<"declined">>>>

ByName(s) == SortSeq(s, LAMBDA p, q : p[1] < q[1])

(* walk().  Objects are walked in the order of their names, arrays in      *)
(* theirs; one value that is not plain data declines the whole.            *)
Walk[v \in Values] ==
  LET Parts(s) == [k \in DOMAIN s |-> Walk[s[k]]]
      Joined(open, parts) ==
        IF \E k \in DOMAIN parts : parts[k] = Declined THEN Declined
        ELSE <<<<open>>>> \o FlattenSeq(parts) \o <<<<"end">>>>
  IN CASE v[1] \in {"prim", "date"} -> <<v>>
       [] v[1] = "array" -> Joined("array", Parts(v[2]))
       [] v[1] = "object" ->
            LET s == ByName(v[2])
                parts == Parts([k \in DOMAIN s |-> s[k][2]])
            IN Joined("object", [k \in DOMAIN s |->
                 IF parts[k] = Declined THEN Declined
                 ELSE <<<<"name", s[k][1]>>>> \o parts[k]])
       [] OTHER -> Declined

(* serialize_for_cache_key()                                               *)
Serialized(v) ==
  LET text == Walk[v]
  IN IF text # Declined /\ Len(text) > MaxKeySize THEN Declined ELSE text

(* generate_invocation_key(), one arg: a primitive and a cache id stand    *)
(* for themselves; the content of plain data is used where the caller      *)
(* allows it, which the cache does and deduplication does not.             *)
ArgText(v, content) ==
  CASE v[1] \in {"prim", "id"} -> <<v>>
    [] OTHER -> IF content THEN Serialized(v) ELSE Declined

(* generate_invocation_key(): args in the order of their names, without    *)
(* the internal ones and use_cached_data.                                  *)
InvocationKey(name, args, content) ==
  LET Counts(p) == p[1] \notin InternalNames \cup {UseCachedData}
      s == ByName(SelectSeq(args, Counts))
      texts == [k \in DOMAIN s |-> <<s[k][1], ArgText(s[k][2], content)>>]
  IN IF \E k \in DOMAIN s : texts[k][2] = Declined THEN NoKey
     ELSE <<name, texts>>

(* generate_cache_key(): what cache_id() returns, when it is overridden,   *)
(* stands for the args; a cache_id() that throws gives no key.             *)
CacheKey(c) ==
  CASE c.cacheId = "none" -> InvocationKey(c.name, c.args, TRUE)
    [] c.cacheId = "throws" -> NoKey
    [] OTHER -> <<c.name, <<<<"cache_id", c.cacheId>>>>>>

(* JSON.stringify() of args, what reload() compares them by: it leaves out *)
(* the properties that are functions.                                      *)
Json[v \in Values] ==
  LET Shown(p) == p[2][1] # "ref"
      s == SelectSeq(v[2], Shown)
  IN CASE v[1] = "array" -> <<"array", [k \in DOMAIN v[2] |-> Json[v[2][k]]]>>
       [] v[1] = "object" ->
            <<"object", [k \in DOMAIN s |-> <<s[k][1], Json[s[k][2]]>>]>>
       [] OTHER -> v

ArgsJson(args) ==
  LET Shown(p) == p[2][1] # "ref"
      s == SelectSeq(args, Shown)
  IN [k \in DOMAIN s |-> <<s[k][1], Json[s[k][2]]>>]

-----------------------------------------------------------------------------
(* What it means that two components ask for the same data: equal args,    *)
(* whatever the order of their names, as far as they identify data.        *)

Content[v \in Values] ==
  CASE v[1] = "array" -> <<"array", [k \in DOMAIN v[2] |-> Content[v[2][k]]]>>
    [] v[1] = "object" ->
         <<"object", {<<v[2][k][1], Content[v[2][k][2]]>> : k \in DOMAIN v[2]}>>
    [] OTHER -> v

Identity(c) ==
  LET data == SelectSeq(c.args,
                LAMBDA p : p[1] \notin InternalNames \cup {UseCachedData})
  IN IF c.cacheId \in {"none", "throws"}
     THEN <<c.name, {<<data[k][1], Content[data[k][2]]>> : k \in DOMAIN data}>>
     ELSE <<c.name, {<<"cache_id", c.cacheId>>}>>

=============================================================================
