------------------------------ MODULE LruCache ------------------------------
(***************************************************************************)
(* The in-memory LRU cache that `AnalysisCache` and `AnalysisLruCache`     *)
(* wrap in a mutex (cache.rs): a map, and its keys from the most to the    *)
(* least recently used one.  Every operation runs under the mutex, so each *)
(* is one operator on the cache.  A poisoned mutex empties the cache       *)
(* (`lock_or_recover`), which EmptyLru stands for.                         *)
(***************************************************************************)
EXTENDS Naturals, Sequences, FiniteSets

EmptyLru == [map |-> [k \in {} |-> k], order |-> << >>]

LruHas(c, k) == k \in DOMAIN c.map

Without(order, K) ==
  LET rest[i \in 0..Len(order)] ==
        IF i = 0 THEN << >>
        ELSE IF order[i] \in K THEN rest[i - 1] ELSE Append(rest[i - 1], order[i])
  IN  rest[Len(order)]

MostRecent(order, k) == <<k>> \o Without(order, {k})

\* `get` promotes the key it finds.
LruGet(c, k) == [c EXCEPT !.order = MostRecent(@, k)]

\* The key `push` displaces: the least recently used one, when a new key
\* arrives at a full cache.
LruVictims(c, k, capacity) ==
  IF LruHas(c, k) \/ Cardinality(DOMAIN c.map) < capacity
  THEN {}
  ELSE {c.order[Len(c.order)]}

LruPush(c, k, v, capacity) ==
  LET victims == LruVictims(c, k, capacity)
  IN  [map   |-> [x \in (DOMAIN c.map \cup {k}) \ victims |-> IF x = k THEN v ELSE c.map[x]],
       order |-> Without(MostRecent(c.order, k), victims)]

\* `pop` of a set of keys.
LruDrop(c, K) ==
  [map   |-> [x \in DOMAIN c.map \ K |-> c.map[x]],
   order |-> Without(c.order, K)]
=============================================================================
