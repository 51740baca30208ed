----------------------------- MODULE SymbolProofs -----------------------------
(***************************************************************************)
(* What analyze_symbol's answers and graphs guarantee for any files, calls *)
(* and capacities and any number of changes.                               *)
(***************************************************************************)
EXTENDS SymbolAnalysis, FiniteSetTheorems, TLAPS

(* The keys an order lists.                                                 *)
Keys(order) == {order[i] : i \in 1..Len(order)}

(* The order lists the keys of the cache, of which there are at most n.     *)
LruWithin(c, n) ==
  /\ c = [map |-> c.map, order |-> c.order]
  /\ c.order \in Seq(DOMAIN c.map) /\ Keys(c.order) = DOMAIN c.map
  /\ IsFiniteSet(DOMAIN c.map) /\ Cardinality(DOMAIN c.map) <= n

(* The types.                                                               *)
Mode == {"call_graph", "def_use"}
Result == [compact : BOOLEAN, graph : Reading, sites : Reading]
Results == [text : Result, data : Result]
GraphKeys == UNION {[F -> Contents] : F \in SUBSET Files}
Pc == {"new", "walk", "l1", "l2", "collect", "find", "build", "resolve", "extract",
       "answered", "error", "lost"}

CallState ==
  [pc : Pc, req : Requests \cup {NoOutput}, cancelled : BOOLEAN, from : [Files -> Nat],
   mtimes : [Files -> Nat \cup {Absent, Unread}], graph : Reading, sites : Reading,
   key : GraphKeys \cup {NoKey}, first : Result \cup {NoOutput}, output : Results \cup {NoOutput}]

Typed ==
  /\ history \in [Files -> Seq(Contents \cup {Absent})]
  /\ \A f \in Files : Len(history[f]) >= 1
  /\ "map" \in DOMAIN answers /\ \A k \in DOMAIN answers.map : answers.map[k] \in Results
  /\ \A k \in DOMAIN disk : disk[k] \in Results
  /\ "map" \in DOMAIN graphs
  /\ LruWithin(store, StoreBudget)
  /\ call \in [Calls -> CallState]
  /\ \A c \in behind : c \in Calls /\ call[c].pc = "answered"

(* What reading a file could give since it had a number of versions.        *)
Since(f, m) == {Seen(history[f][i]) : i \in {j \in 1..Len(history[f]) : m <= j}}

Dated(m) == m \notin {Absent, Unread}

(* A result for files that a walk dated: what it shows was read since then. *)
ResultFresh(p, mode, mtimes) ==
  \A f \in Files : Dated(mtimes[f]) =>
    /\ p.graph[f] \in Since(f, mtimes[f])
    /\ mode = "def_use" => p.sites[f] \in Since(f, mtimes[f]) \cup {Skipped}

EntryFresh(k, o) == ResultFresh(o.text, k[1], k[2]) /\ ResultFresh(o.data, k[1], k[2])

CachesFresh ==
  /\ \A k \in DOMAIN answers.map : EntryFresh(k, answers.map[k])
  /\ \A k \in DOMAIN disk : EntryFresh(k, disk[k])

GraphKept(k, g) == DOMAIN k \subseteq Files /\ GraphTruthful(k, g)

Graphs ==
  /\ \A k \in DOMAIN graphs.map : GraphKept(k, graphs.map[k])
  /\ \A k \in DOMAIN store.map : GraphKept(k, store.map[k])

(* The rest is said of the record of a call.                                *)
Begun(w) == w.pc \notin {"new", "error", "lost"}

(* A walk dates a file not before the call began.                           *)
Walk(w) ==
  Begun(w) =>
    /\ w.req \in Requests
    /\ \A f \in Files :
         /\ w.from[f] \in 1..Len(history[f])
         /\ Dated(w.mtimes[f]) =>
              /\ w.mtimes[f] \in Nat
              /\ w.from[f] <= w.mtimes[f] /\ w.mtimes[f] <= Len(history[f])
         /\ w.pc # "walk" => w.mtimes[f] # Unread

(* What the analysis has read: a file missing from it was not readable, or  *)
(* the call was cancelled, which ends it before it uses what it has.        *)
GraphRead(w) ==
  /\ w.pc \in {"walk", "l1", "l2"} => w.graph = Nothing
  /\ \A f \in Files : Dated(w.mtimes[f]) =>
       /\ w.pc = "collect" =>
            w.graph[f] = Unread \/ w.graph[f] \in Since(f, w.mtimes[f]) \/ w.cancelled
       /\ w.pc \in {"find", "build", "resolve", "extract"} =>
            w.graph[f] \in Since(f, w.mtimes[f])

SitesRead(w) ==
  /\ w.pc = "walk" => w.sites = Nothing
  /\ Begun(w) =>
       \A f \in Files : Dated(w.mtimes[f]) =>
         w.sites[f] \in Since(f, w.mtimes[f]) \cup {Unread, Skipped}

(* The first analysis of an answer that was too long, and the answer.       *)
FirstRead(w) ==
  /\ w.pc = "walk" => w.first = NoOutput
  /\ Begun(w) /\ w.first # NoOutput => ResultFresh(w.first, w.req.mode, w.mtimes)

Answered(w) ==
  w.pc = "answered" => w.output \in Results /\ EntryFresh(<<w.req.mode, w.mtimes>>, w.output)

(* The key of a graph hashes what the graph was built from.                 *)
KeyTrue(w) ==
  /\ w.pc = "build" => w.key # NoKey
  /\ w.pc \in {"find", "build"} /\ w.key # NoKey =>
       /\ DOMAIN w.key = {f \in Files : w.mtimes[f] # Absent}
       /\ \A f \in DOMAIN w.key : w.graph[f] \in {w.key[f], Skipped}

CallOK(w) ==
  Walk(w) /\ GraphRead(w) /\ SitesRead(w) /\ FirstRead(w) /\ Answered(w) /\ KeyTrue(w)

CallsOK == \A c \in Calls : CallOK(call[c])

IInv == Typed /\ CachesFresh /\ Graphs /\ CallsOK

-----------------------------------------------------------------------------
(* The cache.                                                              *)

(* A set of numbers that starts at 0 and goes on within a bound has the     *)
(* bound.                                                                   *)
LEMMA Upwards ==
  ASSUME NEW n \in Nat, NEW T, 0 \in T, \A i \in 1..n : i - 1 \in T => i \in T
  PROVE  \A i \in 0..n : i \in T
<1> DEFINE S == {i \in 0..n : i \notin T}
<1> SUFFICES ASSUME S # {} PROVE FALSE
  OBVIOUS
<1>1. S \in SUBSET Nat
  OBVIOUS
<1>2. PICK x \in S : \A y \in S : ~ (<<y, x>> \in OpToRel(<, Nat))
  BY <1>1, NatLessThanWellFounded, WFMin
<1>3. OpToRel(<, Nat) = {ss \in Nat \X Nat : ss[1] < ss[2]}
  BY DEF OpToRel
<1>4. x \in 0..n /\ x \notin T
  OBVIOUS
<1> HIDE DEF OpToRel
<1>5. x # 0 /\ x \in 1..n /\ x - 1 \in 0..n
  BY <1>4
<1>6. x - 1 \notin T
  BY <1>4, <1>5
<1>7. x - 1 \in S
  BY <1>5, <1>6
<1>8. <<x - 1, x>> \in Nat \X Nat /\ <<x - 1, x>>[1] < <<x - 1, x>>[2]
  BY <1>5
<1>9. <<x - 1, x>> \in OpToRel(<, Nat)
  BY <1>3, <1>8, Zenon
<1>10. QED
  BY <1>2, <1>7, <1>9

(* The recursive function of Without is what its definition says.           *)
LEMMA WithoutFunction ==
  ASSUME NEW S, NEW s \in Seq(S), NEW K
  PROVE  \E rest : /\ Without(s, K) = rest[Len(s)]
                   /\ rest[0] = <<>>
                   /\ \A i \in 1..Len(s) : rest[i] = IF s[i] \in K THEN rest[i - 1]
                                                                 ELSE Append(rest[i - 1], s[i])
<1> DEFINE Step(n, g) ==
             g = [i \in 0..n |-> IF i = 0 THEN <<>>
                                 ELSE IF s[i] \in K THEN g[i - 1] ELSE Append(g[i - 1], s[i])]
           T == {n \in Nat : \E g : Step(n, g)}
<1>1. Len(s) \in Nat
  OBVIOUS
<1>2. 0 \in T
  <2> DEFINE g == [i \in 0..0 |-> <<>>]
  <2>1. Step(0, g)
    OBVIOUS
  <2>2. QED
    BY <2>1
<1>3. ASSUME NEW n \in 1..Len(s), n - 1 \in T PROVE n \in T
  <2>1. PICK g : Step(n - 1, g)
    BY <1>3
  <2> DEFINE top == IF s[n] \in K THEN g[n - 1] ELSE Append(g[n - 1], s[n])
             h == [i \in 0..n |-> IF i = n THEN top ELSE g[i]]
  <2>2. n \in Nat /\ n # 0 /\ n - 1 \in Nat
    BY <1>1
  <2>3. \A i \in 0..n : i # n => i \in 0..(n - 1) /\ i - 1 # n
    BY <2>2
  <2>4. ASSUME NEW i \in 0..n
        PROVE  h[i] = IF i = 0 THEN <<>> ELSE IF s[i] \in K THEN h[i - 1] ELSE Append(h[i - 1], s[i])
    <3>1. CASE i = n
      <4>1. n - 1 \in 0..n /\ n - 1 # n
        BY <2>2
      <4>2. h[n] = top /\ h[n - 1] = g[n - 1]
        BY <4>1, <2>2
      <4>3. QED
        BY <3>1, <4>2, <2>2
    <3>2. CASE i # n
      <4>1. h[i] = g[i]
        BY <3>2
      <4>2. g[i] = IF i = 0 THEN <<>> ELSE IF s[i] \in K THEN g[i - 1] ELSE Append(g[i - 1], s[i])
        BY <2>1, <2>3, <3>2
      <4>3. i # 0 => i - 1 \in 0..n /\ i - 1 # n
        BY <2>2, <2>3, <3>2
      <4>4. i # 0 => h[i - 1] = g[i - 1]
        BY <4>3
      <4>5. QED
        BY <4>1, <4>2, <4>4
    <3>3. QED
      BY <3>1, <3>2
  <2> HIDE DEF top
  <2>5. Step(n, h)
    <3>1. h = [i \in 0..n |-> h[i]]
      OBVIOUS
    <3> HIDE DEF h
    <3>2. QED
      BY <2>4, <3>1
  <2>6. QED
    BY <2>2, <2>5
<1>4. Len(s) \in T
  <2> HIDE DEF T
  <2>1. \A i \in 0..Len(s) : i \in T
    BY <1>1, <1>2, <1>3, Upwards
  <2>2. QED
    BY <1>1, <2>1
<1> DEFINE f == CHOOSE g : Step(Len(s), g)
<1>5. Step(Len(s), f)
  BY <1>4
<1>6. Without(s, K) = f[Len(s)]
  BY DEF Without
<1> HIDE DEF f
<1>7. /\ f[0] = <<>>
      /\ \A i \in 1..Len(s) : f[i] = IF s[i] \in K THEN f[i - 1] ELSE Append(f[i - 1], s[i])
  <2>1. \A i \in 0..Len(s) : f[i] = IF i = 0 THEN <<>>
                                   ELSE IF s[i] \in K THEN f[i - 1] ELSE Append(f[i - 1], s[i])
    BY <1>5, Zenon
  <2>2. 0 \in 0..Len(s) /\ \A i \in 1..Len(s) : i \in 0..Len(s) /\ i # 0
    BY <1>1
  <2>3. QED
    BY <2>1, <2>2
<1>8. QED
  BY <1>6, <1>7

LEMMA WithoutKeys ==
  ASSUME NEW S, NEW s \in Seq(S), NEW K
  PROVE  Without(s, K) \in Seq(S \ K) /\ Keys(Without(s, K)) = Keys(s) \ K
<1>1. PICK rest : /\ Without(s, K) = rest[Len(s)]
                  /\ rest[0] = <<>>
                  /\ \A i \in 1..Len(s) : rest[i] = IF s[i] \in K THEN rest[i - 1]
                                                                ELSE Append(rest[i - 1], s[i])
  BY WithoutFunction
<1> DEFINE First(n) == {s[i] : i \in 1..n}
           T == {n \in 0..Len(s) : rest[n] \in Seq(S \ K) /\ Keys(rest[n]) = First(n) \ K}
<1>2. Len(s) \in Nat
  OBVIOUS
<1>3. 0 \in T
  <2>1. First(0) = {} /\ Keys(<<>>) = {} /\ 0 \in 0..Len(s)
    BY <1>2 DEF Keys
  <2>2. <<>> \in Seq(S \ K)
    OBVIOUS
  <2>3. QED
    BY <1>1, <2>1, <2>2
<1>4. ASSUME NEW n \in 1..Len(s), n - 1 \in T PROVE n \in T
  <2>1. First(n) = First(n - 1) \cup {s[n]}
    BY <1>2
  <2>2. rest[n - 1] \in Seq(S \ K) /\ Keys(rest[n - 1]) = First(n - 1) \ K
    BY <1>4
  <2>3. CASE s[n] \in K
    BY <1>1, <1>2, <2>1, <2>2, <2>3
  <2>4. CASE s[n] \notin K
    <3>1. rest[n] = Append(rest[n - 1], s[n]) /\ s[n] \in S \ K
      <4>1. s[n] \in S
        BY <1>2
      <4>2. QED
        BY <1>1, <2>4, <4>1
    <3>2. rest[n] \in Seq(S \ K)
      BY <2>2, <3>1
    <3>3. Keys(rest[n]) = Keys(rest[n - 1]) \cup {s[n]}
      <4> DEFINE r == rest[n - 1]
      <4>1. r \in Seq(S \ K) /\ Len(r) \in Nat
        BY <2>2
      <4> HIDE DEF r
      <4>2. /\ Len(Append(r, s[n])) = Len(r) + 1
            /\ \A i \in 1..Len(r) : Append(r, s[n])[i] = r[i]
            /\ Append(r, s[n])[Len(r) + 1] = s[n]
        BY <3>1, <4>1
      <4>3. \A i \in 1..(Len(r) + 1) : i \in 1..Len(r) \/ i = Len(r) + 1
        BY <4>1
      <4>4. \A i \in 1..Len(r) : i \in 1..(Len(r) + 1)
        BY <4>1
      <4>5. Len(r) + 1 \in 1..(Len(r) + 1)
        BY <4>1
      <4>6. Keys(Append(r, s[n])) = Keys(r) \cup {s[n]}
        BY <4>2, <4>3, <4>4, <4>5 DEF Keys
      <4>7. QED
        BY <3>1, <4>6 DEF r
    <3>4. n \in 0..Len(s)
      BY <1>2
    <3>5. QED
      BY <2>1, <2>2, <2>4, <3>2, <3>3, <3>4
  <2>5. QED
    BY <2>3, <2>4
<1>5. Len(s) \in T
  <2> HIDE DEF T
  <2>1. \A i \in 0..Len(s) : i \in T
    BY <1>2, <1>3, <1>4, Upwards
  <2>2. QED
    BY <1>2, <2>1
<1>6. QED
  BY <1>1, <1>5 DEF Keys

LEMMA MostRecentKeys ==
  ASSUME NEW S, NEW s \in Seq(S), NEW k \in S
  PROVE  MostRecent(s, k) \in Seq(S) /\ Keys(MostRecent(s, k)) = Keys(s) \cup {k}
<1> DEFINE r == Without(s, {k})
<1>1. r \in Seq(S) /\ Keys(r) = Keys(s) \ {k}
  <2>1. r \in Seq(S \ {k}) /\ Keys(r) = Keys(s) \ {k}
    BY WithoutKeys
  <2> HIDE DEF r
  <2>2. r \in Seq(S)
    BY <2>1
  <2>3. QED
    BY <2>1, <2>2
<1> HIDE DEF r
<1>2. /\ <<k>> \o r \in Seq(S) /\ Len(r) \in Nat /\ Len(<<k>> \o r) = Len(r) + 1
      /\ (<<k>> \o r)[1] = k
      /\ \A i \in 1..Len(r) : (<<k>> \o r)[i + 1] = r[i]
  BY <1>1
<1>3. Keys(<<k>> \o r) = Keys(r) \cup {k}
  <2>1. \A i \in 1..(Len(r) + 1) : i = 1 \/ (i - 1 \in 1..Len(r) /\ (i - 1) + 1 = i)
    BY <1>2
  <2>2. \A i \in 1..Len(r) : i + 1 \in 1..(Len(r) + 1)
    BY <1>2
  <2>3. 1 \in 1..(Len(r) + 1)
    BY <1>2
  <2>4. ASSUME NEW i \in 1..(Len(r) + 1) PROVE (<<k>> \o r)[i] \in Keys(r) \cup {k}
    BY <1>2, <2>1 DEF Keys
  <2>5. ASSUME NEW x \in Keys(r) PROVE x \in Keys(<<k>> \o r)
    <3>1. PICK i \in 1..Len(r) : x = r[i]
      BY DEF Keys
    <3>2. (<<k>> \o r)[i + 1] = x /\ i + 1 \in 1..Len(<<k>> \o r)
      BY <1>2, <2>2, <3>1
    <3>3. QED
      BY <3>2 DEF Keys
  <2>6. k \in Keys(<<k>> \o r)
    BY <1>2, <2>3 DEF Keys
  <2>7. Keys(<<k>> \o r) = {(<<k>> \o r)[i] : i \in 1..(Len(r) + 1)}
    BY <1>2 DEF Keys
  <2>8. QED
    BY <2>4, <2>5, <2>6, <2>7
<1>4. QED
  BY <1>1, <1>2, <1>3 DEF MostRecent, r

LEMMA GetMap ==
  ASSUME NEW c, NEW k, "map" \in DOMAIN c
  PROVE  "map" \in DOMAIN LruGet(c, k) /\ LruGet(c, k).map = c.map
BY DEF LruGet

LEMMA PushMap ==
  ASSUME NEW c, NEW k, NEW v, NEW n
  PROVE  LET t == LruPush(c, k, v, n)
         IN  /\ "map" \in DOMAIN t
             /\ DOMAIN t.map \subseteq DOMAIN c.map \cup {k}
             /\ \A x \in DOMAIN t.map : t.map[x] = IF x = k THEN v ELSE c.map[x]
BY DEF LruPush

LEMMA GetWithin ==
  ASSUME NEW c, NEW n, LruWithin(c, n), NEW k \in DOMAIN c.map
  PROVE  LruWithin(LruGet(c, k), n)
<1> DEFINE order == MostRecent(c.order, k)
<1>1. order \in Seq(DOMAIN c.map) /\ Keys(order) = DOMAIN c.map
  <2> DEFINE D == DOMAIN c.map
             s == c.order
  <2>1. s \in Seq(D) /\ Keys(s) = D /\ k \in D
    BY DEF LruWithin
  <2> HIDE DEF D, s
  <2>2. MostRecent(s, k) \in Seq(D) /\ Keys(MostRecent(s, k)) = Keys(s) \cup {k}
    BY <2>1, MostRecentKeys
  <2>3. QED
    BY <2>1, <2>2 DEF D, s
<1>2. LruGet(c, k) = [map |-> c.map, order |-> order]
  BY DEF LruGet, LruWithin
<1> HIDE DEF order
<1>3. QED
  BY <1>1, <1>2 DEF LruWithin

(* A full cache gives up its least recently used key for a new one.         *)
LEMMA PushWithin ==
  ASSUME NEW c, NEW n \in Nat \ {0}, LruWithin(c, n), NEW k, NEW v
  PROVE  LruWithin(LruPush(c, k, v, n), n)
<1> DEFINE D == DOMAIN c.map
           victims == LruVictims(c, k, n)
           E == (D \cup {k}) \ victims
           recent == MostRecent(c.order, k)
           order == Without(recent, victims)
           map == [x \in E |-> IF x = k THEN v ELSE c.map[x]]
<1>1. LruPush(c, k, v, n) = [map |-> map, order |-> order]
  BY DEF LruPush
<1>2. c.order \in Seq(D) /\ Keys(c.order) = D /\ IsFiniteSet(D) /\ Cardinality(D) \in Nat /\ Cardinality(D) <= n
  BY FS_CardinalityType DEF LruWithin
<1>3. recent \in Seq(D \cup {k}) /\ Keys(recent) = D \cup {k}
  <2>1. c.order \in Seq(D \cup {k})
    BY <1>2
  <2>2. QED
    BY <1>2, <2>1, MostRecentKeys
<1>4. order \in Seq(E) /\ Keys(order) = E
  <2> HIDE DEF recent
  <2>1. Without(recent, victims) \in Seq((D \cup {k}) \ victims) /\ Keys(Without(recent, victims)) = Keys(recent) \ victims
    BY <1>3, WithoutKeys
  <2>2. QED
    BY <1>3, <2>1
<1>5. IsFiniteSet(E) /\ Cardinality(E) <= n
  <2>1. CASE k \in D
    <3>1. victims = {} /\ E = D
      BY <2>1 DEF LruVictims, LruHas
    <3>2. QED
      BY <1>2, <3>1
  <2>2. CASE k \notin D /\ Cardinality(D) < n
    <3>1. victims = {} /\ E = D \cup {k}
      BY <2>2 DEF LruVictims, LruHas
    <3>2. IsFiniteSet(D \cup {k}) /\ Cardinality(D \cup {k}) = Cardinality(D) + 1
      BY <1>2, <2>2, FS_AddElement
    <3>3. Cardinality(D) + 1 <= n
      BY <1>2, <2>2
    <3>4. QED
      BY <3>1, <3>2, <3>3
  <2>3. CASE k \notin D /\ ~ (Cardinality(D) < n)
    <3> DEFINE last == c.order[Len(c.order)]
    <3>1. victims = {last}
      BY <2>3 DEF LruVictims, LruHas
    <3>2. last \in D
      <4>1. D # {}
        BY <1>2, <2>3, FS_EmptySet
      <4>2. Len(c.order) \in Nat /\ Len(c.order) # 0
        BY <1>2, <4>1 DEF Keys
      <4>3. Len(c.order) \in 1..Len(c.order)
        BY <4>2
      <4>4. QED
        BY <1>2, <4>3 DEF Keys
    <3> HIDE DEF last
    <3>3. E = (D \ {last}) \cup {k} /\ k \notin D \ {last}
      BY <2>3, <3>1, <3>2
    <3>4. IsFiniteSet(D \ {last}) /\ Cardinality(D \ {last}) = Cardinality(D) - 1
      BY <1>2, <3>2, FS_RemoveElement
    <3>5. IsFiniteSet(E) /\ Cardinality(E) = Cardinality(D \ {last}) + 1
      BY <3>3, <3>4, FS_AddElement
    <3>6. QED
      BY <1>2, <3>4, <3>5
  <2>4. QED
    BY <2>1, <2>2, <2>3
<1> HIDE DEF order, E
<1>6. DOMAIN map = E
  OBVIOUS
<1> HIDE DEF map
<1>7. QED
  BY <1>1, <1>4, <1>5, <1>6 DEF LruWithin

-----------------------------------------------------------------------------
(* The calls.                                                              *)

LEMMA SymbolInitIInv == Init => IInv
<1> SUFFICES ASSUME Init PROVE IInv
  OBVIOUS
<1>1. history \in [Files -> Seq(Contents \cup {Absent})] /\ \A f \in Files : Len(history[f]) >= 1
  <2>1. \A c \in Contents \cup {Absent} : <<c>> \in Seq(Contents \cup {Absent}) /\ Len(<<c>>) >= 1
    OBVIOUS
  <2>2. QED
    BY <2>1 DEF Init
<1>2. /\ "map" \in DOMAIN EmptyLru /\ DOMAIN EmptyLru.map = {} /\ LruWithin(EmptyLru, StoreBudget)
  BY FS_EmptySet, SymbolAssumption DEF EmptyLru, LruWithin, Keys
<1>3. NewCall \in CallState /\ NewCall.pc = "new"
  BY DEF NewCall, CallState, Nothing, Reading, Pc
<1>4. Typed
  BY <1>1, <1>2, <1>3 DEF Typed, Init
<1>5. CachesFresh /\ Graphs
  BY <1>2 DEF CachesFresh, Graphs, Init
<1>6. CallOK(NewCall)
  BY <1>3 DEF CallOK, Walk, GraphRead, SitesRead, FirstRead, Answered, KeyTrue, Begun
<1>7. CallsOK
  BY <1>6 DEF CallsOK, Init
<1>8. QED
  BY <1>4, <1>5, <1>7 DEF IInv

(* The steps of a call write its own record.                                *)
LEMMA OwnStep ==
  ASSUME IInv, NEW c \in Calls, NEW w \in CallState, CallOK(w), call' = [call EXCEPT ![c] = w],
         history' = history, disk' = disk,
         behind' \subseteq behind \cup {c}, c \in behind' => w.pc = "answered",
         "map" \in DOMAIN answers',
         \A k \in DOMAIN answers'.map : answers'.map[k] \in Results /\ EntryFresh(k, answers'.map[k]),
         "map" \in DOMAIN graphs', \A k \in DOMAIN graphs'.map : GraphKept(k, graphs'.map[k]),
         LruWithin(store', StoreBudget), \A k \in DOMAIN store'.map : GraphKept(k, store'.map[k])
  PROVE  IInv'
<1>1. /\ call' \in [Calls -> CallState] /\ call'[c] = w
      /\ \A d \in Calls : d # c => call'[d] = call[d]
  BY DEF IInv, Typed
<1>2. Typed'
  BY <1>1 DEF IInv, Typed, LruWithin, Keys
<1>3. CachesFresh'
  <2>1. ASSUME NEW k \in DOMAIN answers'.map PROVE EntryFresh(k, answers.map[k])'
    <3>1. EntryFresh(k, answers'.map[k])
      OBVIOUS
    <3>2. QED
      BY <3>1 DEF EntryFresh, ResultFresh, Since
  <2>2. ASSUME NEW k \in DOMAIN disk' PROVE EntryFresh(k, disk[k])'
    <3>1. EntryFresh(k, disk'[k])
      BY DEF IInv, CachesFresh
    <3>2. QED
      BY <3>1 DEF EntryFresh, ResultFresh, Since
  <2>3. QED
    BY <2>1, <2>2 DEF CachesFresh
<1>4. Graphs'
  BY DEF Graphs, GraphKept, GraphTruthful
<1>5. CallsOK'
  <2>1. ASSUME NEW d \in Calls PROVE CallOK(call'[d])
    BY <1>1 DEF IInv, CallsOK
  <2>2. \A d \in Calls : Walk(call[d])' /\ KeyTrue(call[d])'
    BY <2>1 DEF CallOK, Walk, KeyTrue, Begun
  <2>3. \A d \in Calls : GraphRead(call[d])'
    BY <2>1 DEF CallOK, GraphRead, Since
  <2>4. \A d \in Calls : SitesRead(call[d])'
    BY <2>1 DEF CallOK, SitesRead, Since, Begun
  <2>5. \A d \in Calls : FirstRead(call[d])'
    BY <2>1 DEF CallOK, FirstRead, ResultFresh, Since, Begun
  <2>6. ASSUME NEW d \in Calls PROVE Answered(call[d])'
    <3>1. SUFFICES ASSUME call'[d].pc = "answered"
                   PROVE  /\ call'[d].output \in Results
                          /\ EntryFresh(<<call[d].req.mode, call[d].mtimes>>, call[d].output)'
      BY DEF Answered, Results, Result
    <3>2. /\ call'[d].output \in Results
          /\ EntryFresh(<<call'[d].req.mode, call'[d].mtimes>>, call'[d].output)
      BY <2>1, <3>1 DEF CallOK, Answered
    <3>3. QED
      BY <3>2 DEF EntryFresh, ResultFresh, Since
  <2>7. QED
    BY <2>2, <2>3, <2>4, <2>5, <2>6 DEF CallsOK, CallOK
<1>6. QED
  BY <1>2, <1>3, <1>4, <1>5 DEF IInv

LEMMA PlainStep ==
  ASSUME IInv, NEW c \in Calls, NEW w \in CallState, CallOK(w), call' = [call EXCEPT ![c] = w],
         UNCHANGED <<history, answers, disk, graphs, store, behind>>, call[c].pc # "answered"
  PROVE  IInv'
<1>1. c \notin behind
  BY DEF IInv, Typed
<1>2. /\ "map" \in DOMAIN answers /\ "map" \in DOMAIN graphs /\ LruWithin(store, StoreBudget)
      /\ \A k \in DOMAIN answers.map : answers.map[k] \in Results /\ EntryFresh(k, answers.map[k])
      /\ \A k \in DOMAIN graphs.map : GraphKept(k, graphs.map[k])
      /\ \A k \in DOMAIN store.map : GraphKept(k, store.map[k])
  BY DEF IInv, Typed, CachesFresh, Graphs
<1>3. /\ history' = history /\ answers' = answers /\ disk' = disk /\ graphs' = graphs
      /\ store' = store /\ behind' = behind
  OBVIOUS
<1>4. QED
  BY <1>1, <1>2, <1>3, OwnStep

LEMMA RefuseStep ==
  ASSUME IInv, NEW c \in Calls, call' = Refuse(c),
         UNCHANGED <<history, answers, disk, graphs, store, behind>>, call[c].pc # "answered"
  PROVE  IInv'
<1> DEFINE w == [NewCall EXCEPT !.pc = "error"]
<1>1. w \in CallState /\ w.pc = "error"
  BY DEF NewCall, CallState, Nothing, Reading, Pc
<1>2. call' = [call EXCEPT ![c] = w]
  BY DEF Refuse
<1> HIDE DEF w
<1>3. CallOK(w)
  BY <1>1 DEF CallOK, Walk, GraphRead, SitesRead, FirstRead, Answered, KeyTrue, Begun
<1>4. QED
  BY <1>1, <1>2, <1>3, PlainStep

LEMMA ThisCall ==
  ASSUME IInv, NEW c \in Calls
  PROVE  call[c] \in CallState /\ CallOK(call[c])
BY DEF IInv, Typed, CallsOK

(* A call that ends with a fresh answer.                                    *)
LEMMA AnswerOK ==
  ASSUME IInv, NEW c \in Calls, Begun(call[c]), call[c].pc # "walk",
         NEW o \in Results, EntryFresh(CacheKey(c), o)
  PROVE  \E w \in CallState : CallOK(w) /\ w.pc = "answered" /\ Answer(c, o) = [call EXCEPT ![c] = w]
<1> DEFINE w == [call[c] EXCEPT !.pc = "answered", !.output = o, !.graph = Nothing,
                                !.sites = Nothing, !.key = NoKey, !.first = NoOutput]
<1>1. call[c] \in CallState /\ CallOK(call[c])
  BY ThisCall
<1>2. /\ w \in CallState /\ w.pc = "answered" /\ w.output = o /\ w.first = NoOutput
      /\ w.req = call[c].req /\ w.mtimes = call[c].mtimes /\ w.from = call[c].from
      /\ w.sites = Nothing
  BY <1>1 DEF CallState, Nothing, Reading, Pc
<1>3. Answer(c, o) = [call EXCEPT ![c] = w]
  BY DEF Answer
<1> HIDE DEF w
<1>4. Walk(w) /\ GraphRead(w) /\ FirstRead(w) /\ KeyTrue(w)
  BY <1>1, <1>2 DEF CallOK, Walk, GraphRead, FirstRead, KeyTrue, Begun
<1>5. SitesRead(w)
  BY <1>2 DEF SitesRead, Nothing
<1>6. Answered(w)
  BY <1>2 DEF Answered, CacheKey
<1>7. QED
  BY <1>2, <1>3, <1>4, <1>5, <1>6 DEF CallOK

LEMMA ArriveStep ==
  ASSUME IInv, NEW c \in Calls, NEW r \in Requests, Arrive(c, r)
  PROVE  IInv'
<1> DEFINE w == [NewCall EXCEPT !.pc = "walk", !.req = r, !.from = [f \in Files |-> Len(history[f])]]
<1>1. \A f \in Files : Len(history[f]) \in Nat /\ Len(history[f]) >= 1
  BY DEF IInv, Typed
<1>2. /\ w \in CallState /\ w.pc = "walk" /\ w.req = r /\ w.from = [f \in Files |-> Len(history[f])]
      /\ w.mtimes = [f \in Files |-> Unread] /\ w.first = NoOutput /\ w.sites = Nothing
      /\ w.graph = Nothing
  BY <1>1 DEF NewCall, CallState, Nothing, Reading, Pc
<1>3. call' = [call EXCEPT ![c] = w]
  BY DEF Arrive
<1> HIDE DEF w
<1>4. \A f \in Files : w.from[f] \in 1..Len(history[f]) /\ ~ Dated(w.mtimes[f])
  BY <1>1, <1>2 DEF Dated
<1>5. CallOK(w)
  BY <1>2, <1>4 DEF CallOK, Walk, GraphRead, SitesRead, FirstRead, Answered, KeyTrue
<1>6. QED
  BY <1>2, <1>3, <1>5, PlainStep DEF Arrive

LEMMA VisitStep ==
  ASSUME IInv, NEW c \in Calls, NEW f \in Files, Visit(c, f)
  PROVE  IInv'
<1> DEFINE m == IF OnDisk(f) = Absent THEN Absent ELSE Len(history[f])
           mtimes == [call[c].mtimes EXCEPT ![f] = m]
           pc == IF \E g \in Files : mtimes[g] = Unread THEN "walk" ELSE "l1"
           w == [call[c] EXCEPT !.mtimes = mtimes, !.pc = pc]
<1>1. call[c] \in CallState /\ CallOK(call[c]) /\ call[c].pc = "walk"
  BY ThisCall DEF Visit
<1>2. Len(history[f]) \in Nat /\ m \in Nat \cup {Absent} /\ call[c].from[f] \in 1..Len(history[f])
  BY <1>1 DEF IInv, Typed, CallOK, Walk, Begun
<1>3. mtimes \in [Files -> Nat \cup {Absent, Unread}] /\ mtimes[f] = m
      /\ \A g \in Files : g # f => mtimes[g] = call[c].mtimes[g]
  BY <1>1, <1>2 DEF CallState
<1>4. call' = [call EXCEPT ![c] = w]
  BY DEF Visit
<1>5. pc # "walk" => \A g \in Files : mtimes[g] # Unread
  OBVIOUS
<1>6. pc \in {"walk", "l1"}
  OBVIOUS
<1> HIDE DEF mtimes, pc
<1>7. /\ w \in CallState /\ w.pc = pc /\ w.mtimes = mtimes /\ w.req = call[c].req
      /\ w.from = call[c].from /\ w.first = call[c].first /\ w.sites = call[c].sites
      /\ w.graph = call[c].graph
  BY <1>1, <1>3, <1>6 DEF CallState, Pc
<1> HIDE DEF w
<1>8. Walk(w)
  BY <1>1, <1>2, <1>3, <1>5, <1>6, <1>7 DEF CallOK, Walk, Begun, Dated
<1>9. GraphRead(w) /\ Answered(w) /\ KeyTrue(w)
  BY <1>1, <1>6, <1>7 DEF CallOK, GraphRead, Answered, KeyTrue
<1>10. SitesRead(w) /\ FirstRead(w)
  <2>1. w.sites = Nothing /\ w.first = NoOutput
    BY <1>1, <1>7 DEF CallOK, SitesRead, FirstRead
  <2>2. QED
    BY <2>1 DEF SitesRead, FirstRead, Nothing
<1>11. QED
  BY <1>1, <1>4, <1>7, <1>8, <1>9, <1>10, PlainStep DEF CallOK, Visit

(* The answers are looked up in memory, then on disk.                       *)
LEMMA L1HitStep ==
  ASSUME IInv, NEW c \in Calls, L1Hit(c)
  PROVE  IInv'
<1> DEFINE k == CacheKey(c)
           o == answers.map[k]
<1>1. call[c].pc = "l1" /\ k \in DOMAIN answers.map
  BY DEF L1Hit, LruHas
<1>2. /\ "map" \in DOMAIN answers /\ "map" \in DOMAIN graphs /\ LruWithin(store, StoreBudget)
      /\ \A x \in DOMAIN answers.map : answers.map[x] \in Results /\ EntryFresh(x, answers.map[x])
      /\ \A x \in DOMAIN graphs.map : GraphKept(x, graphs.map[x])
      /\ \A x \in DOMAIN store.map : GraphKept(x, store.map[x])
  BY DEF IInv, Typed, CachesFresh, Graphs
<1>3. o \in Results /\ EntryFresh(k, o)
  BY <1>1, <1>2
<1>4. /\ history' = history /\ disk' = disk /\ graphs' = graphs /\ store' = store /\ behind' = behind
      /\ answers' = LruGet(answers, k) /\ call' = Answer(c, o)
  BY DEF L1Hit
<1> HIDE DEF k, o
<1>5. PICK w \in CallState : CallOK(w) /\ w.pc = "answered" /\ Answer(c, o) = [call EXCEPT ![c] = w]
  BY <1>1, <1>3, AnswerOK DEF Begun, k
<1>6. "map" \in DOMAIN answers' /\ answers'.map = answers.map
  BY <1>2, <1>4, GetMap
<1>7. QED
  BY <1>2, <1>4, <1>5, <1>6, OwnStep

LEMMA PushAnswers ==
  ASSUME IInv, NEW c \in Calls, NEW o \in Results, EntryFresh(CacheKey(c), o), Promote(c, o)
  PROVE  /\ "map" \in DOMAIN answers'
         /\ \A x \in DOMAIN answers'.map : answers'.map[x] \in Results /\ EntryFresh(x, answers'.map[x])
<1> DEFINE k == CacheKey(c)
           t == LruPush(answers, k, o, CallCapacity)
<1>1. answers' = t
  BY DEF Promote
<1>2. /\ "map" \in DOMAIN t /\ DOMAIN t.map \subseteq DOMAIN answers.map \cup {k}
      /\ \A x \in DOMAIN t.map : t.map[x] = IF x = k THEN o ELSE answers.map[x]
  BY PushMap
<1>3. \A x \in DOMAIN answers.map : answers.map[x] \in Results /\ EntryFresh(x, answers.map[x])
  BY DEF IInv, Typed, CachesFresh
<1> HIDE DEF t
<1>4. ASSUME NEW x \in DOMAIN t.map PROVE t.map[x] \in Results /\ EntryFresh(x, t.map[x])
  <2>1. CASE x = k
    BY <1>2, <2>1
  <2>2. CASE x # k
    BY <1>2, <1>3, <2>2
  <2>3. QED
    BY <2>1, <2>2
<1>5. QED
  BY <1>1, <1>2, <1>4

LEMMA L2HitStep ==
  ASSUME IInv, NEW c \in Calls, L2Hit(c)
  PROVE  IInv'
<1> DEFINE k == CacheKey(c)
           o == disk[k]
<1>1. call[c].pc = "l2" /\ k \in DOMAIN disk
  BY DEF L2Hit
<1>2. /\ "map" \in DOMAIN graphs /\ LruWithin(store, StoreBudget)
      /\ \A x \in DOMAIN disk : disk[x] \in Results /\ EntryFresh(x, disk[x])
      /\ \A x \in DOMAIN graphs.map : GraphKept(x, graphs.map[x])
      /\ \A x \in DOMAIN store.map : GraphKept(x, store.map[x])
  BY DEF IInv, Typed, CachesFresh, Graphs
<1>3. o \in Results /\ EntryFresh(k, o)
  BY <1>1, <1>2
<1>4. /\ history' = history /\ disk' = disk /\ graphs' = graphs /\ store' = store /\ behind' = behind
      /\ Promote(c, o) /\ call' = Answer(c, o)
  BY DEF L2Hit
<1> HIDE DEF o
<1>5. PICK w \in CallState : CallOK(w) /\ w.pc = "answered" /\ Answer(c, o) = [call EXCEPT ![c] = w]
  BY <1>1, <1>3, AnswerOK DEF Begun
<1>6. /\ "map" \in DOMAIN answers'
      /\ \A x \in DOMAIN answers'.map : answers'.map[x] \in Results /\ EntryFresh(x, answers'.map[x])
  BY <1>3, <1>4, PushAnswers
<1>7. QED
  BY <1>2, <1>4, <1>5, <1>6, OwnStep

(* A call goes on with what it has.                                         *)
LEMMA MoveStep ==
  ASSUME IInv, NEW c \in Calls, NEW pc \in {"l2", "collect", "resolve", "extract", "build"},
         call' = [call EXCEPT ![c].pc = pc],
         UNCHANGED <<history, answers, disk, behind>>,
         "map" \in DOMAIN graphs', \A k \in DOMAIN graphs'.map : GraphKept(k, graphs'.map[k]),
         LruWithin(store', StoreBudget), \A k \in DOMAIN store'.map : GraphKept(k, store'.map[k]),
         call[c].pc \in {"l1", "l2", "find", "resolve", "build"},
         pc \in {"l2", "collect"} => call[c].pc \in {"l1", "l2"},
         pc \in {"resolve", "extract", "build"} => call[c].pc \in {"find", "resolve", "build"},
         pc = "build" => call[c].pc = "find" /\ call[c].key # NoKey
  PROVE  IInv'
<1> DEFINE w == [call[c] EXCEPT !.pc = pc]
<1>1. call[c] \in CallState /\ CallOK(call[c])
  BY ThisCall
<1>2. /\ w \in CallState /\ w.pc = pc /\ w.mtimes = call[c].mtimes /\ w.req = call[c].req
      /\ w.from = call[c].from /\ w.first = call[c].first /\ w.sites = call[c].sites
      /\ w.graph = call[c].graph /\ w.key = call[c].key /\ w.cancelled = call[c].cancelled
  BY <1>1 DEF CallState, Pc
<1>3. call' = [call EXCEPT ![c] = w]
  OBVIOUS
<1> HIDE DEF w
<1>4. Walk(w) /\ SitesRead(w) /\ FirstRead(w) /\ KeyTrue(w) /\ Answered(w)
  BY <1>1, <1>2 DEF CallOK, Walk, SitesRead, FirstRead, KeyTrue, Answered, Begun
<1>5. GraphRead(w)
  BY <1>1, <1>2 DEF CallOK, GraphRead, Nothing
<1>6. /\ history' = history /\ answers' = answers /\ disk' = disk /\ behind' = behind
      /\ c \notin behind /\ "map" \in DOMAIN answers
      /\ \A k \in DOMAIN answers.map : answers.map[k] \in Results /\ EntryFresh(k, answers.map[k])
  BY DEF IInv, Typed, CachesFresh
<1>7. QED
  BY <1>2, <1>3, <1>4, <1>5, <1>6, OwnStep DEF CallOK

LEMMA MissStep ==
  ASSUME IInv, NEW c \in Calls, L1Miss(c) \/ L2Miss(c)
  PROVE  IInv'
<1>1. /\ "map" \in DOMAIN graphs /\ \A k \in DOMAIN graphs.map : GraphKept(k, graphs.map[k])
      /\ LruWithin(store, StoreBudget) /\ \A k \in DOMAIN store.map : GraphKept(k, store.map[k])
  BY DEF IInv, Typed, Graphs
<1>2. CASE L1Miss(c)
  <2>1. /\ call' = [call EXCEPT ![c].pc = "l2"] /\ call[c].pc = "l1" /\ graphs' = graphs /\ store' = store
        /\ UNCHANGED <<history, answers, disk, behind>>
    BY <1>2 DEF L1Miss
  <2>2. QED
    BY <1>1, <2>1, MoveStep
<1>3. CASE L2Miss(c)
  <2>1. /\ call' = [call EXCEPT ![c].pc = "collect"] /\ call[c].pc = "l2" /\ graphs' = graphs /\ store' = store
        /\ UNCHANGED <<history, answers, disk, behind>>
    BY <1>3 DEF L2Miss
  <2>2. QED
    BY <1>1, <2>1, MoveStep
<1>4. QED
  BY <1>2, <1>3

(* A file that is read now is read since its date.                          *)
LEMMA ReadNow ==
  ASSUME IInv, NEW f \in Files, NEW m \in Nat, m <= Len(history[f])
  PROVE  /\ Seen(OnDisk(f)) \in Since(f, m) /\ Seen(OnDisk(f)) # Unread
         /\ Seen(OnDisk(f)) \in Contents \cup {Skipped}
<1>1. Len(history[f]) \in {j \in 1..Len(history[f]) : m <= j}
  BY DEF IInv, Typed
<1>2. Seen(OnDisk(f)) \in Contents \cup {Skipped}
  BY DEF Seen
<1>3. QED
  BY <1>1, <1>2, SymbolAssumption DEF Since, OnDisk

LEMMA ReadSourceStep ==
  ASSUME IInv, NEW c \in Calls, NEW f \in Files, ReadSource(c, f)
  PROVE  IInv'
<1> DEFINE r == IF call[c].cancelled THEN Skipped ELSE Seen(OnDisk(f))
           graph == [call[c].graph EXCEPT ![f] = r]
           w == [call[c] EXCEPT !.graph = graph]
<1>1. call[c] \in CallState /\ CallOK(call[c]) /\ call[c].pc = "collect" /\ call[c].mtimes[f] # Absent
  BY ThisCall DEF ReadSource, Walked
<1>2. /\ call[c].mtimes[f] \in Nat /\ call[c].mtimes[f] <= Len(history[f])
  BY <1>1 DEF CallOK, Walk, Begun, Dated
<1>3. r \in Contents \cup {Skipped} /\ (r \in Since(f, call[c].mtimes[f]) \/ call[c].cancelled)
  BY <1>2, ReadNow
<1>4. /\ graph \in Reading /\ graph[f] = r /\ \A g \in Files : g # f => graph[g] = call[c].graph[g]
  BY <1>1, <1>3 DEF CallState, Reading
<1>5. call' = [call EXCEPT ![c] = w]
  BY DEF ReadSource
<1> HIDE DEF graph, r
<1>6. /\ w \in CallState /\ w.pc = "collect" /\ w.mtimes = call[c].mtimes /\ w.req = call[c].req
      /\ w.from = call[c].from /\ w.first = call[c].first /\ w.sites = call[c].sites
      /\ w.graph = graph /\ w.cancelled = call[c].cancelled
  BY <1>1, <1>4 DEF CallState
<1> HIDE DEF w
<1>7. Walk(w) /\ SitesRead(w) /\ FirstRead(w) /\ KeyTrue(w) /\ Answered(w)
  BY <1>1, <1>6 DEF CallOK, Walk, SitesRead, FirstRead, KeyTrue, Answered, Begun
<1>8. GraphRead(w)
  BY <1>1, <1>3, <1>4, <1>6 DEF CallOK, GraphRead
<1>9. QED
  BY <1>1, <1>5, <1>6, <1>7, <1>8, PlainStep DEF CallOK, ReadSource

LEMMA ReadSitesStep ==
  ASSUME IInv, NEW c \in Calls, NEW f \in Files, ReadSites(c, f)
  PROVE  IInv'
<1> DEFINE r == IF call[c].cancelled THEN Skipped ELSE Seen(OnDisk(f))
           sites == [call[c].sites EXCEPT ![f] = r]
           w == [call[c] EXCEPT !.sites = sites]
<1>1. call[c] \in CallState /\ CallOK(call[c]) /\ call[c].pc = "extract" /\ call[c].mtimes[f] # Absent
  BY ThisCall DEF ReadSites, Walked
<1>2. /\ call[c].mtimes[f] \in Nat /\ call[c].mtimes[f] <= Len(history[f])
  BY <1>1 DEF CallOK, Walk, Begun, Dated
<1>3. r \in Contents \cup {Skipped} /\ r \in Since(f, call[c].mtimes[f]) \cup {Skipped}
  BY <1>2, ReadNow
<1>4. /\ sites \in Reading /\ sites[f] = r /\ \A g \in Files : g # f => sites[g] = call[c].sites[g]
  BY <1>1, <1>3 DEF CallState, Reading
<1>5. call' = [call EXCEPT ![c] = w]
  BY DEF ReadSites
<1> HIDE DEF sites, r
<1>6. /\ w \in CallState /\ w.pc = "extract" /\ w.mtimes = call[c].mtimes /\ w.req = call[c].req
      /\ w.from = call[c].from /\ w.first = call[c].first /\ w.sites = sites
      /\ w.graph = call[c].graph /\ w.cancelled = call[c].cancelled
  BY <1>1, <1>4 DEF CallState
<1> HIDE DEF w
<1>7. Walk(w) /\ GraphRead(w) /\ FirstRead(w) /\ KeyTrue(w) /\ Answered(w)
  BY <1>1, <1>6 DEF CallOK, Walk, GraphRead, FirstRead, KeyTrue, Answered, Begun
<1>8. SitesRead(w)
  BY <1>1, <1>3, <1>4, <1>6 DEF CallOK, SitesRead, Begun
<1>9. QED
  BY <1>1, <1>5, <1>6, <1>7, <1>8, PlainStep DEF CallOK, ReadSites

LEMMA CancelStep ==
  ASSUME IInv, NEW c \in Calls, Cancel(c)
  PROVE  IInv'
<1> DEFINE w == [call[c] EXCEPT !.cancelled = TRUE]
<1>1. /\ call[c] \in CallState /\ CallOK(call[c])
      /\ call[c].pc \in {"collect", "find", "build", "resolve", "extract"}
  BY ThisCall DEF Cancel
<1>2. call' = [call EXCEPT ![c] = w]
  BY DEF Cancel
<1>3. /\ w \in CallState /\ w.pc = call[c].pc /\ w.mtimes = call[c].mtimes /\ w.req = call[c].req
      /\ w.from = call[c].from /\ w.first = call[c].first /\ w.sites = call[c].sites
      /\ w.graph = call[c].graph /\ w.key = call[c].key /\ w.cancelled
  BY <1>1 DEF CallState
<1> HIDE DEF w
<1>4. Walk(w) /\ GraphRead(w) /\ SitesRead(w) /\ FirstRead(w) /\ KeyTrue(w) /\ Answered(w)
  BY <1>1, <1>3 DEF CallOK, Walk, GraphRead, SitesRead, FirstRead, KeyTrue, Answered, Begun
<1>5. QED
  BY <1>1, <1>2, <1>3, <1>4, PlainStep DEF CallOK, Cancel

(* All files are read, so the key names the contents they were read with.   *)
LEMMA HashStep ==
  ASSUME IInv, NEW c \in Calls, Hash(c)
  PROVE  IInv'
<1>1. /\ call[c] \in CallState /\ CallOK(call[c]) /\ call[c].pc = "collect"
      /\ \A f \in Walked(c) : call[c].graph[f] # Unread
  BY ThisCall DEF Hash
<1>2. CASE call[c].cancelled
  BY <1>1, <1>2, RefuseStep DEF Hash
<1>3. CASE ~ call[c].cancelled
  <2> DEFINE key == GraphKey(c)
             w == [call[c] EXCEPT !.pc = "find", !.key = key]
  <2>1. \A f \in Files : OnDisk(f) \in Contents \cup {Absent}
    <3>1. ASSUME NEW f \in Files PROVE OnDisk(f) \in Contents \cup {Absent}
      <4>1. Len(history[f]) \in 1..Len(history[f]) /\ history[f] \in Seq(Contents \cup {Absent})
        BY DEF IInv, Typed
      <4>2. QED
        BY <4>1 DEF OnDisk
    <3>2. QED
      BY <3>1
  <2>2. key = NoKey \/ /\ DOMAIN key = Walked(c) /\ key \in [Walked(c) -> Contents]
                       /\ \A f \in Walked(c) : call[c].graph[f] \in {key[f], Skipped}
    <3> DEFINE skipped == {f \in Walked(c) : call[c].graph[f] = Skipped}
               named == [f \in Walked(c) |-> IF f \in skipped THEN OnDisk(f) ELSE call[c].graph[f]]
    <3>1. CASE \E f \in skipped : OnDisk(f) = Absent
      BY <3>1 DEF GraphKey
    <3>2. CASE \A f \in skipped : OnDisk(f) # Absent
      <4>1. key = named
        BY <3>2 DEF GraphKey
      <4>2. ASSUME NEW f \in Walked(c) PROVE named[f] \in Contents /\ call[c].graph[f] \in {named[f], Skipped}
        <5>1. f \in Files /\ call[c].graph[f] \in Contents \cup {Skipped}
          BY <1>1 DEF Walked, CallState, Reading
        <5>2. CASE f \in skipped
          BY <2>1, <3>2, <5>1, <5>2
        <5>3. CASE f \notin skipped
          BY <5>1, <5>3
        <5>4. QED
          BY <5>2, <5>3
      <4>3. named \in [Walked(c) -> Contents]
        BY <4>2
      <4> HIDE DEF named
      <4>4. QED
        BY <4>1, <4>2, <4>3
    <3>3. QED
      BY <3>1, <3>2
  <2>3. key \in GraphKeys \cup {NoKey}
    <3>1. Walked(c) \in SUBSET Files
      BY DEF Walked
    <3>2. QED
      BY <2>2, <3>1 DEF GraphKeys
  <2>4. call' = [call EXCEPT ![c] = w]
    BY <1>3 DEF Hash
  <2> HIDE DEF key
  <2>5. /\ w \in CallState /\ w.pc = "find" /\ w.mtimes = call[c].mtimes /\ w.req = call[c].req
        /\ w.from = call[c].from /\ w.first = call[c].first /\ w.sites = call[c].sites
        /\ w.graph = call[c].graph /\ w.key = key
    BY <1>1, <2>3 DEF CallState, Pc
  <2> HIDE DEF w
  <2>6. Walk(w) /\ SitesRead(w) /\ FirstRead(w) /\ Answered(w)
    BY <1>1, <2>5 DEF CallOK, Walk, SitesRead, FirstRead, Answered, Begun
  <2>7. GraphRead(w)
    BY <1>1, <1>3, <2>5 DEF CallOK, GraphRead, Walked, Dated
  <2>8. KeyTrue(w)
    BY <2>2, <2>5 DEF KeyTrue, Walked
  <2>9. QED
    BY <1>1, <2>4, <2>5, <2>6, <2>7, <2>8, PlainStep DEF CallOK, Hash
<1>4. QED
  BY <1>2, <1>3

(* A graph kept under a key is truthful under it.                           *)
LEMMA PushGraph ==
  ASSUME NEW c, NEW n, NEW k, NEW g, GraphKept(k, g),
         \A x \in DOMAIN c.map : GraphKept(x, c.map[x])
  PROVE  LET t == LruPush(c, k, g, n)
         IN  "map" \in DOMAIN t /\ \A x \in DOMAIN t.map : GraphKept(x, t.map[x])
<1> DEFINE t == LruPush(c, k, g, n)
<1>1. /\ "map" \in DOMAIN t /\ DOMAIN t.map \subseteq DOMAIN c.map \cup {k}
      /\ \A x \in DOMAIN t.map : t.map[x] = IF x = k THEN g ELSE c.map[x]
  BY PushMap
<1> HIDE DEF t
<1>2. ASSUME NEW x \in DOMAIN t.map PROVE GraphKept(x, t.map[x])
  <2>1. CASE x = k
    BY <1>1, <2>1
  <2>2. CASE x # k
    <3>1. x \in DOMAIN c.map /\ t.map[x] = c.map[x]
      BY <1>1, <2>2
    <3>2. QED
      BY <3>1
  <2>3. QED
    BY <2>1, <2>2
<1>3. QED
  BY <1>1, <1>2 DEF t

LEMMA FindGraphStep ==
  ASSUME IInv, NEW c \in Calls, FindGraph(c)
  PROVE  IInv'
<1> DEFINE k == call[c].key
<1>1. /\ "map" \in DOMAIN graphs /\ \A x \in DOMAIN graphs.map : GraphKept(x, graphs.map[x])
      /\ LruWithin(store, StoreBudget) /\ \A x \in DOMAIN store.map : GraphKept(x, store.map[x])
  BY DEF IInv, Typed, Graphs
<1>2. call[c].pc = "find" /\ UNCHANGED <<history, answers, disk, behind>>
  BY DEF FindGraph
<1>3. CASE k = NoKey /\ call' = [call EXCEPT ![c].pc = "resolve"] /\ UNCHANGED <<graphs, store>>
  <2>1. graphs' = graphs /\ store' = store
    BY <1>3
  <2>2. QED
    BY <1>1, <1>2, <1>3, <2>1, MoveStep
<1>4. CASE /\ graphs' = LruGet(graphs, k) /\ call' = [call EXCEPT ![c].pc = "resolve"] /\ store' = store
  <2>1. "map" \in DOMAIN graphs' /\ graphs'.map = graphs.map
    BY <1>1, <1>4, GetMap
  <2>2. QED
    BY <1>1, <1>2, <1>4, <2>1, MoveStep
<1>5. CASE /\ LruHas(store, k) /\ store' = StoreGet(k)
           /\ graphs' = LruPush(graphs, k, store.map[k], GraphCapacity)
           /\ call' = [call EXCEPT ![c].pc = "resolve"]
  <2>1. k \in DOMAIN store.map /\ store' = LruGet(store, k)
    BY <1>5 DEF LruHas, StoreGet
  <2>2. LruWithin(store', StoreBudget) /\ store'.map = store.map
    <3>1. "map" \in DOMAIN store
      BY <1>1 DEF LruWithin
    <3>2. QED
      BY <1>1, <2>1, <3>1, GetMap, GetWithin
  <2>3. "map" \in DOMAIN graphs' /\ \A x \in DOMAIN graphs'.map : GraphKept(x, graphs'.map[x])
    BY <1>1, <1>5, <2>1, PushGraph
  <2>4. QED
    BY <1>1, <1>2, <1>5, <2>2, <2>3, MoveStep
<1>6. CASE k # NoKey /\ call' = [call EXCEPT ![c].pc = "build"] /\ UNCHANGED <<graphs, store>>
  <2>1. graphs' = graphs /\ store' = store
    BY <1>6
  <2>2. QED
    BY <1>1, <1>2, <1>6, <2>1, MoveStep
<1>7. QED
  BY <1>3, <1>4, <1>5, <1>6 DEF FindGraph

LEMMA BuildGraphStep ==
  ASSUME IInv, NEW c \in Calls, BuildGraph(c)
  PROVE  IInv'
<1> DEFINE k == call[c].key
           g == [f \in Walked(c) |-> call[c].graph[f]]
<1>1. /\ "map" \in DOMAIN graphs /\ \A x \in DOMAIN graphs.map : GraphKept(x, graphs.map[x])
      /\ LruWithin(store, StoreBudget) /\ \A x \in DOMAIN store.map : GraphKept(x, store.map[x])
  BY DEF IInv, Typed, Graphs
<1>2. call[c] \in CallState /\ CallOK(call[c]) /\ call[c].pc = "build"
  BY ThisCall DEF BuildGraph
<1>3. GraphKept(k, g)
  <2>1. ASSUME NEW f \in DOMAIN k
        PROVE  \/ g[f] = k[f]
               \/ g[f] = Skipped /\ \E i \in 1..Len(history[f]) : Seen(history[f][i]) = Skipped
    <3>1. f \in Walked(c) /\ g[f] = call[c].graph[f] /\ g[f] \in {k[f], Skipped}
      BY <1>2 DEF CallOK, KeyTrue, Walked
    <3>2. Dated(call[c].mtimes[f]) /\ f \in Files
      BY <1>2, <3>1 DEF CallOK, Walk, Walked, Dated, Begun
    <3>3. g[f] \in Since(f, call[c].mtimes[f])
      BY <1>2, <3>1, <3>2 DEF CallOK, GraphRead
    <3>4. QED
      BY <3>1, <3>3 DEF Since
  <2>2. DOMAIN k \subseteq Files
    BY <1>2 DEF CallOK, KeyTrue
  <2>3. QED
    BY <2>1, <2>2 DEF GraphKept, GraphTruthful
<1>4. /\ store' = LruPush(store, k, g, StoreBudget) /\ graphs' = LruPush(graphs, k, g, GraphCapacity)
      /\ call' = [call EXCEPT ![c].pc = "resolve"] /\ UNCHANGED <<history, answers, disk, behind>>
  BY DEF BuildGraph, StorePut
<1> HIDE DEF k, g
<1>5. LruWithin(store', StoreBudget)
  BY <1>1, <1>4, PushWithin, SymbolAssumption
<1>6. /\ "map" \in DOMAIN graphs' /\ \A x \in DOMAIN graphs'.map : GraphKept(x, graphs'.map[x])
      /\ \A x \in DOMAIN store'.map : GraphKept(x, store'.map[x])
  BY <1>1, <1>3, <1>4, PushGraph
<1>7. QED
  BY <1>2, <1>4, <1>5, <1>6, MoveStep

LEMMA ResolveStep ==
  ASSUME IInv, NEW c \in Calls, Resolve(c)
  PROVE  IInv'
<1>1. /\ "map" \in DOMAIN graphs /\ \A x \in DOMAIN graphs.map : GraphKept(x, graphs.map[x])
      /\ LruWithin(store, StoreBudget) /\ \A x \in DOMAIN store.map : GraphKept(x, store.map[x])
  BY DEF IInv, Typed, Graphs
<1>2. /\ call[c].pc = "resolve" /\ graphs' = graphs /\ store' = store
      /\ UNCHANGED <<history, answers, disk, graphs, store, behind>>
  BY DEF Resolve
<1>3. CASE call' = Refuse(c)
  BY <1>2, <1>3, RefuseStep
<1>4. CASE call' = [call EXCEPT ![c].pc = "extract"]
  BY <1>1, <1>2, <1>4, MoveStep
<1>5. QED
  BY <1>3, <1>4 DEF Resolve

(* A call that has read all sites has read a fresh result.                  *)
LEMMA OutcomeFresh ==
  ASSUME IInv, NEW c \in Calls, Extracted(c)
  PROVE  /\ Outcome(c) \in Result
         /\ ResultFresh(Outcome(c), call[c].req.mode, call[c].mtimes)
<1>1. call[c] \in CallState /\ CallOK(call[c]) /\ call[c].pc = "extract"
  BY ThisCall DEF Extracted
<1>2. Compact(c) \in BOOLEAN
  BY DEF Compact, Retried
<1>3. /\ Outcome(c) \in Result /\ Outcome(c).graph = call[c].graph /\ Outcome(c).sites = call[c].sites
  BY <1>1, <1>2 DEF Outcome, Result, CallState
<1>4. ASSUME NEW f \in Files, Dated(call[c].mtimes[f])
      PROVE  /\ call[c].graph[f] \in Since(f, call[c].mtimes[f])
             /\ call[c].req.mode = "def_use" => call[c].sites[f] \in Since(f, call[c].mtimes[f]) \cup {Skipped}
  <2>1. call[c].graph[f] \in Since(f, call[c].mtimes[f])
    BY <1>1, <1>4 DEF CallOK, GraphRead
  <2>2. call[c].sites[f] \in Since(f, call[c].mtimes[f]) \cup {Unread, Skipped}
    BY <1>1, <1>4 DEF CallOK, SitesRead, Begun
  <2>3. call[c].req.mode = "def_use" => call[c].sites[f] # Unread
    BY <1>4 DEF Extracted, DefUse, Walked, Dated
  <2>4. QED
    BY <2>1, <2>2, <2>3
<1>5. QED
  BY <1>3, <1>4 DEF ResultFresh

LEMMA ShortenStep ==
  ASSUME IInv, NEW c \in Calls, Shorten(c)
  PROVE  IInv'
<1>1. call[c] \in CallState /\ CallOK(call[c]) /\ call[c].pc = "extract" /\ Extracted(c)
  BY ThisCall DEF Shorten, Extracted
<1>2. CASE call[c].cancelled
  BY <1>1, <1>2, RefuseStep DEF Shorten
<1>3. CASE ~ call[c].cancelled
  <2> DEFINE o == Outcome(c)
             w == [call[c] EXCEPT !.pc = "collect", !.first = o, !.graph = Nothing, !.sites = Nothing]
  <2>1. o \in Result /\ ResultFresh(o, call[c].req.mode, call[c].mtimes)
    BY <1>1, OutcomeFresh
  <2>2. call' = [call EXCEPT ![c] = w]
    BY <1>3 DEF Shorten
  <2> HIDE DEF o
  <2>3. /\ w \in CallState /\ w.pc = "collect" /\ w.mtimes = call[c].mtimes /\ w.req = call[c].req
        /\ w.from = call[c].from /\ w.first = o /\ w.sites = Nothing /\ w.graph = Nothing
    BY <1>1, <2>1 DEF CallState, Pc, Nothing, Reading
  <2> HIDE DEF w
  <2>4. Walk(w) /\ Answered(w) /\ KeyTrue(w)
    BY <1>1, <2>3 DEF CallOK, Walk, Answered, KeyTrue, Begun
  <2>5. GraphRead(w) /\ SitesRead(w)
    BY <2>3 DEF GraphRead, SitesRead, Nothing
  <2>6. FirstRead(w)
    BY <2>1, <2>3 DEF FirstRead
  <2>7. QED
    BY <1>1, <2>2, <2>3, <2>4, <2>5, <2>6, PlainStep DEF CallOK, Shorten
<1>4. QED
  BY <1>2, <1>3

LEMMA FinishStep ==
  ASSUME IInv, NEW c \in Calls, Finish(c)
  PROVE  IInv'
<1> DEFINE o == Output(c)
<1>1. call[c] \in CallState /\ CallOK(call[c]) /\ call[c].pc = "extract" /\ Extracted(c)
  BY ThisCall DEF Finish, Extracted
<1>2. Outcome(c) \in Result /\ ResultFresh(Outcome(c), call[c].req.mode, call[c].mtimes)
  BY <1>1, OutcomeFresh
<1>3. Retried(c) => /\ call[c].first \in Result
                    /\ ResultFresh(call[c].first, call[c].req.mode, call[c].mtimes)
  BY <1>1 DEF CallOK, FirstRead, CallState, Retried, Begun
<1>4. o \in Results /\ EntryFresh(CacheKey(c), o)
  BY <1>2, <1>3 DEF Output, Results, EntryFresh, CacheKey
<1>5. /\ history' = history /\ disk' = disk /\ graphs' = graphs /\ store' = store
      /\ behind' = behind \cup {c} /\ Promote(c, o) /\ call' = Answer(c, o)
  BY DEF Finish
<1> HIDE DEF o
<1>6. PICK w \in CallState : CallOK(w) /\ w.pc = "answered" /\ Answer(c, o) = [call EXCEPT ![c] = w]
  BY <1>1, <1>4, AnswerOK DEF Begun
<1>7. /\ "map" \in DOMAIN answers'
      /\ \A x \in DOMAIN answers'.map : answers'.map[x] \in Results /\ EntryFresh(x, answers'.map[x])
  BY <1>4, <1>5, PushAnswers
<1>8. /\ "map" \in DOMAIN graphs /\ LruWithin(store, StoreBudget)
      /\ \A x \in DOMAIN graphs.map : GraphKept(x, graphs.map[x])
      /\ \A x \in DOMAIN store.map : GraphKept(x, store.map[x])
  BY DEF IInv, Typed, Graphs
<1>9. QED
  BY <1>5, <1>6, <1>7, <1>8, OwnStep

(* Calls that change nothing else.                                          *)
LEMMA CallsSame ==
  ASSUME IInv, history' = history, call' = call
  PROVE  CallsOK'
<1>1. \A d \in Calls : CallOK(call[d])
  BY DEF IInv, CallsOK
<1>2. \A d \in Calls : Walk(call[d])' /\ KeyTrue(call[d])'
  BY <1>1 DEF CallOK, Walk, KeyTrue, Begun
<1>3. \A d \in Calls : GraphRead(call[d])' /\ SitesRead(call[d])'
  BY <1>1 DEF CallOK, GraphRead, SitesRead, Since, Begun
<1>4. \A d \in Calls : FirstRead(call[d])'
  BY <1>1 DEF CallOK, FirstRead, ResultFresh, Since, Begun
<1>5. ASSUME NEW d \in Calls PROVE Answered(call[d])'
  <2>1. SUFFICES ASSUME call[d].pc = "answered"
                 PROVE  call[d].output \in Results /\ EntryFresh(<<call[d].req.mode, call[d].mtimes>>, call[d].output)'
    BY DEF Answered, Results, Result
  <2>2. call[d].output \in Results /\ EntryFresh(<<call[d].req.mode, call[d].mtimes>>, call[d].output)
    BY <1>1, <2>1 DEF CallOK, Answered
  <2>3. QED
    BY <2>2 DEF EntryFresh, ResultFresh, Since
<1>6. QED
  BY <1>2, <1>3, <1>4, <1>5 DEF CallsOK, CallOK

LEMMA L2PutStep ==
  ASSUME IInv, NEW c \in Calls, L2Put(c)
  PROVE  IInv'
<1> DEFINE k == CacheKey(c)
           o == call[c].output
<1>1. call[c] \in CallState /\ CallOK(call[c]) /\ call[c].pc = "answered"
  BY ThisCall DEF L2Put, IInv, Typed
<1>2. o \in Results /\ EntryFresh(k, o)
  BY <1>1 DEF CallOK, Answered, CacheKey
<1>3. /\ history' = history /\ answers' = answers /\ graphs' = graphs /\ store' = store /\ call' = call
      /\ behind' = behind \ {c}
  BY DEF L2Put
<1>4. disk' = disk \/ disk' = [x \in DOMAIN disk \cup {k} |-> IF x = k THEN o ELSE disk[x]]
  BY DEF L2Put
<1> HIDE DEF k, o
<1>5. ASSUME NEW x \in DOMAIN disk' PROVE disk'[x] \in Results /\ EntryFresh(x, disk'[x])
  <2>1. \/ x = k /\ disk'[x] = o
        \/ x \in DOMAIN disk /\ disk'[x] = disk[x]
    BY <1>4
  <2>2. CASE x = k /\ disk'[x] = o
    BY <1>2, <2>2
  <2>3. CASE x \in DOMAIN disk /\ disk'[x] = disk[x]
    BY <2>3 DEF IInv, Typed, CachesFresh
  <2>4. QED
    BY <2>1, <2>2, <2>3
<1>6. Typed'
  BY <1>3, <1>5 DEF IInv, Typed, LruWithin, Keys
<1>7. CachesFresh'
  <2>1. ASSUME NEW x \in DOMAIN answers' .map PROVE EntryFresh(x, answers.map[x])'
    <3>1. EntryFresh(x, answers'.map[x])
      BY <1>3 DEF IInv, CachesFresh
    <3>2. history' = history
      BY <1>3
    <3>3. QED
      BY <3>1, <3>2 DEF EntryFresh, ResultFresh, Since
  <2>2. ASSUME NEW x \in DOMAIN disk' PROVE EntryFresh(x, disk[x])'
    <3>1. EntryFresh(x, disk'[x])
      BY <1>5
    <3>2. history' = history
      BY <1>3
    <3>3. QED
      BY <3>1, <3>2 DEF EntryFresh, ResultFresh, Since
  <2>3. QED
    BY <2>1, <2>2 DEF CachesFresh
<1>8. Graphs' /\ CallsOK'
  BY <1>3, CallsSame DEF IInv, Graphs, GraphKept, GraphTruthful
<1>9. QED
  BY <1>6, <1>7, <1>8 DEF IInv

LEMMA ReadGraphStep ==
  ASSUME IInv, NEW k \in DOMAIN store.map, ReadGraph(k)
  PROVE  IInv'
<1>1. /\ history' = history /\ answers' = answers /\ graphs' = graphs /\ call' = call /\ disk' = disk
      /\ behind' = behind /\ store' = LruGet(store, k)
  BY DEF ReadGraph, StoreGet
<1>2. LruWithin(store, StoreBudget)
  BY DEF IInv, Typed
<1>3. LruWithin(store', StoreBudget) /\ store'.map = store.map
  <2>1. "map" \in DOMAIN store
    BY <1>2 DEF LruWithin
  <2>2. QED
    BY <1>1, <1>2, <2>1, GetMap, GetWithin
<1>4. Typed'
  BY <1>1, <1>3 DEF IInv, Typed, LruWithin, Keys
<1>5. Graphs'
  BY <1>1, <1>3 DEF IInv, Graphs, GraphKept, GraphTruthful
<1>6. CachesFresh'
  <2>1. \A x \in DOMAIN answers.map : EntryFresh(x, answers.map[x])'
    BY <1>1 DEF IInv, CachesFresh, EntryFresh, ResultFresh, Since
  <2>2. \A x \in DOMAIN disk : EntryFresh(x, disk[x])'
    BY <1>1 DEF IInv, CachesFresh, EntryFresh, ResultFresh, Since
  <2>3. QED
    BY <1>1, <2>1, <2>2 DEF CachesFresh
<1>7. QED
  BY <1>1, <1>4, <1>5, <1>6, CallsSame DEF IInv

(* What could be read since a date can still have been read since then.     *)
LEMMA SinceGrows ==
  ASSUME IInv, NEW f \in Files, NEW content \in Contents \cup {Absent}, Change(f, content)
  PROVE  /\ history' \in [Files -> Seq(Contents \cup {Absent})]
         /\ \A g \in Files : /\ Len(history[g]) \in Nat /\ Len(history'[g]) \in Nat
                              /\ Len(history[g]) >= 1 /\ Len(history[g]) <= Len(history'[g])
                              /\ \A i \in 1..Len(history[g]) : history'[g][i] = history[g][i]
         /\ \A g \in Files : \A m : Since(g, m) \subseteq Since(g, m)'
<1>1. /\ history' = [history EXCEPT ![f] = Append(history[f], content)]
      /\ history \in [Files -> Seq(Contents \cup {Absent})] /\ \A g \in Files : Len(history[g]) >= 1
  BY DEF Change, IInv, Typed
<1>2. history' \in [Files -> Seq(Contents \cup {Absent})]
  BY <1>1
<1>3. ASSUME NEW g \in Files
      PROVE  /\ Len(history[g]) \in Nat /\ Len(history'[g]) \in Nat
             /\ Len(history[g]) >= 1 /\ Len(history[g]) <= Len(history'[g])
             /\ \A i \in 1..Len(history[g]) : history'[g][i] = history[g][i]
  <2> DEFINE s == history[g]
  <2>1. s \in Seq(Contents \cup {Absent}) /\ Len(s) \in Nat /\ Len(s) >= 1
    BY <1>1
  <2>2. history'[g] = s \/ history'[g] = Append(s, content)
    BY <1>1
  <2> HIDE DEF s
  <2>3. Len(Append(s, content)) = Len(s) + 1 /\ \A i \in 1..Len(s) : Append(s, content)[i] = s[i]
    BY <2>1
  <2>4. QED
    BY <2>1, <2>2, <2>3 DEF s
<1>4. ASSUME NEW g \in Files, NEW m PROVE Since(g, m) \subseteq Since(g, m)'
  <2>1. \A i \in 1..Len(history[g]) : i \in 1..Len(history'[g]) /\ history'[g][i] = history[g][i]
    BY <1>3
  <2>2. QED
    BY <2>1 DEF Since
<1>5. QED
  BY <1>2, <1>3, <1>4

LEMMA ChangeStep ==
  ASSUME IInv, NEW f \in Files, NEW content \in Contents \cup {Absent}, Change(f, content)
  PROVE  IInv'
<1>1. /\ answers' = answers /\ graphs' = graphs /\ call' = call /\ disk' = disk
      /\ behind' = behind /\ store' = store
  BY DEF Change
<1>2. history' \in [Files -> Seq(Contents \cup {Absent})]
  BY SinceGrows
<1>3. \A g \in Files : /\ Len(history[g]) \in Nat /\ Len(history'[g]) \in Nat
                       /\ Len(history[g]) >= 1 /\ Len(history[g]) <= Len(history'[g])
                       /\ \A i \in 1..Len(history[g]) : history'[g][i] = history[g][i]
  BY SinceGrows
<1>4. \A g \in Files : \A m : Since(g, m) \subseteq Since(g, m)'
  BY SinceGrows
<1>5. \A p : \A mode : \A mtimes : ResultFresh(p, mode, mtimes) => ResultFresh(p, mode, mtimes)'
  BY <1>4 DEF ResultFresh
<1>6. \A k : \A o : EntryFresh(k, o) => EntryFresh(k, o)'
  BY <1>5 DEF EntryFresh
<1>7. Typed'
  BY <1>1, <1>2, <1>3 DEF IInv, Typed, LruWithin, Keys
<1>8. CachesFresh'
  BY <1>1, <1>6 DEF IInv, CachesFresh
<1>9. Graphs'
  <2>1. \A k : \A g : (k \in DOMAIN graphs.map \/ k \in DOMAIN store.map) /\ GraphKept(k, g) => GraphKept(k, g)'
    BY <1>3 DEF GraphKept, GraphTruthful
  <2>2. QED
    BY <1>1, <2>1 DEF IInv, Graphs
<1>10. CallsOK'
  <2>1. ASSUME NEW d \in Calls PROVE CallOK(call[d])'
    <3>1. CallOK(call[d]) /\ call[d] \in CallState
      BY ThisCall
    <3>2. Walk(call[d])'
      BY <1>1, <1>3, <3>1 DEF CallOK, Walk, Begun, CallState
    <3>3. KeyTrue(call[d])'
      BY <1>1, <3>1 DEF CallOK, KeyTrue
    <3>4. GraphRead(call[d])'
      BY <1>1, <1>4, <3>1 DEF CallOK, GraphRead
    <3>5. SitesRead(call[d])'
      BY <1>1, <1>4, <3>1 DEF CallOK, SitesRead, Begun
    <3>6. FirstRead(call[d])'
      BY <1>1, <1>5, <3>1 DEF CallOK, FirstRead, Begun
    <3>7. Answered(call[d])'
      BY <1>1, <1>6, <3>1 DEF CallOK, Answered
    <3>8. QED
      BY <3>2, <3>3, <3>4, <3>5, <3>6, <3>7 DEF CallOK
  <2>2. QED
    BY <2>1 DEF CallsOK
<1>11. QED
  BY <1>7, <1>8, <1>9, <1>10 DEF IInv

(* A server that starts again has its files and what is on disk.            *)
LEMMA RestartStep ==
  ASSUME IInv, Restart
  PROVE  IInv'
<1> DEFINE gone == [NewCall EXCEPT !.pc = "lost"]
<1>1. /\ history' = history /\ answers' = EmptyLru /\ graphs' = EmptyLru /\ disk' = disk /\ store' = store
      /\ behind' = {}
      /\ call' = [c \in Calls |-> IF call[c].pc = "new" THEN NewCall ELSE gone]
  BY DEF Restart
<1>2. "map" \in DOMAIN EmptyLru /\ DOMAIN EmptyLru.map = {}
  BY DEF EmptyLru
<1>3. NewCall \in CallState /\ NewCall.pc = "new" /\ gone \in CallState /\ gone.pc = "lost"
  BY DEF NewCall, CallState, Nothing, Reading, Pc
<1> HIDE DEF gone
<1>4. Typed'
  BY <1>1, <1>2, <1>3 DEF IInv, Typed, LruWithin, Keys
<1>5. CachesFresh'
  <2>1. \A x \in DOMAIN disk : EntryFresh(x, disk[x])'
    BY <1>1 DEF IInv, CachesFresh, EntryFresh, ResultFresh, Since
  <2>2. QED
    BY <1>1, <1>2, <2>1 DEF CachesFresh
<1>6. Graphs'
  BY <1>1, <1>2 DEF IInv, Graphs, GraphKept, GraphTruthful
<1>7. CallsOK'
  <2>1. \A c \in Calls : call'[c].pc \in {"new", "lost"}
    BY <1>1, <1>3
  <2>2. QED
    BY <2>1 DEF CallsOK, CallOK, Walk, GraphRead, SitesRead, FirstRead, Answered, KeyTrue, Begun
<1>8. QED
  BY <1>4, <1>5, <1>6, <1>7 DEF IInv

LEMMA StandStep ==
  ASSUME IInv, UNCHANGED vars
  PROVE  IInv'
<1>1. /\ history' = history /\ answers' = answers /\ graphs' = graphs /\ disk' = disk /\ store' = store
      /\ behind' = behind /\ call' = call
  BY DEF vars
<1>2. Typed' /\ Graphs'
  BY <1>1 DEF IInv, Typed, LruWithin, Keys, Graphs, GraphKept, GraphTruthful
<1>3. CachesFresh'
  <2>1. \A x \in DOMAIN answers.map : EntryFresh(x, answers.map[x])'
    BY <1>1 DEF IInv, CachesFresh, EntryFresh, ResultFresh, Since
  <2>2. \A x \in DOMAIN disk : EntryFresh(x, disk[x])'
    BY <1>1 DEF IInv, CachesFresh, EntryFresh, ResultFresh, Since
  <2>3. QED
    BY <1>1, <2>1, <2>2 DEF CachesFresh
<1>4. QED
  BY <1>1, <1>2, <1>3, CallsSame DEF IInv

LEMMA EndStep ==
  ASSUME IInv, NEW c \in Calls, StopEarly(c) \/ NotFound(c) \/ RefuseLong(c)
  PROVE  IInv'
<1>1. /\ call' = Refuse(c) /\ call[c].pc # "answered"
      /\ UNCHANGED <<history, answers, disk, graphs, store, behind>>
  BY DEF StopEarly, NotFound, RefuseLong, Extracted
<1>2. QED
  BY <1>1, RefuseStep

LEMMA SymbolStepIInv == IInv /\ [Next]_vars => IInv'
<1> SUFFICES ASSUME IInv, [Next]_vars PROVE IInv'
  OBVIOUS
<1>1. ASSUME NEW c \in Calls, CallStep(c) PROVE IInv'
  <2>1. ASSUME NEW r \in Requests, Arrive(c, r) PROVE IInv'
    BY <2>1, ArriveStep
  <2>2. ASSUME NEW f \in Files, Visit(c, f) PROVE IInv'
    BY <2>2, VisitStep
  <2>3. ASSUME NEW f \in Files, ReadSource(c, f) PROVE IInv'
    BY <2>3, ReadSourceStep
  <2>4. ASSUME NEW f \in Files, ReadSites(c, f) PROVE IInv'
    BY <2>4, ReadSitesStep
  <2>5. CASE L1Hit(c)
    BY <2>5, L1HitStep
  <2>6. CASE L1Miss(c) \/ L2Miss(c)
    BY <2>6, MissStep
  <2>7. CASE L2Hit(c)
    BY <2>7, L2HitStep
  <2>8. CASE Hash(c)
    BY <2>8, HashStep
  <2>9. CASE FindGraph(c)
    BY <2>9, FindGraphStep
  <2>10. CASE StopEarly(c) \/ NotFound(c) \/ RefuseLong(c)
    BY <2>10, EndStep
  <2>11. CASE BuildGraph(c)
    BY <2>11, BuildGraphStep
  <2>12. CASE Resolve(c)
    BY <2>12, ResolveStep
  <2>13. CASE Shorten(c)
    BY <2>13, ShortenStep
  <2>14. CASE Finish(c)
    BY <2>14, FinishStep
  <2>15. CASE L2Put(c)
    BY <2>15, L2PutStep
  <2>16. QED
    BY <1>1, <2>1, <2>2, <2>3, <2>4, <2>5, <2>6, <2>7, <2>8, <2>9, <2>10, <2>11, <2>12, <2>13,
       <2>14, <2>15 DEF CallStep
<1>2. ASSUME NEW c \in Calls, Cancel(c) PROVE IInv'
  BY <1>2, CancelStep
<1>3. ASSUME NEW k \in DOMAIN store.map, ReadGraph(k) PROVE IInv'
  BY <1>3, ReadGraphStep
<1>4. ASSUME NEW f \in Files, NEW content \in Contents \cup {Absent}, Change(f, content) PROVE IInv'
  BY <1>4, ChangeStep
<1>5. CASE Restart
  BY <1>5, RestartStep
<1>6. CASE UNCHANGED vars
  BY <1>6, StandStep
<1>7. QED
  BY <1>1, <1>2, <1>3, <1>4, <1>5, <1>6 DEF Next

-----------------------------------------------------------------------------
(* Every answer of analyze_symbol, computed or from a cache, shows each     *)
(* file that its call walked as it was at some time since the call began,   *)
(* whatever is written meanwhile and whichever calls are cancelled          *)
(* (CallGraphCacheKey, analyze_focused_with_progress).                      *)
THEOREM SymbolAnswersFresh == Spec => []AnswersFresh
<1>1. IInv => AnswersFresh
  <2> SUFFICES ASSUME IInv, NEW c \in Calls, call[c].pc = "answered", NEW p \in Parts(c), NEW f \in Walked(c)
               PROVE  /\ p.graph[f] \in SeenDuring(c, f)
                      /\ DefUse(c) => p.sites[f] \in SeenDuring(c, f) \cup {Skipped}
    BY DEF AnswersFresh
  <2>1. call[c] \in CallState /\ CallOK(call[c]) /\ f \in Files /\ call[c].mtimes[f] # Absent
    BY ThisCall DEF Walked
  <2>2. /\ Dated(call[c].mtimes[f]) /\ call[c].mtimes[f] \in Nat
        /\ call[c].from[f] \in 1..Len(history[f]) /\ call[c].from[f] <= call[c].mtimes[f]
    BY <2>1 DEF CallOK, Walk, Begun, Dated
  <2>3. ResultFresh(p, call[c].req.mode, call[c].mtimes)
    BY <2>1 DEF CallOK, Answered, EntryFresh, Parts
  <2>4. Since(f, call[c].mtimes[f]) \subseteq SeenDuring(c, f)
    <3>1. Len(history[f]) \in Nat
      BY <2>1 DEF IInv, Typed
    <3>2. \A i \in 1..Len(history[f]) : call[c].mtimes[f] <= i => i \in call[c].from[f]..Len(history[f])
      BY <2>2, <3>1
    <3>3. QED
      BY <3>2 DEF Since, SeenDuring
  <2>5. QED
    BY <2>1, <2>2, <2>3, <2>4 DEF ResultFresh, DefUse
<1>2. QED
  BY <1>1, SymbolInitIInv, SymbolStepIInv, PTL DEF Spec

(* A structural graph that is kept was built from the contents its key      *)
(* hashes, but for files that could not be read once, and the store of      *)
(* graphs never outgrows its budget (compute_cache_key, GraphDiskStore).    *)
THEOREM SymbolGraphsTruthful == Spec => []GraphsTruthful
<1>1. IInv => GraphsTruthful
  BY FS_CardinalityType DEF IInv, Typed, LruWithin, Graphs, GraphKept, GraphsTruthful
<1>2. QED
  BY <1>1, SymbolInitIInv, SymbolStepIInv, PTL DEF Spec
===============================================================================
