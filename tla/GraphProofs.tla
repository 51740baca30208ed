------------------------------ MODULE GraphProofs ------------------------------
(****************************************************************************)
(* What a client that reads the graph of a directory in pages is given, for *)
(* every program, every request and every page size: GraphQueries.          *)
(****************************************************************************)
EXTENDS GraphQueries, SequenceTheorems, FiniteSetTheorems, FunctionTheorems, TLAPS

(* Numbers.                                                                 *)

LEMMA LeastNat ==
  ASSUME NEW S \in SUBSET Nat, S # {}
  PROVE  \E m \in S : \A n \in S : m <= n
<1>1. PICK x \in S : \A y \in S : ~ (<<y, x>> \in OpToRel(<,Nat))
  BY NatLessThanWellFounded, WFMin
<1>2. OpToRel(<, Nat) = {ss \in Nat \X Nat : ss[1] < ss[2]}
  BY DEF OpToRel
<1> HIDE DEF OpToRel
<1>3. \A y \in S : ~ (<<y, x>> \in {ss \in Nat \X Nat : ss[1] < ss[2]})
  BY <1>1, <1>2, Zenon
<1>4. ASSUME NEW y \in S, y < x PROVE FALSE
  <2>1. <<y, x>> \in Nat \X Nat /\ <<y, x>>[1] < <<y, x>>[2]
    BY <1>4
  <2>2. QED
    BY <2>1, <1>3
<1>5. QED
  BY <1>4

LEMMA GreatestNat ==
  ASSUME NEW S \in SUBSET Nat, S # {}, NEW b \in Nat, \A x \in S : x <= b
  PROVE  Max(S) \in S /\ \A x \in S : x <= Max(S)
<1> DEFINE U == {n \in Nat : \A x \in S : x <= n}
<1>1. PICK m \in U : \A n \in U : m <= n
  BY LeastNat
<1>2. m \in S
  <2> SUFFICES ASSUME m \notin S PROVE FALSE
    OBVIOUS
  <2>1. PICK s \in S : TRUE
    OBVIOUS
  <2>2. m - 1 \in U
    BY <2>1
  <2>3. QED
    BY <1>1, <2>2
<1>3. m \in S /\ \A y \in S : m >= y
  BY <1>1, <1>2
<1>4. QED
  BY <1>3 DEF Max

(* A set that has 0 and with each number the next, up to n, has them all.   *)
LEMMA Upwards ==
  ASSUME NEW n \in Nat, NEW T, 0 \in T, \A i \in 1..n : i - 1 \in T => i \in T
  PROVE  \A i \in 0..n : i \in T
<1> DEFINE S == {i \in 0..n : i \notin T}
<1> SUFFICES ASSUME S # {} PROVE FALSE
  OBVIOUS
<1>1. S \in SUBSET Nat
  OBVIOUS
<1>2. PICK m \in S : \A i \in S : m <= i
  BY <1>1, LeastNat
<1>3. m # 0 /\ m \in 1..n /\ m - 1 \in 0..n /\ m - 1 < m
  OBVIOUS
<1>4. m - 1 \notin S
  BY <1>2, <1>3
<1>5. QED
  BY <1>3, <1>4

(* The least of a set of numbers.                                           *)
LEMMA MinLeast ==
  ASSUME NEW S \in SUBSET Nat, S # {}
  PROVE  Min(S) \in S /\ \A x \in S : Min(S) <= x
<1>1. \E m \in S : \A y \in S : m <= y
  BY LeastNat
<1>2. QED
  BY <1>1 DEF Min

(* The values that begin with a and go on, n times, by F.                   *)
Values(n, D, a, F, g) ==
  g \in [0..n -> D] /\ g[0] = a /\ \A i \in 1..n : g[i] = F[<<i, g[i - 1]>>]

LEMMA RecursionIn ==
  ASSUME NEW n \in Nat, NEW D, NEW a \in D, NEW F \in [(1..n) \X D -> D]
  PROVE  \E g : Values(n, D, a, F, g)
<1> DEFINE Def(k, g) == g[0] = a /\ \A i \in 1..k : g[i] = F[<<i, g[i - 1]>>]
           T == {k \in 0..n : \E g \in [0..k -> D] : Def(k, g)}
<1>1. 0 \in T
  <2> DEFINE g == [i \in 0..0 |-> a]
  <2>1. g \in [0..0 -> D] /\ Def(0, g)
    OBVIOUS
  <2> HIDE DEF g, Def
  <2>2. QED
    BY <2>1
<1>2. ASSUME NEW k \in 1..n, k - 1 \in T PROVE k \in T
  <2>1. PICK g \in [0..(k - 1) -> D] : Def(k - 1, g)
    BY <1>2
  <2>2. k \in Nat /\ k # 0 /\ k - 1 \in Nat /\ k - 1 \in 0..(k - 1) /\ k - 1 # k /\ k \in 0..n
        /\ k - 1 \in 0..k /\ k \in 0..k
    OBVIOUS
  <2> DEFINE top == F[<<k, g[k - 1]>>]
             h == [i \in 0..k |-> IF i = k THEN top ELSE g[i]]
  <2>3. top \in D
    BY <2>2
  <2>4. h \in [0..k -> D]
    <3> HIDE DEF top
    <3>1. \A i \in 0..k : i # k => i \in 0..(k - 1)
      OBVIOUS
    <3>2. QED
      BY <2>3, <3>1
  <2>5. h[k] = top /\ h[k - 1] = g[k - 1] /\ \A i \in 0..(k - 1) : h[i] = g[i]
    BY <2>2
  <2> HIDE DEF h
  <2>6. Def(k, h)
    <3>1. ASSUME NEW i \in 1..k PROVE h[i] = F[<<i, h[i - 1]>>]
      <4>1. CASE i = k
        BY <2>5, <4>1
      <4>2. CASE i # k
        <5>1. i \in 1..(k - 1) /\ i \in 0..(k - 1) /\ i - 1 \in 0..(k - 1)
          BY <4>2
        <5>2. QED
          BY <2>1, <2>5, <5>1
      <4>3. QED
        BY <4>1, <4>2
    <3>2. h[0] = a
      BY <2>1, <2>2, <2>5
    <3>3. QED
      BY <3>1, <3>2
  <2> HIDE DEF Def
  <2>7. QED
    BY <2>2, <2>4, <2>6
<1>3. n \in T
  <2> HIDE DEF T
  <2>1. \A i \in 0..n : i \in T
    BY <1>1, <1>2, Upwards
  <2>2. QED
    BY <2>1
<1>4. QED
  BY <1>3 DEF Values

-----------------------------------------------------------------------------
(* Sequences.                                                               *)

Picking(X, seq, places, g) ==
  /\ g \in [0..Len(seq) -> Seq(X)]
  /\ g[0] = << >> /\ g[Len(seq)] = Picked(seq, places)
  /\ \A i \in 1..Len(seq) :
       g[i] = IF i \in places THEN Append(g[i - 1], seq[i]) ELSE g[i - 1]

LEMMA PickedSteps ==
  ASSUME NEW X, NEW seq \in Seq(X), NEW places
  PROVE  \E g : Picking(X, seq, places, g)
<1> DEFINE n == Len(seq)
           Body(i, s) == IF i \in places THEN Append(s, seq[i]) ELSE s
           F == [x \in (1..n) \X Seq(X) |-> Body(x[1], x[2])]
           Def(g) == g = [i \in 0..n |-> IF i = 0 THEN << >> ELSE Body(i, g[i - 1])]
<1>1. n \in Nat /\ << >> \in Seq(X) /\ n \in 0..n
  OBVIOUS
<1>2. ASSUME NEW i \in 1..n, NEW s \in Seq(X) PROVE Body(i, s) \in Seq(X) /\ F[<<i, s>>] = Body(i, s)
  <2>1. Append(s, seq[i]) \in Seq(X)
    OBVIOUS
  <2>2. QED
    BY <2>1
<1>3. F \in [(1..n) \X Seq(X) -> Seq(X)]
  <2> HIDE DEF Body, n
  <2>1. QED
    BY <1>2
<1> HIDE DEF F, Body, n
<1>4. PICK g : g \in [0..n -> Seq(X)] /\ g[0] = << >> /\ \A i \in 1..n : g[i] = F[<<i, g[i - 1]>>]
  <2>1. \E g : Values(n, Seq(X), << >>, F, g)
    BY <1>1, <1>3, RecursionIn, Zenon
  <2>2. QED
    BY <2>1 DEF Values
<1>5. \A i \in 0..n : g[i] = IF i = 0 THEN << >> ELSE Body(i, g[i - 1])
  <2> SUFFICES ASSUME NEW i \in 0..n, i # 0 PROVE g[i] = Body(i, g[i - 1])
    BY <1>4
  <2>1. i \in 1..n /\ i - 1 \in 0..n
    BY <1>1
  <2>2. QED
    BY <1>2, <1>4, <2>1
<1>6. Def(g)
  <2>1. g = [i \in 0..n |-> g[i]]
    BY <1>4
  <2>2. QED
    BY <1>5, <2>1
<1> DEFINE picked == CHOOSE f : Def(f)
<1>7. Def(picked)
  BY <1>6
<1>8. Picked(seq, places) = picked[n]
  BY Zenon DEF Picked, Body, n
<1> HIDE DEF picked
<1>9. picked[0] = << >> /\ \A i \in 1..n : picked[i] = Body(i, picked[i - 1])
  <2>1. 0 \in 0..n /\ \A i \in 1..n : i \in 0..n /\ i # 0
    BY <1>1
  <2>2. QED
    BY <1>7, <2>1
<1> DEFINE T == {i \in 0..n : picked[i] \in Seq(X)}
<1>10. \A i \in 0..n : i \in T
  <2>1. 0 \in T
    <3>1. 0 \in 0..n /\ picked[0] \in Seq(X)
      BY <1>1, <1>9
    <3>2. QED
      BY <3>1, Zenon
  <2>2. ASSUME NEW i \in 1..n, i - 1 \in T PROVE i \in T
    <3>1. i \in 0..n
      BY <1>1
    <3>2. QED
      BY <1>2, <1>9, <2>2, <3>1
  <2> HIDE DEF T
  <2>3. QED
    BY <1>1, <2>1, <2>2, Upwards
<1>11. picked \in [0..n -> Seq(X)]
  <2>1. picked = [i \in 0..n |-> picked[i]]
    BY <1>7
  <2>2. QED
    BY <1>10, <2>1
<1>12. QED
  BY <1>8, <1>9, <1>11 DEF Body, n, Picking

(* Where the elements of a sequence have been picked, up to the place n.    *)
Spots(n, seq, places, picked, at) ==
  /\ at \in [1..Len(picked) -> (1..n) \cap places]
  /\ \A i, j \in 1..Len(picked) : i < j => at[i] < at[j]
  /\ \A k \in (1..n) \cap places : \E i \in 1..Len(picked) : at[i] = k
  /\ \A i \in 1..Len(picked) : picked[i] = seq[at[i]]

LEMMA PickedSpots ==
  ASSUME NEW X, NEW seq \in Seq(X), NEW places
  PROVE  /\ Picked(seq, places) \in Seq(X)
         /\ \E at : Spots(Len(seq), seq, places, Picked(seq, places), at)
<1> DEFINE n == Len(seq)
<1>1. n \in Nat
  OBVIOUS
<1>2. PICK g : Picking(X, seq, places, g)
  BY PickedSteps
<1>3. /\ g \in [0..n -> Seq(X)] /\ g[0] = << >> /\ g[n] = Picked(seq, places)
      /\ \A i \in 1..n : g[i] = IF i \in places THEN Append(g[i - 1], seq[i]) ELSE g[i - 1]
  BY <1>2 DEF Picking
<1> HIDE DEF n
<1> DEFINE T == {k \in 0..n : \E at : Spots(k, seq, places, g[k], at)}
<1>4. 0 \in T
  <2>1. Spots(0, seq, places, << >>, << >>)
    BY DEF Spots
  <2>2. QED
    BY <1>1, <1>3, <2>1
<1>5. ASSUME NEW k \in 1..n, k - 1 \in T PROVE k \in T
  <2>1. PICK at : Spots(k - 1, seq, places, g[k - 1], at)
    BY <1>5
  <2>2. k \in 0..n /\ k \in Nat /\ k - 1 \in 0..n /\ k - 1 \in Nat /\ g[k - 1] \in Seq(X) /\ g[k] \in Seq(X)
    BY <1>1, <1>3
  <2> DEFINE s == g[k - 1]
             m == Len(s)
  <2>3. m \in Nat
    BY <2>2
  <2>4. CASE k \notin places
    <3>1. g[k] = s
      BY <1>3, <2>4
    <3>2. (1..k) \cap places = (1..(k - 1)) \cap places
      BY <2>2, <2>4
    <3>3. Spots(k, seq, places, g[k], at)
      BY <2>1, <3>1, <3>2 DEF Spots
    <3>4. QED
      BY <2>2, <3>3
  <2>5. CASE k \in places
    <3>1. g[k] = Append(s, seq[k])
      BY <1>3, <2>5
    <3>2. Len(g[k]) = m + 1 /\ g[k][m + 1] = seq[k] /\ \A i \in 1..m : g[k][i] = s[i]
      BY <2>2, <3>1
    <3> HIDE DEF m, s
    <3> DEFINE to == [i \in 1..(m + 1) |-> IF i = m + 1 THEN k ELSE at[i]]
    <3>3. /\ at \in [1..m -> (1..(k - 1)) \cap places]
          /\ \A i, j \in 1..m : i < j => at[i] < at[j]
          /\ \A l \in (1..(k - 1)) \cap places : \E i \in 1..m : at[i] = l
          /\ \A i \in 1..m : s[i] = seq[at[i]]
      BY <2>1 DEF Spots, m, s
    <3>4. \A i \in 1..(m + 1) : i # m + 1 => i \in 1..m
      BY <2>3
    <3>5. /\ \A i \in 1..m : to[i] = at[i] /\ to[i] \in (1..(k - 1)) \cap places
          /\ to[m + 1] = k /\ m + 1 \in 1..(m + 1)
      BY <2>3, <3>3
    <3>6. to \in [1..(m + 1) -> (1..k) \cap places]
      <4>1. \A l \in (1..(k - 1)) \cap places : l \in (1..k) \cap places
        BY <2>2
      <4>2. k \in (1..k) \cap places
        BY <2>2, <2>5
      <4>3. QED
        BY <3>3, <3>4, <4>1, <4>2
    <3> HIDE DEF to
    <3>7. \A i, j \in 1..(m + 1) : i < j => to[i] < to[j]
      <4> SUFFICES ASSUME NEW i \in 1..(m + 1), NEW j \in 1..(m + 1), i < j PROVE to[i] < to[j]
        OBVIOUS
      <4>1. i \in 1..m
        BY <2>3
      <4>2. to[i] \in 1..(k - 1)
        BY <3>5, <4>1
      <4>3. CASE j = m + 1
        BY <2>2, <3>5, <4>2, <4>3
      <4>4. CASE j # m + 1
        BY <3>3, <3>4, <3>5, <4>1, <4>4
      <4>5. QED
        BY <4>3, <4>4
    <3>8. \A l \in (1..k) \cap places : \E i \in 1..(m + 1) : to[i] = l
      <4> SUFFICES ASSUME NEW l \in (1..k) \cap places PROVE \E i \in 1..(m + 1) : to[i] = l
        OBVIOUS
      <4>1. CASE l = k
        BY <3>5, <4>1
      <4>2. CASE l # k
        <5>1. l \in (1..(k - 1)) \cap places
          BY <2>2, <4>2
        <5>2. PICK i \in 1..m : at[i] = l
          BY <3>3, <5>1
        <5>3. i \in 1..(m + 1)
          BY <2>3
        <5>4. QED
          BY <3>5, <5>2, <5>3
      <4>3. QED
        BY <4>1, <4>2
    <3>9. \A i \in 1..(m + 1) : g[k][i] = seq[to[i]]
      BY <3>2, <3>3, <3>4, <3>5
    <3>10. Spots(k, seq, places, g[k], to)
      BY <3>2, <3>6, <3>7, <3>8, <3>9 DEF Spots
    <3>11. QED
      BY <2>2, <3>10
  <2>6. QED
    BY <2>4, <2>5
<1>6. n \in T
  <2> HIDE DEF T
  <2>1. \A i \in 0..n : i \in T
    BY <1>1, <1>4, <1>5, Upwards
  <2>2. QED
    BY <1>1, <2>1
<1>7. QED
  BY <1>1, <1>3, <1>6 DEF n

LEMMA PickedSet ==
  ASSUME NEW X, NEW seq \in Seq(X), NEW places
  PROVE  ToSet(Picked(seq, places)) = {seq[k] : k \in DOMAIN seq \cap places}
<1>1. PICK at : Spots(Len(seq), seq, places, Picked(seq, places), at)
  BY PickedSpots
<1>2. Picked(seq, places) \in Seq(X)
  BY PickedSpots
<1> DEFINE r == Picked(seq, places)
<1>3. DOMAIN seq = 1..Len(seq) /\ DOMAIN r = 1..Len(r)
  BY <1>2
<1> HIDE DEF r
<1>4. /\ \A i \in DOMAIN r : at[i] \in DOMAIN seq \cap places /\ r[i] = seq[at[i]]
      /\ \A k \in DOMAIN seq \cap places : \E i \in DOMAIN r : r[i] = seq[k]
  BY <1>1, <1>3 DEF Spots, r
<1>5. QED
  BY <1>4 DEF ToSet, r

(* What a sequence has that is new, once.                                   *)
LEMMA FreshOnce ==
  ASSUME NEW X, NEW seq \in Seq(X), NEW old
  PROVE  LET new == Picked(seq, Fresh(seq, old))
         IN  new \in Seq(X) /\ IsInjective(new) /\ ToSet(new) = ToSet(seq) \ old
<1> DEFINE new == Picked(seq, Fresh(seq, old))
<1>1. PICK at : Spots(Len(seq), seq, Fresh(seq, old), new, at)
  BY PickedSpots
<1>2. new \in Seq(X) /\ ToSet(new) = {seq[k] : k \in DOMAIN seq \cap Fresh(seq, old)}
  BY PickedSpots, PickedSet
<1>3. DOMAIN seq = 1..Len(seq) /\ DOMAIN new = 1..Len(new) /\ Len(seq) \in Nat /\ Len(new) \in Nat
  BY <1>2
<1> HIDE DEF new
<1>4. IsInjective(new)
  <2>1. \A i, j \in DOMAIN new : i < j => new[i] # new[j]
    <3> SUFFICES ASSUME NEW i \in DOMAIN new, NEW j \in DOMAIN new, i < j PROVE new[i] # new[j]
      OBVIOUS
    <3>1. at[i] < at[j] /\ at[i] \in 1..Len(seq) /\ at[j] \in Fresh(seq, old)
          /\ new[i] = seq[at[i]] /\ new[j] = seq[at[j]] /\ at[j] \in 1..Len(seq)
      BY <1>1, <1>3 DEF Spots
    <3>2. at[i] \in 1..(at[j] - 1)
      BY <1>3, <3>1
    <3>3. QED
      BY <3>1, <3>2 DEF Fresh
  <2>2. \A i, j \in DOMAIN new : i # j => i < j \/ j < i
    BY <1>3
  <2>3. QED
    BY <2>1, <2>2 DEF IsInjective
<1>5. ASSUME NEW x \in ToSet(seq) \ old PROVE x \in ToSet(new)
  <2> DEFINE at_x == {k \in DOMAIN seq : seq[k] = x}
  <2>1. at_x \in SUBSET Nat /\ at_x # {}
    BY <1>3 DEF ToSet
  <2>2. PICK k \in at_x : \A l \in at_x : k <= l
    <3> HIDE DEF at_x
    <3>1. QED
      BY <2>1, LeastNat
  <2>3. \A j \in 1..(k - 1) : j \in DOMAIN seq /\ seq[j] # x
    <3> SUFFICES ASSUME NEW j \in 1..(k - 1) PROVE j \in DOMAIN seq /\ seq[j] # x
      OBVIOUS
    <3>1. k \in 1..Len(seq)
      BY <1>3
    <3>2. j \in DOMAIN seq /\ ~ (k <= j)
      BY <1>3, <3>1
    <3>3. QED
      BY <2>2, <3>2
  <2>4. k \in Fresh(seq, old)
    BY <1>5, <2>3 DEF Fresh
  <2>5. QED
    BY <1>2, <2>4
<1>6. ToSet(new) \subseteq ToSet(seq) \ old
  BY <1>2 DEF Fresh, ToSet
<1>7. QED
  BY <1>2, <1>4, <1>5, <1>6 DEF new

(* The sequences of a sequence, one after the other.                        *)
Flattening(X, ss, g) ==
  /\ g \in [0..Len(ss) -> Seq(X)]
  /\ g[0] = << >> /\ g[Len(ss)] = FlattenSeq(ss)
  /\ \A i \in 1..Len(ss) : g[i] = g[i - 1] \o ss[i]

LEMMA FlattenSteps ==
  ASSUME NEW X, NEW ss \in Seq(Seq(X))
  PROVE  \E g : Flattening(X, ss, g)
<1> DEFINE n == Len(ss)
           F == [x \in (1..n) \X Seq(X) |-> x[2] \o ss[x[1]]]
           Def(f) == f = [i \in 1..n |-> IF i = 1 THEN ss[i] ELSE f[i - 1] \o ss[i]]
<1>1. n \in Nat /\ << >> \in Seq(X) /\ n \in 0..n /\ \A i \in 1..n : ss[i] \in Seq(X)
  OBVIOUS
<1>2. ASSUME NEW i \in 1..n, NEW s \in Seq(X) PROVE s \o ss[i] \in Seq(X) /\ F[<<i, s>>] = s \o ss[i]
  <2>1. s \o ss[i] \in Seq(X)
    BY <1>1
  <2>2. QED
    BY <2>1
<1>3. F \in [(1..n) \X Seq(X) -> Seq(X)]
  <2> HIDE DEF n
  <2>1. QED
    BY <1>2
<1> HIDE DEF F, n
<1>4. PICK g : g \in [0..n -> Seq(X)] /\ g[0] = << >> /\ \A i \in 1..n : g[i] = F[<<i, g[i - 1]>>]
  <2>1. \E g : Values(n, Seq(X), << >>, F, g)
    BY <1>1, <1>3, RecursionIn, Zenon
  <2>2. QED
    BY <2>1 DEF Values
<1>5. \A i \in 1..n : g[i] = g[i - 1] \o ss[i]
  <2> SUFFICES ASSUME NEW i \in 1..n PROVE g[i] = g[i - 1] \o ss[i]
    OBVIOUS
  <2>1. i - 1 \in 0..n
    BY <1>1
  <2>2. QED
    BY <1>2, <1>4, <2>1
<1>6. n # 0 => g[1] = ss[1]
  <2> SUFFICES ASSUME n # 0 PROVE g[1] = ss[1]
    OBVIOUS
  <2>1. 1 \in 1..n /\ 1 - 1 = 0
    BY <1>1
  <2>2. g[1] = << >> \o ss[1] /\ ss[1] \in Seq(X)
    BY <1>1, <1>4, <1>5, <2>1
  <2>3. QED
    BY <2>2
<1>7. g[n] = FlattenSeq(ss)
  <2>1. CASE n = 0
    <3>1. ss = << >>
      BY <2>1 DEF n
    <3>2. QED
      BY <1>4, <2>1, <3>1 DEF FlattenSeq, n
  <2>2. CASE n # 0
    <3> DEFINE h == [i \in 1..n |-> g[i]]
               flat == CHOOSE f : Def(f)
    <3>1. \A i \in 1..n : h[i] = IF i = 1 THEN ss[i] ELSE h[i - 1] \o ss[i]
      <4> SUFFICES ASSUME NEW i \in 1..n, i # 1 PROVE h[i] = h[i - 1] \o ss[i]
        BY <1>6, <2>2
      <4>1. i - 1 \in 1..n
        BY <1>1
      <4>2. QED
        BY <1>5, <4>1
    <3>2. Def(h)
      <4>1. h = [i \in 1..n |-> h[i]]
        OBVIOUS
      <4> HIDE DEF h
      <4>2. QED
        BY <3>1, <4>1
    <3>3. Def(flat)
      <4> HIDE DEF h
      <4>1. QED
        BY <3>2
    <3>4. FlattenSeq(ss) = flat[n]
      BY <2>2, Zenon DEF FlattenSeq, n
    <3> HIDE DEF flat, h
    <3> DEFINE T == {i \in 0..n : i = 0 \/ flat[i] = g[i]}
    <3>5. 0 \in T
      BY <1>1
    <3>6. ASSUME NEW i \in 1..n, i - 1 \in T PROVE i \in T
      <4>1. flat[i] = IF i = 1 THEN ss[i] ELSE flat[i - 1] \o ss[i]
        BY <3>3
      <4>2. i \in 0..n /\ (i # 1 => i - 1 # 0)
        BY <1>1
      <4>3. CASE i = 1
        BY <1>6, <2>2, <4>1, <4>2, <4>3
      <4>4. CASE i # 1
        BY <1>5, <3>6, <4>1, <4>2, <4>4
      <4>5. QED
        BY <4>3, <4>4
    <3> HIDE DEF T
    <3>7. \A i \in 0..n : i \in T
      BY <1>1, <3>5, <3>6, Upwards
    <3>8. n \in T
      BY <1>1, <3>7
    <3>9. QED
      BY <2>2, <3>4, <3>8 DEF T
  <2>3. QED
    BY <2>1, <2>2
<1>8. QED
  BY <1>4, <1>5, <1>7 DEF Flattening, n

LEMMA FlattenAppend ==
  ASSUME NEW X, NEW ss \in Seq(Seq(X)), NEW s \in Seq(X)
  PROVE  FlattenSeq(Append(ss, s)) = FlattenSeq(ss) \o s
<1> DEFINE n == Len(ss)
           tt == Append(ss, s)
<1>1. n \in Nat /\ tt \in Seq(Seq(X)) /\ Len(tt) = n + 1 /\ tt[n + 1] = s /\ \A i \in 1..n : tt[i] = ss[i]
  OBVIOUS
<1>2. PICK g : Flattening(X, ss, g)
  BY FlattenSteps
<1>3. PICK h : Flattening(X, tt, h)
  <2> HIDE DEF tt
  <2>1. QED
    BY <1>1, FlattenSteps
<1> HIDE DEF n, tt
<1>4. /\ g[0] = << >> /\ g[n] = FlattenSeq(ss) /\ \A i \in 1..n : g[i] = g[i - 1] \o ss[i]
      /\ h[0] = << >> /\ h[n + 1] = FlattenSeq(tt) /\ \A i \in 1..(n + 1) : h[i] = h[i - 1] \o tt[i]
  BY <1>1, <1>2, <1>3 DEF Flattening, n
<1> DEFINE T == {i \in 0..n : g[i] = h[i]}
<1>5. 0 \in T
  BY <1>1, <1>4
<1>6. ASSUME NEW i \in 1..n, i - 1 \in T PROVE i \in T
  <2>1. i \in 0..n /\ i \in 1..(n + 1)
    BY <1>1
  <2>2. QED
    BY <1>1, <1>4, <1>6, <2>1
<1>7. g[n] = h[n]
  <2> HIDE DEF T
  <2>1. \A i \in 0..n : i \in T
    BY <1>1, <1>5, <1>6, Upwards
  <2>2. n \in T
    BY <1>1, <2>1
  <2>3. QED
    BY <2>2 DEF T
<1>8. h[n + 1] = h[n] \o s
  <2>1. n + 1 \in 1..(n + 1) /\ (n + 1) - 1 = n
    BY <1>1
  <2>2. QED
    BY <1>1, <1>4, <2>1
<1>9. QED
  BY <1>4, <1>7, <1>8 DEF tt

(* Where each of the sequences begins, up to the n-th.                      *)
Blocks(n, ss, flat, off) ==
  /\ off \in [1..n -> Nat]
  /\ \A i \in 1..n : \A k \in 1..Len(ss[i]) :
       off[i] + k \in 1..Len(flat) /\ flat[off[i] + k] = ss[i][k]
  /\ \A m \in 1..Len(flat) : \E i \in 1..n : m - off[i] \in 1..Len(ss[i])

LEMMA FlattenBlocks ==
  ASSUME NEW X, NEW ss \in Seq(Seq(X))
  PROVE  FlattenSeq(ss) \in Seq(X) /\ \E off : Blocks(Len(ss), ss, FlattenSeq(ss), off)
<1> DEFINE n == Len(ss)
<1>1. n \in Nat /\ n \in 0..n /\ \A i \in 1..n : ss[i] \in Seq(X)
  OBVIOUS
<1>2. PICK g : Flattening(X, ss, g)
  BY FlattenSteps
<1>3. /\ g \in [0..n -> Seq(X)] /\ g[0] = << >> /\ g[n] = FlattenSeq(ss)
      /\ \A i \in 1..n : g[i] = g[i - 1] \o ss[i]
  BY <1>2 DEF Flattening
<1> HIDE DEF n
<1> DEFINE T == {k \in 0..n : \E off : Blocks(k, ss, g[k], off)}
<1>4. 0 \in T
  <2>1. Blocks(0, ss, << >>, << >>)
    BY DEF Blocks
  <2>2. QED
    BY <1>1, <1>3, <2>1
<1>5. ASSUME NEW k \in 1..n, k - 1 \in T PROVE k \in T
  <2>1. PICK off : Blocks(k - 1, ss, g[k - 1], off)
    BY <1>5
  <2>2. /\ k \in 0..n /\ k \in Nat /\ k - 1 \in 0..n /\ k - 1 \in Nat
        /\ g[k - 1] \in Seq(X) /\ ss[k] \in Seq(X) /\ g[k] = g[k - 1] \o ss[k]
    <3>1. k \in 0..n /\ k \in Nat /\ k - 1 \in 0..n /\ k - 1 \in Nat
      BY <1>1
    <3>2. ss[k] \in Seq(X) /\ g[k] = g[k - 1] \o ss[k]
      BY <1>1, <1>3
    <3>3. g[k - 1] \in Seq(X)
      BY <1>3, <3>1
    <3>4. QED
      BY <3>1, <3>2, <3>3
  <2> DEFINE a == g[k - 1]
             m == Len(a)
             l == Len(ss[k])
             to == [i \in 1..k |-> IF i = k THEN m ELSE off[i]]
  <2>3. /\ m \in Nat /\ l \in Nat /\ Len(g[k]) = m + l
        /\ \A i \in 1..m : g[k][i] = a[i]
        /\ \A i \in 1..l : g[k][m + i] = ss[k][i]
    <3> DEFINE b == ss[k]
    <3>1. a \in Seq(X) /\ b \in Seq(X) /\ g[k] = a \o b
      BY <2>2
    <3> HIDE DEF a, b
    <3>2. /\ Len(a) \in Nat /\ Len(b) \in Nat /\ Len(a \o b) = Len(a) + Len(b)
          /\ \A i \in 1..Len(a) : (a \o b)[i] = a[i]
      BY <3>1
    <3>3. \A i \in 1..Len(b) : (a \o b)[Len(a) + i] = b[i]
      BY <3>1, ConcatProperties
    <3>4. QED
      BY <3>1, <3>2, <3>3 DEF b
  <2>4. /\ off \in [1..(k - 1) -> Nat]
        /\ \A i \in 1..(k - 1) : \A j \in 1..Len(ss[i]) :
             off[i] + j \in 1..m /\ a[off[i] + j] = ss[i][j]
        /\ \A j \in 1..m : \E i \in 1..(k - 1) : j - off[i] \in 1..Len(ss[i])
    BY <2>1 DEF Blocks
  <2> HIDE DEF m, l, a
  <2>5. /\ to[k] = m /\ \A i \in 1..(k - 1) : to[i] = off[i] /\ i \in 1..k
        /\ \A i \in 1..k : i # k => i \in 1..(k - 1)
    BY <2>2
  <2>6. to \in [1..k -> Nat]
    <3>1. \A i \in 1..k : (IF i = k THEN m ELSE off[i]) \in Nat
      BY <2>3, <2>4, <2>5
    <3>2. QED
      BY <3>1
  <2> HIDE DEF to
  <2>7. ASSUME NEW i \in 1..k, NEW j \in 1..Len(ss[i])
        PROVE  to[i] + j \in 1..Len(g[k]) /\ g[k][to[i] + j] = ss[i][j]
    <3>1. CASE i = k
      BY <2>3, <2>5, <3>1 DEF l
    <3>2. CASE i # k
      <4>1. i \in 1..(k - 1) /\ to[i] = off[i]
        BY <2>5, <3>2
      <4>2. off[i] + j \in 1..m /\ a[off[i] + j] = ss[i][j]
        BY <2>4, <4>1
      <4>3. QED
        BY <2>3, <4>1, <4>2
    <3>3. QED
      BY <3>1, <3>2
  <2>8. ASSUME NEW j \in 1..Len(g[k]) PROVE \E i \in 1..k : j - to[i] \in 1..Len(ss[i])
    <3>1. CASE j \in 1..m
      BY <2>4, <2>5, <3>1
    <3>2. CASE j \notin 1..m
      <4>1. j - m \in 1..l
        BY <2>3, <3>2
      <4>2. k \in 1..k
        BY <2>2
      <4>3. QED
        BY <2>5, <4>1, <4>2 DEF l
    <3>3. QED
      BY <3>1, <3>2
  <2>9. Blocks(k, ss, g[k], to)
    BY <2>6, <2>7, <2>8 DEF Blocks
  <2>10. QED
    BY <2>2, <2>9
<1>6. n \in T
  <2> HIDE DEF T
  <2>1. \A i \in 0..n : i \in T
    BY <1>1, <1>4, <1>5, Upwards
  <2>2. QED
    BY <1>1, <2>1
<1>7. QED
  BY <1>1, <1>3, <1>6 DEF n

LEMMA FlattenedSet ==
  ASSUME NEW X, NEW ss \in Seq(Seq(X))
  PROVE  \A x : x \in ToSet(FlattenSeq(ss)) <=> \E i \in DOMAIN ss : x \in ToSet(ss[i])
<1> DEFINE flat == FlattenSeq(ss)
<1>1. PICK off : Blocks(Len(ss), ss, flat, off)
  BY FlattenBlocks
<1>2. flat \in Seq(X) /\ DOMAIN ss = 1..Len(ss) /\ \A i \in DOMAIN ss : DOMAIN ss[i] = 1..Len(ss[i])
  BY FlattenBlocks
<1>3. DOMAIN flat = 1..Len(flat) /\ Len(flat) \in Nat
  BY <1>2
<1> HIDE DEF flat
<1>4. \A i \in DOMAIN ss : \A k \in DOMAIN ss[i] :
        off[i] + k \in DOMAIN flat /\ flat[off[i] + k] = ss[i][k]
  BY <1>1, <1>2, <1>3 DEF Blocks
<1>5. \A m \in DOMAIN flat : \E i \in DOMAIN ss : \E k \in DOMAIN ss[i] : flat[m] = ss[i][k]
  <2> SUFFICES ASSUME NEW m \in DOMAIN flat
               PROVE  \E i \in DOMAIN ss : \E k \in DOMAIN ss[i] : flat[m] = ss[i][k]
    OBVIOUS
  <2>1. PICK i \in DOMAIN ss : m - off[i] \in 1..Len(ss[i])
    BY <1>1, <1>2, <1>3 DEF Blocks
  <2>2. off[i] \in Nat /\ off[i] + (m - off[i]) = m
    BY <1>1, <1>2, <1>3 DEF Blocks
  <2>3. flat[m] = ss[i][m - off[i]]
    BY <1>2, <1>4, <2>1, <2>2
  <2>4. QED
    BY <1>2, <2>1, <2>3
<1>6. \A x : x \in ToSet(flat) <=> \E i \in DOMAIN ss : x \in ToSet(ss[i])
  BY <1>4, <1>5 DEF ToSet
<1>7. QED
  BY <1>6 DEF flat

LEMMA SeqFromFunction ==
  ASSUME NEW n \in Nat, NEW S, NEW f, f \in [1..n -> S]
  PROVE  f \in Seq(S) /\ Len(f) = n
OBVIOUS

-----------------------------------------------------------------------------
(* Nodes and edges of a program.                                            *)

NodeRec ==
  [kind : {"file", "function", "class", "module"}, name : STRING, path : STRING, line : Nat]
EdgeRec ==
  [of : STRING, neighbor : STRING \cup {"<reference>"}, path : STRING, line : Nat, impl : BOOLEAN]
Symbols == Seq([name : STRING, line : Nat])

FileNodes(f) ==
  <<Node("file", f.path, f.path, 0)>> \o SymbolNodes("function", f, f.functions)
    \o SymbolNodes("class", f, f.classes) \o ModuleNodes(f)

LEMMA SymbolNodesType ==
  ASSUME NEW f \in ParsedFile, NEW list \in Symbols, NEW kind \in {"function", "class"}
  PROVE  /\ SymbolNodes(kind, f, list) \in Seq(NodeRec)
         /\ \A j \in DOMAIN SymbolNodes(kind, f, list) : SymbolNodes(kind, f, list)[j].kind = kind
<1>1. /\ Len(list) \in Nat /\ DOMAIN list = 1..Len(list) /\ f.path \in STRING
      /\ \A j \in DOMAIN list : list[j].name \in STRING /\ list[j].line \in Nat
  <2>1. list \in Seq([name : STRING, line : Nat])
    BY DEF Symbols
  <2>2. f.path \in STRING
    BY DEF ParsedFile
  <2>3. Len(list) \in Nat /\ DOMAIN list = 1..Len(list)
    BY <2>1
  <2>4. \A j \in DOMAIN list : list[j] \in [name : STRING, line : Nat]
    BY <2>1, <2>3, ElementOfSeq, Zenon
  <2>5. QED
    BY <2>2, <2>3, <2>4
<1>2. \A j \in DOMAIN list : Node(kind, list[j].name, f.path, list[j].line) \in NodeRec
  BY <1>1 DEF Node, NodeRec
<1>3. SymbolNodes(kind, f, list) \in [1..Len(list) -> NodeRec]
  BY <1>1, <1>2 DEF SymbolNodes
<1>4. SymbolNodes(kind, f, list) \in Seq(NodeRec)
  BY <1>1, <1>3, SeqFromFunction
<1>5. QED
  BY <1>4 DEF SymbolNodes, Node

LEMMA FileNodesType ==
  ASSUME NEW f \in ParsedFile
  PROVE  /\ FileNodes(f) \in Seq(NodeRec) /\ Len(FileNodes(f)) > 0
         /\ FileNodes(f)[1].kind = "file"
         /\ \A k \in 2..Len(FileNodes(f)) : FileNodes(f)[k].kind # "file"
<1> DEFINE a == <<Node("file", f.path, f.path, 0)>>
           b == SymbolNodes("function", f, f.functions)
           c == SymbolNodes("class", f, f.classes)
           d == ModuleNodes(f)
<1>1. a \in Seq(NodeRec) /\ Len(a) = 1 /\ a[1].kind = "file"
  BY DEF ParsedFile, Node, NodeRec
<1>2. /\ b \in Seq(NodeRec) /\ \A j \in DOMAIN b : b[j].kind = "function"
      /\ c \in Seq(NodeRec) /\ \A j \in DOMAIN c : c[j].kind = "class"
  <2>1. f.functions \in Symbols /\ f.classes \in Symbols
    BY DEF ParsedFile, Symbols
  <2>2. QED
    BY <2>1, SymbolNodesType
<1>3. d \in Seq(NodeRec) /\ \A j \in DOMAIN d : d[j].kind = "module"
  <2> DEFINE named == Picked(f.imports, {j \in DOMAIN f.imports : f.imports[j] # ""})
  <2>1. f.imports \in Seq(STRING) /\ f.path \in STRING
    BY DEF ParsedFile
  <2>2. named \in Seq(STRING)
    BY <2>1, PickedSpots
  <2>3. d = [j \in DOMAIN named |-> Node("module", named[j], f.path, 0)]
    BY DEF ModuleNodes
  <2> HIDE DEF named, d
  <2>4. Len(named) \in Nat /\ DOMAIN named = 1..Len(named) /\ \A j \in DOMAIN named : named[j] \in STRING
    BY <2>2
  <2>5. \A j \in DOMAIN named : Node("module", named[j], f.path, 0) \in NodeRec
    BY <2>1, <2>4 DEF Node, NodeRec
  <2>6. d \in [1..Len(named) -> NodeRec] /\ \A j \in DOMAIN d : d[j].kind = "module"
    BY <2>3, <2>4, <2>5 DEF Node
  <2>7. QED
    BY <2>4, <2>6, SeqFromFunction
<1>4. FileNodes(f) = ((a \o b) \o c) \o d
  BY DEF FileNodes
<1> HIDE DEF a, b, c, d
<1>5. /\ a \o b \in Seq(NodeRec) /\ Len(a \o b) = 1 + Len(b)
      /\ (a \o b)[1].kind = "file" /\ \A k \in 2..Len(a \o b) : (a \o b)[k].kind # "file"
  <2>1. a \o b \in Seq(NodeRec) /\ Len(a \o b) = 1 + Len(b) /\ Len(b) \in Nat /\ (a \o b)[1] = a[1]
    <3>1. a \in Seq(NodeRec) /\ b \in Seq(NodeRec) /\ Len(a) = 1
      BY <1>1, <1>2
    <3>2. a \o b \in Seq(NodeRec) /\ Len(a \o b) = Len(a) + Len(b)
      BY <3>1, ConcatProperties, Zenon
    <3>3. Len(b) \in Nat
      BY <3>1, LenProperties
    <3>4. 1 \in 1..(Len(a) + Len(b)) /\ 1 <= Len(a)
      BY <3>1, <3>3
    <3>5. (a \o b)[1] = a[1]
      BY <3>1, <3>4, ConcatProperties
    <3>6. QED
      BY <3>1, <3>2, <3>3, <3>5
  <2>2. \A k \in 2..Len(a \o b) : k - 1 \in DOMAIN b /\ (a \o b)[k] = b[k - 1]
    BY <1>1, <1>2, <2>1, ConcatProperties
  <2>3. QED
    BY <1>1, <1>2, <2>1, <2>2
<1>6. ASSUME NEW s \in Seq(NodeRec), NEW t \in Seq(NodeRec), Len(s) >= 1, s[1].kind = "file",
             \A k \in 2..Len(s) : s[k].kind # "file", \A k \in DOMAIN t : t[k].kind # "file"
      PROVE  /\ s \o t \in Seq(NodeRec) /\ Len(s \o t) >= 1 /\ (s \o t)[1].kind = "file"
             /\ \A k \in 2..Len(s \o t) : (s \o t)[k].kind # "file"
  <2>1. s \o t \in Seq(NodeRec) /\ Len(s \o t) = Len(s) + Len(t) /\ Len(s) \in Nat /\ Len(t) \in Nat
    BY ConcatProperties
  <2>2. \A k \in 1..(Len(s) + Len(t)) : (s \o t)[k] = IF k <= Len(s) THEN s[k] ELSE t[k - Len(s)]
    BY ConcatProperties
  <2>3. ASSUME NEW k \in 2..Len(s \o t) PROVE (s \o t)[k].kind # "file"
    <3>1. CASE k <= Len(s)
      BY <1>6, <2>1, <2>2, <3>1
    <3>2. CASE ~ (k <= Len(s))
      <4>1. k - Len(s) \in DOMAIN t
        BY <2>1, <3>2
      <4>2. QED
        BY <1>6, <2>1, <2>2, <3>2, <4>1
    <3>3. QED
      BY <3>1, <3>2
  <2>4. (s \o t)[1].kind = "file"
    BY <1>6, <2>1, <2>2
  <2>5. QED
    BY <1>6, <2>1, <2>3, <2>4
<1>7. Len(a \o b) >= 1
  BY <1>2, <1>5
<1>8. /\ (a \o b) \o c \in Seq(NodeRec) /\ Len((a \o b) \o c) >= 1 /\ ((a \o b) \o c)[1].kind = "file"
      /\ \A k \in 2..Len((a \o b) \o c) : ((a \o b) \o c)[k].kind # "file"
  BY <1>2, <1>5, <1>6, <1>7
<1>9. QED
  BY <1>3, <1>4, <1>6, <1>8

(* Every node but a file's has that of its file before it.                  *)
LEMMA NodesType ==
  ASSUME NEW p \in Seq(ParsedFile)
  PROVE  /\ Nodes(p) \in Seq(NodeRec)
         /\ \A k \in DOMAIN Nodes(p) : Nodes(p)[k].kind # "file" =>
              \E j \in DOMAIN Nodes(p) : j < k /\ Nodes(p)[j].kind = "file"
<1> DEFINE ss == [i \in DOMAIN p |-> FileNodes(p[i])]
           nodes == Nodes(p)
<1>1. Len(p) \in Nat /\ DOMAIN p = 1..Len(p) /\ \A i \in DOMAIN p : p[i] \in ParsedFile
  OBVIOUS
<1>2. ss \in Seq(Seq(NodeRec)) /\ DOMAIN ss = DOMAIN p /\ Len(ss) = Len(p)
  <2>1. ss \in [1..Len(p) -> Seq(NodeRec)]
    BY <1>1, FileNodesType
  <2> HIDE DEF ss
  <2>2. ss \in Seq(Seq(NodeRec)) /\ Len(ss) = Len(p)
    BY <1>1, <2>1, SeqFromFunction
  <2>3. QED
    BY <1>1, <2>1, <2>2
<1>3. nodes = FlattenSeq(ss)
  BY DEF Nodes, FileNodes
<1>4. \A i \in DOMAIN p : ss[i] = FileNodes(p[i])
  OBVIOUS
<1> HIDE DEF ss, nodes
<1>5. nodes \in Seq(NodeRec)
  BY <1>2, <1>3, FlattenBlocks
<1>6. PICK off : Blocks(Len(ss), ss, nodes, off)
  BY <1>2, <1>3, FlattenBlocks
<1>7. ASSUME NEW k \in DOMAIN nodes, nodes[k].kind # "file"
      PROVE  \E j \in DOMAIN nodes : j < k /\ nodes[j].kind = "file"
  <2>1. DOMAIN nodes = 1..Len(nodes) /\ Len(nodes) \in Nat
    BY <1>5
  <2>2. PICK i \in DOMAIN p : k - off[i] \in 1..Len(ss[i])
    BY <1>1, <1>2, <1>6, <2>1 DEF Blocks
  <2>3. off[i] \in Nat /\ k \in Nat /\ ss[i] \in Seq(NodeRec) /\ Len(ss[i]) \in Nat
    BY <1>1, <1>2, <1>6, <2>1 DEF Blocks
  <2>4. ss[i][1].kind = "file" /\ Len(ss[i]) > 0
    BY <1>1, <1>4, FileNodesType
  <2>5. \A m \in 1..Len(ss[i]) : off[i] + m \in DOMAIN nodes /\ nodes[off[i] + m] = ss[i][m]
    BY <1>1, <1>2, <1>6, <2>1 DEF Blocks
  <2>6. 1 \in 1..Len(ss[i]) /\ off[i] + (k - off[i]) = k
    BY <2>3, <2>4
  <2>7. k - off[i] # 1
    BY <1>7, <2>2, <2>4, <2>5, <2>6
  <2>8. off[i] + 1 < k
    BY <2>2, <2>3, <2>7
  <2>9. QED
    BY <2>4, <2>5, <2>6, <2>8
<1>8. QED
  BY <1>5, <1>7 DEF nodes

LEMMA DefinedNames ==
  ASSUME NEW p \in Seq(ParsedFile)
  PROVE  Defined(p) \subseteq STRING
<1>1. \A i \in DOMAIN p : p[i].functions \in Symbols /\ p[i].classes \in Symbols
  <2>1. \A i \in DOMAIN p : p[i] \in ParsedFile
    OBVIOUS
  <2>2. \A f \in ParsedFile : f.functions \in Symbols /\ f.classes \in Symbols
    BY DEF ParsedFile, Symbols
  <2>3. QED
    BY <2>1, <2>2
<1>2. ASSUME NEW list \in Symbols PROVE Named(list) \subseteq STRING
  <2>1. list \in Seq([name : STRING, line : Nat])
    BY DEF Symbols
  <2>2. DOMAIN list = 1..Len(list)
    BY <2>1
  <2>3. \A j \in DOMAIN list : list[j] \in [name : STRING, line : Nat]
    BY <2>1, <2>2, ElementOfSeq, Zenon
  <2>4. QED
    BY <2>3 DEF Named
<1>3. QED
  BY <1>1, <1>2 DEF Defined

LEMMA CalleesType ==
  ASSUME NEW p \in Seq(ParsedFile)
  PROVE  CallGraph(p).callees \in Seq(EdgeRec)
<1> DEFINE ss == [i \in DOMAIN p |-> CalleesOf(p, p[i])]
<1>1. ASSUME NEW i \in DOMAIN p PROVE CalleesOf(p, p[i]) \in Seq(EdgeRec)
  <2> DEFINE f == p[i]
  <2>1. f \in ParsedFile
    OBVIOUS
  <2> HIDE DEF f
  <2>2. /\ Len(f.calls) \in Nat /\ DOMAIN f.calls = 1..Len(f.calls) /\ f.path \in STRING
        /\ \A j \in DOMAIN f.calls :
             f.calls[j].caller \in STRING /\ f.calls[j].callee \in STRING /\ f.calls[j].line \in Nat
    <3>1. f.calls \in Seq([caller : STRING, callee : STRING, line : Nat]) /\ f.path \in STRING
      BY <2>1 DEF ParsedFile
    <3>2. Len(f.calls) \in Nat /\ DOMAIN f.calls = 1..Len(f.calls)
      BY <3>1
    <3>3. \A j \in DOMAIN f.calls : f.calls[j] \in [caller : STRING, callee : STRING, line : Nat]
      BY <3>1, <3>2, ElementOfSeq, Zenon
    <3>4. QED
      BY <3>1, <3>2, <3>3
  <2>3. \A callee \in STRING : ResolveCallee(p, callee) \in STRING
    BY DefinedNames DEF ResolveCallee
  <2>4. CalleesOf(p, f) \in [1..Len(f.calls) -> EdgeRec]
    BY <2>2, <2>3 DEF CalleesOf, Edge, EdgeRec
  <2>5. CalleesOf(p, f) \in Seq(EdgeRec)
    BY <2>2, <2>4, SeqFromFunction
  <2>6. QED
    BY <2>5 DEF f
<1>2. ss \in Seq(Seq(EdgeRec))
  <2>1. ss \in [1..Len(p) -> Seq(EdgeRec)] /\ Len(p) \in Nat
    BY <1>1
  <2> HIDE DEF ss
  <2>2. QED
    BY <2>1, SeqFromFunction
<1>3. CallGraph(p).callees = FlattenSeq(ss)
  BY DEF CallGraph
<1>4. QED
  <2> HIDE DEF ss
  <2>1. QED
    BY <1>2, <1>3, FlattenBlocks

-----------------------------------------------------------------------------
(* What a call is resolved to.                                              *)

Best(nodes, name, e) ==
  {k \in Bucket(nodes, name) : \A j \in Bucket(nodes, name) \ {k} :
     Beats(Rank(nodes, k, e.path, e.line), Rank(nodes, j, e.path, e.line))}

LEMMA ClosestSome ==
  ASSUME NEW nodes \in Seq(NodeRec), NEW pool \in SUBSET DOMAIN nodes, pool # {}, NEW line \in Nat
  PROVE  Closest(nodes, pool, line) # {} /\ Closest(nodes, pool, line) \subseteq pool
<1> DEFINE S == {Apart(nodes[k].line, line) : k \in pool}
<1>1. \A k \in pool : Apart(nodes[k].line, line) \in Nat
  <2>1. \A k \in pool : nodes[k] \in NodeRec
    BY ElementOfSeq, LenProperties, Zenon
  <2>2. \A k \in pool : nodes[k].line \in Nat
    BY <2>1 DEF NodeRec
  <2>3. QED
    BY <2>2 DEF Apart
<1>2. S \in SUBSET Nat /\ S # {}
  BY <1>1
<1>3. PICK m \in S : \A n \in S : m <= n
  BY <1>2, LeastNat
<1>4. PICK k \in pool : m = Apart(nodes[k].line, line)
  OBVIOUS
<1>5. k \in Closest(nodes, pool, line)
  BY <1>3, <1>4 DEF Closest
<1>6. QED
  BY <1>5 DEF Closest

LEMMA EndRanksFirst ==
  ASSUME NEW nodes \in Seq(NodeRec), NEW name, NEW e \in EdgeRec, Bucket(nodes, name) # {}
  PROVE  End(nodes, name, e) \in Bucket(nodes, name) /\ Best(nodes, name, e) = {End(nodes, name, e)}
<1> DEFINE pool == Bucket(nodes, name)
           path == e.path
           line == e.line
           local == {k \in pool : nodes[k].path = path}
           chosen == IF local = {} THEN pool ELSE local
           apart(k) == Apart(nodes[k].line, line)
           near == Closest(nodes, chosen, line)
           m == End(nodes, name, e)
<1>1. pool \subseteq DOMAIN nodes /\ pool # {} /\ line \in Nat /\ DOMAIN nodes \subseteq Nat
  BY DEF Bucket, EdgeRec
<1>2. chosen \in SUBSET DOMAIN nodes /\ chosen # {} /\ chosen \subseteq pool
  BY <1>1
<1>3. near # {} /\ near \subseteq chosen
  BY <1>1, <1>2, ClosestSome
<1>4. m = Min(near)
  BY DEF End, Resolve
<1>5. m \in near /\ \A k \in near : m <= k
  <2>1. near \in SUBSET Nat
    BY <1>1, <1>2, <1>3
  <2> HIDE DEF near, m
  <2>2. QED
    BY <1>3, <1>4, <2>1, MinLeast
<1>6. m \in pool /\ m \in chosen /\ m \in Nat
  BY <1>1, <1>2, <1>3, <1>5
<1>7. \A k \in pool : apart(k) \in Nat
  <2>1. \A k \in pool : nodes[k] \in NodeRec
    BY <1>1, ElementOfSeq, LenProperties, Zenon
  <2>2. \A k \in pool : nodes[k].line \in Nat
    BY <2>1 DEF NodeRec
  <2>3. QED
    BY <1>1, <2>2 DEF Apart
<1>8. \A k \in chosen : apart(m) <= apart(k)
  BY <1>5 DEF Closest
<1>9. ASSUME NEW k \in chosen, k # m, apart(k) = apart(m) PROVE m < k
  <2>1. k \in near
    BY <1>8, <1>9 DEF Closest
  <2>2. k \in Nat
    BY <1>1, <1>2
  <2> HIDE DEF near, m, chosen, apart
  <2>3. QED
    BY <1>5, <1>6, <1>9, <2>1, <2>2
<1>10. ASSUME NEW k \in chosen, k # m PROVE apart(m) < apart(k) \/ (apart(m) = apart(k) /\ m < k)
  <2>1. apart(m) \in Nat /\ apart(k) \in Nat
    BY <1>2, <1>6, <1>7, <1>10
  <2> HIDE DEF apart
  <2>2. QED
    BY <1>8, <1>9, <1>10, <2>1
<1> DEFINE rank(k) == Rank(nodes, k, path, line)
           far(k) == IF nodes[k].path = path THEN 0 ELSE 1
<1>11. \A k : rank(k)[1] = far(k) /\ rank(k)[2] = apart(k) /\ rank(k)[3] = k
  BY DEF Rank
<1>12. ASSUME NEW k \in pool, k # m PROVE Beats(rank(m), rank(k))
  <2>1. CASE local = {}
    <3>1. far(m) = far(k) /\ k \in chosen
      BY <1>6, <1>12, <2>1
    <3>2. QED
      BY <1>10, <1>11, <1>12, <3>1 DEF Beats
  <2>2. CASE local # {} /\ k \in local
    <3>1. far(m) = far(k) /\ k \in chosen
      BY <1>6, <1>12, <2>2
    <3>2. QED
      BY <1>10, <1>11, <1>12, <3>1 DEF Beats
  <2>3. CASE local # {} /\ k \notin local
    <3>1. far(m) = 0 /\ far(k) = 1
      BY <1>6, <1>12, <2>3
    <3>2. QED
      BY <1>11, <3>1 DEF Beats
  <2>4. QED
    BY <2>1, <2>2, <2>3
<1>13. ASSUME NEW k \in pool, k # m PROVE ~ Beats(rank(k), rank(m))
  <2>1. far(k) \in Nat /\ far(m) \in Nat /\ apart(k) \in Nat /\ apart(m) \in Nat /\ k \in Nat
    BY <1>1, <1>6, <1>7, <1>13
  <2>2. Beats(rank(m), rank(k))
    BY <1>12, <1>13
  <2> HIDE DEF far, apart, rank
  <2>3. QED
    BY <1>6, <1>11, <2>1, <2>2 DEF Beats
<1>14. Best(nodes, name, e) = {k \in pool : \A j \in pool \ {k} : Beats(rank(k), rank(j))}
  BY DEF Best
<1> HIDE DEF pool, rank, m
<1>15. Best(nodes, name, e) = {m}
  BY <1>6, <1>12, <1>13, <1>14
<1>16. QED
  BY <1>6, <1>15 DEF pool, m

-----------------------------------------------------------------------------
(* The orders the callers may come in.                                      *)

LEMMA KeysType ==
  ASSUME NEW edges \in Seq(EdgeRec)
  PROVE  Keys(edges) \subseteq STRING /\ IsFiniteSet(Keys(edges))
<1> DEFINE of == [i \in DOMAIN edges |-> edges[i].of]
<1>1. DOMAIN edges = 1..Len(edges) /\ Len(edges) \in Nat
  OBVIOUS
<1>2. \A i \in DOMAIN edges : edges[i].of \in STRING
  <2>1. \A i \in DOMAIN edges : edges[i] \in EdgeRec
    OBVIOUS
  <2>2. QED
    BY <2>1 DEF EdgeRec
<1>3. Keys(edges) \subseteq STRING
  BY <1>2 DEF Keys
<1>4. IsFiniteSet(DOMAIN edges)
  BY <1>1, FS_Interval
<1>5. of \in Surjection(DOMAIN edges, Keys(edges))
  BY DEF Surjection, Keys
<1>6. QED
  BY <1>3, <1>4, <1>5, FS_Surjection

LEMMA OrdersListKeys ==
  ASSUME NEW p \in Seq(ParsedFile), NEW order \in Orders(p)
  PROVE  order \in Seq(STRING) /\ IsInjective(order) /\ ToSet(order) = Keys(CallGraph(p).callees)
<1> DEFINE S == Keys(CallGraph(p).callees)
           n == Cardinality(S)
<1>1. S \subseteq STRING /\ IsFiniteSet(S)
  BY CalleesType, KeysType
<1>2. n \in Nat
  BY <1>1, FS_CardinalityType
<1>3. order \in [1..n -> S] /\ \A i, j \in 1..n : i # j => order[i] # order[j]
  BY DEF Orders, SetToSeqs
<1> HIDE DEF S, n
<1>4. order \in [1..n -> STRING]
  BY <1>1, <1>3
<1>5. order \in Seq(STRING)
  BY <1>2, <1>4, SeqFromFunction
<1>6. IsInjective(order)
  BY <1>3 DEF IsInjective
<1>7. order \in Injection(1..n, S)
  BY <1>3, <1>6 DEF Injection
<1>8. Cardinality(1..n) = n
  BY <1>2, FS_Interval
<1>9. order \in Surjection(1..n, S)
  BY <1>1, <1>7, <1>8, FS_Injection DEF n
<1>10. ToSet(order) = S
  BY <1>3, <1>9 DEF Surjection, ToSet
<1>11. QED
  BY <1>5, <1>6, <1>10 DEF S

LEMMA OrdersSome ==
  ASSUME NEW p \in Seq(ParsedFile)
  PROVE  Orders(p) # {}
<1> DEFINE S == Keys(CallGraph(p).callees)
           n == Cardinality(S)
<1>1. IsFiniteSet(S)
  BY CalleesType, KeysType
<1>2. ExistsBijection(1..n, S)
  BY <1>1, FS_CardinalityType
<1>3. PICK f : f \in Bijection(1..n, S)
  BY <1>2 DEF ExistsBijection
<1>4. f \in [1..n -> S] /\ \A i, j \in 1..n : i # j => f[i] # f[j]
  <2>1. f \in [1..n -> S] /\ IsInjective(f)
    BY <1>3 DEF Bijection, Injection
  <2>2. QED
    BY <2>1 DEF IsInjective
<1>5. f \in Orders(p)
  BY <1>4 DEF Orders, SetToSeqs
<1>6. QED
  BY <1>5

LEMMA EdgesOfAll ==
  ASSUME NEW edges \in Seq(EdgeRec), NEW names \in Seq(STRING), ToSet(names) = Keys(edges)
  PROVE  EdgesOf(edges, names) \in Seq(EdgeRec) /\ ToSet(EdgesOf(edges, names)) = ToSet(edges)
<1> DEFINE ss == [i \in DOMAIN names |-> Adjacent(edges, names[i])]
<1>1. Len(names) \in Nat /\ DOMAIN names = 1..Len(names)
  OBVIOUS
<1>2. \A name : Adjacent(edges, name) \in Seq(EdgeRec)
                /\ ToSet(Adjacent(edges, name)) = {edges[i] : i \in {j \in DOMAIN edges : edges[j].of = name}}
  <2> SUFFICES ASSUME NEW name
               PROVE  Adjacent(edges, name) \in Seq(EdgeRec)
                /\ ToSet(Adjacent(edges, name)) = {edges[i] : i \in {j \in DOMAIN edges : edges[j].of = name}}
    OBVIOUS
  <2> DEFINE places == {j \in DOMAIN edges : edges[j].of = name}
  <2>1. DOMAIN edges \cap places = places
    OBVIOUS
  <2>2. QED
    BY <2>1, PickedSpots, PickedSet DEF Adjacent
<1>3. ss \in [1..Len(names) -> Seq(EdgeRec)]
  BY <1>1, <1>2
<1>4. ss \in Seq(Seq(EdgeRec))
  BY <1>1, <1>3, SeqFromFunction
<1>5. EdgesOf(edges, names) = FlattenSeq(ss)
  BY DEF EdgesOf
<1>6. \A x : x \in ToSet(FlattenSeq(ss)) <=> \E i \in DOMAIN ss : x \in ToSet(ss[i])
  BY <1>4, FlattenedSet
<1>7. FlattenSeq(ss) \in Seq(EdgeRec)
  BY <1>4, FlattenBlocks
<1>8. \A x : x \in ToSet(edges) => \E i \in DOMAIN ss : x \in ToSet(ss[i])
  <2> SUFFICES ASSUME NEW k \in DOMAIN edges PROVE \E i \in DOMAIN ss : edges[k] \in ToSet(ss[i])
    BY DEF ToSet
  <2>1. PICK i \in DOMAIN names : names[i] = edges[k].of
    BY DEF Keys, ToSet
  <2>2. edges[k] \in ToSet(Adjacent(edges, names[i]))
    BY <1>2, <2>1
  <2>3. QED
    BY <2>2
<1>9. \A i \in DOMAIN ss : ToSet(ss[i]) \subseteq ToSet(edges)
  <2>1. \A name : {edges[i] : i \in {j \in DOMAIN edges : edges[j].of = name}} \subseteq ToSet(edges)
    BY DEF ToSet
  <2>2. \A i \in DOMAIN ss : ss[i] = Adjacent(edges, names[i])
    OBVIOUS
  <2> HIDE DEF ss
  <2>3. QED
    BY <1>2, <2>1, <2>2
<1> HIDE DEF ss
<1>10. QED
  BY <1>5, <1>6, <1>7, <1>8, <1>9

-----------------------------------------------------------------------------
(* The links of a program.                                                  *)

LinkRec == [from : Nat, to : Nat, kind : {"contains", "imports", "calls"}]

LEMMA FileLinksType ==
  ASSUME NEW nodes \in Seq(NodeRec),
         \A k \in DOMAIN nodes : nodes[k].kind # "file" =>
           \E j \in DOMAIN nodes : j < k /\ nodes[j].kind = "file"
  PROVE  /\ FileLinks(nodes) \in Seq(LinkRec)
         /\ \A i \in DOMAIN FileLinks(nodes) :
              /\ FileLinks(nodes)[i].from \in DOMAIN nodes /\ FileLinks(nodes)[i].to \in DOMAIN nodes
              /\ nodes[FileLinks(nodes)[i].from].kind = "file"
              /\ FileLinks(nodes)[i].kind # "calls"
         /\ \A i, j \in DOMAIN FileLinks(nodes) : i < j => FileLinks(nodes)[i].to < FileLinks(nodes)[j].to
<1> DEFINE files == {k \in DOMAIN nodes : nodes[k].kind = "file"}
           all == [k \in DOMAIN nodes |-> k]
           parts == Picked(all, DOMAIN nodes \ files)
           kind(k) == IF nodes[k].kind = "module" THEN "imports" ELSE "contains"
           head(k) == Max({j \in files : j < k})
<1>1. DOMAIN nodes = 1..Len(nodes) /\ Len(nodes) \in Nat
  OBVIOUS
<1>2. all \in Seq(DOMAIN nodes)
  <2>1. all \in [1..Len(nodes) -> DOMAIN nodes]
    BY <1>1
  <2>2. QED
    BY <1>1, <2>1, SeqFromFunction
<1>3. parts \in Seq(DOMAIN nodes) /\ ToSet(parts) = {all[k] : k \in DOMAIN all \cap (DOMAIN nodes \ files)}
  BY <1>2, PickedSpots, PickedSet
<1>4. PICK at : Spots(Len(all), all, DOMAIN nodes \ files, parts, at)
  BY <1>2, PickedSpots
<1> HIDE DEF parts
<1>5. \A i, j \in DOMAIN parts : i < j => parts[i] < parts[j]
  <2>1. DOMAIN parts = 1..Len(parts) /\ Len(all) = Len(nodes)
    BY <1>1, <1>2, <1>3
  <2>2. \A i \in DOMAIN parts : at[i] \in DOMAIN nodes /\ parts[i] = all[at[i]]
    BY <1>1, <1>4, <2>1 DEF Spots
  <2>3. \A i \in DOMAIN parts : parts[i] = at[i]
    BY <2>2
  <2>4. QED
    BY <1>4, <2>1, <2>3 DEF Spots
<1>6. Len(parts) \in Nat /\ DOMAIN parts = 1..Len(parts)
  BY <1>3
<1>7. \A i \in DOMAIN parts : parts[i] \in DOMAIN nodes /\ parts[i] \notin files
  <2>1. \A i \in DOMAIN parts : parts[i] \in {all[k] : k \in DOMAIN all \cap (DOMAIN nodes \ files)}
    BY <1>3 DEF ToSet
  <2>2. QED
    BY <2>1
<1>8. ASSUME NEW k \in DOMAIN nodes, k \notin files
      PROVE  head(k) \in files
  <2> DEFINE S == {j \in files : j < k}
  <2>1. S # {} /\ S \in SUBSET Nat /\ k \in Nat /\ \A j \in S : j <= k
    BY <1>1, <1>8
  <2> HIDE DEF S
  <2>2. Max(S) \in S
    BY <2>1, GreatestNat
  <2>3. QED
    BY <2>2 DEF S
<1>9. FileLinks(nodes) = [i \in DOMAIN parts |-> Link(head(parts[i]), parts[i], kind(parts[i]))]
  BY DEF FileLinks, parts
<1> HIDE DEF head
<1>10. \A k \in DOMAIN nodes : kind(k) \in {"contains", "imports"} /\ kind(k) # "calls"
  OBVIOUS
<1>11. ASSUME NEW k \in DOMAIN nodes, k \notin files
      PROVE  /\ Link(head(k), k, kind(k)) \in LinkRec
             /\ Link(head(k), k, kind(k)).from = head(k) /\ Link(head(k), k, kind(k)).to = k
             /\ Link(head(k), k, kind(k)).kind = kind(k)
  <2>1. head(k) \in Nat /\ k \in Nat
    BY <1>1, <1>8, <1>11
  <2> HIDE DEF kind
  <2>2. QED
    BY <1>10, <2>1 DEF Link, LinkRec
<1> HIDE DEF kind
<1>12. FileLinks(nodes) \in [1..Len(parts) -> LinkRec]
  BY <1>6, <1>7, <1>9, <1>11
<1>13. FileLinks(nodes) \in Seq(LinkRec) /\ DOMAIN FileLinks(nodes) = DOMAIN parts
  BY <1>6, <1>12, SeqFromFunction
<1>14. \A i \in DOMAIN parts :
         /\ FileLinks(nodes)[i].from = head(parts[i]) /\ FileLinks(nodes)[i].to = parts[i]
         /\ FileLinks(nodes)[i].kind = kind(parts[i])
  BY <1>7, <1>9, <1>11
<1>15. QED
  BY <1>7, <1>8, <1>10, <1>13, <1>14, <1>5

Resolvable(nodes, e) == Bucket(nodes, e.of) # {} /\ Bucket(nodes, e.neighbor) # {}
CallLink(nodes, e) == Link(End(nodes, e.of, e), End(nodes, e.neighbor, e), "calls")

LEMMA CallLinkType ==
  ASSUME NEW nodes \in Seq(NodeRec), NEW e \in EdgeRec, Resolvable(nodes, e)
  PROVE  /\ CallLink(nodes, e) \in LinkRec
         /\ CallLink(nodes, e).kind = "calls"
         /\ CallLink(nodes, e).from = End(nodes, e.of, e)
         /\ CallLink(nodes, e).to = End(nodes, e.neighbor, e)
         /\ End(nodes, e.of, e) \in Bucket(nodes, e.of)
         /\ End(nodes, e.neighbor, e) \in Bucket(nodes, e.neighbor)
<1>1. End(nodes, e.of, e) \in Bucket(nodes, e.of) /\ End(nodes, e.neighbor, e) \in Bucket(nodes, e.neighbor)
  BY EndRanksFirst DEF Resolvable
<1>2. End(nodes, e.of, e) \in Nat /\ End(nodes, e.neighbor, e) \in Nat
  BY <1>1 DEF Bucket
<1>3. QED
  BY <1>1, <1>2 DEF CallLink, Link, LinkRec

LEMMA CallLinksAre ==
  ASSUME NEW nodes \in Seq(NodeRec), NEW edges \in Seq(EdgeRec)
  PROVE  /\ CallLinks(nodes, edges) \in Seq(LinkRec)
         /\ ToSet(CallLinks(nodes, edges)) =
              {CallLink(nodes, e) : e \in {d \in ToSet(edges) : Resolvable(nodes, d)}}
<1> DEFINE known == {k \in DOMAIN edges : Resolvable(nodes, edges[k])}
           calls == Picked(edges, known)
           links == CallLinks(nodes, edges)
<1>1. calls \in Seq(EdgeRec) /\ ToSet(calls) = {edges[k] : k \in DOMAIN edges \cap known}
  BY PickedSpots, PickedSet
<1>2. links = [k \in DOMAIN calls |-> CallLink(nodes, calls[k])]
  BY DEF CallLinks, CallLink, Resolvable
<1> HIDE DEF links, calls
<1>3. Len(calls) \in Nat /\ DOMAIN calls = 1..Len(calls) /\ \A k \in DOMAIN calls : calls[k] \in EdgeRec
  BY <1>1
<1>4. \A k \in DOMAIN calls : Resolvable(nodes, calls[k])
  BY <1>1 DEF ToSet
<1>5. links \in [1..Len(calls) -> LinkRec]
  BY <1>2, <1>3, <1>4, CallLinkType
<1>6. links \in Seq(LinkRec)
  BY <1>3, <1>5, SeqFromFunction
<1>7. ToSet(links) = {CallLink(nodes, e) : e \in ToSet(calls)}
  BY <1>2 DEF ToSet
<1>8. ToSet(calls) = {d \in ToSet(edges) : Resolvable(nodes, d)}
  BY <1>1 DEF ToSet
<1>9. QED
  BY <1>6, <1>7, <1>8 DEF links

\* The call links of a program, in no order.
Called(p) ==
  {CallLink(Nodes(p), e) : e \in {d \in ToSet(CallGraph(p).callees) : Resolvable(Nodes(p), d)}}

\* The call links as the code meets them, and as it adds them.
Met(p, order) == CallLinks(Nodes(p), EdgesOf(CallGraph(p).callees, order))
Added(p, order) == Picked(Met(p, order), Fresh(Met(p, order), {}))

LEMMA CalledType ==
  ASSUME NEW p \in Seq(ParsedFile), NEW l \in Called(p)
  PROVE  /\ l \in LinkRec /\ l.kind = "calls" /\ l.from \in DOMAIN Nodes(p) /\ l.to \in DOMAIN Nodes(p)
         /\ Nodes(p)[l.from].kind # "file"
         /\ l = Link(l.from, l.to, "calls")
<1>1. Nodes(p) \in Seq(NodeRec)
  BY NodesType
<1>2. PICK e \in ToSet(CallGraph(p).callees) : Resolvable(Nodes(p), e) /\ l = CallLink(Nodes(p), e)
  BY DEF Called
<1>3. e \in EdgeRec
  BY CalleesType DEF ToSet
<1>4. /\ l \in LinkRec /\ l.kind = "calls" /\ l.from \in Bucket(Nodes(p), e.of)
      /\ l.to \in Bucket(Nodes(p), e.neighbor)
  BY <1>1, <1>2, <1>3, CallLinkType
<1>5. l = Link(l.from, l.to, "calls")
  BY <1>2 DEF CallLink, Link
<1>6. QED
  BY <1>4, <1>5 DEF Bucket

LEMMA AddedIs ==
  ASSUME NEW p \in Seq(ParsedFile), NEW order \in Orders(p)
  PROVE  /\ Met(p, order) \in Seq(LinkRec) /\ ToSet(Met(p, order)) = Called(p)
         /\ Added(p, order) \in Seq(LinkRec) /\ IsInjective(Added(p, order))
         /\ ToSet(Added(p, order)) = Called(p)
<1> DEFINE edges == CallGraph(p).callees
<1>1. edges \in Seq(EdgeRec) /\ Nodes(p) \in Seq(NodeRec)
  BY CalleesType, NodesType
<1>2. order \in Seq(STRING) /\ ToSet(order) = Keys(edges)
  BY OrdersListKeys
<1> HIDE DEF edges
<1>3. EdgesOf(edges, order) \in Seq(EdgeRec) /\ ToSet(EdgesOf(edges, order)) = ToSet(edges)
  BY <1>1, <1>2, EdgesOfAll
<1>4. Met(p, order) \in Seq(LinkRec) /\ ToSet(Met(p, order)) = Called(p)
  BY <1>1, <1>3, CallLinksAre DEF Met, Called, edges
<1> HIDE DEF Met
<1>5. /\ Added(p, order) \in Seq(LinkRec) /\ IsInjective(Added(p, order))
      /\ ToSet(Added(p, order)) = ToSet(Met(p, order)) \ {}
  BY <1>4, FreshOnce DEF Added
<1>6. QED
  BY <1>4, <1>5

LEMMA BuildIs ==
  ASSUME NEW p \in Seq(ParsedFile), NEW order \in Orders(p)
  PROVE  Build(p, order) = [nodes |-> Nodes(p), links |-> FileLinks(Nodes(p)) \o Added(p, order)]
<1> DEFINE inner == FileLinks(Nodes(p))
           met == Met(p, order)
<1>1. /\ inner \in Seq(LinkRec)
      /\ \A i \in DOMAIN inner : inner[i].from \in DOMAIN Nodes(p) /\ Nodes(p)[inner[i].from].kind = "file"
  BY NodesType, FileLinksType
<1>2. met \in Seq(LinkRec) /\ \A k \in DOMAIN met : met[k] \in Called(p)
  BY AddedIs DEF ToSet
<1> HIDE DEF inner, met
<1>3. \A k \in DOMAIN met : /\ met[k].from \in DOMAIN Nodes(p) /\ Nodes(p)[met[k].from].kind # "file"
                            /\ met[k] = Link(met[k].from, met[k].to, "calls")
  BY <1>2, CalledType
<1>4. \A k \in DOMAIN met : Pairs(met)[k] \notin ToSet(Pairs(inner))
  BY <1>1, <1>3 DEF Pairs, ToSet
<1>5. \A j, k \in DOMAIN met : Pairs(met)[j] = Pairs(met)[k] <=> met[j] = met[k]
  BY <1>3 DEF Pairs
<1>6. DOMAIN Pairs(met) = DOMAIN met /\ DOMAIN met = 1..Len(met) /\ Len(met) \in Nat
  BY <1>2 DEF Pairs
<1>7. ASSUME NEW k \in DOMAIN met
      PROVE  /\ Pairs(met)[k] \in {Pairs(met)[j] : j \in 1..(k - 1)}
               <=> met[k] \in {met[j] : j \in 1..(k - 1)}
  <2>1. \A j \in 1..(k - 1) : j \in DOMAIN met
    BY <1>6
  <2>2. QED
    BY <1>5, <2>1
<1>8. Fresh(Pairs(met), ToSet(Pairs(inner))) = Fresh(met, {})
  BY <1>4, <1>6, <1>7 DEF Fresh
<1>9. QED
  BY <1>8 DEF Build, Added, Met, inner, met

LEMMA LinksType ==
  ASSUME NEW p \in Seq(ParsedFile), NEW order \in Orders(p)
  PROVE  /\ Build(p, order).links \in Seq(LinkRec)
         /\ ToSet(Build(p, order).links) = ToSet(FileLinks(Nodes(p))) \cup Called(p)
         /\ \A l \in ToSet(Build(p, order).links) : l.from \in DOMAIN Nodes(p) /\ l.to \in DOMAIN Nodes(p)
<1> DEFINE inner == FileLinks(Nodes(p))
           new == Added(p, order)
<1>1. /\ inner \in Seq(LinkRec)
      /\ \A l \in ToSet(inner) : l.from \in DOMAIN Nodes(p) /\ l.to \in DOMAIN Nodes(p)
  BY NodesType, FileLinksType DEF ToSet
<1>2. new \in Seq(LinkRec) /\ ToSet(new) = Called(p)
  BY AddedIs
<1>3. Build(p, order).links = inner \o new
  BY BuildIs
<1> HIDE DEF inner, new
<1>4. inner \o new \in Seq(LinkRec) /\ Range(inner \o new) = Range(inner) \cup Range(new)
  BY <1>1, <1>2, ConcatProperties, RangeConcatenation
<1>5. \A s : Range(s) = ToSet(s)
  BY DEF Range, ToSet
<1>6. \A l \in Called(p) : l.from \in DOMAIN Nodes(p) /\ l.to \in DOMAIN Nodes(p)
  BY CalledType
<1>7. QED
  BY <1>1, <1>2, <1>3, <1>4, <1>5, <1>6 DEF inner

-----------------------------------------------------------------------------
(* CallsResolved.                                                           *)

LEMMA LinksPlaces ==
  ASSUME NEW p \in Seq(ParsedFile), NEW order \in Orders(p)
  PROVE  LET inner == FileLinks(Nodes(p))
             new == Added(p, order)
             links == Build(p, order).links
         IN  /\ Len(inner) \in Nat /\ Len(new) \in Nat /\ DOMAIN links = 1..(Len(inner) + Len(new))
             /\ \A k \in 1..Len(inner) : links[k] = inner[k] /\ links[k].kind # "calls"
                                         /\ Nodes(p)[links[k].from].kind = "file"
             /\ \A k \in DOMAIN links : k \notin 1..Len(inner) =>
                  k - Len(inner) \in DOMAIN new /\ links[k] = new[k - Len(inner)]
<1> DEFINE inner == FileLinks(Nodes(p))
           new == Added(p, order)
           links == Build(p, order).links
<1>1. /\ inner \in Seq(LinkRec)
      /\ \A i \in DOMAIN inner : inner[i].kind # "calls" /\ Nodes(p)[inner[i].from].kind = "file"
  BY NodesType, FileLinksType
<1>2. new \in Seq(LinkRec)
  BY AddedIs
<1>3. links = inner \o new
  BY BuildIs
<1> HIDE DEF inner, new, links
<1>4. Len(inner) \in Nat /\ Len(new) \in Nat /\ DOMAIN inner = 1..Len(inner) /\ DOMAIN new = 1..Len(new)
  BY <1>1, <1>2
<1>5. /\ links \in Seq(LinkRec) /\ Len(links) = Len(inner) + Len(new)
      /\ \A i \in 1..(Len(inner) + Len(new)) :
           links[i] = IF i <= Len(inner) THEN inner[i] ELSE new[i - Len(inner)]
  BY <1>1, <1>2, <1>3, ConcatProperties
<1>6. DOMAIN links = 1..(Len(inner) + Len(new))
  BY <1>5
<1>7. \A k \in 1..Len(inner) : k \in 1..(Len(inner) + Len(new)) /\ k <= Len(inner)
  BY <1>4
<1>8. \A k \in DOMAIN links : k \notin 1..Len(inner) =>
         k - Len(inner) \in 1..Len(new) /\ ~ (k <= Len(inner))
  BY <1>4, <1>6
<1>9. QED
  BY <1>1, <1>4, <1>5, <1>6, <1>7, <1>8 DEF inner, new, links

LEMMA CallsResolvedIn ==
  ASSUME NEW p \in Seq(ParsedFile), NEW order \in Orders(p)
  PROVE  LET links == Build(p, order).links
             calls == Picked(links, {i \in DOMAIN links : links[i].kind = "calls"})
         IN  /\ {<<l.from, l.to>> : l \in ToSet(calls)} =
                  UNION {Best(Nodes(p), e.of, e) \X Best(Nodes(p), e.neighbor, e) :
                         e \in ToSet(CallGraph(p).callees)}
             /\ IsInjective(calls)
<1> DEFINE nodes == Nodes(p)
           edges == CallGraph(p).callees
           inner == FileLinks(Nodes(p))
           new == Added(p, order)
           links == Build(p, order).links
           places == {i \in DOMAIN links : links[i].kind = "calls"}
           calls == Picked(links, places)
<1>1. /\ nodes \in Seq(NodeRec) /\ edges \in Seq(EdgeRec)
      /\ new \in Seq(LinkRec) /\ IsInjective(new) /\ ToSet(new) = Called(p)
  BY NodesType, CalleesType, AddedIs
<1>2. /\ Len(inner) \in Nat /\ Len(new) \in Nat /\ DOMAIN links = 1..(Len(inner) + Len(new))
      /\ \A k \in 1..Len(inner) : links[k].kind # "calls"
      /\ \A k \in DOMAIN links : k \notin 1..Len(inner) =>
           k - Len(inner) \in DOMAIN new /\ links[k] = new[k - Len(inner)]
  BY LinksPlaces
<1>3. links \in Seq(LinkRec) /\ ToSet(links) = ToSet(inner) \cup Called(p)
  BY LinksType
<1>4. calls \in Seq(LinkRec) /\ ToSet(calls) = {links[k] : k \in DOMAIN links \cap places}
  BY <1>3, PickedSpots, PickedSet
<1>5. PICK at : Spots(Len(links), links, places, calls, at)
  BY <1>3, PickedSpots
<1> HIDE DEF links, calls, inner, new
<1>6. \A k \in places : k - Len(inner) \in DOMAIN new /\ links[k] = new[k - Len(inner)]
  BY <1>2
<1>7. ToSet(calls) = Called(p)
  <2>1. ToSet(calls) \subseteq Called(p)
    BY <1>1, <1>4, <1>6 DEF ToSet
  <2>2. \A l \in Called(p) : l \in ToSet(links) /\ l.kind = "calls"
    BY <1>3, CalledType
  <2>3. \A l \in Called(p) : \E k \in DOMAIN links \cap places : l = links[k]
    BY <2>2 DEF ToSet
  <2>4. QED
    BY <1>4, <2>1, <2>3
<1>8. IsInjective(calls)
  <2>1. DOMAIN calls = 1..Len(calls) /\ Len(calls) \in Nat
    BY <1>4
  <2>2. \A i \in DOMAIN calls : at[i] \in places /\ calls[i] = links[at[i]]
    BY <1>5, <2>1 DEF Spots
  <2>3. ASSUME NEW i \in DOMAIN calls, NEW j \in DOMAIN calls, i < j PROVE calls[i] # calls[j]
    <3>1. at[i] < at[j] /\ at[i] \in Nat /\ at[j] \in Nat
      BY <1>2, <1>5, <2>1, <2>2, <2>3 DEF Spots
    <3>2. /\ at[i] - Len(inner) \in DOMAIN new /\ calls[i] = new[at[i] - Len(inner)]
          /\ at[j] - Len(inner) \in DOMAIN new /\ calls[j] = new[at[j] - Len(inner)]
      BY <1>6, <2>2
    <3>3. at[i] - Len(inner) # at[j] - Len(inner)
      BY <1>2, <3>1
    <3>4. QED
      BY <1>1, <3>2, <3>3 DEF IsInjective
  <2>4. \A i, j \in DOMAIN calls : i # j => i < j \/ j < i
    BY <2>1
  <2>5. QED
    BY <2>3, <2>4 DEF IsInjective
<1> DEFINE best(e) == Best(nodes, e.of, e) \X Best(nodes, e.neighbor, e)
<1>9. ASSUME NEW e \in ToSet(edges), Resolvable(nodes, e)
      PROVE  best(e) = {<<CallLink(nodes, e).from, CallLink(nodes, e).to>>}
  <2>1. e \in EdgeRec
    BY <1>1 DEF ToSet
  <2>2. /\ Best(nodes, e.of, e) = {CallLink(nodes, e).from}
        /\ Best(nodes, e.neighbor, e) = {CallLink(nodes, e).to}
    <3> HIDE DEF nodes
    <3>1. CallLink(nodes, e).from = End(nodes, e.of, e) /\ CallLink(nodes, e).to = End(nodes, e.neighbor, e)
      BY <1>1, <1>9, <2>1, CallLinkType
    <3>2. Bucket(nodes, e.of) # {} /\ Bucket(nodes, e.neighbor) # {}
      BY <1>9 DEF Resolvable
    <3>3. Best(nodes, e.of, e) = {End(nodes, e.of, e)}
      BY <1>1, <2>1, <3>2, EndRanksFirst
    <3>4. Best(nodes, e.neighbor, e) = {End(nodes, e.neighbor, e)}
      BY <1>1, <2>1, <3>2, EndRanksFirst
    <3>5. QED
      BY <3>1, <3>3, <3>4
  <2>3. QED
    BY <2>2
<1>10. ASSUME NEW e \in ToSet(edges), ~ Resolvable(nodes, e) PROVE best(e) = {}
  BY <1>10 DEF Best, Resolvable
<1>11. Called(p) = {CallLink(nodes, e) : e \in {d \in ToSet(edges) : Resolvable(nodes, d)}}
  BY DEF Called
<1> HIDE DEF nodes, edges, best
<1>12. {<<l.from, l.to>> : l \in ToSet(calls)} = UNION {best(e) : e \in ToSet(edges)}
  BY <1>7, <1>9, <1>10, <1>11
<1>13. QED
  BY <1>8, <1>12 DEF best, nodes, edges, links, calls

-----------------------------------------------------------------------------
(* The neighbours of a node do not depend on the order of the callers.      *)

(* Two sequences of the same elements, both in the order of a number each   *)
(* element has, are the same.                                               *)
Ordered(s, key) == \A i, j \in DOMAIN s : i < j => key[s[i]] < key[s[j]]

LEMMA OrderedInto ==
  ASSUME NEW X, NEW s \in Seq(X), NEW t \in Seq(X), NEW key \in [X -> Nat],
         ToSet(s) = ToSet(t), Ordered(s, key), Ordered(t, key)
  PROVE  \A i \in 1..Len(s) : i <= Len(t) /\ s[i] = t[i]
<1> DEFINE S == {i \in 1..Len(s) : ~ (i <= Len(t) /\ s[i] = t[i])}
<1> SUFFICES ASSUME S # {} PROVE FALSE
  OBVIOUS
<1>1. /\ Len(s) \in Nat /\ DOMAIN s = 1..Len(s) /\ Len(t) \in Nat /\ DOMAIN t = 1..Len(t)
      /\ \A i \in 1..Len(s) : s[i] \in X /\ key[s[i]] \in Nat
      /\ \A i \in 1..Len(t) : t[i] \in X /\ key[t[i]] \in Nat
  OBVIOUS
<1>2. PICK m \in S : \A i \in S : m <= i
  <2>1. S \in SUBSET Nat
    BY <1>1
  <2> HIDE DEF S
  <2>2. QED
    BY <2>1, LeastNat
<1>3. m \in 1..Len(s) /\ m \in Nat
  BY <1>1
<1>4. \A j \in 1..(m - 1) : j \in 1..Len(s) /\ j \in 1..Len(t) /\ s[j] = t[j] /\ j < m
  <2> SUFFICES ASSUME NEW j \in 1..(m - 1) PROVE j \in 1..Len(s) /\ j <= Len(t) /\ s[j] = t[j] /\ j < m
    BY <1>1
  <2>1. j \in 1..Len(s) /\ j < m
    BY <1>1, <1>3
  <2>2. j \notin S
    BY <1>2, <1>3, <2>1
  <2>3. QED
    BY <2>1, <2>2
<1>5. PICK k \in 1..Len(t) : s[m] = t[k]
  BY <1>1, <1>3 DEF ToSet
<1>6. k >= m
  <2> SUFFICES ASSUME k < m PROVE FALSE
    BY <1>1, <1>3
  <2>1. k \in 1..(m - 1)
    BY <1>1, <1>3
  <2>2. s[k] = s[m] /\ k \in DOMAIN s /\ m \in DOMAIN s
    BY <1>1, <1>3, <1>4, <1>5, <2>1
  <2>3. key[s[k]] < key[s[m]]
    BY <2>2 DEF Ordered
  <2>4. QED
    BY <1>1, <1>3, <2>2, <2>3
<1>7. m \in 1..Len(t) /\ s[m] # t[m] /\ m < k
  <2>1. m \in 1..Len(t)
    BY <1>1, <1>3, <1>6
  <2>2. s[m] # t[m]
    BY <1>1, <1>2, <2>1
  <2>3. QED
    BY <1>1, <1>3, <1>5, <1>6, <2>1, <2>2
<1>8. key[t[m]] < key[s[m]]
  BY <1>1, <1>5, <1>7 DEF Ordered
<1>9. PICK l \in 1..Len(s) : t[m] = s[l]
  BY <1>1, <1>7 DEF ToSet
<1>10. l >= m
  <2> SUFFICES ASSUME l < m PROVE FALSE
    BY <1>1, <1>3
  <2>1. l \in 1..(m - 1)
    BY <1>1, <1>3
  <2>2. t[l] = t[m] /\ l \in DOMAIN t /\ m \in DOMAIN t
    BY <1>1, <1>4, <1>7, <1>9, <2>1
  <2>3. key[t[l]] < key[t[m]]
    BY <2>2 DEF Ordered
  <2>4. QED
    BY <1>1, <1>7, <2>2, <2>3
<1>11. key[s[m]] <= key[t[m]]
  <2>1. CASE l = m
    BY <1>1, <1>3, <1>9, <2>1
  <2>2. CASE l # m
    <3>1. m < l /\ m \in DOMAIN s /\ l \in DOMAIN s
      BY <1>1, <1>3, <1>10, <2>2
    <3>2. key[s[m]] < key[s[l]]
      BY <3>1 DEF Ordered
    <3>3. QED
      BY <1>1, <1>3, <1>9, <3>2
  <2>3. QED
    BY <2>1, <2>2
<1>12. QED
  BY <1>1, <1>3, <1>7, <1>8, <1>11

LEMMA OrderedSame ==
  ASSUME NEW X, NEW s \in Seq(X), NEW t \in Seq(X), NEW key \in [X -> Nat],
         ToSet(s) = ToSet(t), Ordered(s, key), Ordered(t, key)
  PROVE  s = t
<1>1. \A i \in 1..Len(s) : i <= Len(t) /\ s[i] = t[i]
  BY OrderedInto
<1>2. \A i \in 1..Len(t) : i <= Len(s) /\ t[i] = s[i]
  BY OrderedInto
<1>3. Len(s) \in Nat /\ Len(t) \in Nat
  OBVIOUS
<1>4. Len(s) = Len(t)
  <2>1. Len(s) <= Len(t)
    BY <1>1, <1>3
  <2>2. Len(t) <= Len(s)
    BY <1>2, <1>3
  <2>3. QED
    BY <1>3, <2>1, <2>2
<1>5. QED
  BY <1>1, <1>4, SeqEqual

\* A map of places in one sequence to places in another, in the same order.
Onto(d, from, to) ==
  /\ d \in [from -> to]
  /\ \A a, b \in from : a < b => d[a] < d[b]
  /\ \A k \in to : \E a \in from : d[a] = k

\* Where the calls of a name are in the graph, seen from all its lists.
EdgePlaces(edges, names, name, d) ==
  LET flat == EdgesOf(edges, names)
  IN  /\ Onto(d, {c \in DOMAIN flat : flat[c].of = name}, {k \in DOMAIN edges : edges[k].of = name})
      /\ \A c \in DOMAIN flat : flat[c].of = name => flat[c] = edges[d[c]]

LEMMA EdgesInOrder ==
  ASSUME NEW edges \in Seq(EdgeRec), NEW names \in Seq(STRING), ToSet(names) = Keys(edges),
         IsInjective(names), NEW name
  PROVE  \E d : EdgePlaces(edges, names, name, d)
<1> DEFINE ss == [i \in DOMAIN names |-> Adjacent(edges, names[i])]
           flat == EdgesOf(edges, names)
           from == {c \in DOMAIN flat : flat[c].of = name}
           places(x) == {k \in DOMAIN edges : edges[k].of = x}
           to == places(name)
<1>1. Len(names) \in Nat /\ DOMAIN names = 1..Len(names) /\ DOMAIN edges = 1..Len(edges) /\ Len(edges) \in Nat
  OBVIOUS
<1>2. \A x : Adjacent(edges, x) \in Seq(EdgeRec)
  BY PickedSpots DEF Adjacent
<1>3. ss \in Seq(Seq(EdgeRec)) /\ Len(ss) = Len(names)
  <2>1. ss \in [1..Len(names) -> Seq(EdgeRec)]
    BY <1>1, <1>2
  <2> HIDE DEF ss
  <2>2. QED
    BY <1>1, <2>1, SeqFromFunction
<1>4. flat = FlattenSeq(ss)
  BY DEF EdgesOf
<1>5. \A i \in DOMAIN names : ss[i] = Adjacent(edges, names[i])
  OBVIOUS
<1> HIDE DEF ss, flat
<1>6. flat \in Seq(EdgeRec) /\ DOMAIN flat = 1..Len(flat)
  <2>1. flat \in Seq(EdgeRec)
    BY <1>3, <1>4, FlattenBlocks
  <2>2. QED
    BY <2>1
<1>7. PICK off : Blocks(Len(names), ss, flat, off)
  BY <1>3, <1>4, FlattenBlocks
<1>8. \A i \in DOMAIN names : \A k \in 1..Len(ss[i]) : ss[i][k].of = names[i]
  <2> SUFFICES ASSUME NEW i \in DOMAIN names, NEW k \in 1..Len(Adjacent(edges, names[i]))
               PROVE  Adjacent(edges, names[i])[k].of = names[i]
    BY <1>5
  <2>1. PICK at : Spots(Len(edges), edges, places(names[i]), Adjacent(edges, names[i]), at)
    BY PickedSpots DEF Adjacent
  <2>2. at[k] \in places(names[i]) /\ Adjacent(edges, names[i])[k] = edges[at[k]]
    BY <2>1 DEF Spots
  <2>3. QED
    BY <2>2
<1>9. ASSUME NEW c \in from PROVE \E i \in DOMAIN names : names[i] = name /\ c - off[i] \in 1..Len(ss[i])
  <2>1. PICK i \in DOMAIN names : c - off[i] \in 1..Len(ss[i])
    BY <1>1, <1>6, <1>7 DEF Blocks
  <2>2. flat[off[i] + (c - off[i])] = ss[i][c - off[i]] /\ off[i] \in Nat /\ c \in Nat
    BY <1>1, <1>6, <1>7, <2>1 DEF Blocks
  <2>3. off[i] + (c - off[i]) = c
    BY <2>2
  <2>4. flat[c].of = names[i]
    BY <1>8, <2>1, <2>2, <2>3
  <2>5. QED
    BY <2>1, <2>4
<1>10. CASE \E i \in DOMAIN names : names[i] = name
  <2>1. PICK i \in DOMAIN names : names[i] = name
    BY <1>10
  <2> DEFINE adj == Adjacent(edges, name)
  <2>2. ss[i] = adj
    BY <1>5, <2>1
  <2>3. PICK at : Spots(Len(edges), edges, to, adj, at)
    BY PickedSpots DEF Adjacent
  <2> HIDE DEF adj
  <2>4. /\ Len(adj) \in Nat
        /\ at \in [1..Len(adj) -> (1..Len(edges)) \cap to]
        /\ \A a, b \in 1..Len(adj) : a < b => at[a] < at[b]
        /\ \A k \in (1..Len(edges)) \cap to : \E a \in 1..Len(adj) : at[a] = k
        /\ \A a \in 1..Len(adj) : adj[a] = edges[at[a]]
    <3>1. adj \in Seq(EdgeRec)
      BY <1>2 DEF adj
    <3>2. QED
      BY <2>3, <3>1 DEF Spots
  <2>5. off[i] \in Nat /\ \A k \in 1..Len(adj) : off[i] + k \in DOMAIN flat /\ flat[off[i] + k] = adj[k]
    BY <1>1, <1>6, <1>7, <2>2 DEF Blocks
  <2>6. ASSUME NEW c \in from PROVE c - off[i] \in 1..Len(adj) /\ flat[c] = edges[at[c - off[i]]]
    <3>1. PICK j \in DOMAIN names : names[j] = name /\ c - off[j] \in 1..Len(ss[j])
      BY <1>9
    <3>2. j = i
      BY <2>1, <3>1 DEF IsInjective
    <3>3. c - off[i] \in 1..Len(adj)
      BY <2>2, <3>1, <3>2
    <3>4. off[i] + (c - off[i]) = c
      BY <1>6, <2>5
    <3>5. QED
      BY <2>4, <2>5, <3>3, <3>4
  <2> DEFINE d == [c \in from |-> at[c - off[i]]]
  <2>7. d \in [from -> to]
    BY <2>4, <2>6
  <2>8. \A a, b \in from : a < b => d[a] < d[b]
    <3> SUFFICES ASSUME NEW a \in from, NEW b \in from, a < b PROVE at[a - off[i]] < at[b - off[i]]
      OBVIOUS
    <3>1. a - off[i] < b - off[i]
      BY <1>6, <2>5
    <3>2. QED
      BY <2>4, <2>6, <3>1
  <2>9. \A k \in to : \E a \in from : d[a] = k
    <3> SUFFICES ASSUME NEW k \in to PROVE \E a \in from : at[a - off[i]] = k
      OBVIOUS
    <3>1. PICK j \in 1..Len(adj) : at[j] = k
      BY <1>1, <2>4
    <3>2. off[i] + j \in DOMAIN flat /\ flat[off[i] + j] = edges[k]
      BY <2>4, <2>5, <3>1
    <3>3. (off[i] + j) - off[i] = j
      BY <2>5
    <3>4. QED
      BY <3>1, <3>2, <3>3
  <2>10. Onto(d, from, to)
    <3> HIDE DEF d, from, to
    <3>1. QED
      BY <2>7, <2>8, <2>9 DEF Onto
  <2>11. \A c \in DOMAIN flat : flat[c].of = name => flat[c] = edges[d[c]]
    BY <2>6
  <2> HIDE DEF d
  <2>12. EdgePlaces(edges, names, name, d)
    BY <2>10, <2>11 DEF EdgePlaces, flat
  <2>13. QED
    BY <2>12
<1>11. CASE ~ \E i \in DOMAIN names : names[i] = name
  <2>1. from = {}
    BY <1>9, <1>11
  <2>2. to = {}
    <3>1. name \notin ToSet(names)
      BY <1>11 DEF ToSet
    <3>2. QED
      BY <3>1 DEF Keys
  <2>3. Onto(<< >>, from, to)
    BY <2>1, <2>2 DEF Onto
  <2>4. \A c \in DOMAIN flat : flat[c].of # name
    BY <2>1
  <2>5. EdgePlaces(edges, names, name, << >>)
    BY <2>3, <2>4 DEF EdgePlaces, flat
  <2>6. QED
    BY <2>5
<1>12. QED
  BY <1>10, <1>11

\* The calls whose link begins at a node.
Leaving(nodes, edges, n) ==
  {k \in DOMAIN edges : Resolvable(nodes, edges[k]) /\ CallLink(nodes, edges[k]).from = n}

\* Where the calls of the links that leave a node are in the graph.
MetPlaces(p, order, n, d) ==
  LET met == Met(p, order)
      edges == CallGraph(p).callees
  IN  /\ Onto(d, {b \in DOMAIN met : met[b].from = n}, Leaving(Nodes(p), edges, n))
      /\ \A b \in DOMAIN met : met[b].from = n => met[b] = CallLink(Nodes(p), edges[d[b]])

LEMMA MetInOrder ==
  ASSUME NEW p \in Seq(ParsedFile), NEW order \in Orders(p), NEW n \in DOMAIN Nodes(p)
  PROVE  \E d : MetPlaces(p, order, n, d)
<1> DEFINE nodes == Nodes(p)
           edges == CallGraph(p).callees
           met == Met(p, order)
           flat == EdgesOf(edges, order)
           known == {k \in DOMAIN flat : Resolvable(nodes, flat[k])}
           calls == Picked(flat, known)
           name == nodes[n].name
           from == {b \in DOMAIN met : met[b].from = n}
           of == {c \in DOMAIN flat : flat[c].of = name}
           to == Leaving(nodes, edges, n)
<1>1. nodes \in Seq(NodeRec) /\ edges \in Seq(EdgeRec) /\ order \in Seq(STRING)
      /\ ToSet(order) = Keys(edges) /\ IsInjective(order)
  BY NodesType, CalleesType, OrdersListKeys
<1>2. PICK d : Onto(d, of, {k \in DOMAIN edges : edges[k].of = name})
               /\ \A c \in DOMAIN flat : flat[c].of = name => flat[c] = edges[d[c]]
  <2> HIDE DEF nodes, edges, name
  <2>1. \E d : EdgePlaces(edges, order, name, d)
    BY <1>1, EdgesInOrder
  <2>2. QED
    BY <2>1 DEF EdgePlaces
<1>3. flat \in Seq(EdgeRec) /\ calls \in Seq(EdgeRec)
  <2>1. flat \in Seq(EdgeRec)
    BY <1>1, EdgesOfAll
  <2>2. QED
    BY <2>1, PickedSpots
<1>4. PICK at : Spots(Len(flat), flat, known, calls, at)
  BY <1>3, PickedSpots
<1>5. met = [k \in DOMAIN calls |-> CallLink(nodes, calls[k])]
  BY DEF Met, CallLinks, CallLink, Resolvable
<1>6. \A e \in EdgeRec : Resolvable(nodes, e) /\ CallLink(nodes, e).from = n => e.of = name
  <2>1. \A e \in EdgeRec : Resolvable(nodes, e) => CallLink(nodes, e).from \in Bucket(nodes, e.of)
    BY <1>1, CallLinkType
  <2>2. QED
    BY <2>1 DEF Bucket
<1> HIDE DEF nodes, edges, met, flat, calls, name
<1>7. DOMAIN met = DOMAIN calls /\ DOMAIN calls = 1..Len(calls) /\ DOMAIN flat = 1..Len(flat)
      /\ Len(calls) \in Nat /\ Len(flat) \in Nat
  BY <1>3, <1>5
<1>8. /\ \A b \in DOMAIN calls : at[b] \in known /\ calls[b] = flat[at[b]]
      /\ \A a, b \in DOMAIN calls : a < b => at[a] < at[b]
      /\ \A c \in known : \E b \in DOMAIN calls : at[b] = c
  BY <1>4, <1>7 DEF Spots
<1>9. ASSUME NEW b \in from
      PROVE  /\ b \in DOMAIN calls /\ at[b] \in of /\ d[at[b]] \in to
             /\ met[b] = CallLink(nodes, edges[d[at[b]]])
  <2>1. b \in DOMAIN calls /\ at[b] \in known /\ calls[b] = flat[at[b]] /\ met[b] = CallLink(nodes, flat[at[b]])
    BY <1>5, <1>7, <1>8
  <2>2. flat[at[b]] \in EdgeRec
    BY <1>3, <2>1
  <2>3. flat[at[b]].of = name /\ Resolvable(nodes, flat[at[b]])
    BY <1>6, <2>1, <2>2
  <2>4. at[b] \in of /\ flat[at[b]] = edges[d[at[b]]]
    BY <1>2, <2>1, <2>3
  <2>5. d[at[b]] \in DOMAIN edges
    BY <1>2, <2>4 DEF Onto
  <2>6. d[at[b]] \in to
    BY <2>1, <2>3, <2>4, <2>5 DEF Leaving
  <2>7. QED
    BY <2>1, <2>4, <2>6
<1> DEFINE e == [b \in from |-> d[at[b]]]
<1>10. e \in [from -> to]
  <2> HIDE DEF from, to
  <2>1. QED
    BY <1>9
<1>11. \A a, b \in from : a < b => e[a] < e[b]
  <2> SUFFICES ASSUME NEW a \in from, NEW b \in from, a < b PROVE d[at[a]] < d[at[b]]
    OBVIOUS
  <2>1. at[a] < at[b]
    BY <1>8, <1>9
  <2>2. QED
    BY <1>2, <1>9, <2>1 DEF Onto
<1>12. \A k \in to : \E b \in from : e[b] = k
  <2> SUFFICES ASSUME NEW k \in to PROVE \E b \in from : d[at[b]] = k
    OBVIOUS
  <2>1. k \in DOMAIN edges /\ Resolvable(nodes, edges[k]) /\ CallLink(nodes, edges[k]).from = n
    BY DEF Leaving
  <2>2. edges[k].of = name
    BY <1>1, <1>6, <2>1
  <2>3. PICK c \in of : d[c] = k
    BY <1>2, <2>1, <2>2 DEF Onto
  <2>4. flat[c] = edges[k] /\ c \in known
    BY <1>2, <2>1, <2>3
  <2>5. PICK b \in DOMAIN calls : at[b] = c
    BY <1>8, <2>4
  <2>6. met[b].from = n
    BY <1>5, <1>8, <2>1, <2>4, <2>5
  <2>7. QED
    BY <1>7, <2>3, <2>5, <2>6
<1>13. Onto(e, from, to)
  <2> HIDE DEF e, from, to
  <2>1. QED
    BY <1>10, <1>11, <1>12 DEF Onto
<1>14. \A b \in DOMAIN met : met[b].from = n => met[b] = CallLink(nodes, edges[e[b]])
  BY <1>9
<1> HIDE DEF e
<1>15. MetPlaces(p, order, n, e)
  BY <1>13, <1>14 DEF MetPlaces, nodes, edges, met
<1>16. QED
  BY <1>15

\* The first call of a link.
FirstCall(p) ==
  LET edges == CallGraph(p).callees
      of(l) == {k \in DOMAIN edges : Resolvable(Nodes(p), edges[k]) /\ CallLink(Nodes(p), edges[k]) = l}
  IN  [l \in LinkRec |-> IF of(l) = {} THEN 0 ELSE Min(of(l))]

LEMMA FirstCallIs ==
  ASSUME NEW p \in Seq(ParsedFile)
  PROVE  /\ FirstCall(p) \in [LinkRec -> Nat]
         /\ \A k \in DOMAIN CallGraph(p).callees :
              /\ Resolvable(Nodes(p), CallGraph(p).callees[k])
              /\ \A j \in DOMAIN CallGraph(p).callees :
                   j < k /\ Resolvable(Nodes(p), CallGraph(p).callees[j]) =>
                     CallLink(Nodes(p), CallGraph(p).callees[j]) # CallLink(Nodes(p), CallGraph(p).callees[k])
              => FirstCall(p)[CallLink(Nodes(p), CallGraph(p).callees[k])] = k
<1> DEFINE edges == CallGraph(p).callees
           nodes == Nodes(p)
           of(l) == {k \in DOMAIN edges : Resolvable(nodes, edges[k]) /\ CallLink(nodes, edges[k]) = l}
           first(l) == IF of(l) = {} THEN 0 ELSE Min(of(l))
<1>1. nodes \in Seq(NodeRec) /\ edges \in Seq(EdgeRec)
  BY NodesType, CalleesType
<1>2. FirstCall(p) = [l \in LinkRec |-> first(l)]
  BY DEF FirstCall
<1> HIDE DEF edges, nodes
<1>3. DOMAIN edges \subseteq Nat /\ \A k \in DOMAIN edges : edges[k] \in EdgeRec
  BY <1>1
<1>4. ASSUME NEW l PROVE of(l) \in SUBSET Nat /\ (of(l) # {} => Min(of(l)) \in of(l) /\ \A x \in of(l) : Min(of(l)) <= x)
  <2>1. of(l) \in SUBSET Nat
    BY <1>3
  <2> HIDE DEF of
  <2>2. QED
    BY <2>1, MinLeast
<1>5. \A l \in LinkRec : first(l) \in Nat
  <2> HIDE DEF of
  <2>1. QED
    BY <1>4
<1>6. ASSUME NEW k \in DOMAIN edges, Resolvable(nodes, edges[k]),
             \A j \in DOMAIN edges : j < k /\ Resolvable(nodes, edges[j]) =>
               CallLink(nodes, edges[j]) # CallLink(nodes, edges[k])
      PROVE  FirstCall(p)[CallLink(nodes, edges[k])] = k
  <2> DEFINE l == CallLink(nodes, edges[k])
             m == Min(of(l))
  <2>1. l \in LinkRec
    BY <1>1, <1>3, <1>6, CallLinkType
  <2>2. k \in of(l)
    BY <1>6
  <2>3. m \in of(l) /\ m <= k
    BY <1>4, <2>2
  <2>4. m \in DOMAIN edges /\ Resolvable(nodes, edges[m]) /\ CallLink(nodes, edges[m]) = l
    BY <2>3
  <2>5. m \in Nat /\ k \in Nat
    BY <1>3, <2>4
  <2>6. ~ (m < k)
    BY <1>6, <2>4
  <2>7. m = k
    BY <2>3, <2>5, <2>6
  <2>8. first(l) = m
    BY <2>2
  <2>9. QED
    BY <1>2, <2>1, <2>7, <2>8
<1>7. QED
  BY <1>2, <1>5, <1>6 DEF edges, nodes

LEMMA AddedInOrder ==
  ASSUME NEW p \in Seq(ParsedFile), NEW order \in Orders(p), NEW n \in DOMAIN Nodes(p),
         NEW a \in DOMAIN Added(p, order), NEW b \in DOMAIN Added(p, order), a < b,
         Added(p, order)[a].from = n, Added(p, order)[b].from = n
  PROVE  FirstCall(p)[Added(p, order)[a]] < FirstCall(p)[Added(p, order)[b]]
<1> DEFINE nodes == Nodes(p)
           edges == CallGraph(p).callees
           met == Met(p, order)
           new == Added(p, order)
           first == FirstCall(p)
           from == {c \in DOMAIN met : met[c].from = n}
           to == Leaving(nodes, edges, n)
<1>1. nodes \in Seq(NodeRec) /\ edges \in Seq(EdgeRec) /\ met \in Seq(LinkRec) /\ new \in Seq(LinkRec)
  BY NodesType, CalleesType, AddedIs
<1>2. \E d : MetPlaces(p, order, n, d)
  BY MetInOrder
<1>3. PICK d : Onto(d, from, to) /\ \A c \in DOMAIN met : met[c].from = n => met[c] = CallLink(nodes, edges[d[c]])
  BY <1>2 DEF MetPlaces
<1>4. PICK at : Spots(Len(met), met, Fresh(met, {}), new, at)
  BY <1>1, PickedSpots DEF Added
<1>5. \A k \in DOMAIN edges :
        /\ Resolvable(nodes, edges[k])
        /\ \A j \in DOMAIN edges : j < k /\ Resolvable(nodes, edges[j]) =>
             CallLink(nodes, edges[j]) # CallLink(nodes, edges[k])
        => first[CallLink(nodes, edges[k])] = k
  BY FirstCallIs
<1> HIDE DEF nodes, edges, met, new, first
<1>6. DOMAIN met = 1..Len(met) /\ DOMAIN new = 1..Len(new) /\ Len(met) \in Nat /\ DOMAIN edges \subseteq Nat
  BY <1>1
<1>7. \A i \in DOMAIN new : at[i] \in DOMAIN met /\ at[i] \in Fresh(met, {}) /\ new[i] = met[at[i]]
  BY <1>4, <1>6 DEF Spots
<1>8. ASSUME NEW i \in DOMAIN new, new[i].from = n
      PROVE  at[i] \in from /\ first[new[i]] = d[at[i]]
  <2> DEFINE c == at[i]
             k == d[c]
  <2>1. c \in from /\ new[i] = met[c]
    BY <1>7, <1>8
  <2>2. k \in to /\ met[c] = CallLink(nodes, edges[k])
    BY <1>3, <2>1 DEF Onto
  <2>3. k \in DOMAIN edges /\ Resolvable(nodes, edges[k])
    BY <2>2 DEF Leaving
  <2>4. ASSUME NEW j \in DOMAIN edges, j < k, Resolvable(nodes, edges[j])
        PROVE  CallLink(nodes, edges[j]) # CallLink(nodes, edges[k])
    <3> SUFFICES ASSUME CallLink(nodes, edges[j]) = CallLink(nodes, edges[k]) PROVE FALSE
      OBVIOUS
    <3>1. j \in to
      BY <2>2, <2>3, <2>4 DEF Leaving
    <3>2. PICK b0 \in from : d[b0] = j
      BY <1>3, <3>1 DEF Onto
    <3>3. met[b0] = met[c]
      BY <1>3, <2>2, <3>2
    <3>4. b0 < c
      <4>1. b0 \in Nat /\ c \in Nat /\ j \in Nat /\ k \in Nat
        BY <1>6, <2>1, <2>3
      <4>2. b0 # c
        BY <2>4, <3>2, <4>1
      <4>3. ~ (c < b0)
        <5>1. SUFFICES ASSUME c < b0 PROVE FALSE
          OBVIOUS
        <5>2. d[c] < d[b0]
          BY <1>3, <2>1, <5>1 DEF Onto
        <5>3. QED
          BY <2>4, <3>2, <4>1, <5>2
      <4>4. QED
        BY <4>1, <4>2, <4>3
    <3>5. b0 \in 1..(c - 1)
      BY <1>6, <2>1, <3>4
    <3>6. QED
      BY <1>7, <3>3, <3>5 DEF Fresh
  <2>5. first[CallLink(nodes, edges[k])] = k
    BY <1>5, <2>3, <2>4
  <2>6. QED
    BY <2>1, <2>2, <2>5
<1>9. at[a] < at[b]
  BY <1>4, <1>6 DEF Spots, new
<1>10. new[a].from = n /\ new[b].from = n /\ a \in DOMAIN new /\ b \in DOMAIN new
  BY DEF new
<1>11. d[at[a]] < d[at[b]]
  BY <1>3, <1>8, <1>9, <1>10 DEF Onto
<1>12. first[new[a]] < first[new[b]]
  BY <1>8, <1>10, <1>11
<1>13. QED
  BY <1>12 DEF first, new

\* What follows a node.
Out(links, n) == Picked(links, {i \in DOMAIN links : links[i].from = n})

Key(p, n) == IF Nodes(p)[n].kind = "file" THEN [l \in LinkRec |-> l.to] ELSE FirstCall(p)

LEMMA OutOrdered ==
  ASSUME NEW p \in Seq(ParsedFile), NEW order \in Orders(p), NEW n \in DOMAIN Nodes(p)
  PROVE  LET out == Out(Build(p, order).links, n)
         IN  /\ out \in Seq(LinkRec)
             /\ ToSet(out) = {l \in ToSet(FileLinks(Nodes(p))) \cup Called(p) : l.from = n}
             /\ Ordered(out, Key(p, n))
<1> DEFINE nodes == Nodes(p)
           inner == FileLinks(nodes)
           new == Added(p, order)
           links == Build(p, order).links
           places == {i \in DOMAIN links : links[i].from = n}
           out == Out(links, n)
           key == Key(p, n)
<1>1. links \in Seq(LinkRec) /\ ToSet(links) = ToSet(inner) \cup Called(p)
  BY LinksType
<1>2. /\ Len(inner) \in Nat /\ Len(new) \in Nat /\ DOMAIN links = 1..(Len(inner) + Len(new))
      /\ \A k \in 1..Len(inner) : links[k] = inner[k] /\ links[k].kind # "calls"
                                  /\ nodes[links[k].from].kind = "file"
      /\ \A k \in DOMAIN links : k \notin 1..Len(inner) =>
           k - Len(inner) \in DOMAIN new /\ links[k] = new[k - Len(inner)]
  BY LinksPlaces
<1>3. /\ new \in Seq(LinkRec) /\ ToSet(new) = Called(p)
      /\ \A k \in DOMAIN new : nodes[new[k].from].kind # "file"
  BY AddedIs, CalledType DEF ToSet
<1>4. inner \in Seq(LinkRec) /\ \A i, j \in DOMAIN inner : i < j => inner[i].to < inner[j].to
  BY NodesType, FileLinksType
<1>5. out \in Seq(LinkRec) /\ ToSet(out) = {links[k] : k \in DOMAIN links \cap places}
  BY <1>1, PickedSpots, PickedSet DEF Out
<1>6. PICK at : Spots(Len(links), links, places, out, at)
  BY <1>1, PickedSpots DEF Out
<1>7. \A a, b \in DOMAIN new : a < b /\ new[a].from = n /\ new[b].from = n =>
         FirstCall(p)[new[a]] < FirstCall(p)[new[b]]
  BY AddedInOrder
<1>8. key = IF nodes[n].kind = "file" THEN [l \in LinkRec |-> l.to] ELSE FirstCall(p)
  BY DEF Key
<1> HIDE DEF nodes, inner, new, links, out, key
<1>9. ToSet(out) = {l \in ToSet(links) : l.from = n}
  BY <1>5 DEF ToSet
<1>10. DOMAIN out = 1..Len(out)
  BY <1>5
<1>11. ASSUME NEW i \in DOMAIN out, NEW j \in DOMAIN out, i < j PROVE key[out[i]] < key[out[j]]
  <2>1. /\ at[i] \in DOMAIN links /\ at[j] \in DOMAIN links /\ at[i] < at[j]
        /\ out[i] = links[at[i]] /\ out[j] = links[at[j]] /\ out[i].from = n /\ out[j].from = n
    BY <1>2, <1>6, <1>10, <1>11 DEF Spots
  <2>2. CASE nodes[n].kind = "file"
    <3>1. at[i] \in 1..Len(inner) /\ at[j] \in 1..Len(inner)
      BY <1>2, <1>3, <2>1, <2>2
    <3>2. out[i] = inner[at[i]] /\ out[j] = inner[at[j]] /\ DOMAIN inner = 1..Len(inner)
      BY <1>2, <1>4, <2>1, <3>1
    <3>3. out[i].to < out[j].to
      BY <1>4, <2>1, <3>1, <3>2
    <3>4. out[i] \in LinkRec /\ out[j] \in LinkRec
      BY <1>5
    <3>5. QED
      BY <1>8, <2>2, <3>3, <3>4
  <2>3. CASE nodes[n].kind # "file"
    <3>1. at[i] \notin 1..Len(inner) /\ at[j] \notin 1..Len(inner)
      BY <1>2, <2>1, <2>3
    <3>2. /\ at[i] - Len(inner) \in DOMAIN new /\ out[i] = new[at[i] - Len(inner)]
          /\ at[j] - Len(inner) \in DOMAIN new /\ out[j] = new[at[j] - Len(inner)]
      BY <1>2, <2>1, <3>1
    <3>3. at[i] - Len(inner) < at[j] - Len(inner)
      BY <1>2, <2>1
    <3>4. FirstCall(p)[out[i]] < FirstCall(p)[out[j]]
      BY <1>7, <2>1, <3>2, <3>3
    <3>5. QED
      BY <1>8, <2>3, <3>4
  <2>4. QED
    BY <2>2, <2>3
<1>12. Ordered(out, key)
  BY <1>11 DEF Ordered
<1>13. QED
  BY <1>1, <1>5, <1>9, <1>12 DEF out, key, links, inner, nodes

\* The nodes that a node is linked to.
Targets(p, n) == {l.to : l \in {m \in ToSet(FileLinks(Nodes(p))) \cup Called(p) : m.from = n}}

LEMMA NeighborsSame ==
  ASSUME NEW p \in Seq(ParsedFile), NEW order \in Orders(p), NEW other \in Orders(p), NEW n \in DOMAIN Nodes(p)
  PROVE  /\ Neighbors(Build(p, order), n) = Neighbors(Build(p, other), n)
         /\ Neighbors(Build(p, order), n) \in Seq(DOMAIN Nodes(p))
         /\ ToSet(Neighbors(Build(p, order), n)) = Targets(p, n)
<1> DEFINE links == Build(p, order).links
           out == Out(links, n)
           to == [i \in DOMAIN out |-> out[i].to]
<1>1. \A o \in Orders(p) :
        /\ Out(Build(p, o).links, n) \in Seq(LinkRec)
        /\ ToSet(Out(Build(p, o).links, n)) = {l \in ToSet(FileLinks(Nodes(p))) \cup Called(p) : l.from = n}
        /\ Ordered(Out(Build(p, o).links, n), Key(p, n))
  BY OutOrdered
<1>2. Key(p, n) \in [LinkRec -> Nat]
  <2>1. [l \in LinkRec |-> l.to] \in [LinkRec -> Nat]
    BY DEF LinkRec
  <2>2. FirstCall(p) \in [LinkRec -> Nat]
    BY FirstCallIs
  <2>3. QED
    BY <2>1, <2>2 DEF Key
<1>3. Out(Build(p, order).links, n) = Out(Build(p, other).links, n)
  <2> DEFINE s == Out(Build(p, order).links, n)
             t == Out(Build(p, other).links, n)
             key == Key(p, n)
  <2>1. /\ s \in Seq(LinkRec) /\ t \in Seq(LinkRec) /\ ToSet(s) = ToSet(t) /\ Ordered(s, key) /\ Ordered(t, key)
        /\ key \in [LinkRec -> Nat]
    BY <1>1, <1>2
  <2> HIDE DEF s, t, key
  <2>2. s = t
    BY <2>1, OrderedSame
  <2>3. QED
    BY <2>2 DEF s, t
<1>4. \A o \in Orders(p) : Neighbors(Build(p, o), n) =
        Reverse([i \in DOMAIN Out(Build(p, o).links, n) |-> Out(Build(p, o).links, n)[i].to])
  BY DEF Neighbors, Out
<1>5. Neighbors(Build(p, order), n) = Reverse(to)
  BY <1>4
<1>6. /\ out \in Seq(LinkRec) /\ ToSet(out) = {l \in ToSet(FileLinks(Nodes(p))) \cup Called(p) : l.from = n}
      /\ \A l \in ToSet(out) : l.to \in DOMAIN Nodes(p)
  <2>1. /\ out \in Seq(LinkRec) /\ ToSet(out) = {l \in ToSet(FileLinks(Nodes(p))) \cup Called(p) : l.from = n}
    BY <1>1
  <2>2. \A l \in ToSet(FileLinks(Nodes(p))) \cup Called(p) : l.to \in DOMAIN Nodes(p)
    BY LinksType
  <2>3. QED
    BY <2>1, <2>2
<1>7. Len(out) \in Nat /\ DOMAIN out = 1..Len(out) /\ DOMAIN to = 1..Len(out)
  BY <1>6
<1> HIDE DEF out
<1>8. to \in [1..Len(out) -> DOMAIN Nodes(p)]
  BY <1>6, <1>7 DEF ToSet
<1>9. to \in Seq(DOMAIN Nodes(p)) /\ Len(to) = Len(out)
  BY <1>7, <1>8, SeqFromFunction
<1>10. ToSet(to) = Targets(p, n)
  BY <1>6 DEF ToSet, Targets
<1> HIDE DEF to
<1>11. Reverse(to) \in Seq(DOMAIN Nodes(p)) /\ ToSet(Reverse(to)) = ToSet(to)
  <2> DEFINE r == Reverse(to)
  <2>1. r = [i \in 1..Len(to) |-> to[(Len(to) - i) + 1]]
    BY DEF Reverse
  <2>2. Len(to) \in Nat /\ DOMAIN to = 1..Len(to)
    BY <1>9
  <2>3. \A i \in 1..Len(to) : (Len(to) - i) + 1 \in 1..Len(to) /\ to[(Len(to) - i) + 1] \in DOMAIN Nodes(p)
    BY <1>9, <2>2
  <2> HIDE DEF r
  <2>4. r \in [1..Len(to) -> DOMAIN Nodes(p)]
    BY <2>1, <2>3
  <2>5. r \in Seq(DOMAIN Nodes(p)) /\ DOMAIN r = 1..Len(to)
    BY <2>2, <2>4, SeqFromFunction
  <2>6. \A i \in DOMAIN r : r[i] \in ToSet(to)
    BY <2>1, <2>2, <2>3, <2>5 DEF ToSet
  <2>7. ASSUME NEW i \in DOMAIN to PROVE to[i] \in ToSet(r)
    <3> DEFINE j == (Len(to) - i) + 1
    <3>1. j \in 1..Len(to) /\ (Len(to) - j) + 1 = i
      BY <2>2
    <3>2. r[j] = to[i]
      BY <2>1, <3>1
    <3>3. QED
      BY <2>5, <3>1, <3>2 DEF ToSet
  <2>8. ToSet(r) = ToSet(to)
    BY <2>6, <2>7 DEF ToSet
  <2>9. QED
    BY <2>5, <2>8 DEF r
<1>12. QED
  BY <1>3, <1>4, <1>5, <1>10, <1>11

-----------------------------------------------------------------------------
(* The nodes within a depth.                                                *)

\* Where the pairs lead from the nodes of a set.
Image(pairs, S) == {e[2] : e \in {d \in pairs : d[1] \in S}}

\* The sets of nodes within each depth up to n.
Balls(V, pairs, starts, n, w) ==
  /\ w \in [0..n -> SUBSET V] /\ w[0] = starts
  /\ \A k \in 1..n : w[k] = w[k - 1] \cup Image(pairs, w[k - 1])

LEMMA WithinIs ==
  ASSUME NEW V, NEW pairs \in SUBSET (V \X V), NEW starts \in SUBSET V, NEW n \in Nat
  PROVE  Balls(V, pairs, starts, n, Within(pairs, starts, n))
<1> DEFINE Step(s) == s \cup Image(pairs, s)
           F == [x \in (1..n) \X SUBSET V |-> Step(x[2])]
           Def(f) == f = [k \in 0..n |-> IF k = 0 THEN starts ELSE Step(f[k - 1])]
           w == Within(pairs, starts, n)
<1>1. n \in 0..n /\ 0 \in 0..n /\ \A k \in 1..n : k \in 0..n /\ k # 0 /\ k - 1 \in 0..n
  OBVIOUS
<1>2. \A s \in SUBSET V : Step(s) \in SUBSET V
  BY DEF Image
<1>3. F \in [(1..n) \X SUBSET V -> SUBSET V] /\ \A k \in 1..n, s \in SUBSET V : F[<<k, s>>] = Step(s)
  <2> HIDE DEF Step
  <2>1. QED
    BY <1>2
<1>4. w = CHOOSE f : Def(f)
  BY Zenon DEF Within, Image
<1> HIDE DEF F, Step, w
<1>5. PICK g : g \in [0..n -> SUBSET V] /\ g[0] = starts /\ \A k \in 1..n : g[k] = F[<<k, g[k - 1]>>]
  <2>1. \E g : Values(n, SUBSET V, starts, F, g)
    BY <1>3, RecursionIn, Zenon
  <2>2. QED
    BY <2>1 DEF Values
<1>6. \A k \in 0..n : g[k] = IF k = 0 THEN starts ELSE Step(g[k - 1])
  <2> SUFFICES ASSUME NEW k \in 0..n, k # 0 PROVE g[k] = Step(g[k - 1])
    BY <1>5
  <2>1. k \in 1..n /\ k - 1 \in 0..n
    OBVIOUS
  <2>2. QED
    BY <1>3, <1>5, <2>1
<1>7. Def(g)
  <2>1. g = [k \in 0..n |-> g[k]]
    BY <1>5
  <2>2. QED
    BY <1>6, <2>1
<1>8. Def(w)
  BY <1>4, <1>7
<1>9. w[0] = starts /\ \A k \in 1..n : w[k] = Step(w[k - 1])
  BY <1>1, <1>8
<1> DEFINE T == {k \in 0..n : w[k] \in SUBSET V}
<1>10. \A k \in 0..n : k \in T
  <2>1. 0 \in T
    BY <1>1, <1>9
  <2>2. ASSUME NEW k \in 1..n, k - 1 \in T PROVE k \in T
    BY <1>1, <1>2, <1>9, <2>2
  <2> HIDE DEF T
  <2>3. QED
    BY <2>1, <2>2, Upwards
<1>11. w \in [0..n -> SUBSET V]
  <2>1. w = [k \in 0..n |-> w[k]]
    BY <1>8
  <2>2. QED
    BY <1>10, <2>1
<1>12. QED
  BY <1>9, <1>11 DEF Balls, Step, w

\* Sets that grow along the pairs.
Growing(pairs, w, n) ==
  /\ \A k \in 1..n : w[k] = w[k - 1] \cup Image(pairs, w[k - 1])
  /\ \A j, k \in 0..n : j <= k => w[j] \subseteq w[k]

LEMMA WithinGrows ==
  ASSUME NEW V, NEW pairs \in SUBSET (V \X V), NEW starts \in SUBSET V, NEW n \in Nat
  PROVE  Growing(pairs, Within(pairs, starts, n), n)
<1> DEFINE w == Within(pairs, starts, n)
<1>1. /\ w \in [0..n -> SUBSET V] /\ w[0] = starts
      /\ \A k \in 1..n : w[k] = w[k - 1] \cup Image(pairs, w[k - 1])
  <2>1. Balls(V, pairs, starts, n, w)
    BY WithinIs
  <2>2. QED
    BY <2>1 DEF Balls
<1> HIDE DEF w
<1> DEFINE T == {k \in 0..n : \A j \in 0..n : j <= k => w[j] \subseteq w[k]}
<1>2. 0 \in T
  OBVIOUS
<1>3. ASSUME NEW k \in 1..n, k - 1 \in T PROVE k \in T
  <2>1. w[k - 1] \subseteq w[k]
    BY <1>1
  <2>2. ASSUME NEW j \in 0..n, j <= k PROVE w[j] \subseteq w[k]
    <3>1. CASE j = k
      BY <3>1
    <3>2. CASE j # k
      <4>1. j <= k - 1
        BY <2>2, <3>2
      <4>2. w[j] \subseteq w[k - 1]
        BY <1>3, <4>1
      <4>3. QED
        BY <2>1, <4>2
    <3>3. QED
      BY <3>1, <3>2
  <2>3. QED
    BY <2>2
<1>4. \A k \in 0..n : k \in T
  <2> HIDE DEF T
  <2>1. QED
    BY <1>2, <1>3, Upwards
<1>5. QED
  BY <1>1, <1>4 DEF Growing, w

\* The nearer of two nodes is met first.
Nearest(found, w, n) ==
  \A i \in DOMAIN found : \A k \in 0..n :
    found[i] \notin w[k] => \A x \in w[k] : \E j \in 1..(i - 1) : found[j] = x

\* What a search that has come to the depth d has found, and not yet followed.
Searched(N, pairs, w, n, d, found, next) ==
  /\ found \in Seq(N) /\ next \in Seq(N) /\ IsInjective(found)
  /\ ToSet(found) = w[d] /\ ToSet(next) \subseteq w[d]
  /\ Image(pairs, w[d] \ ToSet(next)) \subseteq w[d]
  /\ Nearest(found, w, n)

\* Something new at the depth d, when all that is nearer has been found.
Widens(N, pairs, w, n, d, found, next) ==
  /\ n \in Nat /\ w \in [0..n -> SUBSET N] /\ Growing(pairs, w, n) /\ d \in 1..n
  /\ found \in Seq(N) /\ IsInjective(found) /\ ToSet(found) = w[d - 1] /\ Nearest(found, w, n)
  /\ next \in Seq(N) /\ IsInjective(next) /\ ToSet(next) \subseteq w[d] \ w[d - 1]

\* New nodes of the next depth are added after those that were found.
LEMMA SearchOn ==
  ASSUME NEW N, NEW pairs, NEW w, NEW n, NEW d, NEW found, NEW next,
         Widens(N, pairs, w, n, d, found, next)
  PROVE  /\ found \o next \in Seq(N) /\ Len(found \o next) = Len(found) + Len(next)
         /\ ToSet(found \o next) = ToSet(found) \cup ToSet(next)
         /\ IsInjective(found \o next)
         /\ Nearest(found \o next, w, n)
<1> DEFINE both == found \o next
           m == Len(found)
<1> n \in Nat /\ w \in [0..n -> SUBSET N] /\ Growing(pairs, w, n) /\ d \in 1..n
    /\ found \in Seq(N) /\ IsInjective(found) /\ ToSet(found) = w[d - 1] /\ Nearest(found, w, n)
    /\ next \in Seq(N) /\ IsInjective(next) /\ ToSet(next) \subseteq w[d] \ w[d - 1]
  BY DEF Widens
<1>1. /\ both \in Seq(N) /\ Len(both) = m + Len(next) /\ m \in Nat /\ Len(next) \in Nat
      /\ \A i \in 1..(m + Len(next)) : both[i] = IF i <= m THEN found[i] ELSE next[i - m]
      /\ DOMAIN found = 1..m /\ DOMAIN next = 1..Len(next)
  BY ConcatProperties
<1>2. ToSet(both) = ToSet(found) \cup ToSet(next)
  <2>1. Range(both) = Range(found) \cup Range(next)
    BY RangeConcatenation
  <2>2. QED
    BY <2>1 DEF Range, ToSet
<1> HIDE DEF both, m
<1>3. DOMAIN both = 1..(m + Len(next))
  BY <1>1
<1>4. \A i \in 1..m : i \in DOMAIN found /\ i \in DOMAIN both /\ both[i] = found[i] /\ both[i] \in w[d - 1]
  <2>1. \A i \in 1..m : i \in 1..(m + Len(next)) /\ i <= m
    BY <1>1
  <2>2. QED
    BY <1>1, <1>3, <2>1 DEF ToSet
<1>5. \A i \in DOMAIN both : i \notin 1..m =>
        i - m \in DOMAIN next /\ both[i] = next[i - m] /\ both[i] \in w[d] /\ both[i] \notin w[d - 1]
  <2>1. \A i \in DOMAIN both : i \notin 1..m => i - m \in 1..Len(next) /\ ~ (i <= m)
    BY <1>1, <1>3
  <2>2. QED
    BY <1>1, <1>3, <2>1 DEF ToSet
<1>6. IsInjective(both)
  <2> SUFFICES ASSUME NEW i \in DOMAIN both, NEW j \in DOMAIN both, both[i] = both[j] PROVE i = j
    BY DEF IsInjective
  <2>1. CASE i \in 1..m /\ j \in 1..m
    BY <1>4, <2>1 DEF IsInjective
  <2>2. CASE i \notin 1..m /\ j \notin 1..m
    <3>1. i - m = j - m
      BY <1>5, <2>2 DEF IsInjective
    <3>2. QED
      BY <1>1, <1>3, <3>1
  <2>3. CASE i \in 1..m /\ j \notin 1..m
    BY <1>4, <1>5, <2>3
  <2>4. CASE i \notin 1..m /\ j \in 1..m
    BY <1>4, <1>5, <2>4
  <2>5. QED
    BY <2>1, <2>2, <2>3, <2>4
<1>7. Nearest(both, w, n)
  <2> SUFFICES ASSUME NEW i \in DOMAIN both, NEW k \in 0..n, both[i] \notin w[k], NEW x \in w[k]
               PROVE  \E j \in 1..(i - 1) : both[j] = x
    BY DEF Nearest
  <2>1. CASE i \in 1..m
    <3>1. PICK j \in 1..(i - 1) : found[j] = x
      BY <1>4, <2>1 DEF Nearest
    <3>2. j \in 1..m
      BY <1>1, <2>1
    <3>3. QED
      BY <1>4, <3>1, <3>2
  <2>2. CASE i \notin 1..m
    <3>1. ~ (d <= k)
      <4>1. SUFFICES ASSUME d <= k PROVE FALSE
        OBVIOUS
      <4>2. d \in 0..n
        OBVIOUS
      <4>3. w[d] \subseteq w[k]
        BY <4>1, <4>2 DEF Growing
      <4>4. QED
        BY <1>5, <2>2, <4>3
    <3>2. k <= d - 1 /\ d - 1 \in 0..n
      BY <3>1
    <3>3. w[k] \subseteq w[d - 1]
      BY <3>2 DEF Growing
    <3>4. PICK j \in 1..m : found[j] = x
      BY <1>1, <3>3 DEF ToSet
    <3>5. j \in 1..(i - 1)
      BY <1>1, <1>3, <2>2
    <3>6. QED
      BY <1>4, <3>4, <3>5
  <2>3. QED
    BY <2>1, <2>2
<1>8. QED
  BY <1>1, <1>2, <1>6, <1>7 DEF both, m

\* One level of a search, when all that is new is added.
LEMMA SearchLevel ==
  ASSUME NEW N, NEW pairs, NEW n \in Nat, NEW w \in [0..n -> SUBSET N], Growing(pairs, w, n),
         NEW d \in 1..n, NEW found, NEW last, Searched(N, pairs, w, n, d - 1, found, last),
         NEW next \in Seq(N), IsInjective(next), ToSet(next) = Image(pairs, ToSet(last)) \ ToSet(found)
  PROVE  Searched(N, pairs, w, n, d, found \o next, next)
<1>1. /\ found \in Seq(N) /\ last \in Seq(N) /\ IsInjective(found) /\ ToSet(found) = w[d - 1]
      /\ ToSet(last) \subseteq w[d - 1] /\ Image(pairs, w[d - 1] \ ToSet(last)) \subseteq w[d - 1]
      /\ Nearest(found, w, n)
  BY DEF Searched
<1>2. w[d] = w[d - 1] \cup Image(pairs, w[d - 1])
  BY DEF Growing
<1>3. w[d] = w[d - 1] \cup ToSet(next)
  BY <1>1, <1>2 DEF Image
<1>4. ToSet(next) \subseteq w[d] \ w[d - 1]
  BY <1>1, <1>3
<1>5. /\ found \o next \in Seq(N) /\ ToSet(found \o next) = w[d]
      /\ IsInjective(found \o next) /\ Nearest(found \o next, w, n)
  <2>1. ToSet(found) \cup ToSet(next) = w[d]
    BY <1>1, <1>3
  <2>2. /\ found \o next \in Seq(N) /\ ToSet(found \o next) = ToSet(found) \cup ToSet(next)
        /\ IsInjective(found \o next) /\ Nearest(found \o next, w, n)
    <3>1. Widens(N, pairs, w, n, d, found, next)
      BY <1>1, <1>4 DEF Widens
    <3>2. QED
      BY <3>1, SearchOn
  <2>3. QED
    BY <2>1, <2>2
<1>6. Image(pairs, w[d] \ ToSet(next)) \subseteq w[d]
  BY <1>1, <1>2, <1>3 DEF Image
<1>7. QED
  BY <1>3, <1>5, <1>6 DEF Searched

-----------------------------------------------------------------------------
(* bfs_frontier.                                                            *)

Levels(N) == [found : Seq(N), next : Seq(N)]

FrontierNext(neighbors, last) ==
  LET met == FlattenSeq([i \in DOMAIN last.next |-> neighbors[last.next[i]]])
      next == Picked(met, Visit(met, ToSet(last.found)))
  IN  [found |-> last.found \o next, next |-> next]

\* What a level adds: each neighbour of the nodes of the last, once.
LevelAfter(N, neighbors, last, level) ==
  /\ level \in Levels(N) /\ level.found = last.found \o level.next
  /\ level.next \in Seq(N) /\ IsInjective(level.next)
  /\ \A x : x \in ToSet(level.next) <=>
       x \notin ToSet(last.found) /\ \E y \in ToSet(last.next) : x \in ToSet(neighbors[y])

LEMMA FrontierNextIs ==
  ASSUME NEW N, NEW neighbors \in [N -> Seq(N)], NEW last \in Levels(N)
  PROVE  LevelAfter(N, neighbors, last, FrontierNext(neighbors, last))
<1> DEFINE ss == [i \in DOMAIN last.next |-> neighbors[last.next[i]]]
           met == FlattenSeq(ss)
           next == Picked(met, Visit(met, ToSet(last.found)))
<1>1. /\ last.next \in Seq(N) /\ last.found \in Seq(N) /\ Len(last.next) \in Nat
      /\ DOMAIN last.next = 1..Len(last.next) /\ \A i \in DOMAIN last.next : last.next[i] \in N
  BY DEF Levels
<1>2. ss \in Seq(Seq(N))
  <2>1. ss \in [1..Len(last.next) -> Seq(N)]
    BY <1>1
  <2> HIDE DEF ss
  <2>2. QED
    BY <1>1, <2>1, SeqFromFunction
<1>3. met \in Seq(N) /\ \A x : x \in ToSet(met) <=> \E i \in DOMAIN ss : x \in ToSet(ss[i])
  <2> HIDE DEF ss
  <2>1. QED
    BY <1>2, FlattenBlocks, FlattenedSet
<1>4. DOMAIN ss = DOMAIN last.next /\ \A i \in DOMAIN ss : ss[i] = neighbors[last.next[i]]
  OBVIOUS
<1>5. FrontierNext(neighbors, last) = [found |-> last.found \o next, next |-> next]
  BY DEF FrontierNext
<1> HIDE DEF ss, met
<1>6. \A x : x \in ToSet(met) <=> \E y \in ToSet(last.next) : x \in ToSet(neighbors[y])
  <2>1. \A y : y \in ToSet(last.next) <=> \E i \in DOMAIN last.next : last.next[i] = y
    BY DEF ToSet
  <2>2. ASSUME NEW x, x \in ToSet(met) PROVE \E y \in ToSet(last.next) : x \in ToSet(neighbors[y])
    <3>1. PICK i \in DOMAIN ss : x \in ToSet(ss[i])
      BY <1>3, <2>2
    <3>2. x \in ToSet(neighbors[last.next[i]]) /\ last.next[i] \in ToSet(last.next)
      BY <1>4, <2>1, <3>1
    <3>3. QED
      BY <3>2
  <2>3. ASSUME NEW x, NEW y \in ToSet(last.next), x \in ToSet(neighbors[y]) PROVE x \in ToSet(met)
    <3>1. PICK i \in DOMAIN last.next : last.next[i] = y
      BY <2>1
    <3>2. x \in ToSet(ss[i])
      BY <1>4, <2>3, <3>1
    <3>3. QED
      BY <1>3, <1>4, <3>2
  <2>4. QED
    BY <2>2, <2>3
<1>7. next \in Seq(N) /\ IsInjective(next) /\ ToSet(next) = ToSet(met) \ ToSet(last.found)
  BY <1>3, FreshOnce DEF Visit
<1> HIDE DEF next
<1>8. last.found \o next \in Seq(N)
  BY <1>1, <1>7, ConcatProperties
<1>9. \A x : x \in ToSet(next) <=>
        x \notin ToSet(last.found) /\ \E y \in ToSet(last.next) : x \in ToSet(neighbors[y])
  BY <1>6, <1>7
<1>10. QED
  BY <1>5, <1>7, <1>8, <1>9 DEF Levels, LevelAfter

\* The levels of the search.
Frontiers(N, neighbors, start, depth, g) ==
  /\ g \in [0..depth -> Levels(N)]
  /\ g[0] = [found |-> <<start>>, next |-> <<start>>]
  /\ \A d \in 1..depth : g[d] = FrontierNext(neighbors, g[d - 1])
  /\ Frontier(neighbors, start, depth) = g[depth].found

LEMMA FrontierLevels ==
  ASSUME NEW N, NEW neighbors \in [N -> Seq(N)], NEW start \in N, NEW depth \in Nat
  PROVE  \E g : Frontiers(N, neighbors, start, depth, g)
<1> DEFINE first == [found |-> <<start>>, next |-> <<start>>]
           F == [x \in (1..depth) \X Levels(N) |-> FrontierNext(neighbors, x[2])]
           Def(f) == f = [d \in 0..depth |-> IF d = 0 THEN first ELSE FrontierNext(neighbors, f[d - 1])]
           level == CHOOSE f : Def(f)
<1>1. depth \in 0..depth /\ 0 \in 0..depth /\ \A d \in 1..depth : d \in 0..depth /\ d # 0 /\ d - 1 \in 0..depth
  OBVIOUS
<1>2. first \in Levels(N)
  BY DEF Levels
<1>3. \A last \in Levels(N) : FrontierNext(neighbors, last) \in Levels(N)
  BY FrontierNextIs DEF LevelAfter
<1>4. /\ F \in [(1..depth) \X Levels(N) -> Levels(N)]
      /\ \A d \in 1..depth, last \in Levels(N) : F[<<d, last>>] = FrontierNext(neighbors, last)
  BY <1>3
<1>5. Frontier(neighbors, start, depth) = level[depth].found
  BY Zenon DEF Frontier, FrontierNext
<1> HIDE DEF F, first, level
<1>6. PICK g : /\ g \in [0..depth -> Levels(N)] /\ g[0] = first
               /\ \A d \in 1..depth : g[d] = F[<<d, g[d - 1]>>]
  <2>1. \E g : Values(depth, Levels(N), first, F, g)
    BY <1>2, <1>4, RecursionIn, Zenon
  <2>2. QED
    BY <2>1 DEF Values
<1>7. \A d \in 0..depth : g[d] = IF d = 0 THEN first ELSE FrontierNext(neighbors, g[d - 1])
  <2> SUFFICES ASSUME NEW d \in 0..depth, d # 0 PROVE g[d] = FrontierNext(neighbors, g[d - 1])
    BY <1>6
  <2>1. d \in 1..depth /\ d - 1 \in 0..depth
    OBVIOUS
  <2>2. QED
    BY <1>4, <1>6, <2>1
<1>8. Def(g)
  <2>1. g = [d \in 0..depth |-> g[d]]
    BY <1>6
  <2>2. QED
    BY <1>7, <2>1
<1>9. Def(level)
  BY <1>8 DEF level
<1>10. level[0] = first /\ \A d \in 1..depth : level[d] = FrontierNext(neighbors, level[d - 1])
  BY <1>1, <1>9
<1> DEFINE T == {d \in 0..depth : level[d] \in Levels(N)}
<1>11. \A d \in 0..depth : d \in T
  <2>1. 0 \in T
    BY <1>1, <1>2, <1>10
  <2>2. ASSUME NEW d \in 1..depth, d - 1 \in T PROVE d \in T
    BY <1>1, <1>3, <1>10, <2>2
  <2> HIDE DEF T
  <2>3. QED
    BY <2>1, <2>2, Upwards
<1>12. level \in [0..depth -> Levels(N)]
  <2>1. level = [d \in 0..depth |-> level[d]]
    BY <1>9
  <2>2. QED
    BY <1>11, <2>1
<1>13. Frontiers(N, neighbors, start, depth, level)
  BY <1>5, <1>10, <1>12 DEF Frontiers, first
<1>14. QED
  BY <1>13

LEMMA OneFound ==
  ASSUME NEW N, NEW start \in N
  PROVE  <<start>> \in Seq(N) /\ IsInjective(<<start>>) /\ ToSet(<<start>>) = {start}
<1>1. <<start>> \in Seq(N) /\ DOMAIN <<start>> = 1..1 /\ <<start>>[1] = start
  OBVIOUS
<1>2. QED
  BY <1>1 DEF IsInjective, ToSet

\* All that is within the depth has been found, once and nearest first.
FoundAll(N, pairs, starts, depth, found) ==
  LET w == Within(pairs, starts, depth)
  IN  /\ found \in Seq(N) /\ IsInjective(found) /\ ToSet(found) = w[depth]
      /\ Nearest(found, w, depth)

LEMMA FrontierExact ==
  ASSUME NEW N, NEW neighbors \in [N -> Seq(N)], NEW start \in N, NEW depth \in Nat,
         NEW pairs \in SUBSET (N \X N),
         \A x \in N : ToSet(neighbors[x]) = {e[2] : e \in {d \in pairs : d[1] = x}}
  PROVE  FoundAll(N, pairs, {start}, depth, Frontier(neighbors, start, depth))
<1> DEFINE w == Within(pairs, {start}, depth)
<1>1. Balls(N, pairs, {start}, depth, w) /\ Growing(pairs, w, depth)
  <2>1. {start} \in SUBSET N
    OBVIOUS
  <2>2. QED
    BY <2>1, WithinIs, WithinGrows
<1>2. PICK g : Frontiers(N, neighbors, start, depth, g)
  BY FrontierLevels
<1> HIDE DEF w
<1>3. w \in [0..depth -> SUBSET N] /\ w[0] = {start}
  BY <1>1 DEF Balls
<1>4. /\ g \in [0..depth -> Levels(N)] /\ g[0] = [found |-> <<start>>, next |-> <<start>>]
      /\ \A d \in 1..depth : g[d] = FrontierNext(neighbors, g[d - 1])
      /\ Frontier(neighbors, start, depth) = g[depth].found
  BY <1>2 DEF Frontiers
<1> DEFINE T == {d \in 0..depth : Searched(N, pairs, w, depth, d, g[d].found, g[d].next)}
<1>5. 0 \in T
  <2>1. g[0].found = <<start>> /\ g[0].next = <<start>>
    BY <1>4
  <2>2. Nearest(<<start>>, w, depth)
    <3>1. \A k \in 0..depth : start \in w[k]
      <4>1. \A k \in 0..depth : 0 <= k /\ 0 \in 0..depth
        OBVIOUS
      <4>2. QED
        BY <1>1, <1>3, <4>1 DEF Growing
    <3>2. DOMAIN <<start>> = 1..1 /\ <<start>>[1] = start
      OBVIOUS
    <3>3. QED
      BY <3>1, <3>2 DEF Nearest
  <2>3. Searched(N, pairs, w, depth, 0, <<start>>, <<start>>)
    BY <1>3, <2>2, OneFound DEF Searched, Image
  <2>4. 0 \in 0..depth
    OBVIOUS
  <2>5. QED
    BY <2>1, <2>3, <2>4
<1>6. ASSUME NEW d \in 1..depth, d - 1 \in T PROVE d \in T
  <2> DEFINE last == g[d - 1]
             next == g[d].next
  <2>1. d - 1 \in 0..depth /\ d \in 0..depth /\ last \in Levels(N) /\ g[d] = FrontierNext(neighbors, last)
    BY <1>4
  <2>2. Searched(N, pairs, w, depth, d - 1, last.found, last.next)
    BY <1>6
  <2> HIDE DEF last
  <2>3. /\ next \in Seq(N) /\ IsInjective(next) /\ g[d].found = last.found \o next
        /\ \A x : x \in ToSet(next) <=>
             x \notin ToSet(last.found) /\ \E y \in ToSet(last.next) : x \in ToSet(neighbors[y])
    <3>1. LevelAfter(N, neighbors, last, g[d])
      BY <2>1, FrontierNextIs
    <3>2. QED
      BY <3>1 DEF LevelAfter
  <2>4. ToSet(last.next) \subseteq N
    BY <2>1 DEF Levels, ToSet
  <2> HIDE DEF next
  <2>5. \A x : x \in Image(pairs, ToSet(last.next)) <=> \E y \in ToSet(last.next) : x \in ToSet(neighbors[y])
    BY <2>4 DEF Image
  <2>6. Searched(N, pairs, w, depth, d, last.found \o next, next)
    <3>1. ToSet(next) = Image(pairs, ToSet(last.next)) \ ToSet(last.found)
      BY <2>3, <2>5
    <3>2. QED
      BY <1>1, <1>3, <2>2, <2>3, <3>1, SearchLevel
  <2>7. QED
    BY <2>1, <2>3, <2>6 DEF next
<1>7. depth \in T
  <2> HIDE DEF T
  <2>1. depth \in 0..depth
    OBVIOUS
  <2>2. QED
    BY <1>5, <1>6, <2>1, Upwards
<1>8. Searched(N, pairs, w, depth, depth, Frontier(neighbors, start, depth), g[depth].next)
  BY <1>4, <1>7
<1>9. QED
  BY <1>8 DEF FoundAll, Searched, w

-----------------------------------------------------------------------------
(* blast_radius_bidirectional.                                              *)

LEMMA UptoIs ==
  ASSUME NEW X, NEW s \in Seq(X), NEW n \in Nat
  PROVE  /\ Upto(s, n) \in Seq(X) /\ Len(Upto(s, n)) = (IF n < Len(s) THEN n ELSE Len(s))
         /\ \A i \in 1..Len(Upto(s, n)) : Upto(s, n)[i] = s[i]
         /\ ToSet(Upto(s, n)) \subseteq ToSet(s)
         /\ IsInjective(s) => IsInjective(Upto(s, n))
         /\ Len(s) <= n => Upto(s, n) = s
<1> DEFINE m == IF n < Len(s) THEN n ELSE Len(s)
           u == Upto(s, n)
<1>1. m \in Nat /\ Len(s) \in Nat /\ m <= Len(s) /\ DOMAIN s = 1..Len(s)
  OBVIOUS
<1>2. u = SubSeq(s, 1, m)
  BY DEF Upto
<1> HIDE DEF m, u
<1>3. \A i \in 1..m : s[i] \in X /\ i \in DOMAIN s
  BY <1>1
<1>4. u \in Seq(X) /\ Len(u) = m /\ \A i \in 1..m : u[i] = s[i]
  <2>1. /\ SubSeq(s, 1, m) \in Seq(X) /\ Len(SubSeq(s, 1, m)) = (IF 1 <= m THEN m - 1 + 1 ELSE 0)
        /\ \A i \in 1..(m - 1 + 1) : SubSeq(s, 1, m)[i] = s[1 + i - 1]
    BY <1>1, <1>3, SubSeqProperties
  <2>2. m - 1 + 1 = m /\ (IF 1 <= m THEN m - 1 + 1 ELSE 0) = m /\ \A i \in 1..m : 1 + i - 1 = i
    BY <1>1
  <2>3. QED
    BY <1>2, <2>1, <2>2
<1>5. DOMAIN u = 1..m
  BY <1>4
<1>6. ToSet(u) \subseteq ToSet(s)
  BY <1>3, <1>4, <1>5 DEF ToSet
<1>7. IsInjective(s) => IsInjective(u)
  BY <1>3, <1>4, <1>5 DEF IsInjective
<1>8. Len(s) <= n => u = s
  <2> SUFFICES ASSUME Len(s) <= n PROVE u = s
    OBVIOUS
  <2>1. Len(s) \in Nat
    BY <1>1
  <2>2. m = Len(s)
    BY <2>1 DEF m
  <2>3. QED
    BY <1>4, <2>2, SeqEqual
<1>9. QED
  BY <1>4, <1>6, <1>7, <1>8 DEF u, m

Capped(N, max) == {l \in Levels(N) : Len(l.found) <= max}

BidirectionalNext(size, calls, max, last) ==
  LET new == CallNeighbors(calls, ToSet(last.next)) \ ToSet(last.found)
      next == Upto(Picked([k \in 1..size |-> k], new), max - Len(last.found))
  IN  [found |-> last.found \o next, next |-> next]

\* What a level adds: the new neighbours of the last, or the first of them
\* when they are too many.
LevelUpto(N, pairs, max, last, level) ==
  /\ level \in Capped(N, max) /\ level.found = last.found \o level.next
  /\ level.next \in Seq(N) /\ IsInjective(level.next)
  /\ ToSet(level.next) \subseteq Image(pairs, ToSet(last.next)) \ ToSet(last.found)
  /\ \/ Len(level.found) = max
     \/ ToSet(level.next) = Image(pairs, ToSet(last.next)) \ ToSet(last.found)
  /\ Len(last.found) = max => level.next = << >>

LEMMA BidirectionalNextIs ==
  ASSUME NEW size \in Nat, NEW calls, NEW pairs \in SUBSET ((1..size) \X (1..size)),
         \A S : CallNeighbors(calls, S) = Image(pairs, S),
         NEW max \in Nat, NEW last \in Capped(1..size, max)
  PROVE  LevelUpto(1..size, pairs, max, last, BidirectionalNext(size, calls, max, last))
<1> DEFINE N == 1..size
           new == CallNeighbors(calls, ToSet(last.next)) \ ToSet(last.found)
           all == [k \in 1..size |-> k]
           sorted == Picked(all, new)
           room == max - Len(last.found)
           next == Upto(sorted, room)
<1>1. /\ last.found \in Seq(N) /\ Len(last.found) \in Nat /\ Len(last.found) <= max
  BY DEF Capped, Levels
<1>2. room \in Nat
  BY <1>1
<1>3. new = Image(pairs, ToSet(last.next)) \ ToSet(last.found) /\ new \subseteq N
  BY DEF Image
<1>4. all \in Seq(N) /\ DOMAIN all = N /\ \A k \in N : all[k] = k
  <2>1. all \in [1..size -> N]
    OBVIOUS
  <2>2. QED
    BY <2>1, SeqFromFunction
<1> HIDE DEF new, all
<1>5. sorted \in Seq(N) /\ ToSet(sorted) = {all[k] : k \in DOMAIN all \cap new}
  BY <1>4, PickedSpots, PickedSet
<1>6. ToSet(sorted) = new
  <2>1. DOMAIN all \cap new = new /\ \A k \in new : all[k] = k
    BY <1>3, <1>4
  <2>2. QED
    BY <1>5, <2>1
<1>7. IsInjective(sorted)
  <2>1. PICK at : Spots(Len(all), all, new, sorted, at)
    BY <1>4, PickedSpots
  <2>2. DOMAIN sorted = 1..Len(sorted) /\ Len(sorted) \in Nat /\ Len(all) = size
    BY <1>4, <1>5
  <2>3. \A i \in DOMAIN sorted : at[i] \in N /\ sorted[i] = all[at[i]]
    BY <2>1, <2>2 DEF Spots
  <2>4. \A i \in DOMAIN sorted : sorted[i] = at[i] /\ at[i] \in N
    BY <1>4, <2>3
  <2>5. \A i, j \in DOMAIN sorted : i < j => at[i] < at[j]
    BY <2>1, <2>2 DEF Spots
  <2> HIDE DEF sorted
  <2>6. \A i, j \in DOMAIN sorted : i < j => sorted[i] # sorted[j]
    <3>1. \A i, j \in DOMAIN sorted : i < j => at[i] # at[j]
      BY <2>4, <2>5
    <3>2. QED
      BY <2>4, <3>1
  <2>7. \A i, j \in DOMAIN sorted : i # j => i < j \/ j < i
    BY <2>2
  <2>8. QED
    BY <2>6, <2>7 DEF IsInjective
<1>8. BidirectionalNext(size, calls, max, last) = [found |-> last.found \o next, next |-> next]
  BY DEF BidirectionalNext, new, all
<1> HIDE DEF sorted, room, next
<1>9. /\ next \in Seq(N) /\ Len(next) = (IF room < Len(sorted) THEN room ELSE Len(sorted))
      /\ ToSet(next) \subseteq new /\ IsInjective(next) /\ (Len(sorted) <= room => next = sorted)
  BY <1>2, <1>5, <1>6, <1>7, UptoIs DEF next
<1>10. last.found \o next \in Seq(N) /\ Len(last.found \o next) = Len(last.found) + Len(next)
  BY <1>1, <1>9, ConcatProperties
<1>11. Len(sorted) \in Nat /\ Len(next) <= room /\ (room < Len(sorted) => Len(next) = room)
  BY <1>2, <1>5, <1>9
<1>12. Len(last.found \o next) <= max /\ (room < Len(sorted) => Len(last.found \o next) = max)
  <2>1. Len(next) \in Nat /\ Len(last.found) \in Nat
    BY <1>1, <1>9
  <2>2. room = max - Len(last.found)
    BY DEF room
  <2>3. QED
    BY <1>10, <1>11, <2>1, <2>2
<1>13. Len(last.found \o next) = max \/ ToSet(next) = new
  BY <1>2, <1>6, <1>9, <1>11, <1>12
<1>14. Len(last.found) = max => next = << >>
  <2>1. Len(last.found) = max => Len(next) = 0
    BY <1>1, <1>9, <1>11 DEF room
  <2>2. QED
    BY <1>9, <2>1, EmptySeq
<1>15. QED
  BY <1>3, <1>8, <1>9, <1>10, <1>12, <1>13, <1>14 DEF LevelUpto, Capped, Levels

\* The levels of the search.
Bidirectionals(size, calls, seeds, max, depth, g) ==
  /\ g \in [0..depth -> Capped(1..size, max)]
  /\ g[0] = [found |-> Upto(Distinct(seeds), max), next |-> Upto(Distinct(seeds), max)]
  /\ \A d \in 1..depth : g[d] = BidirectionalNext(size, calls, max, g[d - 1])
  /\ Bidirectional(size, calls, seeds, max, depth) = g[depth].found

LEMMA SeedsType ==
  ASSUME NEW N, NEW seeds \in Seq(N), NEW max \in Nat
  PROVE  LET first == Upto(Distinct(seeds), max)
         IN  first \in Seq(N) /\ IsInjective(first) /\ Len(first) <= max
<1> DEFINE s == Distinct(seeds)
<1>1. s \in Seq(N) /\ IsInjective(s)
  BY FreshOnce DEF Distinct
<1> HIDE DEF s
<1>2. /\ Upto(s, max) \in Seq(N) /\ IsInjective(Upto(s, max))
      /\ Len(Upto(s, max)) = (IF max < Len(s) THEN max ELSE Len(s))
  BY <1>1, UptoIs
<1>3. Len(s) \in Nat
  BY <1>1
<1>4. QED
  BY <1>2, <1>3 DEF s

LEMMA BidirectionalLevels ==
  ASSUME NEW size \in Nat, NEW calls, NEW pairs \in SUBSET ((1..size) \X (1..size)),
         \A S : CallNeighbors(calls, S) = Image(pairs, S),
         NEW max \in Nat, NEW seeds \in Seq(1..size), NEW depth \in Nat
  PROVE  \E g : Bidirectionals(size, calls, seeds, max, depth, g)
<1> DEFINE C == Capped(1..size, max)
           first == [found |-> Upto(Distinct(seeds), max), next |-> Upto(Distinct(seeds), max)]
           Step(last) == BidirectionalNext(size, calls, max, last)
           F == [x \in (1..depth) \X C |-> Step(x[2])]
           Def(f) == f = [d \in 0..depth |-> IF d = 0 THEN first ELSE Step(f[d - 1])]
           level == CHOOSE f : Def(f)
<1>1. depth \in 0..depth /\ 0 \in 0..depth /\ \A d \in 1..depth : d \in 0..depth /\ d # 0 /\ d - 1 \in 0..depth
  OBVIOUS
<1>2. first \in C
  BY SeedsType DEF Levels, Capped
<1>3. \A last \in C : Step(last) \in C
  BY BidirectionalNextIs DEF LevelUpto
<1>4. Bidirectional(size, calls, seeds, max, depth) = level[depth].found
  BY Zenon DEF Bidirectional, BidirectionalNext
<1> HIDE DEF Step, first, C
<1>5. F \in [(1..depth) \X C -> C] /\ \A d \in 1..depth, last \in C : F[<<d, last>>] = Step(last)
  BY <1>3
<1> HIDE DEF F, level
<1>6. PICK g : g \in [0..depth -> C] /\ g[0] = first /\ \A d \in 1..depth : g[d] = F[<<d, g[d - 1]>>]
  <2>1. \E g : Values(depth, C, first, F, g)
    BY <1>2, <1>5, RecursionIn, Zenon
  <2>2. QED
    BY <2>1 DEF Values
<1>7. \A d \in 0..depth : g[d] = IF d = 0 THEN first ELSE Step(g[d - 1])
  <2> SUFFICES ASSUME NEW d \in 0..depth, d # 0 PROVE g[d] = Step(g[d - 1])
    BY <1>6
  <2>1. d \in 1..depth /\ d - 1 \in 0..depth
    OBVIOUS
  <2>2. QED
    BY <1>5, <1>6, <2>1
<1>8. Def(g)
  <2>1. g = [d \in 0..depth |-> g[d]]
    BY <1>6
  <2>2. QED
    BY <1>7, <2>1
<1>9. Def(level)
  BY <1>8 DEF level
<1>10. level[0] = first /\ \A d \in 1..depth : level[d] = Step(level[d - 1])
  BY <1>1, <1>9
<1> DEFINE T == {d \in 0..depth : level[d] \in C}
<1>11. \A d \in 0..depth : d \in T
  <2>1. 0 \in T
    BY <1>1, <1>2, <1>10
  <2>2. ASSUME NEW d \in 1..depth, d - 1 \in T PROVE d \in T
    BY <1>1, <1>3, <1>10, <2>2
  <2> HIDE DEF T
  <2>3. QED
    BY <2>1, <2>2, Upwards
<1>12. level \in [0..depth -> C]
  <2>1. level = [d \in 0..depth |-> level[d]]
    BY <1>9
  <2>2. QED
    BY <1>11, <2>1
<1>13. Bidirectionals(size, calls, seeds, max, depth, level)
  BY <1>4, <1>10, <1>12 DEF Bidirectionals, first, Step, C
<1>14. QED
  BY <1>13

\* What the search has come to at a depth: all there is, or as many as it may.
SearchedUpto(N, pairs, w, n, d, max, found, next) ==
  \/ Searched(N, pairs, w, n, d, found, next)
  \/ /\ found \in Seq(N) /\ next \in Seq(N) /\ IsInjective(found)
     /\ Len(found) = max /\ ToSet(found) \subseteq w[d] /\ Nearest(found, w, n)

\* As many as there may be, or all that is within the depth.
FoundUpto(N, pairs, starts, depth, max, found) ==
  LET w == Within(pairs, starts, depth)
  IN  /\ found \in Seq(N) /\ IsInjective(found) /\ ToSet(found) \subseteq w[depth]
      /\ Nearest(found, w, depth) /\ Len(found) <= max
      /\ Len(found) = max \/ ToSet(found) = w[depth]

LEMMA BidirectionalExact ==
  ASSUME NEW size \in Nat, NEW calls, NEW pairs \in SUBSET ((1..size) \X (1..size)),
         \A S : CallNeighbors(calls, S) = Image(pairs, S),
         NEW max \in Nat, NEW seeds \in Seq(1..size), NEW depth \in Nat
  PROVE  FoundUpto(1..size, pairs, ToSet(Upto(Distinct(seeds), max)), depth, max,
                   Bidirectional(size, calls, seeds, max, depth))
<1> DEFINE N == 1..size
           first == Upto(Distinct(seeds), max)
           starts == ToSet(first)
           w == Within(pairs, starts, depth)
<1>1. first \in Seq(N) /\ IsInjective(first) /\ Len(first) <= max
  BY SeedsType
<1>2. PICK g : Bidirectionals(size, calls, seeds, max, depth, g)
  BY BidirectionalLevels
<1> HIDE DEF first
<1>3. Balls(N, pairs, starts, depth, w) /\ Growing(pairs, w, depth)
  <2>1. starts \in SUBSET N
    BY <1>1 DEF ToSet
  <2> HIDE DEF starts
  <2>2. QED
    BY <2>1, WithinIs, WithinGrows
<1> HIDE DEF w
<1>4. w \in [0..depth -> SUBSET N] /\ w[0] = starts
  BY <1>3 DEF Balls
<1>5. /\ g \in [0..depth -> Capped(N, max)] /\ g[0] = [found |-> first, next |-> first]
      /\ \A d \in 1..depth : g[d] = BidirectionalNext(size, calls, max, g[d - 1])
      /\ Bidirectional(size, calls, seeds, max, depth) = g[depth].found
  BY <1>2 DEF Bidirectionals, first
<1> DEFINE Inv(d) == SearchedUpto(N, pairs, w, depth, d, max, g[d].found, g[d].next)
           T == {d \in 0..depth : Inv(d)}
<1>6. 0 \in T
  <2>1. g[0].found = first /\ g[0].next = first /\ 0 \in 0..depth
    BY <1>5
  <2>2. Nearest(first, w, depth)
    <3>1. \A k \in 0..depth : starts \subseteq w[k]
      <4>1. \A k \in 0..depth : 0 <= k /\ 0 \in 0..depth
        OBVIOUS
      <4>2. QED
        BY <1>3, <1>4, <4>1 DEF Growing
    <3>2. \A i \in DOMAIN first : first[i] \in starts
      BY DEF ToSet
    <3>3. QED
      BY <3>1, <3>2 DEF Nearest
  <2>3. Searched(N, pairs, w, depth, 0, first, first)
    BY <1>1, <1>4, <2>2 DEF Searched, Image
  <2>4. QED
    BY <2>1, <2>3 DEF SearchedUpto
<1>7. ASSUME NEW d \in 1..depth, d - 1 \in T PROVE d \in T
  <2> DEFINE last == g[d - 1]
             level == g[d]
             next == level.next
  <2>1. d - 1 \in 0..depth /\ d \in 0..depth /\ last \in Capped(N, max)
        /\ level = BidirectionalNext(size, calls, max, last)
    BY <1>5
  <2>2. SearchedUpto(N, pairs, w, depth, d - 1, max, last.found, last.next)
    BY <1>7
  <2>3. LevelUpto(N, pairs, max, last, level)
    <3> HIDE DEF last, level
    <3>1. QED
      BY <2>1, BidirectionalNextIs
  <2>4. w[d - 1] \subseteq w[d] /\ w[d] = w[d - 1] \cup Image(pairs, w[d - 1])
    BY <1>3 DEF Growing
  <2> HIDE DEF last, level
  <2>5. /\ level.found = last.found \o next /\ next \in Seq(N) /\ IsInjective(next)
        /\ ToSet(next) \subseteq Image(pairs, ToSet(last.next)) \ ToSet(last.found)
        /\ \/ Len(level.found) = max
           \/ ToSet(next) = Image(pairs, ToSet(last.next)) \ ToSet(last.found)
        /\ Len(last.found) = max => next = << >>
    BY <2>3 DEF LevelUpto
  <2> HIDE DEF next
  <2>6. CASE Len(last.found) = max /\ last.found \in Seq(N) /\ IsInjective(last.found)
             /\ ToSet(last.found) \subseteq w[d - 1] /\ Nearest(last.found, w, depth)
    <3>1. level.found = last.found
      BY <2>5, <2>6, ConcatEmptySeq
    <3>2. SearchedUpto(N, pairs, w, depth, d, max, level.found, next)
      BY <2>4, <2>5, <2>6, <3>1 DEF SearchedUpto
    <3>3. QED
      BY <2>1, <3>2 DEF level, next
  <2>7. CASE Searched(N, pairs, w, depth, d - 1, last.found, last.next)
    <3>1. CASE ToSet(next) = Image(pairs, ToSet(last.next)) \ ToSet(last.found)
      <4>1. Searched(N, pairs, w, depth, d, last.found \o next, next)
        BY <1>3, <1>4, <2>5, <2>7, <3>1, SearchLevel
      <4>2. SearchedUpto(N, pairs, w, depth, d, max, level.found, next)
        BY <2>5, <4>1 DEF SearchedUpto
      <4>3. QED
        BY <2>1, <4>2 DEF level, next
    <3>2. CASE Len(level.found) = max
      <4>1. /\ last.found \in Seq(N) /\ IsInjective(last.found) /\ ToSet(last.found) = w[d - 1]
            /\ ToSet(last.next) \subseteq w[d - 1] /\ Nearest(last.found, w, depth)
        BY <2>7 DEF Searched
      <4>2. Image(pairs, ToSet(last.next)) \subseteq Image(pairs, w[d - 1])
        BY <4>1 DEF Image
      <4>3. ToSet(next) \subseteq w[d] \ w[d - 1]
        BY <2>4, <2>5, <4>1, <4>2
      <4>4. Widens(N, pairs, w, depth, d, last.found, next)
        BY <1>3, <1>4, <2>5, <4>1, <4>3 DEF Widens
      <4>5. /\ level.found \in Seq(N) /\ ToSet(level.found) = ToSet(last.found) \cup ToSet(next)
            /\ IsInjective(level.found) /\ Nearest(level.found, w, depth)
        BY <2>5, <4>4, SearchOn
      <4>6. ToSet(level.found) \subseteq w[d]
        BY <2>4, <4>1, <4>3, <4>5
      <4>7. SearchedUpto(N, pairs, w, depth, d, max, level.found, next)
        BY <2>5, <3>2, <4>5, <4>6 DEF SearchedUpto
      <4>8. QED
        BY <2>1, <4>7 DEF level, next
    <3>3. QED
      BY <2>5, <3>1, <3>2
  <2>8. QED
    BY <2>2, <2>6, <2>7 DEF SearchedUpto
<1>8. Inv(depth)
  <2>1. \A d \in 0..depth : d \in T
    <3> HIDE DEF T
    <3>1. QED
      BY <1>6, <1>7, Upwards
  <2>2. depth \in 0..depth
    OBVIOUS
  <2>3. QED
    BY <2>1, <2>2
<1> DEFINE found == Bidirectional(size, calls, seeds, max, depth)
<1>9. SearchedUpto(N, pairs, w, depth, depth, max, found, g[depth].next)
  BY <1>5, <1>8
<1>10. Len(found) <= max
  <2>1. depth \in 0..depth
    OBVIOUS
  <2>2. QED
    BY <1>5, <2>1 DEF Capped
<1> HIDE DEF found
<1>11. QED
  BY <1>9, <1>10 DEF FoundUpto, SearchedUpto, Searched, w, starts, first, found

-----------------------------------------------------------------------------
(* The nodes of a query.                                                    *)

AllLinks(p) == ToSet(FileLinks(Nodes(p))) \cup Called(p)

LEMMA SetOfSeq ==
  ASSUME NEW X, NEW s \in Seq(X)
  PROVE  ToSet(s) \subseteq X
BY DEF ToSet

LEMMA BuiltAlike ==
  ASSUME NEW p \in Seq(ParsedFile), NEW order \in Orders(p)
  PROVE  /\ Build(p, order).nodes = Nodes(p)
         /\ Nodes(p) \in Seq(NodeRec)
         /\ ToSet(Build(p, order).links) = AllLinks(p)
         /\ \A l \in AllLinks(p) : l.from \in DOMAIN Nodes(p) /\ l.to \in DOMAIN Nodes(p) /\ l \in LinkRec
<1>1. Build(p, order).nodes = Nodes(p)
  BY BuildIs
<1>2. Build(p, order).links \in Seq(LinkRec)
  BY LinksType
<1>3. \A l \in ToSet(Build(p, order).links) : l \in LinkRec
  BY <1>2, SetOfSeq
<1>4. QED
  BY <1>1, <1>3, LinksType, NodesType DEF AllLinks

LEMMA SelectedSame ==
  ASSUME NEW p \in Seq(ParsedFile), NEW order \in Orders(p), NEW other \in Orders(p), NEW q
  PROVE  /\ Selected(Build(p, order), q) = Selected(Build(p, other), q)
         /\ SymbolMissing(Build(p, order), q) <=> SymbolMissing(Build(p, other), q)
<1> DEFINE g == Build(p, order)
           h == Build(p, other)
<1>1. g.nodes = h.nodes /\ g.nodes = Nodes(p) /\ ToSet(g.links) = ToSet(h.links)
  BY BuiltAlike
<1>2. [n \in DOMAIN g.nodes |-> Neighbors(g, n)] = [n \in DOMAIN h.nodes |-> Neighbors(h, n)]
  <2>1. \A n \in DOMAIN Nodes(p) : Neighbors(g, n) = Neighbors(h, n)
    BY NeighborsSame
  <2> HIDE DEF g, h
  <2>2. QED
    BY <1>1, <2>1
<1> HIDE DEF g, h
<1>3. CallsOf(g) = CallsOf(h) /\ FindSymbols(g, q.symbols) = FindSymbols(h, q.symbols)
  BY <1>1 DEF CallsOf, FindSymbols
<1>4. Selected(g, q) = Selected(h, q)
  BY <1>1, <1>2, <1>3 DEF Selected
<1>5. QED
  BY <1>1, <1>4 DEF SymbolMissing, g, h

LEMMA SymbolsFound ==
  ASSUME NEW p \in Seq(ParsedFile), NEW order \in Orders(p), NEW X, NEW names \in Seq(X)
  PROVE  FindSymbols(Build(p, order), names) \in Seq(DOMAIN Nodes(p))
<1> DEFINE g == Build(p, order)
           places == {i \in DOMAIN names : Bucket(g.nodes, names[i]) # {}}
           found == Picked(names, places)
           seeds == [i \in DOMAIN found |-> Min(Bucket(g.nodes, found[i]))]
<1>1. g.nodes = Nodes(p) /\ Nodes(p) \in Seq(NodeRec)
  BY BuiltAlike
<1>2. found \in Seq(X) /\ ToSet(found) = {names[k] : k \in DOMAIN names \cap places}
  BY PickedSpots, PickedSet
<1>3. FindSymbols(g, names) = seeds
  BY DEF FindSymbols
<1> HIDE DEF found, g
<1>4. Len(found) \in Nat /\ DOMAIN found = 1..Len(found)
  BY <1>2
<1>5. \A i \in DOMAIN found : Bucket(g.nodes, found[i]) # {}
  BY <1>2 DEF ToSet
<1>6. \A i \in DOMAIN found : Min(Bucket(g.nodes, found[i])) \in DOMAIN Nodes(p)
  <2> SUFFICES ASSUME NEW i \in DOMAIN found
               PROVE  Min(Bucket(g.nodes, found[i])) \in DOMAIN Nodes(p)
    OBVIOUS
  <2> DEFINE S == Bucket(g.nodes, found[i])
  <2>1. S \subseteq DOMAIN Nodes(p) /\ S # {} /\ S \in SUBSET Nat
    BY <1>1, <1>5 DEF Bucket
  <2> HIDE DEF S
  <2>2. Min(S) \in S
    BY <2>1, MinLeast
  <2>3. QED
    BY <2>1, <2>2 DEF S
<1>7. seeds \in [1..Len(found) -> DOMAIN Nodes(p)]
  BY <1>4, <1>6
<1>8. seeds \in Seq(DOMAIN Nodes(p))
  BY <1>4, <1>7, SeqFromFunction
<1>9. QED
  BY <1>3, <1>8 DEF g

\* What an answer is: the nodes of the query within the depth, nearest first.
Answers(g, q, nodes) ==
  LET w == Within(Steps(g, q), StartNodes(g, q), Radius(q))
      ball == w[Radius(q)]
  IN  /\ nodes \in Seq(Nat) /\ IsInjective(nodes) /\ ToSet(nodes) \subseteq ball
      /\ Nearest(nodes, w, Radius(q))
      /\ IF q.kind = "bidirectional"
         THEN Len(nodes) = Min({Cardinality(ball), q.maxNodes})
         ELSE ToSet(nodes) = ball

LEMMA RequestType ==
  ASSUME NEW q \in GraphRequests
  PROVE  q.symbols \in Seq(DOMAIN Bare) /\ q.depth \in Nat /\ q.maxNodes \in Nat /\ Radius(q) \in Nat
BY GraphAssumption DEF Radius

LEMMA CountIs ==
  ASSUME NEW N, NEW s \in Seq(N), IsInjective(s)
  PROVE  IsFiniteSet(ToSet(s)) /\ Cardinality(ToSet(s)) = Len(s)
<1>1. Len(s) \in Nat /\ DOMAIN s = 1..Len(s)
  OBVIOUS
<1>2. s \in [1..Len(s) -> ToSet(s)]
  BY <1>1 DEF ToSet
<1>3. s \in Bijection(1..Len(s), ToSet(s))
  BY <1>1, <1>2 DEF Bijection, Injection, Surjection, ToSet
<1>4. ExistsBijection(1..Len(s), ToSet(s))
  BY <1>3 DEF ExistsBijection
<1>5. QED
  BY <1>1, <1>4, FS_CountingElements, FS_NatBijection

LEMMA BidirectionalAnswers ==
  ASSUME NEW p \in Seq(ParsedFile), NEW order \in Orders(p), NEW q \in GraphRequests,
         q.kind = "bidirectional"
  PROVE  Answers(Build(p, order), q, Selected(Build(p, order), q))
<1> DEFINE g == Build(p, order)
           size == Len(g.nodes)
           calls == CallsOf(g)
           seeds == FindSymbols(g, q.symbols)
           pairs == Steps(g, q)
           max == q.maxNodes
           found == Bidirectional(size, calls, seeds, max, q.depth)
           starts == ToSet(Upto(Distinct(seeds), max))
           w == Within(pairs, starts, q.depth)
           ball == w[q.depth]
<1>1. q.symbols \in Seq(DOMAIN Bare) /\ q.depth \in Nat /\ max \in Nat /\ Radius(q) = q.depth
  BY RequestType DEF Radius
<1>2. /\ g.nodes = Nodes(p) /\ Nodes(p) \in Seq(NodeRec)
      /\ \A l \in calls : l.from \in DOMAIN Nodes(p) /\ l.to \in DOMAIN Nodes(p)
  BY BuiltAlike DEF CallsOf
<1>3. size \in Nat /\ DOMAIN Nodes(p) = 1..size
  BY <1>2
<1>4. seeds \in Seq(1..size)
  BY <1>1, <1>3, SymbolsFound
<1>5. pairs = {<<l.from, l.to>> : l \in calls} \cup Swap({<<l.from, l.to>> : l \in calls})
  BY DEF Steps
<1>6. starts = StartNodes(g, q) /\ found = Selected(g, q)
  BY DEF StartNodes, Selected
<1> HIDE DEF calls, seeds, size, pairs
<1>7. \A x : x \in pairs <=> \E l \in calls : x = <<l.from, l.to>> \/ x = <<l.to, l.from>>
  <2> DEFINE P == {<<l.from, l.to>> : l \in calls}
  <2>1. \A x : x \in Swap(P) <=> \E e \in P : x = <<e[2], e[1]>>
    BY DEF Swap
  <2>2. \A x : x \in P <=> \E l \in calls : x = <<l.from, l.to>>
    OBVIOUS
  <2>3. \A x : x \in Swap(P) <=> \E l \in calls : x = <<l.to, l.from>>
    <3> HIDE DEF P
    <3>1. ASSUME NEW l \in calls PROVE <<l.to, l.from>> \in Swap(P)
      <4>1. <<l.from, l.to>> \in P
        BY <2>2
      <4>2. QED
        BY <2>1, <4>1
    <3>2. ASSUME NEW x \in Swap(P) PROVE \E l \in calls : x = <<l.to, l.from>>
      <4>1. PICK e \in P : x = <<e[2], e[1]>>
        BY <2>1
      <4>2. PICK l \in calls : e = <<l.from, l.to>>
        BY <2>2
      <4>3. QED
        BY <4>1, <4>2
    <3>3. QED
      BY <3>1, <3>2
  <2>4. QED
    BY <1>5, <2>3
<1>8. pairs \in SUBSET ((1..size) \X (1..size))
  BY <1>2, <1>3, <1>7
<1>9. ASSUME NEW S PROVE CallNeighbors(calls, S) = Image(pairs, S)
  <2>1. \A x : x \in Image(pairs, S) <=> \E e \in pairs : e[1] \in S /\ e[2] = x
    BY DEF Image
  <2>2. \A x : x \in CallNeighbors(calls, S) <=>
          \E l \in calls : (l.from \in S /\ l.to = x) \/ (l.to \in S /\ l.from = x)
    BY DEF CallNeighbors
  <2>3. \A l \in calls : <<l.from, l.to>> \in pairs /\ <<l.to, l.from>> \in pairs
    BY <1>7
  <2>4. \A x : (\E e \in pairs : e[1] \in S /\ e[2] = x) <=>
          \E l \in calls : (l.from \in S /\ l.to = x) \/ (l.to \in S /\ l.from = x)
    <3>1. ASSUME NEW x, NEW l \in calls, (l.from \in S /\ l.to = x) \/ (l.to \in S /\ l.from = x)
          PROVE  \E e \in pairs : e[1] \in S /\ e[2] = x
      <4>1. CASE l.from \in S /\ l.to = x
        BY <2>3, <4>1
      <4>2. CASE l.to \in S /\ l.from = x
        BY <2>3, <4>2
      <4>3. QED
        BY <3>1, <4>1, <4>2
    <3>2. ASSUME NEW x, NEW e \in pairs, e[1] \in S /\ e[2] = x
          PROVE  \E l \in calls : (l.from \in S /\ l.to = x) \/ (l.to \in S /\ l.from = x)
      <4>1. PICK l \in calls : e = <<l.from, l.to>> \/ e = <<l.to, l.from>>
        BY <1>7
      <4>2. QED
        BY <3>2, <4>1
    <3>3. QED
      BY <3>1, <3>2
  <2>5. QED
    BY <2>1, <2>2, <2>4
<1>10. /\ found \in Seq(1..size) /\ IsInjective(found) /\ ToSet(found) \subseteq ball
       /\ Nearest(found, w, q.depth) /\ Len(found) <= max
       /\ Len(found) = max \/ ToSet(found) = ball
  <2>1. FoundUpto(1..size, pairs, starts, q.depth, max, found)
    BY <1>1, <1>3, <1>4, <1>8, <1>9, BidirectionalExact
  <2>2. QED
    BY <2>1 DEF FoundUpto
<1>11. ball \subseteq 1..size
  <2>1. starts \in SUBSET (1..size)
    <3>1. Upto(Distinct(seeds), max) \in Seq(1..size)
      BY <1>1, <1>4, SeedsType
    <3>2. QED
      BY <3>1, SetOfSeq
  <2> HIDE DEF starts
  <2>2. Balls(1..size, pairs, starts, q.depth, w)
    BY <1>1, <1>8, <2>1, WithinIs
  <2>3. q.depth \in 0..q.depth
    BY <1>1
  <2>4. QED
    BY <2>2, <2>3 DEF Balls
<1> HIDE DEF found, ball
<1>12. IsFiniteSet(ToSet(found)) /\ Cardinality(ToSet(found)) = Len(found)
  BY <1>10, CountIs
<1>13. IsFiniteSet(ball) /\ Cardinality(ball) \in Nat
  <2>1. IsFiniteSet(1..size)
    BY <1>3, FS_Interval
  <2>2. IsFiniteSet(ball)
    BY <1>11, <2>1, FS_Subset
  <2>3. QED
    BY <2>2, FS_CardinalityType
<1>14. Len(found) <= Cardinality(ball)
  BY <1>10, <1>12, <1>13, FS_Subset
<1>15. Len(found) = Min({Cardinality(ball), max})
  <2> DEFINE c == Cardinality(ball)
             S == {c, max}
  <2>1. Len(found) \in S
    <3>1. CASE Len(found) = max
      BY <3>1
    <3>2. CASE ToSet(found) = ball
      BY <1>12, <3>2
    <3>3. QED
      BY <1>10, <3>1, <3>2
  <2>2. c \in Nat /\ max \in Nat /\ Len(found) <= c /\ Len(found) <= max
    BY <1>1, <1>10, <1>13, <1>14
  <2>3. Len(found) \in Nat
    BY <1>10
  <2> HIDE DEF c
  <2>4. S \in SUBSET Nat /\ S # {}
    BY <2>2
  <2>5. Min(S) \in S /\ \A x \in S : Min(S) <= x
    <3> HIDE DEF S
    <3>1. QED
      BY <2>4, MinLeast
  <2>6. Min(S) = Len(found)
    BY <2>1, <2>2, <2>3, <2>5
  <2>7. QED
    BY <2>6 DEF c
<1>16. found \in Seq(Nat)
  BY <1>3, <1>10, SeqMonotonic
<1>17. QED
  BY <1>1, <1>6, <1>10, <1>15, <1>16 DEF Answers, ball, g, found, w, pairs

LEMMA FrontierAnswers ==
  ASSUME NEW p \in Seq(ParsedFile), NEW order \in Orders(p), NEW q \in GraphRequests,
         q.kind # "bidirectional", ~ SymbolMissing(Build(p, order), q)
  PROVE  Answers(Build(p, order), q, Selected(Build(p, order), q))
<1> DEFINE g == Build(p, order)
           N == DOMAIN Nodes(p)
           neighbors == [n \in DOMAIN g.nodes |-> Neighbors(g, n)]
           bucket == Bucket(g.nodes, q.symbols[1])
           start == Min(bucket)
           depth == Radius(q)
           pairs == Steps(g, q)
           found == Frontier(neighbors, start, depth)
           w == Within(pairs, {start}, depth)
<1>1. depth \in Nat /\ depth = (IF q.kind = "subgraph" THEN 2 ELSE q.depth)
  BY RequestType DEF Radius
<1>2. /\ g.nodes = Nodes(p) /\ Nodes(p) \in Seq(NodeRec) /\ ToSet(g.links) = AllLinks(p)
      /\ \A l \in AllLinks(p) : l.from \in N /\ l.to \in N
  BY BuiltAlike
<1>3. start \in N
  <2>1. bucket \in SUBSET Nat /\ bucket # {} /\ bucket \subseteq N
    BY <1>2 DEF SymbolMissing, Bucket
  <2> HIDE DEF bucket
  <2>2. QED
    BY <2>1, MinLeast
<1>4. pairs = {<<l.from, l.to>> : l \in AllLinks(p)}
  BY <1>2 DEF Steps
<1>5. {start} = StartNodes(g, q) /\ found = Selected(g, q)
  BY <1>1 DEF StartNodes, Selected
<1>6. neighbors \in [N -> Seq(N)] /\ \A x \in N : neighbors[x] = Neighbors(g, x) /\ ToSet(neighbors[x]) = Targets(p, x)
  BY <1>2, NeighborsSame
<1> HIDE DEF g, start, depth, pairs, neighbors
<1>7. pairs \in SUBSET (N \X N)
  BY <1>2, <1>4
<1>8. \A x \in N : ToSet(neighbors[x]) = {e[2] : e \in {d \in pairs : d[1] = x}}
  <2> SUFFICES ASSUME NEW x \in N PROVE Targets(p, x) = {e[2] : e \in {d \in pairs : d[1] = x}}
    BY <1>6
  <2>1. Targets(p, x) = {l.to : l \in {m \in AllLinks(p) : m.from = x}}
    BY DEF Targets, AllLinks
  <2>2. \A y : y \in {e[2] : e \in {d \in pairs : d[1] = x}} <=> \E e \in pairs : e[1] = x /\ e[2] = y
    OBVIOUS
  <2>3. \A y : y \in Targets(p, x) <=> \E l \in AllLinks(p) : l.from = x /\ l.to = y
    BY <2>1
  <2>4. \A y : (\E e \in pairs : e[1] = x /\ e[2] = y) <=> \E l \in AllLinks(p) : l.from = x /\ l.to = y
    <3>1. ASSUME NEW y, NEW e \in pairs, e[1] = x, e[2] = y
          PROVE  \E l \in AllLinks(p) : l.from = x /\ l.to = y
      <4>1. PICK l \in AllLinks(p) : e = <<l.from, l.to>>
        BY <1>4
      <4>2. QED
        BY <3>1, <4>1
    <3>2. ASSUME NEW y, NEW l \in AllLinks(p), l.from = x, l.to = y
          PROVE  \E e \in pairs : e[1] = x /\ e[2] = y
      <4>1. <<l.from, l.to>> \in pairs
        BY <1>4
      <4>2. QED
        BY <3>2, <4>1
    <3>3. QED
      BY <3>1, <3>2
  <2>5. QED
    BY <2>2, <2>3, <2>4
<1> HIDE DEF N
<1>9. /\ found \in Seq(N) /\ IsInjective(found) /\ ToSet(found) = w[depth]
      /\ Nearest(found, w, depth)
  <2>1. FoundAll(N, pairs, {start}, depth, found)
    BY <1>1, <1>3, <1>6, <1>7, <1>8, FrontierExact
  <2>2. QED
    BY <2>1 DEF FoundAll
<1>10. found \in Seq(Nat)
  <2>1. N \subseteq Nat
    BY <1>2 DEF N
  <2>2. QED
    BY <1>9, <2>1, SeqMonotonic
<1>11. QED
  BY <1>5, <1>9, <1>10 DEF Answers, g, found, w, depth, pairs

-----------------------------------------------------------------------------
(* The pages of a resource.                                                 *)

GraphOf(p) == Build(p, CHOOSE order \in Orders(p) : TRUE)

PageRec ==
  [nodes : Seq(Nat), edges : SUBSET [source : Nat, target : Nat, kind : {"contains", "imports", "calls"}]]

\* The edges of a page are the links between its nodes.
OnPage(links, page) ==
  /\ \A e \in page.edges : {e.source, e.target} \subseteq DOMAIN page.nodes
  /\ {<<page.nodes[e.source], page.nodes[e.target], e.kind>> : e \in page.edges} =
       {<<l.from, l.to, l.kind>> :
          l \in {m \in links : m.from \in ToSet(page.nodes) /\ m.to \in ToSet(page.nodes)}}

\* A walk that has read a prefix of the answer.
Reading(p, w) ==
  LET all == Selected(GraphOf(p), w.query)
  IN  /\ DOMAIN w = {"kind", "query", "offset", "pages", "more", "text"} /\ w.kind = "graph"
      /\ w.query \in GraphRequests
      /\ w.pages \in Seq(PageRec)
      /\ w.offset = 0 \/ w.offset \in 0..Len(all)
      /\ Collected(w) = SubSeq(all, 1, w.offset)
      /\ \A i \in DOMAIN w.pages : OnPage(AllLinks(p), w.pages[i])

GraphReads(p, w) ==
  /\ Reading(p, w)
  /\ ~ SymbolMissing(GraphOf(p), w.query)
  /\ IF w.query.format = "json"
     THEN w.more <=> w.offset < Len(Selected(GraphOf(p), w.query))
     ELSE ~ w.more

LEMMA GraphOfSome ==
  ASSUME NEW p \in Seq(ParsedFile)
  PROVE  \E order \in Orders(p) : GraphOf(p) = Build(p, order)
BY OrdersSome DEF GraphOf

LEMMA PageEdgesAre ==
  ASSUME NEW g, NEW links \in SUBSET LinkRec, ToSet(g.links) = links,
         NEW nodes \in Seq(Nat), NEW offset, NEW page \in Seq(Nat), page = Slice(nodes, offset)
  PROVE  /\ [nodes |-> page, edges |-> PageEdges(g, nodes, offset)] \in PageRec
         /\ OnPage(links, [nodes |-> page, edges |-> PageEdges(g, nodes, offset)])
<1> DEFINE at(n) == CHOOSE i \in DOMAIN page : page[i] = n
           inner == {m \in links : m.from \in ToSet(page) /\ m.to \in ToSet(page)}
           Of(l) == [source |-> at(l.from), target |-> at(l.to), kind |-> l.kind]
           edges == {Of(l) : l \in inner}
<1>1. \A n \in ToSet(page) : at(n) \in DOMAIN page /\ page[at(n)] = n
  BY DEF ToSet
<1>2. Induced(g, ToSet(page)) = inner
  BY DEF Induced
<1>3. PageEdges(g, nodes, offset) = edges
  BY <1>2 DEF PageEdges
<1>4. DOMAIN page \subseteq Nat
  OBVIOUS
<1> HIDE DEF at
<1>5. \A l \in inner : /\ Of(l) \in [source : Nat, target : Nat, kind : {"contains", "imports", "calls"}]
                       /\ {Of(l).source, Of(l).target} \subseteq DOMAIN page
                       /\ <<page[Of(l).source], page[Of(l).target], Of(l).kind>> = <<l.from, l.to, l.kind>>
  BY <1>1, <1>4 DEF LinkRec
<1> HIDE DEF inner, Of
<1>6. {<<page[e.source], page[e.target], e.kind>> : e \in edges} = {<<l.from, l.to, l.kind>> : l \in inner}
  <2>1. ASSUME NEW e \in edges
        PROVE  <<page[e.source], page[e.target], e.kind>> \in {<<l.from, l.to, l.kind>> : l \in inner}
    <3>1. PICK l \in inner : e = Of(l)
      OBVIOUS
    <3>2. QED
      BY <3>1, <1>5
  <2>2. ASSUME NEW l \in inner
        PROVE  <<l.from, l.to, l.kind>> \in {<<page[e.source], page[e.target], e.kind>> : e \in edges}
    <3>1. Of(l) \in edges
      OBVIOUS
    <3> HIDE DEF edges
    <3>2. QED
      BY <3>1, <1>5
  <2> HIDE DEF edges
  <2>3. \A x : x \in {<<page[e.source], page[e.target], e.kind>> : e \in edges}
               => x \in {<<l.from, l.to, l.kind>> : l \in inner}
    BY <2>1
  <2>4. \A x : x \in {<<l.from, l.to, l.kind>> : l \in inner}
               => x \in {<<page[e.source], page[e.target], e.kind>> : e \in edges}
    BY <2>2
  <2>5. QED
    BY <2>3, <2>4
<1>7. edges \subseteq [source : Nat, target : Nat, kind : {"contains", "imports", "calls"}]
  BY <1>5
<1>8. \A e \in edges : {e.source, e.target} \subseteq DOMAIN page
  BY <1>5
<1> HIDE DEF edges
<1>9. [nodes |-> page, edges |-> edges] \in PageRec
  BY <1>7 DEF PageRec
<1>10. OnPage(links, [nodes |-> page, edges |-> edges])
  BY <1>6, <1>8 DEF OnPage, inner
<1>11. QED
  BY <1>3, <1>9, <1>10

LEMMA CollectedMore ==
  ASSUME NEW w, NEW v, w.pages \in Seq(PageRec), NEW page \in PageRec,
         v.pages = Append(w.pages, page)
  PROVE  Collected(v) = Collected(w) \o page.nodes
<1> DEFINE ss == [i \in DOMAIN w.pages |-> w.pages[i].nodes]
           tt == [i \in DOMAIN v.pages |-> v.pages[i].nodes]
<1>1. \A x \in PageRec : x.nodes \in Seq(Nat)
  BY DEF PageRec
<1>2. /\ Len(w.pages) \in Nat /\ DOMAIN w.pages = 1..Len(w.pages)
      /\ \A i \in DOMAIN w.pages : w.pages[i] \in PageRec
  BY ElementOfSeq
<1>3. /\ DOMAIN v.pages = 1..(Len(w.pages) + 1)
      /\ \A i \in 1..Len(w.pages) : v.pages[i] = w.pages[i]
      /\ v.pages[Len(w.pages) + 1] = page
  BY AppendProperties
<1>4. ss \in Seq(Seq(Nat)) /\ Len(ss) = Len(w.pages)
  <2>1. ss \in [1..Len(w.pages) -> Seq(Nat)]
    BY <1>1, <1>2
  <2> HIDE DEF ss
  <2>2. QED
    BY <1>2, <2>1, SeqFromFunction
<1>5. tt = Append(ss, page.nodes)
  <2>1. /\ Append(ss, page.nodes) \in Seq(Seq(Nat))
        /\ DOMAIN Append(ss, page.nodes) = 1..(Len(w.pages) + 1)
        /\ \A i \in 1..Len(w.pages) : Append(ss, page.nodes)[i] = ss[i]
        /\ Append(ss, page.nodes)[Len(w.pages) + 1] = page.nodes
    <3> HIDE DEF ss
    <3>1. QED
      BY <1>1, <1>2, <1>4, AppendProperties
  <2>2. \A i \in 1..(Len(w.pages) + 1) : tt[i] = Append(ss, page.nodes)[i]
    <3>1. ASSUME NEW i \in 1..Len(w.pages) PROVE tt[i] = Append(ss, page.nodes)[i]
      BY <1>2, <1>3, <2>1
    <3>2. tt[Len(w.pages) + 1] = Append(ss, page.nodes)[Len(w.pages) + 1]
      BY <1>2, <1>3, <2>1
    <3>3. QED
      BY <3>1, <3>2, <1>2
  <2>3. DOMAIN tt = 1..(Len(w.pages) + 1) /\ tt = [i \in DOMAIN tt |-> tt[i]]
    BY <1>3
  <2>4. Append(ss, page.nodes) = [i \in DOMAIN Append(ss, page.nodes) |-> Append(ss, page.nodes)[i]]
    <3> HIDE DEF ss
    <3>1. QED
      BY <2>1
  <2> HIDE DEF tt, ss
  <2>5. QED
    BY <2>1, <2>2, <2>3, <2>4
<1>6. FlattenSeq(Append(ss, page.nodes)) = FlattenSeq(ss) \o page.nodes
  <2> HIDE DEF ss
  <2>1. QED
    BY <1>1, <1>4, FlattenAppend
<1>7. QED
  BY <1>5, <1>6 DEF Collected

LEMMA NothingCollected ==
  ASSUME NEW w, w.pages = << >>
  PROVE  Collected(w) = << >>
<1> DEFINE ss == [i \in DOMAIN w.pages |-> w.pages[i].nodes]
<1>1. ss = << >>
  OBVIOUS
<1>2. << >> \in Seq(Seq(Nat)) /\ DOMAIN << >> = {}
  OBVIOUS
<1>3. FlattenSeq(<< >>) \in Seq(Nat)
  BY <1>2, FlattenBlocks
<1>4. \A x : x \in ToSet(FlattenSeq(<< >>)) <=> \E i \in DOMAIN << >> : x \in ToSet(<< >>[i])
  <2> DEFINE none == << >>
  <2>1. none \in Seq(Seq(Nat))
    BY <1>2
  <2> HIDE DEF none
  <2>2. \A x : x \in ToSet(FlattenSeq(none)) <=> \E i \in DOMAIN none : x \in ToSet(none[i])
    BY <2>1, FlattenedSet
  <2>3. QED
    BY <2>2 DEF none
<1>5. ToSet(FlattenSeq(<< >>)) = {}
  BY <1>2, <1>4
<1>6. FlattenSeq(<< >>) = << >>
  <2> DEFINE flat == FlattenSeq(<< >>)
  <2>1. flat \in Seq(Nat) /\ ToSet(flat) = {}
    BY <1>3, <1>5
  <2> HIDE DEF flat
  <2>2. Len(flat) = 0
    <3>1. SUFFICES ASSUME Len(flat) # 0 PROVE FALSE
      OBVIOUS
    <3>2. 1 \in DOMAIN flat
      BY <2>1, <3>1
    <3>3. flat[1] \in ToSet(flat)
      BY <3>2 DEF ToSet
    <3>4. QED
      BY <2>1, <3>3
  <2>3. flat = << >>
    BY <2>1, <2>2, EmptySeq
  <2>4. QED
    BY <2>3 DEF flat
<1>7. QED
  BY <1>1, <1>6 DEF Collected

LEMMA AnswerOf ==
  ASSUME NEW p \in Seq(ParsedFile), NEW q \in GraphRequests, ~ SymbolMissing(GraphOf(p), q)
  PROVE  Answers(GraphOf(p), q, Selected(GraphOf(p), q))
<1>1. PICK order \in Orders(p) : GraphOf(p) = Build(p, order)
  BY GraphOfSome
<1>2. CASE q.kind = "bidirectional"
  BY <1>1, <1>2, BidirectionalAnswers
<1>3. CASE q.kind # "bidirectional"
  BY <1>1, <1>3, FrontierAnswers
<1>4. QED
  BY <1>2, <1>3

\* Whatever order the stored graph was built in, the answer is the same.
LEMMA AnswerKept ==
  ASSUME NEW p \in Seq(ParsedFile), NEW order \in Orders(p), NEW q \in GraphRequests,
         ~ SymbolMissing(Build(p, order), q)
  PROVE  /\ ~ SymbolMissing(GraphOf(p), q)
         /\ Selected(Build(p, order), q) = Selected(GraphOf(p), q)
         /\ Selected(GraphOf(p), q) \in Seq(Nat)
<1>1. PICK other \in Orders(p) : GraphOf(p) = Build(p, other)
  BY GraphOfSome
<1>2. ~ SymbolMissing(GraphOf(p), q) /\ Selected(Build(p, order), q) = Selected(GraphOf(p), q)
  BY <1>1, SelectedSame
<1>3. Answers(GraphOf(p), q, Selected(GraphOf(p), q))
  BY <1>2, AnswerOf
<1>4. QED
  BY <1>2, <1>3 DEF Answers

LEMMA SliceIs ==
  ASSUME NEW all \in Seq(Nat), NEW o \in 0..Len(all)
  PROVE  /\ Slice(all, o) \in Seq(Nat)
         /\ o + Len(Slice(all, o)) \in 0..Len(all)
         /\ SubSeq(all, 1, o) \o Slice(all, o) = SubSeq(all, 1, o + Len(Slice(all, o)))
<1> DEFINE end == IF o + NodePage < Len(all) THEN o + NodePage ELSE Len(all)
<1>1. NodePage \in Nat /\ Len(all) \in Nat
  BY GraphAssumption
<1>2. end \in o..Len(all)
  BY <1>1
<1>3. Slice(all, o) = SubSeq(all, o + 1, end)
  BY DEF Slice
<1> HIDE DEF end
<1>4. \A i \in (o + 1)..end : all[i] \in Nat
  BY <1>1, <1>2, ElementOfSeq
<1>5. SubSeq(all, o + 1, end) \in Seq(Nat) /\ Len(SubSeq(all, o + 1, end)) = end - o
  <2>1. o + 1 \in Int /\ end \in Int
    BY <1>2
  <2>2. Len(SubSeq(all, o + 1, end)) = (IF o + 1 <= end THEN end - (o + 1) + 1 ELSE 0)
    BY <1>4, <2>1, SubSeqProperties
  <2>3. SubSeq(all, o + 1, end) \in Seq(Nat)
    BY <1>4, <2>1, SubSeqProperties
  <2>4. QED
    BY <1>2, <2>2, <2>3
<1>6. SubSeq(all, 1, o) \o SubSeq(all, o + 1, end) = SubSeq(all, 1, end)
  <2>1. 1 \in 1..(Len(all) + 1) /\ o \in (1 - 1)..Len(all)
    BY <1>1
  <2>2. QED
    BY <1>2, <2>1, ConcatAdjacentSubSeq
<1>7. o + Len(Slice(all, o)) = end
  BY <1>2, <1>3, <1>5
<1>8. end \in 0..Len(all)
  BY <1>2
<1>9. QED
  BY <1>3, <1>5, <1>6, <1>7, <1>8

\* A page continues what was read.
LEMMA ReadStep ==
  ASSUME NEW p \in Seq(ParsedFile), NEW w, Reading(p, w), w.query.format = "json",
         stored = NoGraph \/ \E order \in Orders(p) : stored = Build(p, order)
  PROVE  Read(w) = Refused("graph") \/ GraphReads(p, Read(w))
<1> DEFINE q == w.query
           all == Selected(GraphOf(p), q)
           page == Slice(all, w.offset)
           end == w.offset + Len(page)
           new == [nodes |-> page, edges |-> PageEdges(stored, all, w.offset)]
           v == [w EXCEPT !.pages = Append(@, new), !.offset = end, !.more = end < Len(all)]
<1>1. CASE stored = NoGraph \/ SymbolMissing(stored, q)
  BY <1>1 DEF Read
<1>2. CASE ~ (stored = NoGraph \/ SymbolMissing(stored, q))
  <2>1. PICK order \in Orders(p) : stored = Build(p, order)
    BY <1>2
  <2>2. /\ DOMAIN w = {"kind", "query", "offset", "pages", "more", "text"} /\ w.kind = "graph"
        /\ q \in GraphRequests /\ w.pages \in Seq(PageRec)
        /\ Collected(w) = SubSeq(all, 1, w.offset)
        /\ \A i \in DOMAIN w.pages : OnPage(AllLinks(p), w.pages[i])
    BY DEF Reading
  <2>3. ~ SymbolMissing(GraphOf(p), q) /\ Selected(stored, q) = all /\ all \in Seq(Nat)
    BY <1>2, <2>1, <2>2, AnswerKept
  <2>4. Read(w) = v
    BY <1>2, <2>3 DEF Read
  <2> HIDE DEF all
  <2>5. w.offset \in 0..Len(all)
    BY <2>3 DEF Reading, all
  <2>6. /\ page \in Seq(Nat) /\ end \in 0..Len(all)
        /\ SubSeq(all, 1, w.offset) \o page = SubSeq(all, 1, end)
    BY <2>3, <2>5, SliceIs
  <2>7. ToSet(stored.links) = AllLinks(p) /\ AllLinks(p) \in SUBSET LinkRec
    <3>1. \A l \in AllLinks(p) : l \in LinkRec
      BY <2>1, BuiltAlike
    <3>2. QED
      BY <2>1, <3>1, BuiltAlike
  <2>8. new \in PageRec /\ OnPage(AllLinks(p), new)
    <3> HIDE DEF page
    <3>1. page = Slice(all, w.offset)
      BY DEF page
    <3>2. QED
      BY <2>3, <2>6, <2>7, <3>1, PageEdgesAre
  <2> HIDE DEF page, new, end
  <2>9. DOMAIN v = {"kind", "query", "offset", "pages", "more", "text"}
    BY <2>2
  <2>10. /\ v.kind = "graph" /\ v.query = q /\ v.offset = end /\ v.pages = Append(w.pages, new)
         /\ v.more = (end < Len(all))
    BY <2>2
  <2> HIDE DEF v
  <2>11. Collected(v) = SubSeq(all, 1, end)
    <3>1. Collected(v) = Collected(w) \o new.nodes
      BY <2>2, <2>8, <2>10, CollectedMore
    <3>2. new.nodes = page
      BY DEF new
    <3>3. QED
      BY <2>2, <2>6, <3>1, <3>2
  <2>12. v.pages \in Seq(PageRec) /\ \A i \in DOMAIN v.pages : OnPage(AllLinks(p), v.pages[i])
    BY <2>2, <2>8, <2>10, AppendProperties
  <2>13. Reading(p, v)
    <3>1. Selected(GraphOf(p), v.query) = all
      BY <2>10 DEF all
    <3>2. v.offset \in 0..Len(all) /\ Collected(v) = SubSeq(all, 1, v.offset)
      BY <2>6, <2>10, <2>11
    <3>3. v.query \in GraphRequests
      BY <2>2, <2>10
    <3>4. QED
      BY <2>9, <2>10, <2>12, <3>1, <3>2, <3>3 DEF Reading
  <2>14. v.more <=> v.offset < Len(Selected(GraphOf(p), v.query))
    BY <2>10 DEF all
  <2>15. GraphReads(p, v)
    BY <2>3, <2>10, <2>13, <2>14 DEF GraphReads
  <2>16. QED
    BY <2>4, <2>15
<1>3. QED
  BY <1>1, <1>2

\* A text is no page.
LEMMA ReadTextStep ==
  ASSUME NEW p \in Seq(ParsedFile), NEW w, Reading(p, w), w.query.format # "json", ~ w.more,
         stored = NoGraph \/ \E order \in Orders(p) : stored = Build(p, order)
  PROVE  ReadText(w) = Refused("graph") \/ GraphReads(p, ReadText(w))
<1> DEFINE q == w.query
           text == Rendered(stored, ToSet(Selected(stored, q)))
           v == [w EXCEPT !.text = text]
<1>1. CASE stored = NoGraph \/ SymbolMissing(stored, q)
  BY <1>1 DEF ReadText
<1>2. CASE ~ (stored = NoGraph \/ SymbolMissing(stored, q))
  <2>1. PICK order \in Orders(p) : stored = Build(p, order)
    BY <1>2
  <2>2. /\ DOMAIN w = {"kind", "query", "offset", "pages", "more", "text"} /\ w.kind = "graph"
        /\ q \in GraphRequests
    BY DEF Reading
  <2>3. ~ SymbolMissing(GraphOf(p), q)
    BY <1>2, <2>1, <2>2, AnswerKept
  <2>4. ReadText(w) = v
    BY <1>2 DEF ReadText
  <2> HIDE DEF text
  <2>5. /\ DOMAIN v = {"kind", "query", "offset", "pages", "more", "text"} /\ v.kind = "graph"
        /\ v.query = q /\ v.offset = w.offset /\ v.pages = w.pages /\ v.more = w.more
    BY <2>2
  <2> HIDE DEF v
  <2>6. Collected(v) = Collected(w)
    BY <2>5 DEF Collected
  <2>7. Reading(p, v)
    BY <2>5, <2>6 DEF Reading
  <2>8. GraphReads(p, v)
    BY <2>3, <2>5, <2>7 DEF GraphReads
  <2>9. QED
    BY <2>4, <2>8
<1>3. QED
  BY <1>1, <1>2

-----------------------------------------------------------------------------
(* The lists of an answer.                                                  *)

\* The sequence of a sequence's images.
LEMMA MappedType ==
  ASSUME NEW s, Len(s) \in Nat, DOMAIN s = 1..Len(s),
         NEW Y, NEW t, DOMAIN t = DOMAIN s, t = [i \in DOMAIN s |-> t[i]],
         \A i \in DOMAIN s : t[i] \in Y
  PROVE  t \in Seq(Y) /\ Len(t) = Len(s)
<1>1. t \in [1..Len(s) -> Y]
  OBVIOUS
<1>2. QED
  BY <1>1, SeqFromFunction

LEMMA EdgesOfType ==
  ASSUME NEW edges \in Seq(EdgeRec), NEW V, NEW names \in Seq(V)
  PROVE  EdgesOf(edges, names) \in Seq(EdgeRec)
<1> DEFINE ss == [i \in DOMAIN names |-> Adjacent(edges, names[i])]
<1>1. \A i \in DOMAIN names : ss[i] \in Seq(EdgeRec)
  BY PickedSpots DEF Adjacent
<1>2. DOMAIN ss = DOMAIN names /\ ss = [i \in DOMAIN names |-> ss[i]]
  OBVIOUS
<1>3. EdgesOf(edges, names) = FlattenSeq(ss)
  BY DEF EdgesOf
<1> HIDE DEF ss
<1>4. ss \in Seq(Seq(EdgeRec))
  BY <1>1, <1>2, MappedType
<1>5. QED
  BY <1>3, <1>4, FlattenBlocks

ChainLevels(V, C) == [queue : Seq(V), visited : SUBSET V, chains : Seq(C)]

\* The step of find_chains_bfs.
NextLevel(edges, incoming, depth, d, level) ==
  LET met == EdgesOf(edges, level.queue)
      names == [k \in DOMAIN met |-> met[k].neighbor]
      queue == IF d < depth THEN Picked(names, Queue(names, level.visited)) ELSE << >>
  IN  [queue |-> queue, visited |-> level.visited \cup ToSet(queue),
       chains |-> level.chains \o
         [k \in DOMAIN met |-> Chain(edges, incoming, met[k], depth - d)]]

AllChains(edges, incoming, depth) ==
  {Chain(edges, incoming, e, k) : e \in EdgeRec, k \in 0..depth}

LEMMA NextLevelType ==
  ASSUME NEW edges \in Seq(EdgeRec), NEW incoming, NEW depth \in Nat, NEW d \in 0..depth,
         NEW V, STRING \cup {"<reference>"} \subseteq V, NEW level \in ChainLevels(V, AllChains(edges, incoming, depth))
  PROVE  NextLevel(edges, incoming, depth, d, level) \in ChainLevels(V, AllChains(edges, incoming, depth))
<1> DEFINE C == AllChains(edges, incoming, depth)
           met == EdgesOf(edges, level.queue)
           names == [k \in DOMAIN met |-> met[k].neighbor]
           queue == IF d < depth THEN Picked(names, Queue(names, level.visited)) ELSE << >>
           new == [k \in DOMAIN met |-> Chain(edges, incoming, met[k], depth - d)]
<1>1. level.queue \in Seq(V) /\ level.visited \in SUBSET V /\ level.chains \in Seq(C)
  BY DEF ChainLevels
<1>2. met \in Seq(EdgeRec)
  BY <1>1, EdgesOfType
<1> HIDE DEF met
<1>3. \A k \in DOMAIN met : met[k] \in EdgeRec /\ met[k].neighbor \in V
  <2>1. \A k \in DOMAIN met : met[k] \in EdgeRec
    BY <1>2, ElementOfSeq, LenProperties, Zenon
  <2>2. \A e \in EdgeRec : e.neighbor \in V
    BY DEF EdgeRec
  <2>3. QED
    BY <2>1, <2>2
<1>4. names \in Seq(V)
  <2>1. DOMAIN names = DOMAIN met /\ names = [k \in DOMAIN met |-> names[k]] /\ \A k \in DOMAIN met : names[k] \in V
    BY <1>3
  <2> HIDE DEF names
  <2>2. QED
    BY <1>2, <2>1, MappedType
<1>5. new \in Seq(C)
  <2>1. DOMAIN new = DOMAIN met /\ new = [k \in DOMAIN met |-> new[k]]
    OBVIOUS
  <2>2. depth - d \in 0..depth
    OBVIOUS
  <2>3. \A k \in DOMAIN met : new[k] \in C
    BY <1>3, <2>2 DEF AllChains
  <2> HIDE DEF new, C
  <2>4. QED
    BY <1>2, <2>1, <2>3, MappedType
<1> HIDE DEF names
<1>6. queue \in Seq(V) /\ ToSet(queue) \subseteq V
  <2>1. Picked(names, Queue(names, level.visited)) \in Seq(V)
    BY <1>4, PickedSpots
  <2>2. queue \in Seq(V)
    BY <2>1
  <2> HIDE DEF queue
  <2>3. QED
    BY <2>2, SetOfSeq
<1> HIDE DEF queue, new, C
<1>7. level.chains \o new \in Seq(C)
  BY <1>1, <1>5, ConcatProperties
<1>8. [queue |-> queue, visited |-> level.visited \cup ToSet(queue), chains |-> level.chains \o new]
        \in ChainLevels(V, C)
  BY <1>1, <1>6, <1>7 DEF ChainLevels
<1>9. QED
  BY <1>8 DEF NextLevel, met, names, queue, new, C

\* The levels of the search.
ChainSearch(edges, incoming, symbol, depth, V, g) ==
  /\ g \in [0..depth -> ChainLevels(V, AllChains(edges, incoming, depth))]
  /\ g[0] = NextLevel(edges, incoming, depth, 0,
                      [queue |-> <<symbol>>, visited |-> {symbol}, chains |-> << >>])
  /\ \A d \in 1..depth : g[d] = NextLevel(edges, incoming, depth, d, g[d - 1])
  /\ Chains(edges, incoming, symbol, depth) = g[depth].chains

LEMMA ChainSearched ==
  ASSUME NEW edges \in Seq(EdgeRec), NEW incoming, NEW symbol, NEW depth \in Nat
  PROVE  \E g : ChainSearch(edges, incoming, symbol, depth, STRING \cup {"<reference>", symbol}, g)
<1> DEFINE V == STRING \cup {"<reference>", symbol}
           L == ChainLevels(V, AllChains(edges, incoming, depth))
           Next1(d, level) == NextLevel(edges, incoming, depth, d, level)
           start == [queue |-> <<symbol>>, visited |-> {symbol}, chains |-> << >>]
           a == Next1(0, start)
           F == [x \in (1..depth) \X L |-> Next1(x[1], x[2])]
           Def(f) == f = [d \in 0..depth |-> Next1(d, IF d = 0 THEN start ELSE f[d - 1])]
           level == CHOOSE f : Def(f)
<1>1. start \in L
  <2>1. <<symbol>> \in Seq(V) /\ {symbol} \in SUBSET V /\ << >> \in Seq(AllChains(edges, incoming, depth))
    OBVIOUS
  <2>2. QED
    BY <2>1 DEF ChainLevels
<1>2. \A d \in 0..depth : \A l \in L : Next1(d, l) \in L
  BY NextLevelType
<1>3. Chains(edges, incoming, symbol, depth) = level[depth].chains
  BY DEF Chains, NextLevel
<1> HIDE DEF Next1, start, L
<1>4. a \in L
  BY <1>1, <1>2
<1>5. F \in [(1..depth) \X L -> L]
  BY <1>2
<1>6. PICK g : Values(depth, L, a, F, g)
  <2> HIDE DEF a, F
  <2>1. QED
    BY <1>4, <1>5, RecursionIn
<1>7. /\ g \in [0..depth -> L] /\ g[0] = a
      /\ \A d \in 1..depth : g[d] = Next1(d, g[d - 1])
  <2>1. g \in [0..depth -> L] /\ g[0] = a /\ \A d \in 1..depth : g[d] = F[<<d, g[d - 1]>>]
    BY <1>6 DEF Values
  <2>2. \A d \in 1..depth : g[d - 1] \in L /\ <<d, g[d - 1]>> \in (1..depth) \X L
    BY <2>1
  <2>3. \A d \in 1..depth : F[<<d, g[d - 1]>>] = Next1(d, g[d - 1])
    BY <2>2
  <2> HIDE DEF F
  <2>4. QED
    BY <2>1, <2>3
<1>8. Def(g)
  <2>1. \A d \in 0..depth : g[d] = Next1(d, IF d = 0 THEN start ELSE g[d - 1])
    BY <1>7
  <2>2. g = [d \in 0..depth |-> g[d]]
    BY <1>7
  <2>3. QED
    BY <2>1, <2>2
<1>9. Def(level)
  BY <1>8
<1> HIDE DEF level
<1>10. level = [d \in 0..depth |-> level[d]] /\ level[0] = a /\ \A d \in 1..depth : level[d] = Next1(d, level[d - 1])
  <2>1. level = [d \in 0..depth |-> Next1(d, IF d = 0 THEN start ELSE level[d - 1])]
    BY <1>9
  <2>2. \A d \in 0..depth : level[d] = Next1(d, IF d = 0 THEN start ELSE level[d - 1])
    BY <2>1, Zenon
  <2>3. 0 \in 0..depth /\ \A d \in 1..depth : d \in 0..depth /\ d # 0
    OBVIOUS
  <2>4. level = [d \in 0..depth |-> level[d]]
    BY <2>1
  <2>5. \A d \in 1..depth : level[d] = Next1(d, level[d - 1])
    BY <2>2, <2>3
  <2>6. level[0] = a
    BY <2>2, <2>3
  <2>7. QED
    BY <2>4, <2>5, <2>6
<1> HIDE DEF Def, a
<1>11. level = g
  <2> DEFINE T == {d \in 0..depth : level[d] = g[d]}
  <2>1. 0 \in T
    BY <1>7, <1>10
  <2>2. \A d \in 1..depth : d - 1 \in T => d \in T
    <3>1. ASSUME NEW d \in 1..depth, level[d - 1] = g[d - 1] PROVE level[d] = g[d]
      <4>1. level[d] = Next1(d, level[d - 1]) /\ g[d] = Next1(d, g[d - 1])
        BY <1>7, <1>10
      <4>2. QED
        BY <3>1, <4>1, Zenon
    <3>2. QED
      BY <3>1
  <2>3. \A d \in 0..depth : d \in T
    <3> HIDE DEF T
    <3>1. QED
      BY <2>1, <2>2, Upwards
  <2>4. g = [d \in 0..depth |-> g[d]]
    BY <1>7
  <2>5. QED
    BY <1>10, <2>3, <2>4
<1>12. Chains(edges, incoming, symbol, depth) = g[depth].chains
  BY <1>3, <1>11
<1>13. QED
  BY <1>7, <1>12 DEF ChainSearch, L, V, Next1, start, a

LEMMA ChainsType ==
  ASSUME NEW edges \in Seq(EdgeRec), NEW incoming, NEW symbol, NEW depth \in Nat
  PROVE  Chains(edges, incoming, symbol, depth) \in Seq(AllChains(edges, incoming, depth))
<1> DEFINE V == STRING \cup {"<reference>", symbol}
<1>1. PICK g : ChainSearch(edges, incoming, symbol, depth, V, g)
  BY ChainSearched
<1> HIDE DEF V
<1>2. /\ g \in [0..depth -> ChainLevels(V, AllChains(edges, incoming, depth))]
      /\ Chains(edges, incoming, symbol, depth) = g[depth].chains
  BY <1>1 DEF ChainSearch
<1>3. g[depth] \in ChainLevels(V, AllChains(edges, incoming, depth))
  BY <1>2
<1>4. QED
  BY <1>2, <1>3 DEF ChainLevels

LEMMA CallersOfType ==
  ASSUME NEW p \in Seq(ParsedFile), NEW f \in ParsedFile
  PROVE  CallersOf(p, f) \in Seq(EdgeRec) /\ Implementors(f) \in Seq(EdgeRec)
<1> DEFINE a == [j \in DOMAIN f.calls |->
                   Edge(ResolveCallee(p, f.calls[j].callee), f.calls[j].caller,
                        f.path, f.calls[j].line, FALSE)]
           b == [j \in DOMAIN f.references |->
                   Edge(f.references[j].symbol, "<reference>", f.path, f.references[j].line, FALSE)]
           c == Implementors(f)
<1>1. /\ f.path \in STRING
      /\ f.calls \in Seq([caller : STRING, callee : STRING, line : Nat])
      /\ f.references \in Seq([symbol : STRING, line : Nat])
      /\ f.impls \in Seq([trait : STRING, type : STRING, line : Nat])
  BY DEF ParsedFile
<1> Len(f.calls) \in Nat /\ DOMAIN f.calls = 1..Len(f.calls)
  BY <1>1
<1> Len(f.references) \in Nat /\ DOMAIN f.references = 1..Len(f.references)
  BY <1>1
<1> Len(f.impls) \in Nat /\ DOMAIN f.impls = 1..Len(f.impls)
  BY <1>1
<1>2. /\ \A j \in DOMAIN f.calls : f.calls[j] \in [caller : STRING, callee : STRING, line : Nat]
      /\ \A j \in DOMAIN f.references : f.references[j] \in [symbol : STRING, line : Nat]
      /\ \A j \in DOMAIN f.impls : f.impls[j] \in [trait : STRING, type : STRING, line : Nat]
  BY <1>1, ElementOfSeq, LenProperties, Zenon
<1>3. a \in Seq(EdgeRec)
  <2>1. \A callee \in STRING : ResolveCallee(p, callee) \in STRING
    BY DefinedNames DEF ResolveCallee
  <2>2. DOMAIN a = DOMAIN f.calls /\ a = [j \in DOMAIN f.calls |-> a[j]] /\ \A j \in DOMAIN f.calls : a[j] \in EdgeRec
    BY <1>1, <1>2, <2>1 DEF Edge, EdgeRec
  <2> HIDE DEF a
  <2>3. QED
    BY <1>1, <2>2, MappedType
<1>4. b \in Seq(EdgeRec)
  <2>1. DOMAIN b = DOMAIN f.references /\ b = [j \in DOMAIN f.references |-> b[j]]
        /\ \A j \in DOMAIN f.references : b[j] \in EdgeRec
    BY <1>1, <1>2 DEF Edge, EdgeRec
  <2> HIDE DEF b
  <2>2. QED
    BY <1>1, <2>1, MappedType
<1>5. c \in Seq(EdgeRec)
  <2>1. DOMAIN c = DOMAIN f.impls /\ c = [j \in DOMAIN f.impls |-> c[j]]
        /\ \A j \in DOMAIN f.impls : c[j] \in EdgeRec
    BY <1>1, <1>2 DEF Edge, EdgeRec, Implementors
  <2> HIDE DEF c
  <2>2. QED
    BY <1>1, <2>1, MappedType
<1>6. CallersOf(p, f) = a \o b
  BY DEF CallersOf
<1> HIDE DEF a, b, c
<1>7. a \o b \in Seq(EdgeRec)
  BY <1>3, <1>4, ConcatProperties
<1>8. QED
  BY <1>5, <1>6, <1>7 DEF c

LEMMA CallersType ==
  ASSUME NEW p \in Seq(ParsedFile)
  PROVE  CallGraph(p).callers \in Seq(EdgeRec)
<1> DEFINE ss == [i \in DOMAIN p |-> CallersOf(p, p[i])]
           tt == [i \in DOMAIN p |-> Implementors(p[i])]
<1>1. \A i \in DOMAIN p : p[i] \in ParsedFile
  BY ElementOfSeq, LenProperties, Zenon
<1>2. ss \in Seq(Seq(EdgeRec))
  <2>1. DOMAIN ss = DOMAIN p /\ ss = [i \in DOMAIN p |-> ss[i]] /\ \A i \in DOMAIN p : ss[i] \in Seq(EdgeRec)
    BY <1>1, CallersOfType
  <2> HIDE DEF ss
  <2>2. QED
    BY <2>1, MappedType
<1>3. tt \in Seq(Seq(EdgeRec))
  <2>1. DOMAIN tt = DOMAIN p /\ tt = [i \in DOMAIN p |-> tt[i]] /\ \A i \in DOMAIN p : tt[i] \in Seq(EdgeRec)
    BY <1>1, CallersOfType
  <2> HIDE DEF tt
  <2>2. QED
    BY <2>1, MappedType
<1>4. CallGraph(p).callers = FlattenSeq(ss) \o FlattenSeq(tt)
  BY DEF CallGraph
<1> HIDE DEF ss, tt
<1>5. FlattenSeq(ss) \in Seq(EdgeRec) /\ FlattenSeq(tt) \in Seq(EdgeRec)
  BY <1>2, <1>3, FlattenBlocks
<1>6. FlattenSeq(ss) \o FlattenSeq(tt) \in Seq(EdgeRec)
  BY <1>5, ConcatProperties
<1>7. QED
  BY <1>4, <1>6

LEMMA FollowedType ==
  ASSUME NEW p \in Seq(ParsedFile), NEW incoming, NEW implOnly
  PROVE  Followed(CallGraph(p), incoming, implOnly) \in Seq(EdgeRec)
<1>1. CallGraph(p).callers \in Seq(EdgeRec) /\ CallGraph(p).callees \in Seq(EdgeRec)
  BY CallersType, CalleesType
<1>2. \A places : Picked(CallGraph(p).callers, places) \in Seq(EdgeRec)
  BY <1>1, PickedSpots
<1>3. QED
  BY <1>1, <1>2 DEF Followed

\* The lists of an answer are sequences.
Lists(answer) ==
  /\ \E X : answer.callers \in Seq(X)
  /\ \E X : answer.callees \in Seq(X)
  /\ answer.sites \in Seq({"write", "write_read", "read"})

LEMMA AroundLists ==
  ASSUME program \in Seq(ParsedFile), NEW r, NEW symbol, NEW depth \in Nat
  PROVE  /\ \E X : Around(r, symbol, depth).callers \in Seq(X)
         /\ \E X : Around(r, symbol, depth).callees \in Seq(X)
<1> DEFINE in == Followed(Graph, TRUE, r.implOnly)
           incoming == Chains(in, TRUE, symbol, depth)
           tests == {i \in DOMAIN incoming : FromTest(incoming[i])}
           callers == Picked(incoming, DOMAIN incoming \ tests)
           callees == Chains(Graph.callees, FALSE, symbol, depth)
<1>1. Around(r, symbol, depth) = [callers |-> callers, tests |-> Picked(incoming, tests), callees |-> callees]
  BY DEF Around
<1>2. in \in Seq(EdgeRec) /\ Graph.callees \in Seq(EdgeRec)
  BY FollowedType, CalleesType DEF Graph
<1> HIDE DEF in
<1>3. incoming \in Seq(AllChains(in, TRUE, depth))
  BY <1>2, ChainsType
<1>4. callees \in Seq(AllChains(Graph.callees, FALSE, depth))
  BY <1>2, ChainsType
<1> HIDE DEF incoming, callees
<1>5. callers \in Seq(AllChains(in, TRUE, depth))
  BY <1>3, PickedSpots
<1> HIDE DEF callers
<1>6. Around(r, symbol, depth).callers = callers /\ Around(r, symbol, depth).callees = callees
  BY <1>1
<1>7. QED
  BY <1>4, <1>5, <1>6

LEMMA AnswerLists ==
  ASSUME program \in Seq(ParsedFile), NEW r \in SymbolRequests
  PROVE  Lists(Found(r)) /\ Lists(OnlySites(r))
<1>1. r.sites \in Seq({"write", "write_read", "read"}) /\ r.depth \in Nat
  BY GraphAssumption
<1>2. Lists(Found(r))
  <2>1. PICK symbol : Found(r) = AnswerFrom(r, symbol, Around(r, symbol, r.depth), Near(r, symbol))
    BY DEF Found
  <2>2. /\ Found(r).callers = Around(r, symbol, r.depth).callers
        /\ Found(r).callees = Around(r, symbol, r.depth).callees
        /\ Found(r).sites = r.sites
    BY <2>1 DEF AnswerFrom
  <2>3. QED
    BY <1>1, <2>2, AroundLists DEF Lists
<1>3. Lists(OnlySites(r))
  <2>1. /\ OnlySites(r).callers = << >> /\ OnlySites(r).callees = << >> /\ OnlySites(r).sites = r.sites
    BY DEF OnlySites
  <2>2. << >> \in Seq({})
    OBVIOUS
  <2>3. QED
    BY <1>1, <2>1, <2>2 DEF Lists
<1>4. QED
  BY <1>2, <1>3

-----------------------------------------------------------------------------
(* What texts tell.                                                         *)

\* The places of a list, between two of them, with two names.
Between(s, b, m, n) == {i \in m..n : Branch(s[i]) = b}

LEMMA BetweenFinite ==
  ASSUME NEW s, NEW b, NEW m \in Int, NEW n \in Int
  PROVE  IsFiniteSet(Between(s, b, m, n)) /\ Cardinality(Between(s, b, m, n)) \in Nat
<1>1. IsFiniteSet(m..n)
  BY FS_Interval
<1>2. Between(s, b, m, n) \subseteq m..n
  BY DEF Between
<1>3. IsFiniteSet(Between(s, b, m, n))
  BY <1>1, <1>2, FS_Subset
<1>4. QED
  BY <1>3, FS_CardinalityType

LEMMA TimesOfPart ==
  ASSUME NEW X, NEW s \in Seq(X), NEW o \in 0..Len(s), NEW e \in o..Len(s), NEW b
  PROVE  /\ Times(SubSeq(s, o + 1, e), b) = Cardinality(Between(s, b, o + 1, e))
         /\ Times(SubSeq(s, o + 1, e), b) \in Nat
         /\ Len(SubSeq(s, o + 1, e)) = e - o
<1> DEFINE part == SubSeq(s, o + 1, e)
           S == {i \in DOMAIN part : Branch(part[i]) = b}
           T == Between(s, b, o + 1, e)
<1>1. Len(s) \in Nat /\ o + 1 \in Int /\ e \in Int /\ o \in Nat /\ e \in Nat /\ o <= e
  OBVIOUS
<1>2. \A i \in (o + 1)..e : s[i] \in X
  BY <1>1, ElementOfSeq
<1>3. /\ part \in Seq(X)
      /\ Len(part) = (IF o + 1 <= e THEN e - (o + 1) + 1 ELSE 0)
      /\ \A i \in 1..(e - (o + 1) + 1) : part[i] = s[o + 1 + i - 1]
  BY <1>1, <1>2, SubSeqProperties
<1>4. Len(part) = e - o /\ DOMAIN part = 1..(e - o) /\ \A i \in 1..(e - o) : part[i] = s[o + i]
  <2>1. Len(part) = e - o
    BY <1>1, <1>3
  <2>2. DOMAIN part = 1..Len(part)
    BY <1>3
  <2>3. e - (o + 1) + 1 = e - o /\ \A i \in 1..(e - o) : o + 1 + i - 1 = o + i
    BY <1>1
  <2> HIDE DEF part
  <2>4. QED
    BY <1>3, <2>1, <2>2, <2>3
<1> HIDE DEF part
<1>5. IsFiniteSet(S)
  <2>1. IsFiniteSet(1..(e - o))
    BY <1>1, FS_Interval
  <2>2. S \subseteq 1..(e - o)
    BY <1>4
  <2>3. QED
    BY <2>1, <2>2, FS_Subset
<1>6. ExistsBijection(S, T)
  <2> DEFINE f == [i \in S |-> o + i]
  <2>1. \A i \in S : f[i] \in T
    BY <1>1, <1>4 DEF Between
  <2>2. \A i, j \in S : f[i] = f[j] => i = j
    BY <1>1, <1>4
  <2>3. \A k \in T : \E i \in S : f[i] = k
    <3> SUFFICES ASSUME NEW k \in T PROVE \E i \in S : f[i] = k
      OBVIOUS
    <3>1. k \in (o + 1)..e /\ Branch(s[k]) = b
      BY DEF Between
    <3>2. k - o \in 1..(e - o) /\ o + (k - o) = k
      BY <1>1, <3>1
    <3>3. part[k - o] = s[k]
      BY <1>4, <3>2
    <3>4. k - o \in S
      BY <1>4, <3>1, <3>2, <3>3
    <3>5. f[k - o] = k
      BY <3>2, <3>4
    <3>6. QED
      BY <3>4, <3>5
  <2>4. f \in Bijection(S, T)
    <3>1. f \in [S -> T]
      BY <2>1
    <3> HIDE DEF f
    <3>2. f \in Injection(S, T)
      BY <2>2, <3>1 DEF Injection, IsInjective
    <3>3. f \in Surjection(S, T)
      BY <2>3, <3>1 DEF Surjection
    <3>4. QED
      BY <3>2, <3>3 DEF Bijection
  <2>5. QED
    BY <2>4 DEF ExistsBijection
<1>7. Cardinality(S) = Cardinality(T)
  BY <1>5, <1>6, FS_Bijection
<1>8. Times(part, b) = Cardinality(S)
  BY DEF Times
<1>9. Cardinality(T) \in Nat
  BY <1>1, BetweenFinite
<1>10. QED
  BY <1>4, <1>7, <1>8, <1>9 DEF part

LEMMA TimesAdded ==
  ASSUME NEW X, NEW s \in Seq(X), NEW o \in 0..Len(s), NEW e \in o..Len(s), NEW b
  PROVE  Times(SubSeq(s, 1, e), b) = Times(SubSeq(s, 1, o), b) + Times(SubSeq(s, o + 1, e), b)
<1> DEFINE A == Between(s, b, 1, o)
           B == Between(s, b, o + 1, e)
           C == Between(s, b, 1, e)
<1>1. Len(s) \in Nat /\ o \in Nat /\ e \in Nat /\ o <= e /\ 0 \in 0..Len(s) /\ o \in 0..Len(s) /\ e \in 0..Len(s)
  OBVIOUS
<1>2. /\ Times(SubSeq(s, 0 + 1, o), b) = Cardinality(Between(s, b, 0 + 1, o))
      /\ Times(SubSeq(s, 0 + 1, e), b) = Cardinality(Between(s, b, 0 + 1, e))
      /\ Times(SubSeq(s, o + 1, e), b) = Cardinality(B)
  BY <1>1, TimesOfPart
<1>3. C = A \cup B /\ A \cap B = {}
  BY <1>1 DEF Between
<1>4. /\ IsFiniteSet(A) /\ IsFiniteSet(B)
      /\ Cardinality(A) \in Nat /\ Cardinality(B) \in Nat
  BY <1>1, BetweenFinite
<1> HIDE DEF A, B, C
<1>5. Cardinality(C) = Cardinality(A) + Cardinality(B) - Cardinality(A \cap B)
  BY <1>3, <1>4, FS_Union
<1>6. Cardinality(C) = Cardinality(A) + Cardinality(B)
  <2>1. Cardinality({}) = 0
    BY FS_EmptySet
  <2>2. Cardinality(A \cap B) = 0
    BY <1>3, <2>1, Zenon
  <2>3. QED
    BY <1>4, <1>5, <2>2
<1>7. 0 + 1 = 1
  OBVIOUS
<1>8. QED
  BY <1>2, <1>6, <1>7 DEF A, B, C

\* A tree counts the chains it is made of.
LEMMA TreeCounts ==
  ASSUME NEW chains, NEW b
  PROVE  (IF b \in DOMAIN Tree(chains) THEN Tree(chains)[b] ELSE 0) = Times(chains, b)
<1> DEFINE B == {Branch(chain) : chain \in ToSet(chains)}
           S == {i \in DOMAIN chains : Branch(chains[i]) = b}
<1>1. DOMAIN Tree(chains) = B /\ \A c \in B : Tree(chains)[c] = Times(chains, c)
  BY DEF Tree, Times
<1>2. CASE b \notin B
  <2>1. \A i \in DOMAIN chains : Branch(chains[i]) \in B
    BY DEF ToSet
  <2>2. S = {}
    BY <1>2, <2>1
  <2>3. Times(chains, b) = 0
    BY <2>2, FS_EmptySet DEF Times
  <2>4. QED
    BY <1>1, <1>2, <2>3
<1>3. CASE b \in B
  BY <1>1, <1>3
<1>4. QED
  BY <1>2, <1>3

\* How many chains some texts show.
TellSum(texts, mode, b) ==
  LET told[n \in 0..Len(texts)] == IF n = 0 THEN 0 ELSE told[n - 1] + Shown(texts[n], mode, b)
  IN  told[Len(texts)]

Telling(texts, mode, b, n, g) ==
  g \in [0..n -> Nat] /\ g[0] = 0 /\ \A i \in 1..n : g[i] = g[i - 1] + Shown(texts[i], mode, b)

LEMMA TellSteps ==
  ASSUME NEW X, NEW texts \in Seq(X), NEW mode, NEW b,
         \A i \in DOMAIN texts : Shown(texts[i], mode, b) \in Nat
  PROVE  \E g : Telling(texts, mode, b, Len(texts), g) /\ TellSum(texts, mode, b) = g[Len(texts)]
<1> DEFINE n == Len(texts)
           a(i) == Shown(texts[i], mode, b)
           F == [x \in (1..n) \X Nat |-> x[2] + a(x[1])]
           Def(f) == f = [i \in 0..n |-> IF i = 0 THEN 0 ELSE f[i - 1] + a(i)]
           told == CHOOSE f : Def(f)
<1>1. n \in Nat /\ \A i \in 1..n : a(i) \in Nat
  OBVIOUS
<1>2. TellSum(texts, mode, b) = told[n]
  BY DEF TellSum
<1> HIDE DEF n, a
<1>3. F \in [(1..n) \X Nat -> Nat]
  BY <1>1
<1>4. PICK g : Values(n, Nat, 0, F, g)
  <2> HIDE DEF F
  <2>1. QED
    BY <1>1, <1>3, RecursionIn
<1>5. g \in [0..n -> Nat] /\ g[0] = 0 /\ \A i \in 1..n : g[i] = g[i - 1] + a(i)
  <2>1. g \in [0..n -> Nat] /\ g[0] = 0 /\ \A i \in 1..n : g[i] = F[<<i, g[i - 1]>>]
    BY <1>4 DEF Values
  <2>2. \A i \in 1..n : g[i - 1] \in Nat /\ <<i, g[i - 1]>> \in (1..n) \X Nat
    BY <1>1, <2>1
  <2>3. \A i \in 1..n : F[<<i, g[i - 1]>>] = g[i - 1] + a(i)
    BY <2>2
  <2> HIDE DEF F
  <2>4. QED
    BY <2>1, <2>3
<1>6. Def(g)
  <2>1. \A i \in 0..n : g[i] = IF i = 0 THEN 0 ELSE g[i - 1] + a(i)
    BY <1>1, <1>5
  <2>2. g = [i \in 0..n |-> g[i]]
    BY <1>5
  <2>3. QED
    BY <2>1, <2>2
<1>7. Def(told)
  BY <1>6
<1> HIDE DEF told
<1>8. told = [i \in 0..n |-> told[i]] /\ told[0] = 0 /\ \A i \in 1..n : told[i] = told[i - 1] + a(i)
  <2>1. told = [i \in 0..n |-> IF i = 0 THEN 0 ELSE told[i - 1] + a(i)]
    BY <1>7
  <2>2. \A i \in 0..n : told[i] = IF i = 0 THEN 0 ELSE told[i - 1] + a(i)
    BY <2>1, Zenon
  <2>3. 0 \in 0..n /\ \A i \in 1..n : i \in 0..n /\ i # 0
    BY <1>1
  <2>4. told = [i \in 0..n |-> told[i]]
    BY <2>1
  <2>5. QED
    BY <2>2, <2>3, <2>4
<1> HIDE DEF Def
<1>9. told[n] = g[n]
  <2> DEFINE T == {i \in 0..n : told[i] = g[i]}
  <2>1. 0 \in T
    BY <1>1, <1>5, <1>8
  <2>2. \A i \in 1..n : i - 1 \in T => i \in T
    <3>1. ASSUME NEW i \in 1..n, told[i - 1] = g[i - 1] PROVE told[i] = g[i]
      <4>1. told[i] = told[i - 1] + a(i) /\ g[i] = g[i - 1] + a(i)
        BY <1>5, <1>8
      <4>2. QED
        BY <3>1, <4>1, Zenon
    <3>2. QED
      BY <1>1, <3>1
  <2>3. \A i \in 0..n : i \in T
    <3> HIDE DEF T
    <3>1. QED
      BY <1>1, <2>1, <2>2, Upwards
  <2>4. QED
    BY <1>1, <2>3
<1>10. QED
  BY <1>2, <1>5, <1>9 DEF Telling, n, a

LEMMA TellMore ==
  ASSUME NEW X, NEW texts \in Seq(X), NEW text \in X, NEW mode, NEW b,
         \A i \in DOMAIN texts : Shown(texts[i], mode, b) \in Nat, Shown(text, mode, b) \in Nat
  PROVE  /\ TellSum(texts, mode, b) \in Nat
         /\ TellSum(Append(texts, text), mode, b) = TellSum(texts, mode, b) + Shown(text, mode, b)
<1> DEFINE n == Len(texts)
           more == Append(texts, text)
<1>1. /\ n \in Nat /\ DOMAIN texts = 1..n /\ more \in Seq(X) /\ Len(more) = n + 1 /\ DOMAIN more = 1..(n + 1)
      /\ \A i \in 1..n : more[i] = texts[i]
      /\ more[n + 1] = text
  BY AppendProperties
<1> HIDE DEF more, n
<1>2. \A i \in DOMAIN more : Shown(more[i], mode, b) \in Nat
  <2>1. \A i \in 1..n : Shown(more[i], mode, b) \in Nat
    BY <1>1
  <2>2. \A i \in DOMAIN more : i \in 1..n \/ i = n + 1
    BY <1>1
  <2>3. QED
    BY <1>1, <2>1, <2>2
<1>3. PICK g : Telling(texts, mode, b, n, g) /\ TellSum(texts, mode, b) = g[n]
  BY TellSteps DEF n
<1>4. PICK h : Telling(more, mode, b, n + 1, h) /\ TellSum(more, mode, b) = h[n + 1]
  BY <1>1, <1>2, TellSteps
<1>5. /\ g \in [0..n -> Nat] /\ g[0] = 0 /\ \A i \in 1..n : g[i] = g[i - 1] + Shown(texts[i], mode, b)
      /\ h[0] = 0 /\ \A i \in 1..(n + 1) : h[i] = h[i - 1] + Shown(more[i], mode, b)
  BY <1>3, <1>4 DEF Telling
<1>6. h[n] = g[n]
  <2> DEFINE T == {i \in 0..n : h[i] = g[i]}
  <2>1. 0 \in T
    BY <1>1, <1>5
  <2>2. \A i \in 1..n : i - 1 \in T => i \in T
    <3>1. ASSUME NEW i \in 1..n, h[i - 1] = g[i - 1] PROVE h[i] = g[i]
      <4>1. h[i] = h[i - 1] + Shown(more[i], mode, b) /\ g[i] = g[i - 1] + Shown(texts[i], mode, b)
        BY <1>1, <1>5
      <4>2. QED
        BY <1>1, <3>1, <4>1, Zenon
    <3>2. \A i \in 1..n : i \in 0..n
      BY <1>1
    <3>3. QED
      BY <3>1, <3>2
  <2>3. \A i \in 0..n : i \in T
    <3> HIDE DEF T
    <3>1. QED
      BY <1>1, <2>1, <2>2, Upwards
  <2>4. QED
    BY <1>1, <2>3
<1>7. h[n + 1] = h[n] + Shown(text, mode, b)
  <2>1. n + 1 \in 1..(n + 1) /\ n + 1 - 1 = n
    BY <1>1
  <2>2. QED
    BY <1>1, <1>5, <2>1
<1>8. g[n] \in Nat
  BY <1>1, <1>5
<1>9. QED
  BY <1>3, <1>4, <1>6, <1>7, <1>8 DEF more

LEMMA TellNothing ==
  ASSUME NEW mode, NEW b
  PROVE  TellSum(<< >>, mode, b) = 0
<1>1. << >> \in Seq({}) /\ Len(<< >>) = 0 /\ DOMAIN << >> = {}
  OBVIOUS
<1>2. PICK g : Telling(<< >>, mode, b, 0, g) /\ TellSum(<< >>, mode, b) = g[0]
  <2> DEFINE none == << >>
  <2>1. none \in Seq({}) /\ Len(none) = 0 /\ \A i \in DOMAIN none : Shown(none[i], mode, b) \in Nat
    BY <1>1
  <2> HIDE DEF none
  <2>2. \E g : Telling(none, mode, b, Len(none), g) /\ TellSum(none, mode, b) = g[Len(none)]
    BY <2>1, TellSteps
  <2>3. QED
    BY <2>1, <2>2 DEF none
<1>3. QED
  BY <1>2 DEF Telling

-----------------------------------------------------------------------------
(* A client that follows the lists of an answer.                            *)

ListModes == {"callers", "callees", "sites"}
ChainModes == {"callers", "callees"}

\* How much of a list the client has been led past.
Reached(w, mode) ==
  IF w.cursor = NoCursor THEN Listed(w.answer, mode)
  ELSE IF ListNumber(w.cursor[1]) > ListNumber(mode) THEN Listed(w.answer, mode)
  ELSE IF w.cursor[1] = mode THEN w.cursor[2] ELSE 0

\* The client is at a place of a list.
At(w, mode, o) ==
  /\ w.cursor = <<mode, o>> /\ w.cursor # NoCursor /\ mode \in ListModes /\ o \in Nat
  /\ o <= Listed(w.answer, mode)

SymbolShape(w) ==
  /\ DOMAIN w = {"kind", "request", "answer", "cursor", "pages", "text"} /\ w.kind = "symbol"
  /\ w.request \in SymbolRequests
  /\ Lists(w.answer)
  /\ ~ w.answer.known => w.answer.callers = << >> /\ w.answer.callees = << >>
  /\ w.cursor = NoCursor \/ \E mode, o : At(w, mode, o)

\* A call takes the client from a place of a list to a later one.
Moves(w, v, mode, o, end) ==
  /\ SymbolShape(w) /\ At(w, mode, o)
  /\ DOMAIN v = DOMAIN w /\ v.kind = "symbol" /\ v.request = w.request /\ v.answer = w.answer
  /\ end \in o..Listed(w.answer, mode)
  /\ end < Listed(w.answer, mode) => o < end
  /\ v.cursor = IF end < Listed(w.answer, mode) THEN <<mode, end>> ELSE NextList(w, mode)

LEMMA ListedNat ==
  ASSUME NEW answer, Lists(answer), NEW mode \in ListModes
  PROVE  Listed(answer, mode) \in Nat
<1>1. Len(answer.callers) \in Nat /\ Len(answer.callees) \in Nat /\ Len(answer.sites) \in Nat
  BY DEF Lists
<1>2. QED
  BY <1>1 DEF Listed, ListModes

LEMMA PagedMoves ==
  ASSUME NEW w, SymbolShape(w), w.cursor # NoCursor, NEW v \in Paged(w)
  PROVE  \E mode, o, end :
           /\ Moves(w, v, mode, o, end)
           /\ \/ /\ v.pages = Append(w.pages, PageText(w.answer, mode, o + 1, end))
                 /\ v.text = w.text
              \/ /\ ~ Replaced(w, mode, o) /\ v.text \in Texts(w)
                 /\ v.pages = w.pages
<1>1. PICK mode, o : At(w, mode, o)
  BY DEF SymbolShape
<1>2. w.cursor[1] = mode /\ w.cursor[2] = o
  BY <1>1 DEF At
<1> DEFINE total == Listed(w.answer, mode)
           end == PageEnd(total, o)
<1>3. total \in Nat /\ o \in Nat /\ ChainPage \in Nat
  BY <1>1, ListedNat, GraphAssumption DEF SymbolShape, At
<1>4. DOMAIN w = {"kind", "request", "answer", "cursor", "pages", "text"} /\ w.kind = "symbol"
  BY DEF SymbolShape
<1> HIDE DEF total
<1>5. CASE Replaced(w, mode, o)
  <2>1. v = WithPage(w, mode, o, end)
    BY <1>2, <1>5 DEF Paged, total
  <2>2. /\ DOMAIN v = DOMAIN w /\ v.kind = "symbol" /\ v.request = w.request /\ v.answer = w.answer
        /\ v.cursor = IF end < Listed(w.answer, mode) THEN <<mode, end>> ELSE NextList(w, mode)
        /\ v.pages = Append(w.pages, PageText(w.answer, mode, o + 1, end))
        /\ v.text = w.text
    <3> HIDE DEF end
    <3>1. QED
      BY <1>4, <2>1 DEF WithPage
  <2>3. end \in o..total /\ (end < total => o < end)
    <3>1. o <= total
      BY <1>1 DEF At, total
    <3>2. ChainPage > 0
      BY GraphAssumption
    <3>3. QED
      BY <1>3, <3>1, <3>2 DEF PageEnd, More
  <2> HIDE DEF end
  <2>4. Moves(w, v, mode, o, end)
    BY <1>1, <2>2, <2>3 DEF Moves, total
  <2>5. QED
    BY <2>2, <2>4
<1>6. CASE ~ Replaced(w, mode, o)
  <2>1. PICK text \in Texts(w) : v = WithText(w, mode, text)
    BY <1>2, <1>6 DEF Paged
  <2>2. /\ DOMAIN v = DOMAIN w /\ v.kind = "symbol" /\ v.request = w.request /\ v.answer = w.answer
        /\ v.cursor = NextList(w, mode) /\ v.text \in Texts(w) /\ v.pages = w.pages
    BY <1>4, <2>1 DEF WithText
  <2>3. Moves(w, v, mode, o, total)
    BY <1>1, <1>3, <2>2 DEF Moves, At, total
  <2>4. QED
    BY <1>6, <2>2, <2>3
<1>7. QED
  BY <1>5, <1>6

LEMMA NextListIs ==
  ASSUME NEW w, SymbolShape(w), NEW mode \in ListModes
  PROVE  \/ NextList(w, mode) = NoCursor
         \/ NextList(w, mode) = <<"callees", 0>> /\ mode = "callers"
         \/ NextList(w, mode) = <<"sites", 0>> /\ mode \in {"callers", "callees"}
BY DEF NextList, CalleesFollow, SitesFollow

\* The cursor a call leads to.
LEMMA MovesTo ==
  ASSUME NEW w, NEW v, NEW mode, NEW o, NEW end, Moves(w, v, mode, o, end)
  PROVE  /\ SymbolShape(v)
         /\ v.cursor = NoCursor \/ \E m, k : /\ At(v, m, k)
                                            /\ \/ ListNumber(m) > ListNumber(mode)
                                               \/ m = mode /\ k > o
<1> DEFINE total == Listed(w.answer, mode)
<1>1. /\ SymbolShape(w) /\ mode \in ListModes /\ o \in Nat /\ o <= total
      /\ v.answer = w.answer /\ v.request = w.request /\ v.kind = "symbol" /\ DOMAIN v = DOMAIN w
      /\ end \in o..total /\ (end < total => o < end)
      /\ v.cursor = IF end < total THEN <<mode, end>> ELSE NextList(w, mode)
  BY DEF Moves, At
<1>2. \A m \in ListModes : Listed(v.answer, m) \in Nat
  BY <1>1, ListedNat DEF SymbolShape
<1>3. total \in Nat /\ end \in Nat /\ total = Listed(v.answer, mode)
  BY <1>1, <1>2
<1> HIDE DEF total
<1>4. v.cursor = NoCursor \/ \E m, k : At(v, m, k) /\ (ListNumber(m) > ListNumber(mode) \/ (m = mode /\ k > o))
  <2>1. CASE end < total
    <3>1. v.cursor = <<mode, end>> /\ end > o /\ end <= total
      BY <1>1, <1>3, <2>1
    <3>2. v.cursor # NoCursor => At(v, mode, end)
      BY <1>1, <1>3, <3>1 DEF At
    <3>3. QED
      BY <3>1, <3>2
  <2>2. CASE ~ (end < total)
    <3>1. v.cursor = NextList(w, mode)
      BY <1>1, <2>2
    <3>2. CASE v.cursor = <<"callees", 0>> /\ mode = "callers" /\ v.cursor # NoCursor
      <4>1. At(v, "callees", 0)
        BY <1>2, <3>2 DEF At, ListModes
      <4>2. ListNumber("callees") > ListNumber(mode)
        BY <3>2 DEF ListNumber
      <4>3. QED
        BY <4>1, <4>2
    <3>3. CASE v.cursor = <<"sites", 0>> /\ mode \in {"callers", "callees"} /\ v.cursor # NoCursor
      <4>1. At(v, "sites", 0)
        BY <1>2, <3>3 DEF At, ListModes
      <4>2. ListNumber("sites") > ListNumber(mode)
        BY <3>3 DEF ListNumber
      <4>3. QED
        BY <4>1, <4>2
    <3>4. QED
      BY <1>1, <3>1, <3>2, <3>3, NextListIs
  <2>3. QED
    BY <2>1, <2>2
<1>5. SymbolShape(v)
  BY <1>1, <1>4 DEF SymbolShape
<1>6. QED
  BY <1>4, <1>5

\* What a call leads past: the list of the cursor, and no other unless it is
\* empty or a summary was asked for.
LEMMA MovesReach ==
  ASSUME NEW w, NEW v, NEW mode, NEW o, NEW end, Moves(w, v, mode, o, end)
  PROVE  /\ Reached(w, mode) = o /\ Reached(v, mode) = end
         /\ \A m \in ListModes \ {mode} :
              /\ Reached(w, m) \in Nat /\ Reached(v, m) \in Nat /\ Reached(w, m) <= Reached(v, m)
              /\ Reached(v, m) <= Listed(w.answer, m)
              /\ w.request.summary # "true" => Reached(v, m) = Reached(w, m)
<1> DEFINE total == Listed(w.answer, mode)
           L(m) == Listed(w.answer, m)
<1>1. /\ SymbolShape(w) /\ mode \in ListModes /\ o \in Nat /\ o <= total
      /\ v.answer = w.answer /\ v.request = w.request
      /\ end \in o..total
      /\ v.cursor = IF end < total THEN <<mode, end>> ELSE NextList(w, mode)
      /\ w.cursor = <<mode, o>> /\ w.cursor # NoCursor
  BY DEF Moves, At
<1>2. \A m \in ListModes : L(m) \in Nat
  BY <1>1, ListedNat DEF SymbolShape
<1>3. w.cursor[1] = mode /\ w.cursor[2] = o
  BY <1>1
<1>4. \A m \in ListModes : ListNumber(m) \in 1..3 /\ \A k \in ListModes : ListNumber(m) = ListNumber(k) => m = k
  BY DEF ListNumber, ListModes
<1>5. \A m \in ListModes :
        Reached(w, m) = IF ListNumber(mode) > ListNumber(m) THEN L(m) ELSE IF m = mode THEN o ELSE 0
  BY <1>1, <1>3 DEF Reached
<1>6. Reached(w, mode) = o
  BY <1>1, <1>4, <1>5
<1>7. total \in Nat /\ end \in Nat /\ total = L(mode)
  BY <1>1, <1>2
<1>8. /\ Len(w.answer.callees) \in Nat /\ Len(w.answer.sites) \in Nat
      /\ L("callees") = Len(w.answer.callees) /\ L("sites") = Len(w.answer.sites)
      /\ w.answer.callees = << >> => L("callees") = 0
      /\ w.answer.sites = << >> => L("sites") = 0
  BY <1>1 DEF SymbolShape, Lists, Listed
<1> HIDE DEF total, L
<1> DEFINE Goal ==
  /\ Reached(v, mode) = end
  /\ \A m \in ListModes \ {mode} :
       /\ Reached(w, m) \in Nat /\ Reached(v, m) \in Nat /\ Reached(w, m) <= Reached(v, m)
       /\ Reached(v, m) <= L(m)
       /\ w.request.summary # "true" => Reached(v, m) = Reached(w, m)
<1>9. ASSUME v.cursor = NoCursor PROVE Goal
  <2>1. \A m \in ListModes : Reached(v, m) = L(m)
    BY <1>1, <1>9 DEF Reached, L
  <2>2. CASE end < total
    \* No place of a list is taken for the end of them.
    <3>1. <<mode, end>> \in {"callers", "callees", "sites"} \X Nat
      BY <1>1, <1>7 DEF ListModes
    <3>2. QED
      BY <1>1, <1>9, <2>2, <3>1, GraphAssumption
  <2>3. CASE ~ (end < total)
    <3>1. end = total
      BY <1>1, <1>7, <2>3
    <3>2. NextList(w, mode) = NoCursor
      BY <1>1, <1>9, <2>3
    <3>3. <<"callees", 0>> # NoCursor /\ <<"sites", 0>> # NoCursor
      <4>1. <<"callees", 0>> \in {"callers", "callees", "sites"} \X Nat
            /\ <<"sites", 0>> \in {"callers", "callees", "sites"} \X Nat
        OBVIOUS
      <4>2. QED
        BY <4>1, GraphAssumption
    <3>4. w.request.summary # "true" => ~ CalleesFollow(w, mode) /\ ~ SitesFollow(w, mode)
      BY <3>2, <3>3 DEF NextList
    <3>5. \A m \in ListModes \ {mode} :
            w.request.summary # "true" /\ ListNumber(m) > ListNumber(mode) => L(m) = 0
      <4>1. CASE mode = "callers"
        BY <1>8, <3>4, <4>1 DEF CalleesFollow, SitesFollow, ListNumber, ListModes
      <4>2. CASE mode = "callees"
        BY <1>8, <3>4, <4>2 DEF CalleesFollow, SitesFollow, ListNumber, ListModes
      <4>3. CASE mode = "sites"
        BY <4>3 DEF ListNumber, ListModes
      <4>4. QED
        BY <1>1, <4>1, <4>2, <4>3 DEF ListModes
    <3>6. \A m \in ListModes \ {mode} : ListNumber(mode) > ListNumber(m) \/ ListNumber(m) > ListNumber(mode)
      BY <1>1, <1>4
    <3>7. QED
      BY <1>1, <1>2, <1>5, <1>7, <2>1, <3>1, <3>5, <3>6
  <2>4. QED
    BY <2>2, <2>3
<1>10. ASSUME v.cursor # NoCursor PROVE Goal
  <2>1. PICK m2, k2 : v.cursor = <<m2, k2>> /\ m2 \in ListModes /\ k2 \in Nat
    BY <1>10, MovesTo DEF At
  <2>2. \A m \in ListModes :
          Reached(v, m) = IF ListNumber(m2) > ListNumber(m) THEN L(m) ELSE IF m2 = m THEN k2 ELSE 0
    BY <1>1, <1>10, <2>1 DEF Reached, L
  <2>3. CASE end < total
    <3>1. m2 = mode /\ k2 = end
      BY <1>1, <2>1, <2>3
    <3>2. QED
      BY <1>1, <1>2, <1>4, <1>5, <1>7, <2>2, <3>1
  <2>4. CASE ~ (end < total)
    <3>1. end = total /\ <<m2, k2>> = NextList(w, mode)
      BY <1>1, <1>7, <2>1, <2>4
    <3>2. CASE mode = "callers" /\ m2 = "callees" /\ k2 = 0
      BY <1>1, <1>2, <1>5, <1>7, <2>2, <3>1, <3>2 DEF ListNumber, ListModes
    <3>3. CASE mode = "callees" /\ m2 = "sites" /\ k2 = 0
      BY <1>1, <1>2, <1>5, <1>7, <2>2, <3>1, <3>3 DEF ListNumber, ListModes
    <3>4. CASE mode = "callers" /\ m2 = "sites" /\ k2 = 0
      <4>1. NextList(w, mode) = <<"sites", 0>>
        BY <3>1, <3>4
      <4>2. NextList(w, mode) # NoCursor /\ NextList(w, mode) # <<"callees", 0>>
        BY <1>1, <1>10, <3>1, <2>4, <4>1
      <4>3. SitesFollow(w, mode)
        BY <4>2 DEF NextList
      <4>4. L("callees") = 0
        BY <1>8, <3>4, <4>3 DEF SitesFollow
      <4>5. QED
        BY <1>1, <1>2, <1>5, <1>7, <2>2, <3>1, <3>4, <4>4 DEF ListNumber, ListModes
    <3>5. QED
      <4>1. <<m2, k2>> # NoCursor
        BY <1>10, <2>1
      <4>2. \/ m2 = "callees" /\ k2 = 0 /\ mode = "callers"
            \/ m2 = "sites" /\ k2 = 0 /\ mode \in {"callers", "callees"}
        BY <1>1, <3>1, <4>1, NextListIs
      <4>3. QED
        BY <3>2, <3>3, <3>4, <4>2
  <2>5. QED
    BY <2>3, <2>4
<1>11. Goal
  BY <1>9, <1>10
<1>12. QED
  BY <1>6, <1>11 DEF L

-----------------------------------------------------------------------------
(* What a client that follows the lists has been told.                      *)

PagesShown(w) ==
  /\ \E X : w.pages \in Seq(X)
  /\ \A i \in DOMAIN w.pages :
       /\ w.pages[i].kind = "page" /\ w.pages[i].mode \in ListModes
       /\ w.pages[i].last \in Nat /\ w.pages[i].last <= Reached(w, w.pages[i].mode)
       /\ \A m \in ChainModes : \A b : Shown(w.pages[i], m, b) \in Nat
  /\ \A i, j \in DOMAIN w.pages :
       i < j /\ w.pages[i].mode = w.pages[j].mode => w.pages[i].last < w.pages[j].first

TextShown(w) == w.text = NoText \/ \A m \in ChainModes : \A b : Shown(w.text, m, b) \in Nat

Whole(w) == w.answer.known /\ w.text = FullText(w.answer)

PageSites(pages) ==
  UNION {page.written \cup page.readOnly : page \in {x \in ToSet(pages) : x.mode = "sites"}}

\* All that the client has been led past is on the pages, or in the text.
AllShown(w) ==
  w.request.summary # "true" /\ ~ w.request.long /\ ~ Whole(w) =>
    /\ \A m \in ChainModes : \A b :
         TellSum(w.pages, m, b) >= Times(SubSeq(w.answer[m], 1, Reached(w, m)), b)
    /\ \A i \in 1..Reached(w, "sites") : i \in PageSites(w.pages)

LEMMA ChainLists ==
  ASSUME NEW answer, Lists(answer), NEW m \in ChainModes
  PROVE  /\ \E X : answer[m] \in Seq(X)
         /\ Listed(answer, m) = Len(answer[m])
         /\ m \in ListModes
<1>1. m = "callers" \/ m = "callees"
  BY DEF ChainModes
<1>2. CASE m = "callers"
  BY <1>2 DEF Lists, Listed, ListModes
<1>3. CASE m = "callees"
  BY <1>3 DEF Lists, Listed, ListModes
<1>4. QED
  BY <1>1, <1>2, <1>3

LEMMA TimesNat ==
  ASSUME NEW X, NEW s \in Seq(X), NEW b
  PROVE  /\ Times(s, b) \in Nat /\ SubSeq(s, 1, Len(s)) = s
         /\ Times(SubSeq(s, 1, 0), b) = 0
<1>1. Len(s) \in Nat /\ 0 \in 0..Len(s) /\ Len(s) \in 0..Len(s) /\ 0 + 1 = 1
  OBVIOUS
<1>2. SubSeq(s, 1, Len(s)) = s
  <2>1. \A i \in 1..Len(s) : s[i] \in X
    OBVIOUS
  <2>2. /\ SubSeq(s, 1, Len(s)) \in Seq(X)
        /\ Len(SubSeq(s, 1, Len(s))) = (IF 1 <= Len(s) THEN Len(s) - 1 + 1 ELSE 0)
        /\ \A i \in 1..(Len(s) - 1 + 1) : SubSeq(s, 1, Len(s))[i] = s[1 + i - 1]
    BY <1>1, <2>1, SubSeqProperties
  <2>3. Len(SubSeq(s, 1, Len(s))) = Len(s) /\ \A i \in 1..Len(s) : SubSeq(s, 1, Len(s))[i] = s[i]
    BY <1>1, <2>2
  <2>4. QED
    BY <2>2, <2>3, SeqEqual
<1>3. Times(SubSeq(s, 0 + 1, Len(s)), b) \in Nat
  BY <1>1, TimesOfPart
<1>4. SubSeq(s, 1, 0) = << >>
  BY SubSeqEmpty
<1>5. Times(<< >>, b) = 0
  BY FS_EmptySet DEF Times
<1>6. QED
  BY <1>1, <1>2, <1>3, <1>4, <1>5

LEMMA PageIs ==
  ASSUME NEW answer, Lists(answer), NEW mode \in ListModes, NEW o \in Nat, NEW end \in o..Listed(answer, mode),
         NEW page, page = PageText(answer, mode, o + 1, end)
  PROVE  /\ page.kind = "page" /\ page.mode = mode /\ page.first = o + 1 /\ page.last = end /\ end \in Nat
         /\ \A m \in ChainModes : \A b :
              /\ Shown(page, m, b) \in Nat
              /\ m = mode => Shown(page, m, b) = Times(SubSeq(answer[m], o + 1, end), b)
         /\ mode = "sites" => page.written \cup page.readOnly = (o + 1)..end
<1>1. Listed(answer, mode) \in Nat
  BY ListedNat
<1>2. end \in Nat
  BY <1>1
<1>3. CASE mode = "sites"
  <2>1. page = SitesPageText(answer.sites, o + 1, end)
    BY <1>3 DEF PageText
  <2>2. /\ page.kind = "page" /\ page.mode = mode /\ page.first = o + 1 /\ page.last = end
        /\ page.written = Written(answer.sites) \cap (o + 1)..end
        /\ page.readOnly = ReadOnly(answer.sites) \cap (o + 1)..end
    BY <1>3, <2>1 DEF SitesPageText
  <2>3. \A m \in ChainModes : \A b : Shown(page, m, b) = 0 /\ m # mode
    BY <1>3, <2>2 DEF Shown, ChainModes
  <2>4. page.written \cup page.readOnly = (o + 1)..end
    <3>1. Written(answer.sites) \cup ReadOnly(answer.sites) = DOMAIN answer.sites
      BY DEF Written, ReadOnly
    <3>2. (o + 1)..end \subseteq DOMAIN answer.sites
      <4>1. Listed(answer, mode) = Len(answer.sites) /\ DOMAIN answer.sites = 1..Len(answer.sites)
        BY <1>3 DEF Listed, Lists
      <4>2. QED
        BY <1>1, <4>1
    <3>3. QED
      BY <2>2, <3>1, <3>2
  <2>5. QED
    BY <1>2, <2>2, <2>3, <2>4
<1>4. CASE mode \in ChainModes
  <2> DEFINE chains == SubSeq(answer[mode], o + 1, end)
  <2>1. page = ChainPageText(answer, mode, chains, o + 1)
    BY <1>4 DEF PageText, ChainModes
  <2>2. PICK X : answer[mode] \in Seq(X) /\ Listed(answer, mode) = Len(answer[mode])
    BY <1>4, ChainLists
  <2>3. Len(chains) = end - o /\ \A b : Times(chains, b) \in Nat
    <3>1. o \in 0..Len(answer[mode]) /\ end \in o..Len(answer[mode])
      BY <1>1, <2>2
    <3>2. QED
      BY <2>2, <3>1, TimesOfPart
  <2> HIDE DEF chains
  <2>4. page.kind = "page" /\ page.mode = mode /\ page.first = o + 1 /\ page.last = o + 1 + Len(chains) - 1
        /\ page.tree = Tree(chains)
    BY <2>1 DEF ChainPageText
  <2>5. page.last = end
    BY <1>2, <2>3, <2>4
  <2>6. ASSUME NEW m \in ChainModes, NEW b
        PROVE  /\ m = mode => Shown(page, m, b) = Times(chains, b)
               /\ m # mode => Shown(page, m, b) = 0
    <3>1. m = mode => Shown(page, m, b) = (IF b \in DOMAIN Tree(chains) THEN Tree(chains)[b] ELSE 0)
      BY <2>4 DEF Shown
    <3>2. m # mode => Shown(page, m, b) = 0
      BY <2>4 DEF Shown
    <3>3. QED
      BY <3>1, <3>2, TreeCounts
  <2>7. \A m \in ChainModes : \A b : /\ Shown(page, m, b) \in Nat
                                     /\ m = mode => Shown(page, m, b) = Times(chains, b)
    BY <2>3, <2>6
  <2>8. mode # "sites"
    BY <1>4 DEF ChainModes
  <2>9. QED
    BY <1>2, <2>4, <2>5, <2>7, <2>8 DEF chains
<1>5. QED
  BY <1>3, <1>4 DEF ListModes, ChainModes

LEMMA FullTextIs ==
  ASSUME NEW answer, Lists(answer), NEW m \in ChainModes, NEW b
  PROVE  /\ Shown(FullText(answer), m, b) = Times(answer[m], b) /\ Times(answer[m], b) \in Nat
         /\ FullText(answer).kind = "full"
         /\ FullText(answer).written \cup FullText(answer).readOnly = DOMAIN answer.sites
<1> DEFINE text == FullText(answer)
<1>1. /\ text.kind = "full" /\ text.callers = Tree(answer.callers) /\ text.callees = Tree(answer.callees)
      /\ text.written = Written(answer.sites) /\ text.readOnly = ReadOnly(answer.sites)
  BY DEF FullText
<1> HIDE DEF text
<1>2. text[m] = Tree(answer[m])
  BY <1>1 DEF ChainModes
<1>3. Shown(text, m, b) = Times(answer[m], b)
  <2>1. Shown(text, m, b) = (IF b \in DOMAIN Tree(answer[m]) THEN Tree(answer[m])[b] ELSE 0)
    BY <1>1, <1>2 DEF Shown
  <2>2. QED
    BY <2>1, TreeCounts
<1>4. Times(answer[m], b) \in Nat
  <2>1. PICK X : answer[m] \in Seq(X)
    BY ChainLists
  <2>2. QED
    BY <2>1, TimesNat
<1>5. QED
  BY <1>1, <1>3, <1>4 DEF text, Written, ReadOnly

LEMMA TextIs ==
  ASSUME NEW w, SymbolShape(w), NEW text \in Texts(w)
  PROVE  /\ \A m \in ChainModes : \A b : Shown(text, m, b) \in Nat
         /\ w.request.summary # "true" /\ ~ w.request.long /\ w.answer.known => text = FullText(w.answer)
<1>1. Lists(w.answer)
  BY DEF SymbolShape
<1>2. \A t : t.kind \in {"counts", "summary"} => \A m, b : Shown(t, m, b) = 0
  BY DEF Shown
<1>3. \/ text.kind \in {"counts", "summary"}
      \/ text = FullText(w.answer)
  <2>1. SitesText(w.answer).kind = "counts"
    BY DEF SitesText
  <2>2. \A t \in Summaries(w.answer) : t.kind = "summary"
    BY DEF Summaries
  <2>3. QED
    BY <2>1, <2>2 DEF Texts
<1>4. \A m \in ChainModes : \A b : Shown(FullText(w.answer), m, b) \in Nat
  BY <1>1, FullTextIs
<1>5. QED
  BY <1>2, <1>3, <1>4 DEF Texts

SymbolReads(w) == SymbolShape(w) /\ PagesShown(w) /\ TextShown(w) /\ AllShown(w)

\* A page goes on from where the client is.
LEMMA PageStep ==
  ASSUME NEW w, SymbolReads(w), NEW v, NEW mode, NEW o, NEW end, Moves(w, v, mode, o, end),
         v.pages = Append(w.pages, PageText(w.answer, mode, o + 1, end)), v.text = w.text
  PROVE  SymbolReads(v)
<1> DEFINE page == PageText(w.answer, mode, o + 1, end)
           n == Len(w.pages)
<1>1. /\ SymbolShape(w) /\ PagesShown(w) /\ TextShown(w) /\ AllShown(w) /\ Lists(w.answer)
      /\ mode \in ListModes /\ o \in Nat /\ end \in o..Listed(w.answer, mode) /\ Listed(w.answer, mode) \in Nat
      /\ v.answer = w.answer /\ v.request = w.request
  BY ListedNat DEF SymbolReads, SymbolShape, Moves, At
<1>2. /\ page.kind = "page" /\ page.mode = mode /\ page.first = o + 1 /\ page.last = end /\ end \in Nat
      /\ \A m \in ChainModes : \A b :
           /\ Shown(page, m, b) \in Nat
           /\ m = mode => Shown(page, m, b) = Times(SubSeq(w.answer[m], o + 1, end), b)
      /\ mode = "sites" => page.written \cup page.readOnly = (o + 1)..end
  BY <1>1, PageIs
<1>3. /\ Reached(w, mode) = o /\ Reached(v, mode) = end
      /\ \A m \in ListModes \ {mode} :
           /\ Reached(w, m) \in Nat /\ Reached(v, m) \in Nat /\ Reached(w, m) <= Reached(v, m)
           /\ Reached(v, m) <= Listed(w.answer, m)
           /\ w.request.summary # "true" => Reached(v, m) = Reached(w, m)
  BY MovesReach
<1> HIDE DEF page
<1>4. PICK X : w.pages \in Seq(X)
  BY <1>1 DEF PagesShown
<1>5. /\ n \in Nat /\ DOMAIN w.pages = 1..n /\ v.pages \in Seq(X \cup {page}) /\ DOMAIN v.pages = 1..(n + 1)
      /\ w.pages \in Seq(X \cup {page})
      /\ \A i \in 1..n : v.pages[i] = w.pages[i]
      /\ v.pages[n + 1] = page /\ v.pages = Append(w.pages, page)
  <2>1. w.pages \in Seq(X \cup {page}) /\ page \in X \cup {page}
    BY <1>4, SeqMonotonic
  <2>2. v.pages = Append(w.pages, page)
    BY DEF page
  <2>3. QED
    BY <2>1, <2>2, AppendProperties
<1> HIDE DEF n
<1>6. \A i \in 1..n :
        /\ w.pages[i].kind = "page" /\ w.pages[i].mode \in ListModes
        /\ w.pages[i].last \in Nat /\ w.pages[i].last <= Reached(w, w.pages[i].mode)
        /\ \A m \in ChainModes : \A b : Shown(w.pages[i], m, b) \in Nat
  BY <1>1, <1>5 DEF PagesShown
<1>7. PagesShown(v)
  <2>1. ASSUME NEW i \in 1..n
        PROVE  v.pages[i].last <= Reached(v, v.pages[i].mode)
    <3>1. Reached(w, v.pages[i].mode) <= Reached(v, v.pages[i].mode)
          /\ Reached(w, v.pages[i].mode) \in Nat /\ Reached(v, v.pages[i].mode) \in Nat
      BY <1>1, <1>2, <1>3, <1>5, <1>6
    <3>2. QED
      BY <1>5, <1>6, <3>1
  <2>2. ASSUME NEW i \in 1..(n + 1)
        PROVE  /\ v.pages[i].kind = "page" /\ v.pages[i].mode \in ListModes
               /\ v.pages[i].last \in Nat /\ v.pages[i].last <= Reached(v, v.pages[i].mode)
               /\ \A m \in ChainModes : \A b : Shown(v.pages[i], m, b) \in Nat
    <3>1. CASE i = n + 1
      BY <1>1, <1>2, <1>3, <1>5, <3>1
    <3>2. CASE i # n + 1
      <4>1. i \in 1..n
        BY <1>5, <3>2
      <4>2. v.pages[i] = w.pages[i]
        BY <1>5, <4>1
      <4>3. QED
        BY <1>6, <2>1, <4>1, <4>2
    <3>3. QED
      BY <3>1, <3>2
  <2>3. ASSUME NEW i \in 1..(n + 1), NEW j \in 1..(n + 1), i < j, v.pages[i].mode = v.pages[j].mode
        PROVE  v.pages[i].last < v.pages[j].first
    <3>1. i \in 1..n
      BY <1>5, <2>3
    <3>2. CASE j = n + 1
      <4>1. v.pages[j].first = o + 1 /\ v.pages[j].mode = mode
        BY <1>2, <1>5, <3>2
      <4>2. w.pages[i].mode = mode /\ w.pages[i].last <= o /\ w.pages[i].last \in Nat
        BY <1>3, <1>5, <1>6, <2>3, <3>1, <4>1
      <4>3. QED
        BY <1>1, <1>5, <3>1, <4>1, <4>2
    <3>3. CASE j # n + 1
      <4>1. j \in 1..n
        BY <1>5, <3>3
      <4>2. v.pages[i] = w.pages[i] /\ v.pages[j] = w.pages[j]
        BY <1>5, <3>1, <4>1
      <4>3. \A a, c \in DOMAIN w.pages :
              a < c /\ w.pages[a].mode = w.pages[c].mode => w.pages[a].last < w.pages[c].first
        BY <1>1 DEF PagesShown
      <4>4. QED
        BY <1>5, <2>3, <3>1, <4>1, <4>2, <4>3
    <3>4. QED
      BY <3>2, <3>3
  <2>4. \E Y : v.pages \in Seq(Y)
    BY <1>5
  <2>5. QED
    BY <1>5, <2>2, <2>3, <2>4 DEF PagesShown
<1>8. TextShown(v)
  BY <1>1 DEF TextShown
<1>9. AllShown(v)
  <2> SUFFICES ASSUME w.request.summary # "true", ~ w.request.long, ~ Whole(v)
               PROVE  /\ \A m \in ChainModes : \A b :
                           TellSum(v.pages, m, b) >= Times(SubSeq(v.answer[m], 1, Reached(v, m)), b)
                      /\ \A i \in 1..Reached(v, "sites") : i \in PageSites(v.pages)
    BY <1>1 DEF AllShown
  <2>1. ~ Whole(w)
    BY <1>1 DEF Whole
  <2>2. /\ \A m \in ChainModes : \A b :
             TellSum(w.pages, m, b) >= Times(SubSeq(w.answer[m], 1, Reached(w, m)), b)
        /\ \A i \in 1..Reached(w, "sites") : i \in PageSites(w.pages)
    BY <1>1, <2>1 DEF AllShown
  <2>3. ASSUME NEW m \in ChainModes, NEW b
        PROVE  TellSum(v.pages, m, b) >= Times(SubSeq(v.answer[m], 1, Reached(v, m)), b)
    <3>1. /\ TellSum(w.pages, m, b) \in Nat
          /\ TellSum(v.pages, m, b) = TellSum(w.pages, m, b) + Shown(page, m, b)
      <4>1. \A i \in DOMAIN w.pages : Shown(w.pages[i], m, b) \in Nat
        BY <1>5, <1>6
      <4>2. Shown(page, m, b) \in Nat /\ page \in X \cup {page}
        BY <1>2
      <4> DEFINE Z == X \cup {page}
      <4>3. w.pages \in Seq(Z) /\ page \in Z /\ v.pages = Append(w.pages, page)
        BY <1>5
      <4> HIDE DEF Z
      <4>4. TellSum(w.pages, m, b) \in Nat
        BY <4>1, <4>2, <4>3, TellMore
      <4>5. TellSum(Append(w.pages, page), m, b) = TellSum(w.pages, m, b) + Shown(page, m, b)
        BY <4>1, <4>2, <4>3, TellMore
      <4>6. QED
        BY <4>3, <4>4, <4>5
    <3>2. PICK Y : w.answer[m] \in Seq(Y) /\ Listed(w.answer, m) = Len(w.answer[m]) /\ m \in ListModes
      BY <1>1, ChainLists
    <3>3. Shown(page, m, b) \in Nat
      BY <1>2
    <3>4. CASE m = mode
      <4>1. o \in 0..Len(w.answer[m]) /\ end \in o..Len(w.answer[m])
        BY <1>1, <3>2, <3>4
      <4>2. Times(SubSeq(w.answer[m], 1, end), b)
              = Times(SubSeq(w.answer[m], 1, o), b) + Times(SubSeq(w.answer[m], o + 1, end), b)
        BY <3>2, <4>1, TimesAdded
      <4>3. 0 + 1 = 1 /\ 0 \in 0..Len(w.answer[m]) /\ o \in 0..Len(w.answer[m])
        BY <4>1
      <4>4. Times(SubSeq(w.answer[m], 0 + 1, o), b) \in Nat
        BY <3>2, <4>3, TimesOfPart
      <4>5. TellSum(w.pages, m, b) >= Times(SubSeq(w.answer[m], 1, o), b)
        BY <1>3, <2>2, <3>4
      <4>6. Shown(page, m, b) = Times(SubSeq(w.answer[m], o + 1, end), b)
        BY <1>2, <3>4
      <4>7. v.answer[m] = w.answer[m] /\ Reached(v, m) = end
        BY <1>1, <1>3, <3>4
      <4>8. QED
        BY <3>1, <3>3, <4>2, <4>3, <4>4, <4>5, <4>6, <4>7
    <3>5. CASE m # mode
      <4>1. Reached(v, m) = Reached(w, m) /\ v.answer[m] = w.answer[m]
        BY <1>1, <1>3, <3>2, <3>5
      <4>2. Times(SubSeq(w.answer[m], 1, Reached(w, m)), b) \in Nat
        <5>1. Reached(w, m) \in 0..Len(w.answer[m]) /\ 0 \in 0..Len(w.answer[m]) /\ 0 + 1 = 1
          BY <1>3, <3>2, <3>5, <4>1
        <5>2. Times(SubSeq(w.answer[m], 0 + 1, Reached(w, m)), b) \in Nat
          BY <3>2, <5>1, TimesOfPart
        <5>3. QED
          BY <5>1, <5>2
      <4>3. QED
        BY <2>2, <3>1, <3>3, <4>1, <4>2
    <3>6. QED
      BY <3>4, <3>5
  <2>4. ASSUME NEW i \in 1..Reached(v, "sites") PROVE i \in PageSites(v.pages)
    <3>1. \A x \in ToSet(w.pages) : x \in ToSet(v.pages)
      BY <1>5 DEF ToSet
    <3>2. page \in ToSet(v.pages)
      <4>1. n + 1 \in DOMAIN v.pages
        BY <1>5
      <4>2. QED
        BY <1>5, <4>1 DEF ToSet
    <3>3. PageSites(w.pages) \subseteq PageSites(v.pages)
      BY <3>1 DEF PageSites
    <3>4. CASE mode = "sites"
      <4>1. i \in 1..o \/ i \in (o + 1)..end
        BY <1>1, <1>2, <1>3, <3>4
      <4>2. (o + 1)..end \subseteq PageSites(v.pages)
        BY <1>2, <3>2, <3>4 DEF PageSites
      <4>3. QED
        BY <1>3, <2>2, <3>3, <3>4, <4>1, <4>2
    <3>5. CASE mode # "sites"
      <4>1. Reached(v, "sites") = Reached(w, "sites")
        BY <1>3, <3>5 DEF ListModes
      <4>2. QED
        BY <2>2, <3>3, <4>1
    <3>6. QED
      BY <3>4, <3>5
  <2>5. QED
    BY <2>3, <2>4
<1>10. SymbolShape(v)
  BY MovesTo
<1>11. QED
  BY <1>7, <1>8, <1>9, <1>10 DEF SymbolReads

\* A text is given where there are no pages of a list, or all is told.
LEMMA TextStep ==
  ASSUME NEW w, SymbolReads(w), NEW v, NEW mode, NEW o, NEW end, Moves(w, v, mode, o, end),
         ~ Replaced(w, mode, o), v.text \in Texts(w), v.pages = w.pages
  PROVE  SymbolReads(v)
<1>1. /\ SymbolShape(w) /\ PagesShown(w) /\ AllShown(w) /\ Lists(w.answer)
      /\ mode \in ListModes /\ o \in Nat /\ end \in o..Listed(w.answer, mode) /\ Listed(w.answer, mode) \in Nat
      /\ v.answer = w.answer /\ v.request = w.request
  BY ListedNat DEF SymbolReads, SymbolShape, Moves, At
<1>2. /\ Reached(w, mode) = o /\ Reached(v, mode) = end
      /\ \A m \in ListModes \ {mode} :
           /\ Reached(w, m) \in Nat /\ Reached(v, m) \in Nat /\ Reached(w, m) <= Reached(v, m)
           /\ Reached(v, m) <= Listed(w.answer, m)
           /\ w.request.summary # "true" => Reached(v, m) = Reached(w, m)
  BY MovesReach
<1>3. \A m \in ListModes : Reached(w, m) \in Nat /\ Reached(v, m) \in Nat /\ Reached(w, m) <= Reached(v, m)
  BY <1>1, <1>2
<1>4. PagesShown(v)
  <2>1. ASSUME NEW i \in DOMAIN w.pages PROVE w.pages[i].last <= Reached(v, w.pages[i].mode)
    <3>1. /\ w.pages[i].mode \in ListModes /\ w.pages[i].last \in Nat
          /\ w.pages[i].last <= Reached(w, w.pages[i].mode)
      BY <1>1 DEF PagesShown
    <3>2. QED
      BY <1>3, <3>1
  <2>2. QED
    BY <1>1, <2>1 DEF PagesShown
<1>5. /\ \A m \in ChainModes : \A b : Shown(v.text, m, b) \in Nat
      /\ w.request.summary # "true" /\ ~ w.request.long /\ w.answer.known => v.text = FullText(w.answer)
  BY <1>1, TextIs
<1>6. TextShown(v)
  BY <1>5 DEF TextShown
<1>7. AllShown(v)
  <2> SUFFICES ASSUME w.request.summary # "true", ~ w.request.long, ~ Whole(v)
               PROVE  /\ \A m \in ChainModes : \A b :
                           TellSum(v.pages, m, b) >= Times(SubSeq(v.answer[m], 1, Reached(v, m)), b)
                      /\ \A i \in 1..Reached(v, "sites") : i \in PageSites(v.pages)
    BY <1>1 DEF AllShown
  <2>1. ~ w.answer.known
    BY <1>1, <1>5 DEF Whole
  <2>2. w.answer.callers = << >> /\ w.answer.callees = << >>
    BY <1>1, <2>1 DEF SymbolShape
  <2>3. mode # "sites"
    BY DEF Replaced
  <2>4. Reached(v, "sites") = Reached(w, "sites")
    BY <1>2, <2>3 DEF ListModes
  <2>5. ~ Whole(w)
    BY <2>1 DEF Whole
  <2>6. \A i \in 1..Reached(v, "sites") : i \in PageSites(v.pages)
    BY <1>1, <2>4, <2>5 DEF AllShown
  <2>7. ASSUME NEW m \in ChainModes, NEW b
        PROVE  TellSum(v.pages, m, b) >= Times(SubSeq(v.answer[m], 1, Reached(v, m)), b)
    <3>1. w.answer[m] = << >> /\ m \in ListModes /\ Listed(w.answer, m) = 0
      BY <2>2 DEF ChainModes, ListModes, Listed
    <3>2. Reached(v, m) = 0
      BY <1>1, <1>2, <3>1
    <3>3. << >> \in Seq({})
      OBVIOUS
    <3>4. Times(SubSeq(<< >>, 1, 0), b) = 0
      BY <3>3, TimesNat
    <3>5. TellSum(w.pages, m, b) >= Times(SubSeq(w.answer[m], 1, Reached(w, m)), b)
      BY <1>1, <2>5 DEF AllShown
    <3>6. Reached(w, m) = 0
      BY <1>3, <3>1, <3>2
    <3>7. QED
      BY <1>1, <3>1, <3>2, <3>4, <3>5, <3>6
  <2>8. QED
    BY <2>6, <2>7
<1>8. SymbolShape(v)
  BY MovesTo
<1>9. QED
  BY <1>4, <1>6, <1>7, <1>8 DEF SymbolReads

LEMMA SymbolStep ==
  ASSUME NEW w, SymbolReads(w), w.cursor # NoCursor, NEW v \in Paged(w)
  PROVE  /\ SymbolReads(v)
         /\ v.cursor # NoCursor =>
              \/ ListNumber(v.cursor[1]) > ListNumber(w.cursor[1])
              \/ v.cursor[1] = w.cursor[1] /\ v.cursor[2] > w.cursor[2]
<1>1. PICK mode, o, end :
        /\ Moves(w, v, mode, o, end)
        /\ \/ /\ v.pages = Append(w.pages, PageText(w.answer, mode, o + 1, end))
              /\ v.text = w.text
           \/ /\ ~ Replaced(w, mode, o) /\ v.text \in Texts(w)
              /\ v.pages = w.pages
  BY PagedMoves DEF SymbolReads
<1>2. SymbolReads(v)
  BY <1>1, PageStep, TextStep
<1>3. w.cursor = <<mode, o>>
  BY <1>1 DEF Moves, At
<1>4. v.cursor # NoCursor =>
        \E m, k : v.cursor = <<m, k>> /\ (ListNumber(m) > ListNumber(mode) \/ (m = mode /\ k > o))
  BY <1>1, MovesTo DEF At
<1>5. QED
  BY <1>2, <1>3, <1>4

LEMMA AskedReads ==
  ASSUME NEW r \in SymbolRequests, NEW answer, Lists(answer),
         ~ answer.known => answer.callers = << >> /\ answer.callees = << >>
  PROVE  SymbolReads(Asked(r, answer)) /\ Asked(r, answer).cursor # NoCursor
<1> DEFINE w == Asked(r, answer)
<1>1. /\ DOMAIN w = {"kind", "request", "answer", "cursor", "pages", "text"} /\ w.kind = "symbol"
      /\ w.request = r /\ w.answer = answer /\ w.cursor = <<"callers", 0>> /\ w.pages = << >> /\ w.text = NoText
  BY DEF Asked
<1> HIDE DEF w
<1>2. w.cursor # NoCursor
  <2>1. <<"callers", 0>> \in {"callers", "callees", "sites"} \X Nat
    OBVIOUS
  <2>2. QED
    BY <1>1, <2>1, GraphAssumption
<1>3. At(w, "callers", 0)
  <2>1. Listed(answer, "callers") \in Nat
    BY ListedNat DEF ListModes
  <2>2. QED
    BY <1>1, <1>2, <2>1 DEF At, ListModes
<1>4. SymbolShape(w)
  BY <1>1, <1>3 DEF SymbolShape
<1>5. \A m \in ListModes : Reached(w, m) = 0
  BY <1>1, <1>2 DEF Reached, ListNumber, ListModes
<1>6. << >> \in Seq({}) /\ DOMAIN << >> = {}
  OBVIOUS
<1>7. PagesShown(w)
  BY <1>1, <1>6 DEF PagesShown
<1>8. TextShown(w)
  BY <1>1 DEF TextShown
<1>9. AllShown(w)
  <2>1. ASSUME NEW m \in ChainModes, NEW b
        PROVE  TellSum(w.pages, m, b) >= Times(SubSeq(w.answer[m], 1, Reached(w, m)), b)
    <3>1. PICK X : answer[m] \in Seq(X) /\ m \in ListModes
      BY ChainLists
    <3>2. Times(SubSeq(answer[m], 1, 0), b) = 0
      BY <3>1, TimesNat
    <3>3. TellSum(<< >>, m, b) = 0
      BY TellNothing
    <3>4. QED
      BY <1>1, <1>5, <3>1, <3>2, <3>3
  <2>2. \A i \in 1..Reached(w, "sites") : i \in PageSites(w.pages)
    BY <1>5 DEF ListModes
  <2>3. QED
    BY <2>1, <2>2 DEF AllShown
<1>10. QED
  BY <1>2, <1>4, <1>7, <1>8, <1>9 DEF SymbolReads, w

\* A client that is led no further has been told of all.
LEMMA ReadsTellAll ==
  ASSUME SymbolReads(walk)
  PROVE  WalkShowsAll
<1> DEFINE answer == walk.answer
<1>1. SymbolShape(walk) /\ PagesShown(walk) /\ TextShown(walk) /\ AllShown(walk) /\ Lists(answer)
  BY DEF SymbolReads, SymbolShape
<1>2. \A i, j \in DOMAIN walk.pages :
        i < j /\ walk.pages[i].mode = walk.pages[j].mode => walk.pages[i].last < walk.pages[j].first
  BY <1>1 DEF PagesShown
<1>3. ASSUME walk.cursor = NoCursor, walk.request.summary # "true", ~ walk.request.long
      PROVE  /\ \A mode \in ChainModes : \A chain \in ToSet(answer[mode]) :
                  Told(mode, Branch(chain)) >= Times(answer[mode], Branch(chain))
             /\ DOMAIN answer.sites \subseteq ToldSites
  <2>1. PICK X : walk.pages \in Seq(X)
    BY <1>1 DEF PagesShown
  <2>2. \A m \in ChainModes : \A b : \A i \in DOMAIN walk.pages : Shown(walk.pages[i], m, b) \in Nat
    BY <1>1 DEF PagesShown
  <2>3. FullText(answer) # NoText
    BY DEF FullText, NoText
  <2>4. Given = IF walk.text = NoText THEN walk.pages ELSE Append(walk.pages, walk.text)
    <3>1. walk.pages \o << >> = walk.pages
      BY <2>1, ConcatEmptySeq
    <3>2. walk.pages \o <<walk.text>> = Append(walk.pages, walk.text)
      <4> DEFINE Z == X \cup {walk.text}
      <4>1. walk.pages \in Seq(Z) /\ walk.text \in Z
        BY <2>1, SeqMonotonic
      <4> HIDE DEF Z
      <4>2. QED
        BY <4>1, AppendIsConcat
    <3>3. QED
      BY <3>1, <3>2 DEF Given
  <2>5. ASSUME NEW m \in ChainModes, NEW b
        PROVE  Told(m, b) >= Times(answer[m], b)
    <3>1. PICK Y : answer[m] \in Seq(Y) /\ Listed(answer, m) = Len(answer[m]) /\ m \in ListModes
      BY <1>1, ChainLists
    <3>2. Times(answer[m], b) \in Nat /\ SubSeq(answer[m], 1, Len(answer[m])) = answer[m]
      BY <3>1, TimesNat
    <3>3. Told(m, b) = TellSum(Given, m, b)
      BY DEF Told, TellSum
    <3>4. /\ TellSum(walk.pages, m, b) \in Nat
          /\ walk.text # NoText =>
               /\ Shown(walk.text, m, b) \in Nat
               /\ TellSum(Append(walk.pages, walk.text), m, b) = TellSum(walk.pages, m, b) + Shown(walk.text, m, b)
      <4>1. TellSum(walk.pages, m, b) \in Nat
        <5>1. PICK g : Telling(walk.pages, m, b, Len(walk.pages), g) /\ TellSum(walk.pages, m, b) = g[Len(walk.pages)]
          BY <2>1, <2>2, TellSteps
        <5>2. Len(walk.pages) \in Nat
          BY <2>1
        <5>3. QED
          BY <5>1, <5>2 DEF Telling
      <4>2. ASSUME walk.text # NoText
            PROVE  /\ Shown(walk.text, m, b) \in Nat
                   /\ TellSum(Append(walk.pages, walk.text), m, b) = TellSum(walk.pages, m, b) + Shown(walk.text, m, b)
        <5> DEFINE Z == X \cup {walk.text}
        <5>1. walk.pages \in Seq(Z) /\ walk.text \in Z
          BY <2>1, SeqMonotonic
        <5>2. Shown(walk.text, m, b) \in Nat
          BY <1>1, <4>2 DEF TextShown
        <5>3. \A i \in DOMAIN walk.pages : Shown(walk.pages[i], m, b) \in Nat
          BY <2>2
        <5> HIDE DEF Z
        <5>4. TellSum(Append(walk.pages, walk.text), m, b) = TellSum(walk.pages, m, b) + Shown(walk.text, m, b)
          BY <5>1, <5>2, <5>3, TellMore
        <5>5. QED
          BY <5>2, <5>4
      <4>3. QED
        BY <4>1, <4>2
    <3>5. CASE Whole(walk)
      <4>1. walk.text # NoText /\ Shown(walk.text, m, b) = Times(answer[m], b)
        BY <1>1, <2>3, <3>5, FullTextIs DEF Whole
      <4>2. QED
        BY <2>4, <3>2, <3>3, <3>4, <4>1
    <3>6. CASE ~ Whole(walk)
      <4>1. Reached(walk, m) = Len(answer[m])
        BY <1>3, <3>1 DEF Reached
      <4>2. TellSum(walk.pages, m, b) >= Times(answer[m], b)
        BY <1>1, <1>3, <3>2, <3>6, <4>1 DEF AllShown
      <4>3. QED
        BY <2>4, <3>2, <3>3, <3>4, <4>2
    <3>7. QED
      BY <3>5, <3>6
  <2>6. ASSUME NEW i \in DOMAIN answer.sites PROVE i \in ToldSites
    <3>1. /\ \A x \in ToSet(walk.pages) : x \in ToSet(Given)
          /\ walk.text # NoText => walk.text \in ToSet(Given)
      <4>1. CASE walk.text = NoText
        BY <2>4, <4>1
      <4>2. CASE walk.text # NoText
        <5> DEFINE Z == X \cup {walk.text}
        <5>1. walk.pages \in Seq(Z) /\ walk.text \in Z
          BY <2>1, SeqMonotonic
        <5> HIDE DEF Z
        <5>2. /\ Len(walk.pages) \in Nat /\ DOMAIN walk.pages = 1..Len(walk.pages)
              /\ DOMAIN Given = 1..(Len(walk.pages) + 1)
              /\ \A k \in 1..Len(walk.pages) : Given[k] = walk.pages[k]
              /\ Given[Len(walk.pages) + 1] = walk.text
          BY <2>4, <4>2, <5>1, AppendProperties
        <5>3. Len(walk.pages) + 1 \in DOMAIN Given /\ \A k \in DOMAIN walk.pages : k \in DOMAIN Given
          BY <5>2
        <5>4. QED
          BY <5>2, <5>3 DEF ToSet
      <4>3. QED
        BY <4>1, <4>2
    <3>2. CASE Whole(walk)
      <4>1. "callers" \in ChainModes
        BY DEF ChainModes
      <4>2. /\ walk.text.kind = "full" /\ walk.text # NoText
            /\ i \in walk.text.written \cup walk.text.readOnly
        BY <1>1, <2>3, <3>2, <4>1, FullTextIs DEF Whole
      <4>3. walk.text \in {x \in ToSet(Given) : x.kind = "full" \/ (x.kind = "page" /\ x.mode = "sites")}
        BY <3>1, <4>2
      <4>4. QED
        BY <4>2, <4>3 DEF ToldSites
    <3>3. CASE ~ Whole(walk)
      <4>1. Reached(walk, "sites") = Len(answer.sites)
        BY <1>3 DEF Reached, Listed
      <4>2. i \in 1..Reached(walk, "sites")
        BY <1>1, <4>1 DEF Lists
      <4>3. i \in PageSites(walk.pages)
        BY <1>1, <1>3, <3>3, <4>2 DEF AllShown
      <4>4. PICK page \in ToSet(walk.pages) : page.mode = "sites" /\ i \in page.written \cup page.readOnly
        BY <4>3 DEF PageSites
      <4>5. page.kind = "page"
        BY <1>1, <4>4 DEF PagesShown, ToSet
      <4>6. page \in {x \in ToSet(Given) : x.kind = "full" \/ (x.kind = "page" /\ x.mode = "sites")}
        BY <3>1, <4>4, <4>5
      <4>7. QED
        BY <4>4, <4>6 DEF ToldSites
    <3>4. QED
      BY <3>2, <3>3
  <2>7. QED
    BY <2>5, <2>6
<1>4. QED
  BY <1>2, <1>3 DEF WalkShowsAll, ChainModes

-----------------------------------------------------------------------------
(* The invariant.                                                           *)

StoredIs(p, g) == g = NoGraph \/ \E order \in Orders(p) : g = Build(p, order)

Answered(w) == w.answer = Found(w.request) \/ w.answer = OnlySites(w.request)

WalkIs ==
  \/ walk = Idle
  \/ \E kind : walk = Refused(kind)
  \/ SymbolReads(walk) /\ Answered(walk)
  \/ GraphReads(program, walk)

\* What is stored is a graph of the program, and a walk has read a prefix of
\* an answer that is the same for every graph of the program.
GraphInv ==
  /\ program \in Programs
  /\ StoredIs(program, stored)
  /\ WalkIs

LEMMA ProgramType ==
  ASSUME program \in Programs
  PROVE  program \in Seq(ParsedFile)
BY GraphAssumption

LEMMA FoundKept ==
  ASSUME program' = program, NEW r
  PROVE  Found(r)' = Found(r)
<1>1. Graph' = Graph
  BY DEF Graph
<1>2. \A symbol, depth : Around(r, symbol, depth)' = Around(r, symbol, depth)
  BY <1>1 DEF Around
<1>3. QED
  BY <1>1, <1>2 DEF Found, AnswerFrom, Near

LEMMA AnsweredKept ==
  ASSUME program' = program, Answered(walk), walk'.request = walk.request, walk'.answer = walk.answer
  PROVE  Answered(walk)'
<1>1. Found(walk.request)' = Found(walk.request)'
  OBVIOUS
<1>2. QED
  BY FoundKept DEF Answered, OnlySites

LEMMA GraphInit ==
  ASSUME Init
  PROVE  GraphInv
BY DEF Init, GraphInv, StoredIs, WalkIs

LEMMA StoredKept ==
  ASSUME program' = program, StoredIs(program, stored), UNCHANGED stored \/ Builds
  PROVE  StoredIs(program, stored)'
<1>1. CASE UNCHANGED stored
  BY <1>1 DEF StoredIs
<1>2. CASE Builds
  BY <1>2 DEF StoredIs, Builds
<1>3. QED
  BY <1>1, <1>2

LEMMA WalkKept ==
  ASSUME program' = program, walk' = walk, WalkIs
  PROVE  WalkIs'
<1>1. CASE SymbolReads(walk) /\ Answered(walk)
  BY <1>1, AnsweredKept DEF WalkIs
<1>2. CASE walk = Idle \/ (\E kind : walk = Refused(kind)) \/ GraphReads(program, walk)
  BY <1>2 DEF WalkIs
<1>3. QED
  BY <1>1, <1>2 DEF WalkIs

LEMMA AskSymbolStep ==
  ASSUME GraphInv, NEW r \in SymbolRequests, AskSymbol(r)
  PROVE  GraphInv'
<1>1. program' = program /\ program \in Programs /\ (UNCHANGED stored \/ Builds)
  BY DEF AskSymbol, GraphInv
<1>2. StoredIs(program, stored)'
  BY <1>1, StoredKept DEF GraphInv
<1>3. ASSUME NEW answer, answer = Found(r) \/ answer = OnlySites(r), walk' \in Paged(Asked(r, answer))
      PROVE  WalkIs'
  <2>1. program \in Seq(ParsedFile)
    BY <1>1, ProgramType
  <2>2. Lists(answer) /\ (~ answer.known => answer.callers = << >> /\ answer.callees = << >>)
    <3>1. Found(r).known
      BY DEF Found, AnswerFrom
    <3>2. OnlySites(r).callers = << >> /\ OnlySites(r).callees = << >>
      BY DEF OnlySites
    <3>3. QED
      BY <1>3, <2>1, <3>1, <3>2, AnswerLists
  <2>3. SymbolReads(Asked(r, answer)) /\ Asked(r, answer).cursor # NoCursor
    BY <2>2, AskedReads
  <2>4. SymbolReads(walk')
    BY <1>3, <2>3, SymbolStep
  <2>5. walk'.request = r /\ walk'.answer = answer
    <3>1. \E mode, o, end : Moves(Asked(r, answer), walk', mode, o, end)
      BY <1>3, <2>3, PagedMoves DEF SymbolReads
    <3>2. QED
      BY <3>1 DEF Moves, Asked
  <2>6. Answered(walk)'
    <3>1. Found(r)' = Found(r) /\ OnlySites(r)' = OnlySites(r)
      BY <1>1, FoundKept DEF OnlySites
    <3>2. QED
      BY <1>3, <2>5, <3>1 DEF Answered
  <2>7. QED
    BY <2>4, <2>6 DEF WalkIs
<1>4. WalkIs'
  <2>1. CASE walk' = Refused("symbol")
    BY <2>1 DEF WalkIs
  <2>2. CASE walk' \in Paged(Asked(r, Found(r)))
    BY <1>3, <2>2
  <2>3. CASE walk' \in Paged(Asked(r, OnlySites(r)))
    BY <1>3, <2>3
  <2>4. QED
    BY <2>1, <2>2, <2>3 DEF AskSymbol
<1>5. QED
  BY <1>1, <1>2, <1>4 DEF GraphInv

LEMMA NextPageStep ==
  ASSUME GraphInv, NextPage
  PROVE  /\ GraphInv'
         /\ walk'.cursor # NoCursor =>
              \/ ListNumber(walk'.cursor[1]) > ListNumber(walk.cursor[1])
              \/ walk'.cursor[1] = walk.cursor[1] /\ walk'.cursor[2] > walk.cursor[2]
<1>1. /\ program' = program /\ program \in Programs /\ (UNCHANGED stored \/ Builds)
      /\ walk.kind = "symbol" /\ walk.cursor # NoCursor /\ walk' \in Paged(walk)
  BY DEF NextPage, GraphInv
<1>2. StoredIs(program, stored)'
  BY <1>1, StoredKept DEF GraphInv
<1>3. SymbolReads(walk) /\ Answered(walk)
  BY <1>1 DEF GraphInv, WalkIs, Idle, Refused, GraphReads, Reading
<1>4. /\ SymbolReads(walk')
      /\ walk'.cursor # NoCursor =>
           \/ ListNumber(walk'.cursor[1]) > ListNumber(walk.cursor[1])
           \/ walk'.cursor[1] = walk.cursor[1] /\ walk'.cursor[2] > walk.cursor[2]
  BY <1>1, <1>3, SymbolStep
<1>5. walk'.request = walk.request /\ walk'.answer = walk.answer
  <2>1. \E mode, o, end : Moves(walk, walk', mode, o, end)
    BY <1>1, <1>3, PagedMoves DEF SymbolReads
  <2>2. QED
    BY <2>1 DEF Moves
<1>6. Answered(walk)'
  BY <1>1, <1>3, <1>5, AnsweredKept
<1>7. QED
  BY <1>1, <1>2, <1>4, <1>6 DEF GraphInv, WalkIs

LEMMA AskGraphStep ==
  ASSUME GraphInv, NEW q \in GraphRequests, AskGraph(q)
  PROVE  GraphInv'
<1> DEFINE w == [kind |-> "graph", query |-> q, offset |-> 0, pages |-> << >>, more |-> FALSE, text |-> << >>]
<1>1. /\ program' = program /\ stored' = stored /\ program \in Programs /\ StoredIs(program, stored)
      /\ walk' = IF BadRequest(q) THEN Refused("graph") ELSE IF q.format = "text" THEN ReadText(w) ELSE Read(w)
  BY DEF AskGraph, GraphInv
<1>2. /\ DOMAIN w = {"kind", "query", "offset", "pages", "more", "text"} /\ w.kind = "graph" /\ w.query = q
      /\ w.offset = 0 /\ w.pages = << >> /\ ~ w.more
  OBVIOUS
<1> HIDE DEF w
<1>3. program \in Seq(ParsedFile)
  BY <1>1, ProgramType
<1>4. Reading(program, w)
  <2>1. Collected(w) = << >>
    BY <1>2, NothingCollected
  <2>2. SubSeq(Selected(GraphOf(program), q), 1, 0) = << >>
    BY SubSeqEmpty
  <2>3. << >> \in Seq(PageRec) /\ DOMAIN << >> = {}
    OBVIOUS
  <2>4. QED
    BY <1>2, <2>1, <2>2, <2>3 DEF Reading
<1>5. walk' = Refused("graph") \/ GraphReads(program, walk')
  <2>1. q.format \in {"json", "text"}
    BY GraphAssumption
  <2>2. CASE BadRequest(q)
    BY <1>1, <2>2
  <2>3. CASE ~ BadRequest(q) /\ q.format = "text"
    BY <1>1, <1>2, <1>3, <1>4, <2>3, ReadTextStep DEF StoredIs
  <2>4. CASE ~ BadRequest(q) /\ q.format = "json"
    BY <1>1, <1>2, <1>3, <1>4, <2>4, ReadStep DEF StoredIs
  <2>5. QED
    BY <2>1, <2>2, <2>3, <2>4
<1>6. WalkIs'
  BY <1>1, <1>5 DEF WalkIs
<1>7. QED
  BY <1>1, <1>6 DEF GraphInv, StoredIs

LEMMA ReadOnStep ==
  ASSUME GraphInv, ReadOn
  PROVE  GraphInv'
<1>1. /\ program' = program /\ stored' = stored /\ program \in Programs /\ StoredIs(program, stored)
      /\ walk.kind = "graph" /\ walk.more /\ walk' = Read(walk)
  BY DEF ReadOn, GraphInv
<1>2. GraphReads(program, walk)
  BY <1>1 DEF GraphInv, WalkIs, Idle, Refused, SymbolReads, SymbolShape
<1>3. Reading(program, walk) /\ walk.query.format = "json"
  BY <1>1, <1>2 DEF GraphReads
<1>4. walk' = Refused("graph") \/ GraphReads(program, walk')
  BY <1>1, <1>3, ReadStep, ProgramType DEF StoredIs
<1>5. WalkIs'
  BY <1>1, <1>4 DEF WalkIs
<1>6. QED
  BY <1>1, <1>5 DEF GraphInv, StoredIs

LEMMA GraphNext ==
  ASSUME GraphInv, [Next]_vars
  PROVE  GraphInv'
<1>1. CASE \E r \in SymbolRequests : AskSymbol(r)
  BY <1>1, AskSymbolStep
<1>2. CASE NextPage
  BY <1>2, NextPageStep
<1>3. CASE \E q \in GraphRequests : AskGraph(q)
  BY <1>3, AskGraphStep
<1>4. CASE ReadOn
  BY <1>4, ReadOnStep
<1>5. CASE Rebuild
  BY <1>5, StoredKept, WalkKept DEF Rebuild, GraphInv
<1>6. CASE Evict
  BY <1>6, WalkKept DEF Evict, GraphInv, StoredIs
<1>7. CASE UNCHANGED vars
  BY <1>7, StoredKept, WalkKept DEF vars, GraphInv
<1>8. QED
  BY <1>1, <1>2, <1>3, <1>4, <1>5, <1>6, <1>7 DEF Next

LEMMA GraphInvariant == Spec => []GraphInv
<1>1. Init => GraphInv
  BY GraphInit
<1>2. GraphInv /\ [Next]_vars => GraphInv'
  BY GraphNext
<1>3. QED
  BY <1>1, <1>2, PTL DEF Spec

-----------------------------------------------------------------------------
(* The theorems on pages, walks and calls; that on chains is the last.      *)

LEMMA ReferenceIs ==
  Reference = GraphOf(program)
BY DEF Reference, GraphOf

LEMMA ResolvedIn ==
  ASSUME GraphInv
  PROVE  CallsResolved
<1> SUFFICES ASSUME stored # NoGraph
             PROVE  LET calls == Picked(stored.links, {i \in DOMAIN stored.links : stored.links[i].kind = "calls"})
                    IN  /\ {<<l.from, l.to>> : l \in ToSet(calls)} =
                             UNION {Best(stored.nodes, e.of, e) \X Best(stored.nodes, e.neighbor, e) :
                                    e \in ToSet(Graph.callees)}
                        /\ IsInjective(calls)
  BY DEF CallsResolved, Best
<1>1. program \in Seq(ParsedFile)
  BY ProgramType DEF GraphInv
<1>2. PICK order \in Orders(program) : stored = Build(program, order)
  BY DEF GraphInv, StoredIs
<1>3. stored.nodes = Nodes(program)
  BY <1>1, <1>2, BuiltAlike
<1> DEFINE links == Build(program, order).links
           calls == Picked(links, {i \in DOMAIN links : links[i].kind = "calls"})
<1>4. /\ {<<l.from, l.to>> : l \in ToSet(calls)} =
            UNION {Best(Nodes(program), e.of, e) \X Best(Nodes(program), e.neighbor, e) :
                   e \in ToSet(CallGraph(program).callees)}
      /\ IsInjective(calls)
  BY <1>1, CallsResolvedIn
<1>5. QED
  BY <1>2, <1>3, <1>4, Zenon DEF Graph

LEMMA InducedIn ==
  ASSUME GraphInv
  PROVE  PagesInduced
<1> SUFFICES ASSUME GraphWalk, NEW i \in DOMAIN walk.pages
             PROVE  /\ \A e \in walk.pages[i].edges : {e.source, e.target} \subseteq DOMAIN walk.pages[i].nodes
                    /\ {<<walk.pages[i].nodes[e.source], walk.pages[i].nodes[e.target], e.kind>> :
                          e \in walk.pages[i].edges}
                         = {<<l.from, l.to, l.kind>> : l \in Induced(Reference, ToSet(walk.pages[i].nodes))}
  BY DEF PagesInduced
<1>1. program \in Seq(ParsedFile)
  BY ProgramType DEF GraphInv
<1>2. GraphReads(program, walk)
  BY DEF GraphWalk, GraphInv, WalkIs, Idle, Refused, SymbolReads, SymbolShape
<1>3. OnPage(AllLinks(program), walk.pages[i])
  BY <1>2 DEF GraphReads, Reading
<1>4. PICK order \in Orders(program) : Reference = Build(program, order)
  BY <1>1, ReferenceIs, GraphOfSome
<1>5. ToSet(Reference.links) = AllLinks(program)
  BY <1>1, <1>4, BuiltAlike
<1>6. QED
  BY <1>3, <1>5 DEF OnPage, Induced

\* The places of a prefix.
LEMMA PrefixIs ==
  ASSUME NEW s \in Seq(Nat), NEW o \in 0..Len(s), NEW t, t = SubSeq(s, 1, o)
  PROVE  /\ t \in Seq(Nat) /\ Len(t) = o /\ DOMAIN t = 1..o
         /\ \A i \in 1..o : t[i] = s[i]
<1>1. \A i \in 1..o : s[i] \in Nat
  BY ElementOfSeq
<1>2. /\ t \in Seq(Nat) /\ Len(t) = (IF 1 <= o THEN o - 1 + 1 ELSE 0)
      /\ \A i \in 1..(o - 1 + 1) : t[i] = s[1 + i - 1]
  BY <1>1, SubSeqProperties
<1>3. Len(t) = o /\ \A i \in 1..o : t[i] = s[i]
  BY <1>2
<1>4. QED
  BY <1>2, <1>3

LEMMA ExactIn ==
  ASSUME GraphInv
  PROVE  GraphWalkExact
<1> DEFINE q == walk.query
           nodes == Collected(walk)
           all == Selected(Reference, q)
           within == Within(Steps(Reference, q), StartNodes(Reference, q), Radius(q))
           ball == within[Radius(q)]
           inner(n) == UNION {within[d] : d \in {k \in 0..Radius(q) : n \notin within[k]}}
<1> SUFFICES ASSUME GraphWalk, walk.query.format = "json"
             PROVE  /\ IsInjective(nodes)
                    /\ ToSet(nodes) \subseteq ball
                    /\ \A i \in DOMAIN nodes : inner(nodes[i]) \subseteq ToSet(SubSeq(nodes, 1, i - 1))
                    /\ ~ walk.more =>
                         IF q.kind = "bidirectional"
                         THEN Len(nodes) = Min({Cardinality(ball), q.maxNodes})
                         ELSE ToSet(nodes) = ball
  BY DEF GraphWalkExact
<1>1. program \in Seq(ParsedFile)
  BY ProgramType DEF GraphInv
<1>2. GraphReads(program, walk)
  BY DEF GraphWalk, GraphInv, WalkIs, Idle, Refused, SymbolReads, SymbolShape
<1>3. /\ q \in GraphRequests /\ nodes = SubSeq(all, 1, walk.offset)
      /\ walk.offset = 0 \/ walk.offset \in 0..Len(all)
      /\ ~ SymbolMissing(Reference, q)
      /\ walk.more <=> walk.offset < Len(all)
  BY <1>2, ReferenceIs DEF GraphReads, Reading
<1>4. /\ all \in Seq(Nat) /\ IsInjective(all) /\ ToSet(all) \subseteq ball /\ Nearest(all, within, Radius(q))
      /\ IF q.kind = "bidirectional"
         THEN Len(all) = Min({Cardinality(ball), q.maxNodes})
         ELSE ToSet(all) = ball
  BY <1>1, <1>3, AnswerOf, ReferenceIs DEF Answers
<1> HIDE DEF all, within, nodes, ball, q
<1>5. walk.offset \in 0..Len(all)
  BY <1>3, <1>4
<1>6. /\ nodes \in Seq(Nat) /\ Len(nodes) = walk.offset /\ DOMAIN nodes = 1..walk.offset
      /\ \A i \in 1..walk.offset : nodes[i] = all[i]
      /\ 1..walk.offset \subseteq DOMAIN all
  BY <1>3, <1>4, <1>5, PrefixIs
<1>7. IsInjective(nodes)
  BY <1>4, <1>6 DEF IsInjective
<1>8. ToSet(nodes) \subseteq ball
  BY <1>4, <1>6 DEF ToSet
<1>9. ASSUME NEW i \in DOMAIN nodes, NEW x \in inner(nodes[i])
      PROVE  x \in ToSet(SubSeq(nodes, 1, i - 1))
  <2>1. PICK d \in 0..Radius(q) : nodes[i] \notin within[d] /\ x \in within[d]
    BY <1>9
  <2>2. PICK j \in 1..(i - 1) : all[j] = x
    BY <1>4, <1>6, <2>1 DEF Nearest
  <2>3. j \in 1..walk.offset /\ nodes[j] = x
    BY <1>5, <1>6, <2>2
  <2>4. i - 1 \in 0..Len(nodes)
    BY <1>5, <1>6
  <2>5. SubSeq(nodes, 1, i - 1)[j] = x /\ j \in DOMAIN SubSeq(nodes, 1, i - 1)
    BY <1>6, <2>2, <2>3, <2>4, PrefixIs
  <2>6. QED
    BY <2>5 DEF ToSet
<1>10. ASSUME ~ walk.more
       PROVE  IF q.kind = "bidirectional"
              THEN Len(nodes) = Min({Cardinality(ball), q.maxNodes})
              ELSE ToSet(nodes) = ball
  <2>1. walk.offset = Len(all)
    BY <1>3, <1>4, <1>5, <1>10
  <2>2. Len(nodes) = Len(all) /\ ToSet(nodes) = ToSet(all)
    BY <1>4, <1>6, <2>1 DEF ToSet
  <2>3. QED
    BY <1>4, <2>2
<1>11. \A i \in DOMAIN nodes : inner(nodes[i]) \subseteq ToSet(SubSeq(nodes, 1, i - 1))
  BY <1>9
<1>12. QED
  BY <1>7, <1>8, <1>10, <1>11

\* The call edges of a stored graph are the calls between the definitions
\* that rank first for them, whatever order the callers were taken in
\* (StructuralGraph::from_call_graph and resolve_candidate).
THEOREM GraphCallsResolved == Spec => []CallsResolved
<1>1. GraphInv => CallsResolved
  BY ResolvedIn
<1>2. QED
  BY <1>1, GraphInvariant, PTL

\* The edges on a page of a graph resource are those of the program between
\* its nodes (read_resource, render_subgraph).
THEOREM GraphPagesInduced == Spec => []PagesInduced
<1>1. GraphInv => PagesInduced
  BY InducedIn
<1>2. QED
  BY <1>1, GraphInvariant, PTL

\* The pages of a graph resource hold each node within the depth once and
\* nearest first, though the graph is built again between them
\* (bfs_frontier, blast_radius_bidirectional, read_resource).
THEOREM GraphWalksExact == Spec => []GraphWalkExact
<1>1. GraphInv => GraphWalkExact
  BY ExactIn
<1>2. QED
  BY <1>1, GraphInvariant, PTL

\* A client that follows the cursors of analyze_symbol to their end has been
\* told of every caller, callee and site (handle_call_graph).
THEOREM SymbolWalksShowAll == Spec => []WalkShowsAll
<1>1. GraphInv => WalkShowsAll
  <2>1. CASE SymbolReads(walk)
    BY <2>1, ReadsTellAll
  <2>2. ASSUME GraphInv, ~ SymbolReads(walk) PROVE ~ SymbolWalk
    BY <2>2 DEF GraphInv, WalkIs, Idle, Refused, GraphReads, Reading, SymbolWalk
  <2>3. QED
    BY <2>1, <2>2 DEF WalkShowsAll
<1>2. QED
  BY <1>1, GraphInvariant, PTL

\* Every cursor leads further down a list or to a later one, so following
\* them comes to an end (apply_call_graph_pagination, handle_call_graph).
THEOREM SymbolCursorsAdvance == Spec => CursorsAdvance
<1> DEFINE Advance ==
             SymbolWalk /\ walk'.cursor # NoCursor =>
               \/ ListNumber(walk'.cursor[1]) > ListNumber(walk.cursor[1])
               \/ walk'.cursor[1] = walk.cursor[1] /\ walk'.cursor[2] > walk.cursor[2]
<1>1. GraphInv /\ [Next]_vars => [Advance]_walk
  <2> SUFFICES ASSUME GraphInv, [Next]_vars, walk' # walk, SymbolWalk
               PROVE  Advance
    OBVIOUS
  <2>1. walk.kind = "symbol"
    BY DEF SymbolWalk
  <2>2. NextPage
    <3>1. walk # Idle
      BY <2>1 DEF Idle
    <3>2. \A r \in SymbolRequests : ~ AskSymbol(r)
      BY <3>1 DEF AskSymbol
    <3>3. \A q \in GraphRequests : ~ AskGraph(q)
      BY <3>1 DEF AskGraph
    <3>4. ~ ReadOn
      BY <2>1 DEF ReadOn
    <3>5. ~ Rebuild /\ ~ Evict /\ ~ UNCHANGED vars
      BY DEF Rebuild, Evict, vars
    <3>6. QED
      BY <3>2, <3>3, <3>4, <3>5 DEF Next
  <2>3. QED
    BY <2>2, NextPageStep
<1>2. QED
  BY <1>1, GraphInvariant, PTL DEF Spec, CursorsAdvance

-----------------------------------------------------------------------------
(* The edges a search has taken: one chain for each edge of some names.     *)

\* at[k] is the place of the k-th of all the edges of the names.
Listing(edges, names, flat, at) ==
  /\ at \in [1..Len(flat) -> {j \in DOMAIN edges : edges[j].of \in ToSet(names)}]
  /\ \A k, l \in 1..Len(flat) : at[k] = at[l] => k = l
  /\ \A j \in DOMAIN edges : edges[j].of \in ToSet(names) => \E k \in 1..Len(flat) : at[k] = j
  /\ \A k \in 1..Len(flat) : flat[k] = edges[at[k]]

LEMMA EdgesListed ==
  ASSUME NEW edges \in Seq(EdgeRec), NEW V, NEW names \in Seq(V), IsInjective(names)
  PROVE  \E at : Listing(edges, names, EdgesOf(edges, names), at)
<1> DEFINE ss == [i \in DOMAIN names |-> Adjacent(edges, names[i])]
           flat == EdgesOf(edges, names)
           places(x) == {k \in DOMAIN edges : edges[k].of = x}
           IsSpot(i, f) == Spots(Len(edges), edges, places(names[i]), ss[i], f)
           spot == [i \in DOMAIN names |-> CHOOSE f : IsSpot(i, f)]
           to == {j \in DOMAIN edges : edges[j].of \in ToSet(names)}
<1>1. Len(names) \in Nat /\ DOMAIN names = 1..Len(names) /\ DOMAIN edges = 1..Len(edges) /\ Len(edges) \in Nat
  OBVIOUS
<1>2. \A x : Adjacent(edges, x) \in Seq(EdgeRec)
  BY PickedSpots DEF Adjacent
<1>3. ss \in Seq(Seq(EdgeRec)) /\ Len(ss) = Len(names)
  <2>1. ss \in [1..Len(names) -> Seq(EdgeRec)]
    BY <1>1, <1>2
  <2> HIDE DEF ss
  <2>2. QED
    BY <1>1, <2>1, SeqFromFunction
<1>4. flat = FlattenSeq(ss)
  BY DEF EdgesOf
<1>5. \A i \in DOMAIN names : ss[i] = Adjacent(edges, names[i]) /\ Len(ss[i]) \in Nat
  BY <1>2
<1>6. \A i \in DOMAIN names : IsSpot(i, spot[i])
  <2> SUFFICES ASSUME NEW i \in DOMAIN names PROVE \E f : IsSpot(i, f)
    OBVIOUS
  <2>1. ss[i] = Picked(edges, places(names[i]))
    BY DEF Adjacent
  <2> HIDE DEF ss
  <2>2. QED
    BY <2>1, PickedSpots
<1> HIDE DEF ss, flat, spot
<1>7. flat \in Seq(EdgeRec) /\ DOMAIN flat = 1..Len(flat) /\ Len(flat) \in Nat
  <2>1. flat \in Seq(EdgeRec)
    BY <1>3, <1>4, FlattenBlocks
  <2>2. QED
    BY <2>1
<1>8. PICK off : Blocks(Len(names), ss, flat, off)
  BY <1>3, <1>4, FlattenBlocks
<1>9. ASSUME NEW i \in DOMAIN names
      PROVE  /\ off[i] \in Nat /\ spot[i] \in [1..Len(ss[i]) -> places(names[i])]
             /\ \A k, l \in 1..Len(ss[i]) : k < l => spot[i][k] < spot[i][l]
             /\ \A j \in places(names[i]) : \E k \in 1..Len(ss[i]) : spot[i][k] = j
             /\ \A k \in 1..Len(ss[i]) : /\ off[i] + k \in DOMAIN flat
                                         /\ flat[off[i] + k] = edges[spot[i][k]]
                                         /\ flat[off[i] + k].of = names[i]
  <2>1. /\ spot[i] \in [1..Len(ss[i]) -> (1..Len(edges)) \cap places(names[i])]
        /\ \A k, l \in 1..Len(ss[i]) : k < l => spot[i][k] < spot[i][l]
        /\ \A j \in (1..Len(edges)) \cap places(names[i]) : \E k \in 1..Len(ss[i]) : spot[i][k] = j
        /\ \A k \in 1..Len(ss[i]) : ss[i][k] = edges[spot[i][k]]
    BY <1>6 DEF Spots
  <2>2. /\ off[i] \in Nat
        /\ \A k \in 1..Len(ss[i]) : off[i] + k \in DOMAIN flat /\ flat[off[i] + k] = ss[i][k]
    BY <1>1, <1>7, <1>8 DEF Blocks
  <2>3. (1..Len(edges)) \cap places(names[i]) = places(names[i])
    BY <1>1
  <2>4. \A k \in 1..Len(ss[i]) : edges[spot[i][k]].of = names[i]
    BY <2>1
  <2>5. spot[i] \in [1..Len(ss[i]) -> places(names[i])]
    BY <2>1, <2>3
  <2>6. \A j \in places(names[i]) : \E k \in 1..Len(ss[i]) : spot[i][k] = j
    BY <2>1, <2>3
  <2>7. \A k \in 1..Len(ss[i]) : flat[off[i] + k] = edges[spot[i][k]] /\ flat[off[i] + k].of = names[i]
    BY <2>1, <2>2, <2>4
  <2> HIDE DEF places
  <2>8. QED
    BY <2>1, <2>2, <2>5, <2>6, <2>7
<1> DEFINE In(i, m) == m - off[i] \in 1..Len(ss[i])
           Stands(m, j) == \E i \in DOMAIN names : In(i, m) /\ spot[i][m - off[i]] = j
<1>10. ASSUME NEW i \in DOMAIN names, NEW m \in DOMAIN flat, In(i, m)
       PROVE  /\ flat[m].of = names[i] /\ spot[i][m - off[i]] \in to
              /\ flat[m] = edges[spot[i][m - off[i]]]
  <2>1. m = off[i] + (m - off[i])
    BY <1>7, <1>9
  <2>2. flat[m].of = names[i] /\ spot[i][m - off[i]] \in places(names[i]) /\ flat[m] = edges[spot[i][m - off[i]]]
    BY <1>9, <1>10, <2>1
  <2>3. names[i] \in ToSet(names)
    BY DEF ToSet
  <2>4. QED
    BY <2>2, <2>3
<1>11. ASSUME NEW i \in DOMAIN names, NEW j \in DOMAIN names, names[i] = names[j] PROVE i = j
  BY <1>11 DEF IsInjective
<1>12. \A m \in 1..Len(flat) : \E j \in to : Stands(m, j)
  <2> SUFFICES ASSUME NEW m \in 1..Len(flat) PROVE \E j \in to : Stands(m, j)
    OBVIOUS
  <2>1. PICK i \in DOMAIN names : In(i, m)
    BY <1>1, <1>8 DEF Blocks
  <2>2. QED
    BY <1>7, <1>10, <2>1
<1>13. ASSUME NEW m \in 1..Len(flat), NEW l \in 1..Len(flat), NEW j, Stands(m, j), Stands(l, j)
       PROVE  m = l
  <2>1. PICK i \in DOMAIN names : In(i, m) /\ spot[i][m - off[i]] = j
    BY <1>13
  <2>2. PICK h \in DOMAIN names : In(h, l) /\ spot[h][l - off[h]] = j
    BY <1>13
  <2>3. flat[m].of = names[i] /\ flat[l].of = names[h] /\ flat[m] = edges[j] /\ flat[l] = edges[j]
    <3>1. m \in DOMAIN flat /\ l \in DOMAIN flat
      BY <1>7
    <3>2. flat[m].of = names[i] /\ flat[m] = edges[spot[i][m - off[i]]]
      BY <1>10, <2>1, <3>1
    <3>3. flat[l].of = names[h] /\ flat[l] = edges[spot[h][l - off[h]]]
      BY <1>10, <2>2, <3>1
    <3>4. QED
      BY <2>1, <2>2, <3>2, <3>3
  <2>4. i = h
    BY <1>11, <2>3
  <2>5. m - off[i] = l - off[i]
    <3>1. m - off[i] \in 1..Len(ss[i]) /\ l - off[i] \in 1..Len(ss[i]) /\ spot[i][m - off[i]] = spot[i][l - off[i]]
      BY <2>1, <2>2, <2>4
    <3>2. \A a, b \in 1..Len(ss[i]) : a < b => spot[i][a] < spot[i][b]
      BY <1>9
    <3>3. \A a \in 1..Len(ss[i]) : spot[i][a] \in Nat
      <4>1. places(names[i]) \subseteq Nat
        BY <1>1
      <4>2. spot[i] \in [1..Len(ss[i]) -> places(names[i])]
        BY <1>9
      <4> HIDE DEF places
      <4>3. QED
        BY <4>1, <4>2
    <3> DEFINE a == m - off[i]
               b == l - off[i]
    <3>4. /\ a \in Nat /\ b \in Nat /\ ~ (a < b) /\ ~ (b < a)
      <4>1. a \in 1..Len(ss[i]) /\ b \in 1..Len(ss[i]) /\ spot[i][a] = spot[i][b] /\ spot[i][a] \in Nat
        BY <3>1, <3>3
      <4> HIDE DEF a, b
      <4>2. QED
        BY <3>2, <4>1
    <3>5. QED
      BY <3>4
  <2>6. off[i] \in Nat
    BY <1>9
  <2>7. QED
    BY <2>5, <2>6
<1>14. ASSUME NEW j \in to PROVE \E m \in 1..Len(flat) : Stands(m, j)
  <2>1. PICK i \in DOMAIN names : names[i] = edges[j].of
    BY DEF ToSet
  <2>2. PICK k \in 1..Len(ss[i]) : spot[i][k] = j
    BY <1>9, <2>1
  <2>3. off[i] + k \in DOMAIN flat /\ (off[i] + k) - off[i] = k
    BY <1>5, <1>9
  <2>4. QED
    BY <1>7, <2>2, <2>3
<1>15. ASSUME NEW m \in 1..Len(flat), NEW j, Stands(m, j) PROVE flat[m] = edges[j]
  BY <1>7, <1>10, <1>15
<1>16. ASSUME NEW m \in 1..Len(flat), NEW j, NEW k, Stands(m, j), Stands(m, k) PROVE j = k
  <2>1. PICK i \in DOMAIN names : In(i, m) /\ spot[i][m - off[i]] = j
    BY <1>16
  <2>2. PICK h \in DOMAIN names : In(h, m) /\ spot[h][m - off[h]] = k
    BY <1>16
  <2>3. flat[m].of = names[i] /\ flat[m].of = names[h]
    BY <1>7, <1>10, <2>1, <2>2
  <2>4. i = h
    BY <1>11, <2>3
  <2>5. QED
    BY <2>1, <2>2, <2>4
<1> HIDE DEF Stands, to
<1> DEFINE at == [m \in 1..Len(flat) |-> CHOOSE j \in to : Stands(m, j)]
<1>17. \A m \in 1..Len(flat) : at[m] \in to /\ Stands(m, at[m])
  BY <1>12
<1>18. at \in [1..Len(flat) -> to]
  BY <1>12
<1> HIDE DEF at
<1>19. \A j \in to : \E m \in 1..Len(flat) : at[m] = j
  BY <1>14, <1>16, <1>17
<1>20. \A k, l \in 1..Len(flat) : at[k] = at[l] => k = l
  BY <1>13, <1>17
<1>21. \A m \in 1..Len(flat) : flat[m] = edges[at[m]]
  BY <1>15, <1>17
<1>22. Listing(edges, names, flat, at)
  BY <1>18, <1>19, <1>20, <1>21 DEF Listing, to
<1>23. QED
  BY <1>22 DEF flat

\* There is one chain for each of the edges that leave the names of S.
Traced(edges, incoming, depth, chains, S, at) ==
  /\ at \in [1..Len(chains) -> {j \in DOMAIN edges : edges[j].of \in S}]
  /\ \A k, l \in 1..Len(chains) : at[k] = at[l] => k = l
  /\ \A j \in DOMAIN edges : edges[j].of \in S => \E k \in 1..Len(chains) : at[k] = j
  /\ \A k \in 1..Len(chains) : \E n \in 0..depth : chains[k] = Chain(edges, incoming, edges[at[k]], n)

\* Chains of other names go on from those of S.
LEMMA TracedOn ==
  ASSUME NEW edges \in Seq(EdgeRec), NEW incoming, NEW depth \in Nat, NEW n \in 0..depth,
         NEW C, NEW chains \in Seq(C), NEW new \in Seq(C), NEW S, NEW N,
         NEW a, Traced(edges, incoming, depth, chains, S, a),
         NEW names, NEW met, NEW b, Listing(edges, names, met, b), ToSet(names) = N, S \cap N = {},
         Len(new) = Len(met), \A k \in 1..Len(met) : new[k] = Chain(edges, incoming, met[k], n)
  PROVE  \E at : Traced(edges, incoming, depth, chains \o new, S \cup N, at)
<1> DEFINE c == Len(chains)
           m == Len(new)
           all == chains \o new
           at == [k \in 1..Len(all) |-> IF k <= c THEN a[k] ELSE b[k - c]]
           to == {j \in DOMAIN edges : edges[j].of \in S \cup N}
<1>1. c \in Nat /\ m \in Nat /\ Len(all) = c + m
  <2>1. c \in Nat /\ m \in Nat
    BY LenProperties
  <2>2. Len(all) = c + m
    BY ConcatProperties
  <2>3. QED
    BY <2>1, <2>2
<1>2. /\ \A k \in 1..c : all[k] = chains[k]
      /\ \A k \in 1..m : all[c + k] = new[k]
  BY ConcatProperties
<1>3. /\ \A k \in 1..c : a[k] \in DOMAIN edges /\ edges[a[k]].of \in S
      /\ \A k, l \in 1..c : a[k] = a[l] => k = l
      /\ \A j \in DOMAIN edges : edges[j].of \in S => \E k \in 1..c : a[k] = j
      /\ \A k \in 1..c : \E i \in 0..depth : chains[k] = Chain(edges, incoming, edges[a[k]], i)
  BY DEF Traced
<1>4. /\ \A k \in 1..m : b[k] \in DOMAIN edges /\ edges[b[k]].of \in N
      /\ \A k, l \in 1..m : b[k] = b[l] => k = l
      /\ \A j \in DOMAIN edges : edges[j].of \in N => \E k \in 1..m : b[k] = j
      /\ \A k \in 1..m : new[k] = Chain(edges, incoming, edges[b[k]], n)
  BY DEF Listing
<1> HIDE DEF c, m, all
<1>5. /\ \A k \in 1..c : k \in 1..Len(all) /\ at[k] = a[k]
      /\ \A k \in 1..m : c + k \in 1..Len(all) /\ at[c + k] = b[k]
  BY <1>1
<1>6. \A k \in 1..Len(all) : k \in 1..c \/ (k - c \in 1..m /\ k = c + (k - c))
  BY <1>1
<1>7. \A k \in 1..Len(all) : \/ k \in 1..c /\ at[k] = a[k]
                             \/ k - c \in 1..m /\ at[k] = b[k - c] /\ k = c + (k - c) /\ k \notin 1..c
  BY <1>1
<1>8. at \in [1..Len(all) -> to]
  <2>1. \A k \in 1..Len(all) : at[k] \in to
    BY <1>3, <1>4, <1>7
  <2>2. QED
    BY <2>1
<1> HIDE DEF at
<1>9. \A k, l \in 1..Len(all) : at[k] = at[l] => k = l
  <2> SUFFICES ASSUME NEW k \in 1..Len(all), NEW l \in 1..Len(all), at[k] = at[l] PROVE k = l
    OBVIOUS
  <2>1. CASE k \in 1..c /\ l \in 1..c
    BY <1>3, <1>5, <2>1
  <2>2. CASE k \notin 1..c /\ l \notin 1..c
    <3>1. k - c \in 1..m /\ l - c \in 1..m /\ b[k - c] = b[l - c]
      BY <1>7, <2>2
    <3>2. k - c = l - c
      BY <1>4, <3>1
    <3>3. QED
      BY <1>7, <2>2, <3>2
  <2>3. CASE k \in 1..c /\ l \notin 1..c
    <3>1. edges[at[k]].of \in S
      BY <1>3, <1>5, <2>3
    <3>2. edges[at[l]].of \in N
      BY <1>4, <1>7, <2>3
    <3>3. QED
      BY <3>1, <3>2
  <2>4. CASE k \notin 1..c /\ l \in 1..c
    <3>1. edges[at[l]].of \in S
      BY <1>3, <1>5, <2>4
    <3>2. edges[at[k]].of \in N
      BY <1>4, <1>7, <2>4
    <3>3. QED
      BY <3>1, <3>2
  <2>5. QED
    BY <2>1, <2>2, <2>3, <2>4
<1>10. \A j \in DOMAIN edges : edges[j].of \in S \cup N => \E k \in 1..Len(all) : at[k] = j
  <2> SUFFICES ASSUME NEW j \in DOMAIN edges, edges[j].of \in S \cup N
               PROVE  \E k \in 1..Len(all) : at[k] = j
    OBVIOUS
  <2>1. CASE edges[j].of \in S
    BY <1>3, <1>5, <2>1
  <2>2. CASE edges[j].of \in N
    BY <1>4, <1>5, <2>2
  <2>3. QED
    BY <2>1, <2>2
<1>11. \A k \in 1..Len(all) : \E i \in 0..depth : all[k] = Chain(edges, incoming, edges[at[k]], i)
  <2> SUFFICES ASSUME NEW k \in 1..Len(all)
               PROVE  \E i \in 0..depth : all[k] = Chain(edges, incoming, edges[at[k]], i)
    OBVIOUS
  <2>1. CASE k \in 1..c
    <3>1. all[k] = chains[k] /\ at[k] = a[k]
      BY <1>2, <1>5, <2>1
    <3>2. QED
      BY <1>3, <2>1, <3>1
  <2>2. CASE k \notin 1..c
    <3>1. k - c \in 1..m /\ at[k] = b[k - c] /\ k = c + (k - c)
      BY <1>7, <2>2
    <3>2. all[k] = new[k - c]
      BY <1>2, <3>1
    <3>3. all[k] = Chain(edges, incoming, edges[at[k]], n)
      BY <1>4, <3>1, <3>2
    <3>4. QED
      BY <3>3
  <2>3. QED
    BY <2>1, <2>2
<1>12. Traced(edges, incoming, depth, all, S \cup N, at)
  BY <1>8, <1>9, <1>10, <1>11 DEF Traced
<1>13. QED
  BY <1>12 DEF all

\* What the edges of some names lead to.
NamesLed(edges, N) == {edges[j].neighbor : j \in {i \in DOMAIN edges : edges[i].of \in N}}

LEMMA MetNames ==
  ASSUME NEW edges, NEW names, NEW met, DOMAIN met = 1..Len(met), NEW b, Listing(edges, names, met, b)
  PROVE  {met[k].neighbor : k \in DOMAIN met} = NamesLed(edges, ToSet(names))
<1>1. /\ \A k \in 1..Len(met) : b[k] \in DOMAIN edges /\ edges[b[k]].of \in ToSet(names) /\ met[k] = edges[b[k]]
      /\ \A j \in DOMAIN edges : edges[j].of \in ToSet(names) => \E k \in 1..Len(met) : b[k] = j
  BY DEF Listing
<1>2. \A k \in DOMAIN met : met[k].neighbor \in NamesLed(edges, ToSet(names))
  BY <1>1 DEF NamesLed
<1>3. ASSUME NEW x \in NamesLed(edges, ToSet(names)) PROVE \E k \in DOMAIN met : x = met[k].neighbor
  BY <1>1 DEF NamesLed
<1>4. QED
  BY <1>2, <1>3

\* What is known before the names of T that are not in S are expanded.
Ready(edges, incoming, depth, level, S, T) ==
  /\ S \subseteq T /\ NamesLed(edges, S) \subseteq T
  /\ IsInjective(level.queue) /\ ToSet(level.queue) = T \ S /\ level.visited = T
  /\ \E at : Traced(edges, incoming, depth, level.chains, S, at)

\* An expanded level has a chain for each edge of T, and what they lead to
\* is queued.
LEMMA LevelExpanded ==
  ASSUME NEW edges \in Seq(EdgeRec), NEW incoming, NEW depth \in Nat, NEW d \in 0..depth,
         NEW V, STRING \cup {"<reference>"} \subseteq V,
         NEW level \in ChainLevels(V, AllChains(edges, incoming, depth)),
         NEW S, NEW T, Ready(edges, incoming, depth, level, S, T),
         NEW next, next = NextLevel(edges, incoming, depth, d, level)
  PROVE  /\ \E at : Traced(edges, incoming, depth, next.chains, T, at)
         /\ d < depth => Ready(edges, incoming, depth, next, T, T \cup NamesLed(edges, T))
<1> DEFINE C == AllChains(edges, incoming, depth)
           met == EdgesOf(edges, level.queue)
           names == [k \in DOMAIN met |-> met[k].neighbor]
           fresh == Picked(names, Queue(names, level.visited))
           new == [k \in DOMAIN met |-> Chain(edges, incoming, met[k], depth - d)]
<1>1. level.queue \in Seq(V) /\ level.chains \in Seq(C)
  BY DEF ChainLevels
<1>2. /\ S \subseteq T /\ NamesLed(edges, S) \subseteq T
      /\ IsInjective(level.queue) /\ ToSet(level.queue) = T \ S /\ level.visited = T
      /\ \E at : Traced(edges, incoming, depth, level.chains, S, at)
  BY DEF Ready
<1>3. /\ next.chains = level.chains \o new
      /\ d < depth => next.queue = fresh /\ next.visited = level.visited \cup ToSet(fresh)
  BY DEF NextLevel
<1>4. PICK b : Listing(edges, level.queue, met, b)
  BY <1>1, <1>2, EdgesListed
<1>5. met \in Seq(EdgeRec)
  BY <1>1, EdgesOfType
<1> HIDE DEF met
<1>6. Len(met) \in Nat /\ DOMAIN met = 1..Len(met)
  BY <1>5
<1>7. \A k \in DOMAIN met : met[k] \in EdgeRec /\ met[k].neighbor \in V
  <2>1. \A k \in DOMAIN met : met[k] \in EdgeRec
    BY <1>5, ElementOfSeq, LenProperties, Zenon
  <2>2. \A e \in EdgeRec : e.neighbor \in V
    BY DEF EdgeRec
  <2>3. QED
    BY <2>1, <2>2
<1>8. names \in Seq(V) /\ ToSet(names) = {met[k].neighbor : k \in DOMAIN met}
  <2>1. DOMAIN names = DOMAIN met /\ names = [k \in DOMAIN met |-> names[k]] /\ \A k \in DOMAIN met : names[k] \in V
    BY <1>7
  <2>2. ToSet(names) = {met[k].neighbor : k \in DOMAIN met}
    BY DEF ToSet
  <2> HIDE DEF names
  <2>3. names \in Seq(V)
    BY <1>6, <2>1, MappedType
  <2>4. QED
    BY <2>2, <2>3
<1>9. new \in Seq(C) /\ Len(new) = Len(met)
  <2>1. DOMAIN new = DOMAIN met /\ new = [k \in DOMAIN met |-> new[k]]
    OBVIOUS
  <2>2. depth - d \in 0..depth
    OBVIOUS
  <2>3. \A k \in DOMAIN met : new[k] \in C
    BY <1>7, <2>2 DEF AllChains
  <2> HIDE DEF new, C
  <2>4. QED
    BY <1>6, <2>1, <2>3, MappedType
<1>10. \A k \in 1..Len(met) : new[k] = Chain(edges, incoming, met[k], depth - d)
  BY <1>6
<1> HIDE DEF names, new, C
<1>11. \E at : Traced(edges, incoming, depth, next.chains, T, at)
  <2>1. PICK a : Traced(edges, incoming, depth, level.chains, S, a)
    BY <1>2
  <2>2. depth - d \in 0..depth /\ S \cap (T \ S) = {}
    OBVIOUS
  <2>3. S \cup (T \ S) = T
    BY <1>2
  <2>4. \E at : Traced(edges, incoming, depth, level.chains \o new, S \cup (T \ S), at)
    <3> DEFINE n == depth - d
               N == T \ S
    <3>1. n \in 0..depth /\ S \cap N = {} /\ ToSet(level.queue) = N
      BY <1>2, <2>2
    <3>2. \A k \in 1..Len(met) : new[k] = Chain(edges, incoming, met[k], n)
      BY <1>10
    <3> HIDE DEF n, N
    <3>3. \E at : Traced(edges, incoming, depth, level.chains \o new, S \cup N, at)
      BY <1>1, <1>4, <1>9, <2>1, <3>1, <3>2, TracedOn
    <3>4. QED
      BY <3>3 DEF N
  <2>5. QED
    BY <1>3, <2>3, <2>4
<1>12. ASSUME d < depth PROVE Ready(edges, incoming, depth, next, T, T \cup NamesLed(edges, T))
  <2> DEFINE N == T \ S
             U == T \cup NamesLed(edges, T)
  <2>1. {met[k].neighbor : k \in DOMAIN met} = NamesLed(edges, N)
    <3>1. {met[k].neighbor : k \in DOMAIN met} = NamesLed(edges, ToSet(level.queue))
      BY <1>4, <1>6, MetNames
    <3>2. QED
      BY <1>2, <3>1
  <2>2. fresh = Picked(names, Fresh(names, T))
    BY <1>2 DEF Queue
  <2>3. IsInjective(fresh) /\ ToSet(fresh) = NamesLed(edges, N) \ T
    <3>1. IsInjective(fresh) /\ ToSet(fresh) = ToSet(names) \ T
      BY <1>8, <2>2, FreshOnce
    <3>2. QED
      BY <1>8, <2>1, <3>1
  <2>4. NamesLed(edges, T) \ T = NamesLed(edges, N) \ T
    <3>1. \A x \in NamesLed(edges, T) \ T : x \in NamesLed(edges, N)
      <4> SUFFICES ASSUME NEW x \in NamesLed(edges, T) \ T PROVE x \in NamesLed(edges, N)
        OBVIOUS
      <4>1. PICK j \in DOMAIN edges : edges[j].of \in T /\ x = edges[j].neighbor
        BY DEF NamesLed
      <4>2. edges[j].of \notin S
        BY <1>2, <4>1 DEF NamesLed
      <4>3. QED
        BY <4>1, <4>2 DEF NamesLed
    <3>2. \A x \in NamesLed(edges, N) : x \in NamesLed(edges, T)
      BY DEF NamesLed
    <3>3. QED
      BY <3>1, <3>2
  <2>5. ToSet(fresh) = U \ T /\ T \cup ToSet(fresh) = U
    BY <2>3, <2>4
  <2>6. next.queue = fresh /\ next.visited = U
    BY <1>2, <1>3, <1>12, <2>5
  <2>7. T \subseteq U /\ NamesLed(edges, T) \subseteq U
    OBVIOUS
  <2> HIDE DEF U, fresh
  <2>8. Ready(edges, incoming, depth, next, T, U)
    BY <1>11, <2>3, <2>5, <2>6, <2>7 DEF Ready
  <2>9. QED
    BY <2>8 DEF U
<1>13. QED
  BY <1>11, <1>12

Linked(edges) == {<<e.of, e.neighbor>> : e \in ToSet(edges)}

LEMMA LinkedImage ==
  ASSUME NEW edges \in Seq(EdgeRec), NEW S
  PROVE  Image(Linked(edges), S) = NamesLed(edges, S)
<1>1. \A e \in ToSet(edges) : \E j \in DOMAIN edges : edges[j] = e
  BY DEF ToSet
<1>2. \A j \in DOMAIN edges : edges[j] \in ToSet(edges)
  BY DEF ToSet
<1>3. ASSUME NEW x \in Image(Linked(edges), S) PROVE x \in NamesLed(edges, S)
  <2>1. PICK d \in Linked(edges) : d[1] \in S /\ x = d[2]
    BY DEF Image
  <2>2. PICK e \in ToSet(edges) : d = <<e.of, e.neighbor>>
    BY DEF Linked
  <2>3. PICK j \in DOMAIN edges : edges[j] = e
    BY <1>1
  <2>4. edges[j].of \in S /\ x = edges[j].neighbor
    BY <2>1, <2>2, <2>3
  <2>5. QED
    BY <2>4 DEF NamesLed
<1>4. ASSUME NEW x \in NamesLed(edges, S) PROVE x \in Image(Linked(edges), S)
  <2>1. PICK j \in DOMAIN edges : edges[j].of \in S /\ x = edges[j].neighbor
    BY DEF NamesLed
  <2>2. <<edges[j].of, edges[j].neighbor>> \in Linked(edges)
    BY <1>2 DEF Linked
  <2>3. QED
    BY <2>1, <2>2 DEF Image
<1>5. QED
  BY <1>3, <1>4

\* The search takes the edges of the names within the depth, each once.
LEMMA SearchTraces ==
  ASSUME NEW edges \in Seq(EdgeRec), NEW incoming, NEW symbol, NEW depth \in Nat
  PROVE  \E at : Traced(edges, incoming, depth, Chains(edges, incoming, symbol, depth),
                        Within(Linked(edges), {symbol}, depth)[depth], at)
<1> DEFINE V == STRING \cup {"<reference>", symbol}
           C == AllChains(edges, incoming, depth)
           w == Within(Linked(edges), {symbol}, depth)
           start == [queue |-> <<symbol>>, visited |-> {symbol}, chains |-> << >>]
           Done(d, level) ==
             /\ \E at : Traced(edges, incoming, depth, level.chains, w[d], at)
             /\ d < depth => Ready(edges, incoming, depth, level, w[d], w[d + 1])
<1>1. Linked(edges) \in SUBSET (V \X V)
  <2>1. \A e \in ToSet(edges) : e \in EdgeRec
    BY SetOfSeq
  <2>2. \A e \in EdgeRec : e.of \in V /\ e.neighbor \in V
    BY DEF EdgeRec
  <2>3. QED
    BY <2>1, <2>2 DEF Linked
<1>2. /\ w[0] = {symbol}
      /\ \A k \in 1..depth : w[k] = w[k - 1] \cup NamesLed(edges, w[k - 1])
  <2>1. Balls(V, Linked(edges), {symbol}, depth, w)
    <3>1. {symbol} \in SUBSET V
      OBVIOUS
    <3> HIDE DEF V
    <3>2. QED
      BY <1>1, <3>1, WithinIs
  <2>2. QED
    BY <2>1, LinkedImage DEF Balls
<1>3. PICK g : ChainSearch(edges, incoming, symbol, depth, V, g)
  BY ChainSearched
<1> HIDE DEF w
<1>4. start \in ChainLevels(V, C) /\ Ready(edges, incoming, depth, start, {}, {symbol})
  <2>1. <<symbol>> \in Seq(V) /\ {symbol} \in SUBSET V /\ << >> \in Seq(C)
    OBVIOUS
  <2>2. start \in ChainLevels(V, C)
    BY <2>1 DEF ChainLevels
  <2>3. IsInjective(<<symbol>>) /\ ToSet(<<symbol>>) = {symbol}
    BY OneFound
  <2>4. Traced(edges, incoming, depth, << >>, {}, << >>)
    BY DEF Traced
  <2>5. NamesLed(edges, {}) = {}
    BY DEF NamesLed
  <2>6. QED
    BY <2>2, <2>3, <2>4, <2>5 DEF Ready
<1>5. STRING \cup {"<reference>"} \subseteq V
  OBVIOUS
<1>6. /\ \A d \in 0..depth : g[d] \in ChainLevels(V, C)
      /\ g[0] = NextLevel(edges, incoming, depth, 0, start)
      /\ \A d \in 1..depth : g[d] = NextLevel(edges, incoming, depth, d, g[d - 1])
      /\ Chains(edges, incoming, symbol, depth) = g[depth].chains
  BY <1>3 DEF ChainSearch
<1> HIDE DEF V, C, start
<1>7. Done(0, g[0])
  <2>1. /\ \E at : Traced(edges, incoming, depth, g[0].chains, {symbol}, at)
        /\ 0 < depth => Ready(edges, incoming, depth, g[0], {symbol}, {symbol} \cup NamesLed(edges, {symbol}))
    <3> DEFINE next == g[0]
               T == {symbol}
    <3>1. 0 \in 0..depth /\ next = NextLevel(edges, incoming, depth, 0, start)
          /\ Ready(edges, incoming, depth, start, {}, T)
      BY <1>4, <1>6
    <3> HIDE DEF next, T
    <3>2. /\ \E at : Traced(edges, incoming, depth, next.chains, T, at)
          /\ 0 < depth => Ready(edges, incoming, depth, next, T, T \cup NamesLed(edges, T))
      BY <1>4, <1>5, <3>1, LevelExpanded DEF C
    <3>3. QED
      BY <3>2 DEF next, T
  <2>2. 0 < depth => w[0 + 1] = {symbol} \cup NamesLed(edges, {symbol})
    <3>1. ASSUME 0 < depth PROVE w[1] = w[1 - 1] \cup NamesLed(edges, w[1 - 1])
      BY <1>2, <3>1
    <3>2. 1 - 1 = 0 /\ 0 + 1 = 1
      OBVIOUS
    <3>3. QED
      BY <1>2, <3>1, <3>2
  <2>3. QED
    BY <1>2, <2>1, <2>2
<1>8. ASSUME NEW d \in 1..depth, Done(d - 1, g[d - 1]) PROVE Done(d, g[d])
  <2>1. d - 1 < depth /\ (d - 1) + 1 = d /\ d - 1 \in 0..depth /\ d \in 0..depth
    OBVIOUS
  <2>2. Ready(edges, incoming, depth, g[d - 1], w[d - 1], w[d])
    BY <1>8, <2>1
  <2>3. /\ \E at : Traced(edges, incoming, depth, g[d].chains, w[d], at)
        /\ d < depth => Ready(edges, incoming, depth, g[d], w[d], w[d] \cup NamesLed(edges, w[d]))
    <3> DEFINE level == g[d - 1]
               next == g[d]
               S == w[d - 1]
               T == w[d]
    <3>1. /\ level \in ChainLevels(V, C) /\ next = NextLevel(edges, incoming, depth, d, level)
          /\ Ready(edges, incoming, depth, level, S, T)
      BY <1>6, <2>1, <2>2
    <3> HIDE DEF level, next, S, T
    <3>2. /\ \E at : Traced(edges, incoming, depth, next.chains, T, at)
          /\ d < depth => Ready(edges, incoming, depth, next, T, T \cup NamesLed(edges, T))
      BY <1>5, <2>1, <3>1, LevelExpanded DEF C
    <3>3. QED
      BY <3>2 DEF next, T
  <2>4. d < depth => w[d + 1] = w[d] \cup NamesLed(edges, w[d])
    <3>1. ASSUME d < depth PROVE d + 1 \in 1..depth /\ (d + 1) - 1 = d
      BY <3>1
    <3>2. QED
      BY <1>2, <3>1
  <2>5. QED
    BY <2>3, <2>4
<1> HIDE DEF Done
<1>9. \A d \in 0..depth : Done(d, g[d])
  <2> DEFINE T == {d \in 0..depth : Done(d, g[d])}
  <2>1. 0 \in T /\ \A d \in 1..depth : d - 1 \in T => d \in T
    BY <1>7, <1>8
  <2>2. \A d \in 0..depth : d \in T
    <3> HIDE DEF T
    <3>1. QED
      BY <2>1, Upwards
  <2>3. QED
    BY <2>2
<1>10. Done(depth, g[depth])
  BY <1>9
<1>11. QED
  BY <1>6, <1>10 DEF w, Done

-----------------------------------------------------------------------------
(* The ends of a chain.                                                     *)

PlaceRec == [name : STRING \cup {"<reference>"}, path : STRING, line : Nat]

LEMMA PlaceType ==
  ASSUME NEW e \in EdgeRec
  PROVE  Place(e.of, e) \in PlaceRec /\ Place(e.neighbor, e) \in PlaceRec
BY DEF Place, PlaceRec, EdgeRec

\* One hop further.
Hop(edges, name, places) ==
  LET at == IF places = << >> THEN name ELSE Last(places).name
      out == Adjacent(edges, at)
  IN  IF out = << >> THEN places ELSE Append(places, Place(out[1].neighbor, out[1]))

LEMMA HopOn ==
  ASSUME NEW edges \in Seq(EdgeRec), NEW name, NEW places \in Seq(PlaceRec)
  PROVE  /\ Hop(edges, name, places) \in Seq(PlaceRec)
         /\ Len(Hop(edges, name, places)) <= Len(places) + 1
<1> DEFINE at == IF places = << >> THEN name ELSE Last(places).name
           out == Adjacent(edges, at)
           place == Place(out[1].neighbor, out[1])
<1>1. out \in Seq(EdgeRec)
  <2> HIDE DEF at
  <2>1. QED
    BY PickedSpots DEF Adjacent
<1>2. Hop(edges, name, places) = IF out = << >> THEN places ELSE Append(places, place)
  BY DEF Hop
<1>3. ASSUME out # << >> PROVE place \in PlaceRec
  <2> HIDE DEF out
  <2>1. out[1] \in EdgeRec
    BY <1>1, <1>3
  <2>2. QED
    BY <2>1, PlaceType
<1> HIDE DEF out, place
<1>4. CASE out = << >>
  BY <1>2, <1>4
<1>5. CASE out # << >>
  <2>1. Append(places, place) \in Seq(PlaceRec) /\ Len(Append(places, place)) = Len(places) + 1
    BY <1>3, <1>5
  <2>2. Hop(edges, name, places) = Append(places, place)
    BY <1>2, <1>5
  <2>3. Len(places) \in Nat
    OBVIOUS
  <2>4. QED
    BY <2>1, <2>2, <2>3
<1>6. QED
  BY <1>4, <1>5

LEMMA FirstEdgesType ==
  ASSUME NEW edges \in Seq(EdgeRec), NEW name, NEW n \in Nat
  PROVE  FirstEdges(edges, name, n) \in Seq(PlaceRec) /\ Len(FirstEdges(edges, name, n)) <= n
<1> DEFINE L == Seq(PlaceRec)
           Next1(x) == Hop(edges, name, x)
           F == [x \in (1..n) \X L |-> Next1(x[2])]
           Def(f) == f = [k \in 0..n |-> IF k = 0 THEN << >> ELSE Next1(f[k - 1])]
           hops == CHOOSE f : Def(f)
<1>1. << >> \in L
  OBVIOUS
<1>2. \A x \in L : Next1(x) \in L /\ Len(Next1(x)) <= Len(x) + 1
  BY HopOn
<1>3. FirstEdges(edges, name, n) = hops[n]
  BY DEF FirstEdges, Hop
<1> HIDE DEF Next1
<1>4. F \in [(1..n) \X L -> L]
  BY <1>2
<1>5. PICK g : Values(n, L, << >>, F, g)
  <2> HIDE DEF F, L
  <2>1. QED
    BY <1>1, <1>4, RecursionIn
<1>6. g \in [0..n -> L] /\ g[0] = << >> /\ \A k \in 1..n : g[k] = Next1(g[k - 1])
  <2>1. g \in [0..n -> L] /\ g[0] = << >> /\ \A k \in 1..n : g[k] = F[<<k, g[k - 1]>>]
    BY <1>5 DEF Values
  <2>2. \A k \in 1..n : <<k, g[k - 1]>> \in (1..n) \X L
    BY <2>1
  <2>3. \A k \in 1..n : F[<<k, g[k - 1]>>] = Next1(g[k - 1])
    BY <2>2
  <2> HIDE DEF F
  <2>4. QED
    BY <2>1, <2>3
<1>7. Def(g)
  <2>1. \A k \in 0..n : g[k] = IF k = 0 THEN << >> ELSE Next1(g[k - 1])
    BY <1>6
  <2>2. g = [k \in 0..n |-> g[k]]
    BY <1>6
  <2>3. QED
    BY <2>1, <2>2
<1>8. Def(hops)
  BY <1>7
<1> HIDE DEF hops
<1>9. hops[0] = << >> /\ \A k \in 1..n : hops[k] = Next1(hops[k - 1])
  <2>1. hops = [k \in 0..n |-> IF k = 0 THEN << >> ELSE Next1(hops[k - 1])]
    BY <1>8
  <2>2. \A k \in 0..n : hops[k] = IF k = 0 THEN << >> ELSE Next1(hops[k - 1])
    BY <2>1, Zenon
  <2>3. 0 \in 0..n /\ \A k \in 1..n : k \in 0..n /\ k # 0
    OBVIOUS
  <2>4. QED
    BY <2>2, <2>3
<1> HIDE DEF Def
<1>10. \A k \in 0..n : hops[k] \in Seq(PlaceRec) /\ Len(hops[k]) <= k
  <2> DEFINE T == {k \in 0..n : hops[k] \in L /\ Len(hops[k]) <= k}
  <2>1. 0 \in T
    <3>1. Len(<< >>) = 0 /\ << >> \in L
      OBVIOUS
    <3>2. Len(hops[0]) = 0 /\ hops[0] \in L /\ 0 \in 0..n
      BY <1>9, <3>1
    <3> HIDE DEF L
    <3>3. QED
      BY <3>2
  <2>2. \A k \in 1..n : k - 1 \in T => k \in T
    <3> SUFFICES ASSUME NEW k \in 1..n, hops[k - 1] \in L, Len(hops[k - 1]) <= k - 1
                 PROVE  hops[k] \in L /\ Len(hops[k]) <= k
      OBVIOUS
    <3>1. hops[k] \in L /\ Len(hops[k]) <= Len(hops[k - 1]) + 1
      BY <1>2, <1>9
    <3>2. Len(hops[k]) \in Nat /\ Len(hops[k - 1]) \in Nat
      BY <3>1
    <3>3. QED
      BY <3>1, <3>2
  <2>3. \A k \in 0..n : k \in T
    <3> HIDE DEF T
    <3>1. QED
      BY <2>1, <2>2, Upwards
  <2>4. QED
    BY <2>3
<1>11. QED
  BY <1>3, <1>10

LEMMA ChainEnds ==
  ASSUME NEW edges \in Seq(EdgeRec), NEW incoming \in BOOLEAN, NEW e \in EdgeRec, NEW n \in Nat
  PROVE  LET c == Chain(edges, incoming, e, n)
         IN  /\ Len(c) <= n + 2
             /\ <<c[1], c[Len(c)]>> = IF incoming THEN <<Place(e.neighbor, e), Place(e.of, e)>>
                                                  ELSE <<Place(e.of, e), Place(e.neighbor, e)>>
<1> DEFINE f == FirstEdges(edges, e.neighbor, n)
           p == Place(e.of, e)
           q == Place(e.neighbor, e)
           chain == <<p>> \o f \o <<q>>
           c == Chain(edges, incoming, e, n)
<1>1. f \in Seq(PlaceRec) /\ Len(f) <= n /\ p \in PlaceRec /\ q \in PlaceRec
  BY FirstEdgesType, PlaceType
<1>2. c = IF incoming THEN Reverse(chain) ELSE chain
  BY DEF Chain
<1> HIDE DEF f, p, q, c
<1>3. /\ Len(chain) = Len(f) + 2 /\ Len(f) \in Nat
      /\ chain[1] = p /\ chain[Len(f) + 2] = q
  BY <1>1
<1> HIDE DEF chain
<1>4. CASE ~ incoming
  BY <1>1, <1>2, <1>3, <1>4 DEF p, q, c
<1>5. CASE incoming
  <2>1. Reverse(chain) = [i \in 1..Len(chain) |-> chain[(Len(chain) - i) + 1]]
    BY DEF Reverse
  <2> DEFINE r == Reverse(chain)
  <2>2. Len(r) = Len(chain)
    BY <1>3, <2>1
  <2>3. r[1] = chain[Len(chain)] /\ r[Len(chain)] = chain[1]
    BY <1>3, <2>1
  <2>4. c = r
    BY <1>2, <1>5
  <2> HIDE DEF r
  <2>5. Len(c) <= n + 2 /\ c[1] = q /\ c[Len(c)] = p
    BY <1>1, <1>3, <2>2, <2>3, <2>4
  <2>6. <<c[1], c[Len(c)]>> = <<q, p>>
    BY <2>5
  <2>7. QED
    BY <1>5, <2>5, <2>6 DEF p, q, c
<1>6. QED
  BY <1>4, <1>5

LEMMA SameSize ==
  ASSUME NEW S, IsFiniteSet(S), NEW T, NEW at \in [S -> T],
         \A x, y \in S : at[x] = at[y] => x = y,
         \A z \in T : \E x \in S : at[x] = z
  PROVE  IsFiniteSet(T) /\ Cardinality(T) = Cardinality(S)
<1>1. at \in Bijection(S, T)
  BY DEF Bijection, Injection, Surjection, IsInjective
<1>2. ExistsBijection(S, T)
  BY <1>1 DEF ExistsBijection
<1>3. QED
  BY <1>2, FS_Bijection

\* Each edge of the names has its chain.
Counted(edges, chains, S, at) ==
  /\ Len(chains) = Cardinality({j \in DOMAIN edges : edges[j].of \in S})
  /\ \A e : /\ IsFiniteSet({k \in DOMAIN chains : edges[at[k]] = e})
            /\ Cardinality({k \in DOMAIN chains : edges[at[k]] = e}) =
                 IF e.of \in S THEN Cardinality({j \in DOMAIN edges : edges[j] = e}) ELSE 0

LEMMA TracedCount ==
  ASSUME NEW edges, NEW incoming, NEW depth, NEW chains, Len(chains) \in Nat, DOMAIN chains = 1..Len(chains),
         NEW S, NEW at, Traced(edges, incoming, depth, chains, S, at)
  PROVE  Counted(edges, chains, S, at)
<1> DEFINE D == 1..Len(chains)
           to == {j \in DOMAIN edges : edges[j].of \in S}
<1>1. /\ at \in [D -> to]
      /\ \A k, l \in D : at[k] = at[l] => k = l
      /\ \A j \in to : \E k \in D : at[k] = j
  BY DEF Traced
<1>2. IsFiniteSet(D) /\ Cardinality(D) = Len(chains)
  <2> DEFINE n == Len(chains)
  <2>1. n \in Nat
    OBVIOUS
  <2> HIDE DEF n
  <2>2. IsFiniteSet(1..n) /\ Cardinality(1..n) = IF 1 > n THEN 0 ELSE n - 1 + 1
    BY <2>1, FS_Interval
  <2>3. (IF 1 > n THEN 0 ELSE n - 1 + 1) = n
    BY <2>1
  <2>4. QED
    BY <2>2, <2>3 DEF n
<1>3. Len(chains) = Cardinality(to)
  <2> HIDE DEF D, to
  <2>1. QED
    BY <1>1, <1>2, SameSize
<1>4. ASSUME NEW e
      PROVE  /\ IsFiniteSet({k \in D : edges[at[k]] = e})
             /\ Cardinality({k \in D : edges[at[k]] = e}) =
                  IF e.of \in S THEN Cardinality({j \in DOMAIN edges : edges[j] = e}) ELSE 0
  <2> DEFINE K == {k \in D : edges[at[k]] = e}
             J == {j \in DOMAIN edges : edges[j] = e}
  <2>1. IsFiniteSet(K)
    <3>1. K \in SUBSET D
      OBVIOUS
    <3> HIDE DEF K, D
    <3>2. QED
      BY <1>2, <3>1, FS_Subset
  <2>2. CASE e.of \in S
    <3> DEFINE f == [k \in K |-> at[k]]
    <3>1. f \in [K -> J]
      BY <1>1
    <3>2. \A x, y \in K : f[x] = f[y] => x = y
      BY <1>1
    <3>3. \A z \in J : \E x \in K : f[x] = z
      BY <1>1, <2>2
    <3> HIDE DEF f, K, J
    <3>4. Cardinality(J) = Cardinality(K)
      BY <2>1, <3>1, <3>2, <3>3, SameSize
    <3>5. QED
      BY <2>1, <2>2, <3>4 DEF K, J
  <2>3. CASE e.of \notin S
    <3>1. K = {}
      BY <1>1, <2>3
    <3>2. Cardinality(K) = 0
      BY <3>1, FS_EmptySet
    <3> HIDE DEF K
    <3>3. QED
      BY <2>1, <2>3, <3>2 DEF K
  <2>4. QED
    BY <2>2, <2>3
<1>5. QED
  BY <1>3, <1>4 DEF Counted

\* What the chains of a search show.
ChainsShow(edges, incoming, depth, chains, S) ==
  LET ends(c) == <<c[1], c[Len(c)]>>
      pair(e) == IF incoming THEN <<Place(e.neighbor, e), Place(e.of, e)>>
                             ELSE <<Place(e.of, e), Place(e.neighbor, e)>>
      shown(e) == Cardinality({k \in DOMAIN chains : ends(chains[k]) = pair(e)})
      due(e) == IF e.of \in S THEN Cardinality({j \in DOMAIN edges : edges[j] = e}) ELSE 0
  IN  /\ \A e \in ToSet(edges) :
           /\ shown(e) >= due(e)
           /\ (\A d \in ToSet(edges) : ~ d.impl) => shown(e) = due(e)
      /\ Len(chains) = Cardinality({j \in DOMAIN edges : edges[j].of \in S})
      /\ \A c \in ToSet(chains) : Len(c) <= depth + 2

LEMMA TracedShows ==
  ASSUME NEW edges \in Seq(EdgeRec), NEW incoming \in BOOLEAN, NEW depth \in Nat,
         NEW chains, Len(chains) \in Nat, DOMAIN chains = 1..Len(chains),
         NEW S, NEW at, Traced(edges, incoming, depth, chains, S, at)
  PROVE  ChainsShow(edges, incoming, depth, chains, S)
<1> DEFINE ends(c) == <<c[1], c[Len(c)]>>
           pair(e) == IF incoming THEN <<Place(e.neighbor, e), Place(e.of, e)>>
                                  ELSE <<Place(e.of, e), Place(e.neighbor, e)>>
           K(e) == {k \in DOMAIN chains : ends(chains[k]) = pair(e)}
           H(e) == {k \in DOMAIN chains : edges[at[k]] = e}
           due(e) == IF e.of \in S THEN Cardinality({j \in DOMAIN edges : edges[j] = e}) ELSE 0
<1>1. /\ Len(chains) = Cardinality({j \in DOMAIN edges : edges[j].of \in S})
      /\ \A e : IsFiniteSet(H(e)) /\ Cardinality(H(e)) = due(e)
  <2>1. Counted(edges, chains, S, at)
    BY TracedCount
  <2>2. QED
    BY <2>1 DEF Counted
<1>2. \A e \in ToSet(edges) : e \in EdgeRec
  BY SetOfSeq
<1>3. ASSUME NEW k \in DOMAIN chains
      PROVE  /\ edges[at[k]] \in ToSet(edges) /\ Len(chains[k]) <= depth + 2
             /\ ends(chains[k]) = pair(edges[at[k]])
  <2>1. at[k] \in DOMAIN edges /\ \E n \in 0..depth : chains[k] = Chain(edges, incoming, edges[at[k]], n)
    BY DEF Traced
  <2>2. edges[at[k]] \in ToSet(edges) /\ edges[at[k]] \in EdgeRec
    BY <1>2, <2>1 DEF ToSet
  <2>3. PICK n \in 0..depth : chains[k] = Chain(edges, incoming, edges[at[k]], n)
    BY <2>1
  <2> DEFINE e == edges[at[k]]
             c == chains[k]
  <2>4. n \in Nat /\ n <= depth /\ e \in EdgeRec /\ c = Chain(edges, incoming, e, n)
    BY <2>2, <2>3
  <2> HIDE DEF e, c
  <2>5. Len(c) <= n + 2 /\ ends(c) = pair(e)
    BY <2>4, ChainEnds
  <2>6. c = <<>> \/ Len(c) <= depth + 2
    BY <2>4, <2>5
  <2>7. QED
    BY <2>2, <2>4, <2>5, <2>6 DEF e, c
<1> HIDE DEF ends, pair, due
<1>4. ASSUME NEW e \in ToSet(edges)
      PROVE  /\ Cardinality(K(e)) >= due(e)
             /\ (\A d \in ToSet(edges) : ~ d.impl) => Cardinality(K(e)) = due(e)
  <2>1. H(e) \in SUBSET K(e)
    BY <1>3
  <2>2. IsFiniteSet(K(e)) /\ Cardinality(K(e)) \in Nat
    <3>1. K(e) \in SUBSET (1..Len(chains)) /\ IsFiniteSet(1..Len(chains))
      BY FS_Interval
    <3> HIDE DEF K
    <3>2. IsFiniteSet(K(e))
      BY <3>1, FS_Subset
    <3>3. QED
      BY <3>2, FS_CardinalityType
  <2>3. Cardinality(H(e)) <= Cardinality(K(e))
    <3> HIDE DEF H, K
    <3>1. QED
      BY <2>1, <2>2, FS_Subset
  <2>4. Cardinality(H(e)) \in Nat /\ Cardinality(H(e)) = due(e)
    <3> HIDE DEF H
    <3>1. QED
      BY <1>1, FS_CardinalityType
  <2>5. ASSUME \A d \in ToSet(edges) : ~ d.impl PROVE K(e) = H(e)
    <3>1. ASSUME NEW k \in DOMAIN chains, ends(chains[k]) = pair(e) PROVE edges[at[k]] = e
      <4> DEFINE d == edges[at[k]]
      <4>1. d \in EdgeRec /\ e \in EdgeRec /\ pair(d) = pair(e) /\ ~ d.impl /\ ~ e.impl
        BY <1>2, <1>3, <2>5, <3>1
      <4> HIDE DEF d
      <4>2. Place(d.of, d) = Place(e.of, e) /\ Place(d.neighbor, d) = Place(e.neighbor, e)
        BY <4>1 DEF pair
      <4>3. d.of = e.of /\ d.neighbor = e.neighbor /\ d.path = e.path /\ d.line = e.line
        BY <4>2 DEF Place
      <4>4. d.impl = e.impl
        BY <4>1 DEF EdgeRec
      <4>5. d = e
        BY <4>1, <4>3, <4>4 DEF EdgeRec
      <4>6. QED
        BY <4>5 DEF d
    <3>2. QED
      BY <2>1, <3>1
  <2>6. QED
    BY <2>2, <2>3, <2>4, <2>5
<1>5. \A c \in ToSet(chains) : Len(c) <= depth + 2
  BY <1>3 DEF ToSet
<1>6. QED
  BY <1>1, <1>4, <1>5 DEF ChainsShow, ends, pair, due

\* t has the elements of s in another order.
Rearranged(s, t, perm) ==
  /\ perm \in [1..Len(t) -> 1..Len(s)]
  /\ \A k, l \in 1..Len(t) : perm[k] = perm[l] => k = l
  /\ \A i \in 1..Len(s) : \E k \in 1..Len(t) : perm[k] = i
  /\ \A k \in 1..Len(t) : t[k] = s[perm[k]]

\* The elements at some places, then the others.
LEMMA PartsRearranged ==
  ASSUME NEW X, NEW s \in Seq(X), NEW P
  PROVE  \E perm : Rearranged(s, Picked(s, DOMAIN s \ P) \o Picked(s, P), perm)
<1> DEFINE rest == Picked(s, DOMAIN s \ P)
           part == Picked(s, P)
           t == rest \o part
           n == Len(s)
           m == Len(rest)
           o == Len(part)
           Q == DOMAIN s \ P
<1>1. n \in Nat /\ DOMAIN s = 1..n
  OBVIOUS
<1>2. rest \in Seq(X) /\ part \in Seq(X) /\ \E a : Spots(n, s, Q, rest, a)
  BY PickedSpots
<1>3. \E b : Spots(n, s, P, part, b)
  BY PickedSpots
<1>4. PICK a : Spots(n, s, Q, rest, a)
  BY <1>2
<1>5. PICK b : Spots(n, s, P, part, b)
  BY <1>3
<1> HIDE DEF rest, part
<1>6. /\ a \in [1..m -> (1..n) \cap Q] /\ \A i, j \in 1..m : i < j => a[i] < a[j]
      /\ \A k \in (1..n) \cap Q : \E i \in 1..m : a[i] = k
      /\ \A i \in 1..m : rest[i] = s[a[i]]
  BY <1>4 DEF Spots
<1>7. /\ b \in [1..o -> (1..n) \cap P] /\ \A i, j \in 1..o : i < j => b[i] < b[j]
      /\ \A k \in (1..n) \cap P : \E i \in 1..o : b[i] = k
      /\ \A i \in 1..o : part[i] = s[b[i]]
  BY <1>5 DEF Spots
<1>8. m \in Nat /\ o \in Nat /\ Len(t) = m + o
  <2>1. m \in Nat /\ o \in Nat
    BY <1>2, LenProperties
  <2>2. Len(t) = m + o
    BY <1>2, ConcatProperties
  <2>3. QED
    BY <2>1, <2>2
<1>9. /\ \A k \in 1..m : t[k] = rest[k]
      /\ \A k \in 1..o : t[m + k] = part[k]
  BY <1>2, <1>8, ConcatProperties
<1> HIDE DEF t, n, m, o, Q
<1> DEFINE perm == [k \in 1..Len(t) |-> IF k <= m THEN a[k] ELSE b[k - m]]
<1>10. \A k \in 1..Len(t) : \/ k \in 1..m /\ perm[k] = a[k]
                            \/ k - m \in 1..o /\ perm[k] = b[k - m] /\ k = m + (k - m) /\ k \notin 1..m
  BY <1>8
<1>11. /\ \A k \in 1..m : k \in 1..Len(t) /\ perm[k] = a[k]
       /\ \A k \in 1..o : m + k \in 1..Len(t) /\ perm[m + k] = b[k]
  BY <1>8
<1>12. perm \in [1..Len(t) -> 1..n]
  <2>1. \A k \in 1..Len(t) : perm[k] \in 1..n
    BY <1>6, <1>7, <1>10
  <2>2. QED
    BY <2>1
<1> HIDE DEF perm
<1>13. /\ \A i \in 1..m : a[i] \in 1..n /\ a[i] \in Q
       /\ \A i \in 1..o : b[i] \in 1..n /\ b[i] \in P
  BY <1>6, <1>7
<1>14. /\ \A i, j \in 1..m : a[i] = a[j] => i = j
       /\ \A i, j \in 1..o : b[i] = b[j] => i = j
  <2>1. ASSUME NEW i \in 1..m, NEW j \in 1..m, a[i] = a[j] PROVE i = j
    <3>1. a[i] \in Int /\ ~ (a[i] < a[j]) /\ ~ (a[j] < a[i])
      BY <1>1, <1>13, <2>1
    <3>2. ~ (i < j) /\ ~ (j < i)
      BY <1>6, <3>1
    <3>3. QED
      BY <1>8, <3>2
  <2>2. ASSUME NEW i \in 1..o, NEW j \in 1..o, b[i] = b[j] PROVE i = j
    <3>1. b[i] \in Int /\ ~ (b[i] < b[j]) /\ ~ (b[j] < b[i])
      BY <1>1, <1>13, <2>2
    <3>2. ~ (i < j) /\ ~ (j < i)
      BY <1>7, <3>1
    <3>3. QED
      BY <1>8, <3>2
  <2>3. QED
    BY <2>1, <2>2
<1>15. ASSUME NEW k \in 1..Len(t), NEW l \in 1..Len(t), perm[k] = perm[l] PROVE k = l
  <2>1. CASE k \in 1..m /\ l \in 1..m
    BY <1>11, <1>14, <1>15, <2>1
  <2>2. CASE k \notin 1..m /\ l \notin 1..m
    <3>1. k - m \in 1..o /\ l - m \in 1..o /\ b[k - m] = b[l - m]
      BY <1>10, <1>15, <2>2
    <3>2. k - m = l - m
      BY <1>14, <3>1
    <3>3. QED
      BY <1>8, <3>2
  <2>3. CASE k \in 1..m /\ l \notin 1..m
    <3>1. perm[k] \in Q
      BY <1>11, <1>13, <2>3
    <3>2. perm[l] \in P
      BY <1>10, <1>13, <2>3
    <3>3. QED
      BY <1>15, <3>1, <3>2 DEF Q
  <2>4. CASE k \notin 1..m /\ l \in 1..m
    <3>1. perm[l] \in Q
      BY <1>11, <1>13, <2>4
    <3>2. perm[k] \in P
      BY <1>10, <1>13, <2>4
    <3>3. QED
      BY <1>15, <3>1, <3>2 DEF Q
  <2>5. QED
    BY <2>1, <2>2, <2>3, <2>4
<1>16. ASSUME NEW i \in 1..n PROVE \E k \in 1..Len(t) : perm[k] = i
  <2>1. CASE i \in P
    BY <1>7, <1>11, <2>1
  <2>2. CASE i \in Q
    BY <1>6, <1>11, <2>2
  <2>3. i \in P \/ i \in Q
    BY <1>1 DEF Q
  <2>4. QED
    BY <2>1, <2>2, <2>3
<1>17. ASSUME NEW k \in 1..Len(t) PROVE t[k] = s[perm[k]]
  <2>1. CASE k \in 1..m
    BY <1>6, <1>9, <1>11, <2>1
  <2>2. CASE k \notin 1..m
    <3>1. k - m \in 1..o /\ perm[k] = b[k - m] /\ k = m + (k - m)
      BY <1>10, <2>2
    <3>2. t[k] = part[k - m]
      BY <1>9, <3>1
    <3>3. QED
      BY <1>7, <3>1, <3>2
  <2>3. QED
    BY <2>1, <2>2
<1>18. Rearranged(s, t, perm)
  BY <1>12, <1>15, <1>16, <1>17 DEF Rearranged, n
<1>19. QED
  BY <1>18 DEF t, rest, part

LEMMA TracedRearranged ==
  ASSUME NEW edges, NEW incoming, NEW depth, NEW chains, NEW S, NEW at,
         Traced(edges, incoming, depth, chains, S, at), NEW t, NEW perm, Rearranged(chains, t, perm)
  PROVE  \E b : Traced(edges, incoming, depth, t, S, b)
<1> DEFINE b == [k \in 1..Len(t) |-> at[perm[k]]]
           to == {j \in DOMAIN edges : edges[j].of \in S}
<1>1. /\ at \in [1..Len(chains) -> to]
      /\ \A k, l \in 1..Len(chains) : at[k] = at[l] => k = l
      /\ \A j \in to : \E k \in 1..Len(chains) : at[k] = j
      /\ \A k \in 1..Len(chains) : \E n \in 0..depth : chains[k] = Chain(edges, incoming, edges[at[k]], n)
  BY DEF Traced
<1>2. /\ \A k \in 1..Len(t) : perm[k] \in 1..Len(chains)
      /\ \A k, l \in 1..Len(t) : perm[k] = perm[l] => k = l
      /\ \A i \in 1..Len(chains) : \E k \in 1..Len(t) : perm[k] = i
      /\ \A k \in 1..Len(t) : t[k] = chains[perm[k]]
  BY DEF Rearranged
<1> HIDE DEF to
<1>3. b \in [1..Len(t) -> to] /\ \A k \in 1..Len(t) : b[k] = at[perm[k]]
  BY <1>1, <1>2
<1> HIDE DEF b
<1>4. \A k, l \in 1..Len(t) : b[k] = b[l] => k = l
  BY <1>1, <1>2, <1>3
<1>5. \A j \in to : \E k \in 1..Len(t) : b[k] = j
  BY <1>1, <1>2, <1>3
<1>6. \A k \in 1..Len(t) : \E n \in 0..depth : t[k] = Chain(edges, incoming, edges[b[k]], n)
  <2> SUFFICES ASSUME NEW k \in 1..Len(t)
               PROVE  \E n \in 0..depth : t[k] = Chain(edges, incoming, edges[b[k]], n)
    OBVIOUS
  <2>1. perm[k] \in 1..Len(chains) /\ t[k] = chains[perm[k]] /\ b[k] = at[perm[k]]
    BY <1>2, <1>3
  <2>2. PICK n \in 0..depth : chains[perm[k]] = Chain(edges, incoming, edges[at[perm[k]]], n)
    BY <1>1, <2>1
  <2>3. t[k] = Chain(edges, incoming, edges[b[k]], n)
    BY <2>1, <2>2
  <2>4. QED
    BY <2>3
<1>7. \A j \in DOMAIN edges : edges[j].of \in S => \E k \in 1..Len(t) : b[k] = j
  BY <1>5 DEF to
<1>8. b \in [1..Len(t) -> {j \in DOMAIN edges : edges[j].of \in S}]
  BY <1>3 DEF to
<1>9. Traced(edges, incoming, depth, t, S, b)
  BY <1>4, <1>6, <1>7, <1>8 DEF Traced
<1>10. QED
  BY <1>9

\* The calls of a file give edges.
LEMMA CalleesOfType ==
  ASSUME NEW p \in Seq(ParsedFile), NEW f \in ParsedFile
  PROVE  CalleesOf(p, f) \in Seq(EdgeRec)
<1>2. /\ Len(f.calls) \in Nat /\ DOMAIN f.calls = 1..Len(f.calls) /\ f.path \in STRING
      /\ \A j \in DOMAIN f.calls :
           f.calls[j].caller \in STRING /\ f.calls[j].callee \in STRING /\ f.calls[j].line \in Nat
  <2>1. f.calls \in Seq([caller : STRING, callee : STRING, line : Nat]) /\ f.path \in STRING
    BY DEF ParsedFile
  <2>2. Len(f.calls) \in Nat /\ DOMAIN f.calls = 1..Len(f.calls)
    BY <2>1
  <2>3. \A j \in DOMAIN f.calls : f.calls[j] \in [caller : STRING, callee : STRING, line : Nat]
    BY <2>1, <2>2, ElementOfSeq, Zenon
  <2>4. QED
    BY <2>1, <2>2, <2>3
<1>3. \A callee \in STRING : ResolveCallee(p, callee) \in STRING
  BY DefinedNames DEF ResolveCallee
<1>4. CalleesOf(p, f) \in [1..Len(f.calls) -> EdgeRec]
  BY <1>2, <1>3 DEF CalleesOf, Edge, EdgeRec
<1>5. QED
  BY <1>2, <1>4, SeqFromFunction

\* No callee comes from an impl block.
LEMMA CalleesPlain ==
  ASSUME NEW p \in Seq(ParsedFile)
  PROVE  \A e \in ToSet(CallGraph(p).callees) : ~ e.impl
<1> DEFINE ss == [i \in DOMAIN p |-> CalleesOf(p, p[i])]
<1>1. \A i \in DOMAIN p : CalleesOf(p, p[i]) \in Seq(EdgeRec)
  <2>1. \A i \in DOMAIN p : p[i] \in ParsedFile
    BY ElementOfSeq, LenProperties, Zenon
  <2>2. QED
    BY <2>1, CalleesOfType
<1>2. ss \in Seq(Seq(EdgeRec))
  <2>1. DOMAIN ss = DOMAIN p /\ ss = [i \in DOMAIN p |-> ss[i]] /\ \A i \in DOMAIN p : ss[i] \in Seq(EdgeRec)
    BY <1>1
  <2> HIDE DEF ss
  <2>2. QED
    BY <2>1, MappedType
<1>3. CallGraph(p).callees = FlattenSeq(ss)
  BY DEF CallGraph
<1>4. ASSUME NEW i \in DOMAIN ss, NEW e \in ToSet(ss[i]) PROVE ~ e.impl
  <2>1. ss[i] = CalleesOf(p, p[i])
    OBVIOUS
  <2>2. PICK j \in DOMAIN CalleesOf(p, p[i]) : e = CalleesOf(p, p[i])[j]
    BY <2>1 DEF ToSet
  <2>3. QED
    BY <2>2 DEF CalleesOf, Edge
<1> HIDE DEF ss
<1>5. \A e \in ToSet(FlattenSeq(ss)) : \E i \in DOMAIN ss : e \in ToSet(ss[i])
  BY <1>2, FlattenedSet
<1>6. QED
  BY <1>3, <1>4, <1>5

LEMMA SearchShows ==
  ASSUME NEW edges \in Seq(EdgeRec), NEW incoming \in BOOLEAN, NEW symbol, NEW depth \in Nat
  PROVE  LET chains == Chains(edges, incoming, symbol, depth)
             S == Within(Linked(edges), {symbol}, depth)[depth]
         IN  /\ ChainsShow(edges, incoming, depth, chains, S)
             /\ \A P : ChainsShow(edges, incoming, depth, Picked(chains, DOMAIN chains \ P) \o Picked(chains, P), S)
<1> DEFINE chains == Chains(edges, incoming, symbol, depth)
           S == Within(Linked(edges), {symbol}, depth)[depth]
           C == AllChains(edges, incoming, depth)
<1>1. chains \in Seq(C)
  BY ChainsType
<1>2. \E at : Traced(edges, incoming, depth, chains, S, at)
  BY SearchTraces
<1> HIDE DEF chains, S, C
<1>3. PICK at : Traced(edges, incoming, depth, chains, S, at)
  BY <1>2
<1>4. Len(chains) \in Nat /\ DOMAIN chains = 1..Len(chains)
  BY <1>1, LenProperties
<1>5. ChainsShow(edges, incoming, depth, chains, S)
  BY <1>3, <1>4, TracedShows
<1>6. ASSUME NEW P
      PROVE  ChainsShow(edges, incoming, depth, Picked(chains, DOMAIN chains \ P) \o Picked(chains, P), S)
  <2> DEFINE t == Picked(chains, DOMAIN chains \ P) \o Picked(chains, P)
  <2>1. \E perm : Rearranged(chains, t, perm)
    BY <1>1, PartsRearranged
  <2>2. t \in Seq(C)
    <3>1. Picked(chains, DOMAIN chains \ P) \in Seq(C) /\ Picked(chains, P) \in Seq(C)
      BY <1>1, PickedSpots
    <3>2. QED
      BY <3>1, ConcatProperties
  <2> HIDE DEF t
  <2>3. PICK perm : Rearranged(chains, t, perm)
    BY <2>1
  <2>4. PICK b : Traced(edges, incoming, depth, t, S, b)
    BY <1>3, <2>3, TracedRearranged
  <2>5. Len(t) \in Nat /\ DOMAIN t = 1..Len(t)
    BY <2>2, LenProperties
  <2>6. ChainsShow(edges, incoming, depth, t, S)
    BY <2>4, <2>5, TracedShows
  <2>7. QED
    BY <2>6 DEF t
<1>7. QED
  BY <1>5, <1>6 DEF chains, S

LEMMA ChainsIn ==
  ASSUME GraphInv
  PROVE  ChainsExact
<1> SUFFICES ASSUME SymbolWalk, walk.answer.known PROVE ChainsExact
  BY DEF ChainsExact
<1> DEFINE r == walk.request
           answer == walk.answer
           depth == r.depth
           symbol == answer.symbol
           out == Graph.callees
           in == Followed(Graph, TRUE, r.implOnly)
           near(edges) == Within(Linked(edges), {symbol}, depth)[depth]
           callees == answer.callees
           callers == answer.callers \o answer.tests
<1>1. SymbolReads(walk) /\ Answered(walk)
  BY DEF GraphInv, WalkIs, Idle, Refused, GraphReads, Reading, SymbolWalk
<1>2. r \in SymbolRequests /\ depth \in Nat
  <2>1. r \in SymbolRequests
    BY <1>1 DEF SymbolReads, SymbolShape
  <2>2. QED
    BY <2>1, GraphAssumption
<1>3. program \in Seq(ParsedFile)
  BY ProgramType DEF GraphInv
<1>4. answer = Found(r)
  BY <1>1 DEF Answered, OnlySites
<1>5. PICK s : answer = AnswerFrom(r, s, Around(r, s, r.depth), Near(r, s))
  BY <1>4 DEF Found
<1>6. /\ symbol = s /\ answer.callers = Around(r, s, depth).callers
      /\ answer.tests = Around(r, s, depth).tests /\ callees = Around(r, s, depth).callees
  BY <1>5 DEF AnswerFrom
<1>7. out \in Seq(EdgeRec) /\ in \in Seq(EdgeRec) /\ \A e \in ToSet(out) : ~ e.impl
  BY <1>3, CalleesType, CalleesPlain, FollowedType DEF Graph
<1>8. /\ callees = Chains(out, FALSE, symbol, depth)
      /\ \E P : callers = Picked(Chains(in, TRUE, symbol, depth), DOMAIN Chains(in, TRUE, symbol, depth) \ P)
                          \o Picked(Chains(in, TRUE, symbol, depth), P)
  <2> DEFINE incoming == Chains(in, TRUE, s, depth)
             P == {i \in DOMAIN incoming : FromTest(incoming[i])}
  <2>1. Around(r, s, depth) = [callers |-> Picked(incoming, DOMAIN incoming \ P),
                               tests |-> Picked(incoming, P),
                               callees |-> Chains(out, FALSE, s, depth)]
    BY DEF Around
  <2> HIDE DEF P, incoming
  <2>2. callees = Chains(out, FALSE, s, depth)
    BY <1>6, <2>1
  <2>3. callers = Picked(incoming, DOMAIN incoming \ P) \o Picked(incoming, P)
    BY <1>6, <2>1
  <2>4. QED
    BY <1>6, <2>2, <2>3 DEF incoming
<1> HIDE DEF r, answer, depth, symbol, out, in, callees, callers
<1>9. ChainsShow(out, FALSE, depth, callees, near(out))
  BY <1>2, <1>7, <1>8, SearchShows
<1>10. ChainsShow(in, TRUE, depth, callers, near(in))
  BY <1>2, <1>7, <1>8, SearchShows
<1> HIDE DEF near
<1> DEFINE count(edges, e) == Cardinality({i \in DOMAIN edges : edges[i] = e})
           ends(c) == <<c[1], c[Len(c)]>>
<1>11. /\ \A e \in ToSet(out) :
             Cardinality({i \in DOMAIN callees : ends(callees[i]) = <<Place(e.of, e), Place(e.neighbor, e)>>})
             = IF e.of \in near(out) THEN count(out, e) ELSE 0
       /\ Len(callees) = Cardinality({i \in DOMAIN out : out[i].of \in near(out)})
       /\ \A c \in ToSet(callees) : Len(c) <= depth + 2
  BY <1>7, <1>9 DEF ChainsShow
<1>12. /\ \A e \in ToSet(in) :
             Cardinality({i \in DOMAIN callers : ends(callers[i]) = <<Place(e.neighbor, e), Place(e.of, e)>>})
             >= IF e.of \in near(in) THEN count(in, e) ELSE 0
       /\ Len(callers) = Cardinality({i \in DOMAIN in : in[i].of \in near(in)})
       /\ \A c \in ToSet(callers) : Len(c) <= depth + 2
  BY <1>10 DEF ChainsShow
<1>13. \A c \in ToSet(callees) \cup ToSet(callers) : Len(c) <= depth + 2
  BY <1>11, <1>12
<1>14. QED
  BY <1>11, <1>12, <1>13 DEF ChainsExact, near, Linked, r, answer, depth, symbol, out, in, callees, callers

\* The chains of an answer of analyze_symbol are those of the calls that
\* leave the names within the depth, one for each, and are no longer than
\* find_chains_bfs asserts (find_chains_bfs, compute_chains).
THEOREM SymbolChainsExact == Spec => []ChainsExact
<1>1. GraphInv => ChainsExact
  BY ChainsIn
<1>2. QED
  BY <1>1, GraphInvariant, PTL
=============================================================================
