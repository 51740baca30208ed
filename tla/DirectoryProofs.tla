---------------------------- MODULE DirectoryProofs ----------------------------
(***************************************************************************)
(* What DirectoryAnalysis guarantees for any directories, requests and     *)
(* changes, and any length of a second.                                    *)
(***************************************************************************)
EXTENDS DirectoryAnalysis, TLAPS

SeenIn(seen) == Existing(seen) \cap FileNodes

(* A file's version is the time it was written at.                          *)
Stamp(k) == [version |-> k, mtime |-> k]

TreeOK(t, now) ==
  /\ now \in Nat /\ DOMAIN t = Roots
  /\ \A r \in Roots : \A n \in FileNodes :
       t[r][n] # Missing => t[r][n].version \in 0..now /\ t[r][n] = Stamp(t[r][n].version)

NoOlder(t, r, n, k) == t[r][n] # Missing => t[r][n].version >= k

(* What a walk saw was there then, so that the file is no older now.        *)
SeenOK(seen, r, t, now) ==
  /\ DOMAIN seen \subseteq Node
  /\ \A n \in SeenIn(seen) :
       /\ seen[n].version \in 0..now /\ seen[n] = Stamp(seen[n].version)
       /\ NoOlder(t, r, n, seen[n].version)

Record == [root : Roots, node : FileNodes, version : Nat]

(* An output, for a walk of directory r.                                    *)
OutputOK(o, seen, r, t) ==
  /\ o.files \in Seq(Record)
  /\ \A i \in 1..Len(o.files) :
       /\ o.files[i].node \in SeenIn(seen)
       /\ Second(o.files[i].version) >= Second(seen[o.files[i].node].version)
       /\ o.entries # {} => /\ o.files[i].root = r
                            /\ o.files[i].version >= seen[o.files[i].node].version
  /\ o.entries # {} => \A n \in SeenIn(seen) : \/ \E i \in 1..Len(o.files) : o.files[i].node = n
                                               \/ t[r][n] # seen[n]

(* The same, for every walk that has the key the output is kept under.      *)
KeyOK(K, now) ==
  \A x \in K.files : x[1] \in Roots /\ x[2] \in FileNodes /\ x[3] \in 0..now

MemoryFresh(K, o, t) ==
  /\ o.files \in Seq(Record)
  /\ \A i \in 1..Len(o.files) : \E x \in K.files :
       /\ x[2] = o.files[i].node /\ Second(o.files[i].version) >= Second(x[3])
       /\ o.entries # {} => x[1] = o.files[i].root /\ o.files[i].version >= x[3]
  /\ o.entries # {} => \A x \in K.files : \/ \E i \in 1..Len(o.files) : o.files[i].node = x[2]
                                          \/ t[x[1]][x[2]] # Stamp(x[3])

DiskFresh(K, o) ==
  /\ o.files \in Seq(Record) /\ o.entries = {}
  /\ \A i \in 1..Len(o.files) : \E x \in K.files :
       x[1] = o.files[i].node /\ Second(o.files[i].version) >= x[2]

Shape(s) ==
  /\ s = [at |-> s.at, seen |-> s.seen, todo |-> s.todo, files |-> s.files, tier |-> s.tier,
          output |-> s.output, unsaved |-> s.unsaved, answer |-> s.answer]
  /\ s.todo \in Seq(Node) /\ s.files \in Seq(Record)

(* Every file the walk saw is still to be analysed, has been, or changed.   *)
Analysing(s, r, t) ==
  /\ \A i \in 1..Len(s.todo) : s.todo[i] \in SeenIn(s.seen)
  /\ \A i \in 1..Len(s.files) :
       /\ s.files[i].root = r /\ s.files[i].node \in SeenIn(s.seen)
       /\ s.files[i].version >= s.seen[s.files[i].node].version
  /\ \A n \in SeenIn(s.seen) : \/ \E i \in 1..Len(s.todo) : s.todo[i] = n
                               \/ \E i \in 1..Len(s.files) : s.files[i].node = n
                               \/ t[r][n] # s.seen[n]

CallOK(s, r, t, now) ==
  /\ SeenOK(s.seen, r, t, now)
  /\ s.at \in {"asked", "walking", "keyed", "missed"} => s.files = <<>>
  /\ s.at = "analysing" => Analysing(s, r, t)
  /\ s.at = "got" \/ (s.at = "answered" /\ s.answer.kind \in {"summary", "page", "text"})
       => OutputOK(s.output, s.seen, r, t)
  /\ s.unsaved # Unsaved => DiskFresh(s.unsaved.key[1], s.unsaved.value)

StepsOK ==
  /\ visits \in Visits /\ steps = [v \in DOMAIN visits |-> steps[v]]
  /\ \A v \in DOMAIN visits : /\ visits[v].root \in Roots
                              /\ Shape(steps[v]) /\ CallOK(steps[v], visits[v].root, tree, clock)

IInv ==
  /\ TreeOK(tree, clock)
  /\ StepsOK
  /\ \A K \in DOMAIN directoryCache : KeyOK(K, clock) /\ MemoryFresh(K, directoryCache[K], tree)
  /\ \A K \in DOMAIN diskListings : DiskFresh(K, diskListings[K])

-----------------------------------------------------------------------------
(* Times and keys.                                                         *)

LEMMA SecondMonotone ==
  ASSUME NEW a \in Nat, NEW b \in Nat, a >= b
  PROVE  Second(a) \in Nat /\ Second(b) \in Nat /\ Second(a) >= Second(b)
<1>1. PerSecond \in Nat \ {0}
  BY DirectoryAssumption
<1>2. QED
  BY <1>1 DEF Second

LEMMA NodeSet == Node = {"root", "file", "sub", "deep"} /\ FileNodes \subseteq Node
BY DEF Node, ToSet, WalkOrder, FileNodes

LEMMA KeyTimes ==
  ASSUME NEW visit, NEW seen, NEW t, NEW now, visit.root \in Roots, SeenOK(seen, visit.root, t, now)
  PROVE  KeyOK(KeyOf(visit, seen), now)
<1>1. ASSUME NEW x \in KeyOf(visit, seen).files
      PROVE  x[1] \in Roots /\ x[2] \in FileNodes /\ x[3] \in 0..now
  <2>1. PICK n \in SeenIn(seen) : x = <<visit.root, n, seen[n].mtime>>
    BY DEF KeyOf, SeenIn
  <2>2. seen[n].version \in 0..now /\ seen[n].mtime = seen[n].version
    <3>1. seen[n].version \in 0..now /\ seen[n] = Stamp(seen[n].version)
      BY DEF SeenOK
    <3>2. QED
      BY <3>1 DEF Stamp
  <2>3. QED
    BY <2>1, <2>2 DEF SeenIn
<1>2. QED
  BY <1>1 DEF KeyOK

(* What the memory has under a call's key is fit for the call.              *)
LEMMA MemoryHit ==
  ASSUME NEW visit, NEW seen, NEW t, NEW now, NEW o, SeenOK(seen, visit.root, t, now),
         MemoryFresh(KeyOf(visit, seen), o, t)
  PROVE  OutputOK(o, seen, visit.root, t)
<1> DEFINE K == KeyOf(visit, seen)
<1>1. ASSUME NEW x \in K.files
      PROVE  /\ x[1] = visit.root /\ x[2] \in SeenIn(seen)
             /\ x[3] = seen[x[2]].version /\ seen[x[2]] = Stamp(x[3])
  <2>1. PICK n \in SeenIn(seen) : x = <<visit.root, n, seen[n].mtime>>
    BY DEF KeyOf, SeenIn
  <2>2. seen[n] = Stamp(seen[n].version) /\ seen[n].mtime = seen[n].version
    BY DEF SeenOK, Stamp
  <2>3. QED
    BY <2>1, <2>2
<1>2. ASSUME NEW n \in SeenIn(seen) PROVE \E x \in K.files : x[1] = visit.root /\ x[2] = n
  <2>1. <<visit.root, n, seen[n].mtime>> \in K.files
    BY DEF KeyOf, SeenIn
  <2>2. QED
    BY <2>1
<1> HIDE DEF K
<1>3. MemoryFresh(K, o, t)
  BY DEF K
<1>4. ASSUME NEW i \in 1..Len(o.files)
      PROVE  /\ o.files[i].node \in SeenIn(seen)
             /\ Second(o.files[i].version) >= Second(seen[o.files[i].node].version)
             /\ o.entries # {} => /\ o.files[i].root = visit.root
                                  /\ o.files[i].version >= seen[o.files[i].node].version
  BY <1>1, <1>3 DEF MemoryFresh
<1>5. ASSUME o.entries # {}, NEW n \in SeenIn(seen)
      PROVE  (\E i \in 1..Len(o.files) : o.files[i].node = n) \/ t[visit.root][n] # seen[n]
  BY <1>1, <1>2, <1>3, <1>5 DEF MemoryFresh
<1>6. QED
  BY <1>3, <1>4, <1>5 DEF OutputOK, MemoryFresh

(* What the disk has under it is fit to the second.                         *)
LEMMA DiskHit ==
  ASSUME NEW visit, NEW seen, NEW t, NEW now, NEW o, SeenOK(seen, visit.root, t, now),
         DiskFresh(DiskKey(visit, seen), o)
  PROVE  MemoryFresh(KeyOf(visit, seen), o, t)
<1>1. ASSUME NEW i \in 1..Len(o.files)
      PROVE  \E x \in KeyOf(visit, seen).files :
               x[2] = o.files[i].node /\ Second(o.files[i].version) >= Second(x[3])
  <2>1. PICK y \in DiskKey(visit, seen).files :
          y[1] = o.files[i].node /\ Second(o.files[i].version) >= y[2]
    BY DEF DiskFresh
  <2>2. PICK n \in Existing(seen) : y = <<n, Second(seen[n].mtime)>>
    BY <2>1 DEF DiskKey
  <2>3. o.files[i].node \in FileNodes
    <3>1. o.files \in Seq(Record)
      BY DEF DiskFresh
    <3>2. o.files[i] \in Record
      BY <3>1
    <3>3. QED
      BY <3>2 DEF Record
  <2>4. <<visit.root, n, seen[n].mtime>> \in KeyOf(visit, seen).files
    BY <2>1, <2>2, <2>3 DEF KeyOf
  <2>5. QED
    BY <2>1, <2>2, <2>4
<1>2. QED
  BY <1>1 DEF MemoryFresh, DiskFresh

(* A listing just made is fit for every call that has its keys.             *)
LEMMA ListingMade ==
  ASSUME NEW visit, NEW s, NEW t, NEW now, NEW o, NEW d, now \in Nat, SeenOK(s.seen, visit.root, t, now),
         s.files \in Seq(Record), s.todo = <<>>, Analysing(s, visit.root, t),
         o.files = s.files, d.files = s.files, d.entries = {}
  PROVE  /\ MemoryFresh(KeyOf(visit, s.seen), o, t)
         /\ OutputOK(o, s.seen, visit.root, t)
         /\ DiskFresh(DiskKey(visit, s.seen), d)
<1> DEFINE r == visit.root
           seen == s.seen
<1>1. ASSUME NEW n \in SeenIn(seen)
      PROVE  /\ seen[n].version \in Nat /\ seen[n].mtime = seen[n].version
             /\ seen[n] = Stamp(seen[n].version)
  <2>1. seen[n].version \in 0..now /\ seen[n] = Stamp(seen[n].version)
    BY DEF SeenOK
  <2>2. seen[n].mtime = seen[n].version
    BY <2>1 DEF Stamp
  <2>3. QED
    BY <2>1, <2>2
<1>2. ASSUME NEW i \in 1..Len(s.files)
      PROVE  /\ s.files[i].root = r /\ s.files[i].node \in SeenIn(seen) /\ s.files[i].version \in Nat
             /\ s.files[i].version >= seen[s.files[i].node].version
             /\ Second(s.files[i].version) >= Second(seen[s.files[i].node].version)
  <2>1. /\ s.files[i].root = r /\ s.files[i].node \in SeenIn(seen) /\ s.files[i].version \in Nat
        /\ s.files[i].version >= seen[s.files[i].node].version
    <3>1. s.files[i] \in Record
      OBVIOUS
    <3>2. QED
      BY <3>1 DEF Analysing, Record
  <2>2. QED
    BY <1>1, <2>1, SecondMonotone
<1>3. ASSUME NEW n \in SeenIn(seen)
      PROVE  (\E i \in 1..Len(s.files) : s.files[i].node = n) \/ t[r][n] # seen[n]
  BY DEF Analysing
<1>4. OutputOK(o, seen, r, t)
  BY <1>2, <1>3 DEF OutputOK
<1>5. ASSUME NEW i \in 1..Len(s.files)
      PROVE  /\ <<r, s.files[i].node, seen[s.files[i].node].version>> \in KeyOf(visit, seen).files
             /\ <<s.files[i].node, Second(seen[s.files[i].node].version)>> \in DiskKey(visit, seen).files
  BY <1>1, <1>2 DEF KeyOf, DiskKey, SeenIn
<1>6. DiskFresh(DiskKey(visit, seen), d)
  <2>1. ASSUME NEW i \in 1..Len(s.files)
        PROVE  \E x \in DiskKey(visit, seen).files :
                 x[1] = s.files[i].node /\ Second(s.files[i].version) >= x[2]
    <3> DEFINE x == <<s.files[i].node, Second(seen[s.files[i].node].version)>>
    <3>1. x[1] = s.files[i].node /\ Second(s.files[i].version) >= x[2]
      BY <1>2
    <3>2. QED
      BY <1>5, <3>1
  <2>2. QED
    BY <2>1 DEF DiskFresh
<1>7. MemoryFresh(KeyOf(visit, seen), o, t)
  <2>1. ASSUME NEW i \in 1..Len(s.files)
        PROVE  \E x \in KeyOf(visit, seen).files :
                 /\ x[2] = s.files[i].node /\ Second(s.files[i].version) >= Second(x[3])
                 /\ x[1] = s.files[i].root /\ s.files[i].version >= x[3]
    <3> DEFINE x == <<r, s.files[i].node, seen[s.files[i].node].version>>
    <3>1. /\ x[2] = s.files[i].node /\ Second(s.files[i].version) >= Second(x[3])
          /\ x[1] = s.files[i].root /\ s.files[i].version >= x[3]
      BY <1>2
    <3>2. QED
      BY <1>5, <3>1
  <2>2. ASSUME NEW x \in KeyOf(visit, seen).files
        PROVE  (\E i \in 1..Len(s.files) : s.files[i].node = x[2]) \/ t[x[1]][x[2]] # Stamp(x[3])
    <3>1. PICK n \in SeenIn(seen) : x = <<r, n, seen[n].mtime>>
      BY DEF KeyOf, SeenIn
    <3>2. QED
      BY <1>1, <1>3, <3>1
  <2>3. QED
    BY <2>1, <2>2 DEF MemoryFresh
<1>8. QED
  BY <1>4, <1>6, <1>7

-----------------------------------------------------------------------------
(* Changes of files.                                                       *)

(* Nothing that is known of the files is lost by a change: it is newer.     *)
LEMMA ChangeKept ==
  ASSUME IInv, NEW r \in Roots, NEW n \in FileNodes, NEW new,
         new = Missing \/ new = Stamp(clock + 1), Changes(r, n, new)
  PROVE  /\ TreeOK(tree', clock')
         /\ clock \in Nat /\ clock' = clock + 1
         /\ \A q \in Roots : \A m \in FileNodes :
              \/ tree'[q][m] = tree[q][m]
              \/ tree'[q][m] = Missing
              \/ tree'[q][m] = Stamp(clock + 1)
<1>1. /\ clock \in Nat /\ DOMAIN tree = Roots
      /\ \A q \in Roots : \A m \in FileNodes :
           tree[q][m] # Missing => tree[q][m].version \in 0..clock /\ tree[q][m] = Stamp(tree[q][m].version)
  BY DEF IInv, TreeOK
<1>2. clock' = clock + 1 /\ DOMAIN tree' = Roots
  BY <1>1 DEF Changes
<1>3. \A q \in Roots : q # r => tree'[q] = tree[q]
  BY <1>1 DEF Changes
<1>4. \A m \in FileNodes : tree'[r][m] = IF m = n THEN new ELSE tree[r][m]
  <2>1. \A m \in FileNodes : m \in Node /\ m # Up(n)
    BY NodeSet DEF FileNodes, Up
  <2>2. QED
    BY <1>1, <2>1 DEF Changes
<1>5. \A q \in Roots : \A m \in FileNodes :
        \/ tree'[q][m] = tree[q][m]
        \/ tree'[q][m] = Missing
        \/ tree'[q][m] = Stamp(clock + 1)
  BY <1>3, <1>4
<1>6. ASSUME NEW q \in Roots, NEW m \in FileNodes, tree'[q][m] # Missing
      PROVE  tree'[q][m].version \in 0..clock' /\ tree'[q][m] = Stamp(tree'[q][m].version)
  <2>1. CASE tree'[q][m] = tree[q][m]
    BY <1>1, <1>2, <1>6, <2>1
  <2>2. CASE tree'[q][m] = Stamp(clock + 1)
    BY <1>1, <1>2, <2>2 DEF Stamp
  <2>3. QED
    BY <1>5, <1>6, <2>1, <2>2
<1>7. QED
  BY <1>1, <1>2, <1>5, <1>6 DEF TreeOK

(* A file that is not as it was at k stays so, and never gets older.        *)
LEMMA FileKept ==
  ASSUME NEW t, NEW u, NEW now \in Nat, NEW r, NEW n, NEW k \in 0..now,
         \/ u[r][n] = t[r][n]
         \/ u[r][n] = Missing
         \/ u[r][n] = Stamp(now + 1)
  PROVE  /\ t[r][n] # Stamp(k) => u[r][n] # Stamp(k)
         /\ NoOlder(t, r, n, k) => NoOlder(u, r, n, k)
<1>1. Stamp(k).version = k /\ Stamp(now + 1).version = now + 1 /\ Stamp(k) # Missing
  BY DEF Stamp, Missing
<1>2. Stamp(now + 1) # Stamp(k)
  BY <1>1
<1>3. QED
  BY <1>1, <1>2 DEF NoOlder

LEMMA ChangeStep ==
  ASSUME IInv, NEW r \in Roots, NEW n \in FileNodes, NEW new,
         new = Missing \/ new = Stamp(clock + 1), Changes(r, n, new)
  PROVE  IInv'
<1> DEFINE u == tree'
           now == clock + 1
<1>1. /\ TreeOK(u, now) /\ clock \in Nat /\ clock' = now
      /\ \A q \in Roots : \A m \in FileNodes :
           \/ u[q][m] = tree[q][m]
           \/ u[q][m] = Missing
           \/ u[q][m] = Stamp(clock + 1)
  BY ChangeKept
<1>2. /\ visits' = visits /\ steps' = steps /\ directoryCache' = directoryCache
      /\ diskListings' = diskListings
  BY DEF Changes
<1> HIDE DEF u, now
<1>3. ASSUME NEW q \in Roots, NEW m \in FileNodes, NEW k \in 0..clock
      PROVE  /\ tree[q][m] # Stamp(k) => u[q][m] # Stamp(k)
             /\ NoOlder(tree, q, m, k) => NoOlder(u, q, m, k)
  BY <1>1, FileKept
<1>4. 0..clock \subseteq 0..now
  BY <1>1 DEF now
<1>5. ASSUME NEW v \in DOMAIN visits PROVE CallOK(steps[v], visits[v].root, u, now)
  <2> DEFINE s == steps[v]
             q == visits[v].root
  <2>1. q \in Roots /\ CallOK(s, q, tree, clock)
    BY DEF IInv, StepsOK
  <2> HIDE DEF s, q
  <2>2. \A m \in SeenIn(s.seen) : /\ m \in FileNodes
                                  /\ s.seen[m].version \in 0..clock /\ s.seen[m] = Stamp(s.seen[m].version)
    BY <2>1 DEF CallOK, SeenOK, SeenIn
  <2>3. \A m \in SeenIn(s.seen) : /\ tree[q][m] # s.seen[m] => u[q][m] # s.seen[m]
                                  /\ NoOlder(u, q, m, s.seen[m].version)
    BY <1>3, <2>1, <2>2 DEF CallOK, SeenOK
  <2>4. SeenOK(s.seen, q, u, now)
    BY <1>4, <2>1, <2>2, <2>3 DEF CallOK, SeenOK
  <2>5. s.at = "analysing" => Analysing(s, q, u)
    BY <2>1, <2>3 DEF CallOK, Analysing
  <2>6. OutputOK(s.output, s.seen, q, tree) => OutputOK(s.output, s.seen, q, u)
    BY <2>3 DEF OutputOK
  <2>7. QED
    BY <2>1, <2>4, <2>5, <2>6 DEF CallOK, s, q
<1>6. ASSUME NEW K \in DOMAIN directoryCache
      PROVE  KeyOK(K, now) /\ MemoryFresh(K, directoryCache[K], u)
  <2>1. KeyOK(K, clock) /\ MemoryFresh(K, directoryCache[K], tree)
    BY DEF IInv
  <2>2. \A x \in K.files : tree[x[1]][x[2]] # Stamp(x[3]) => u[x[1]][x[2]] # Stamp(x[3])
    BY <1>3, <2>1 DEF KeyOK
  <2>3. KeyOK(K, now)
    BY <1>4, <2>1 DEF KeyOK
  <2>4. MemoryFresh(K, directoryCache[K], u)
    BY <2>1, <2>2 DEF MemoryFresh
  <2>5. QED
    BY <2>3, <2>4
<1>7. StepsOK'
  BY <1>1, <1>2, <1>5 DEF IInv, StepsOK, u
<1>8. QED
  BY <1>1, <1>2, <1>6, <1>7 DEF IInv, u

-----------------------------------------------------------------------------
(* A step of a call.                                                       *)

LEMMA OwnStep ==
  ASSUME IInv, NEW v \in DOMAIN visits, NEW s, steps' = [steps EXCEPT ![v] = s],
         Shape(s), CallOK(s, visits[v].root, tree, clock),
         UNCHANGED <<tree, clock, visits>>,
         \A K \in DOMAIN directoryCache' : KeyOK(K, clock) /\ MemoryFresh(K, directoryCache'[K], tree),
         \A K \in DOMAIN diskListings' : DiskFresh(K, diskListings'[K])
  PROVE  IInv'
<1>1. /\ steps' = [w \in DOMAIN visits |-> steps'[w]] /\ steps'[v] = s
      /\ \A w \in DOMAIN visits : w # v => steps'[w] = steps[w]
  BY DEF IInv, StepsOK
<1>2. StepsOK'
  BY <1>1 DEF IInv, StepsOK
<1>3. QED
  BY <1>2 DEF IInv

(* A call as it is, and the caches it leaves alone.                         *)
LEMMA ThisCall ==
  ASSUME IInv, NEW v \in DOMAIN visits
  PROVE  /\ visits[v].root \in Roots /\ clock \in Nat
         /\ Shape(steps[v]) /\ CallOK(steps[v], visits[v].root, tree, clock)
         /\ v \in DOMAIN steps
BY DEF IInv, StepsOK, TreeOK

LEMMA PlainStep ==
  ASSUME IInv, NEW v \in DOMAIN visits, NEW s, steps' = [steps EXCEPT ![v] = s],
         Shape(s), CallOK(s, visits[v].root, tree, clock),
         UNCHANGED <<tree, clock, visits, directoryCache, diskListings>>
  PROVE  IInv'
<1>1. \A K \in DOMAIN directoryCache' : KeyOK(K, clock) /\ MemoryFresh(K, directoryCache'[K], tree)
  BY DEF IInv
<1>2. \A K \in DOMAIN diskListings' : DiskFresh(K, diskListings'[K])
  BY DEF IInv
<1>3. QED
  BY <1>1, <1>2, OwnStep

(* What the walk sees of a file is as it is now.                            *)
LEMMA WalkEntryStep == ASSUME IInv, NEW v \in DOMAIN visits, WalkEntry(v) PROVE IInv'
<1> DEFINE c == steps[v]
           r == visits[v].root
           n == Head(c.todo)
           found == IF n \in InDepth(visits[v]) THEN Added(c.seen, n, tree[r][n]) ELSE c.seen
           rest == Tail(c.todo)
           s == [c EXCEPT !.at = "walking", !.todo = rest, !.seen = found]
<1>1. /\ r \in Roots /\ clock \in Nat /\ Shape(c) /\ CallOK(c, r, tree, clock) /\ v \in DOMAIN steps
  BY ThisCall
<1>2. /\ c.at \in {"asked", "walking"} /\ c.todo # <<>>
      /\ UNCHANGED <<tree, clock, visits, directoryCache, diskListings>>
  BY DEF WalkEntry
<1>3. steps' = [steps EXCEPT ![v] = s]
  BY <1>1, Zenon DEF WalkEntry
<1>4. n \in Node /\ rest \in Seq(Node)
  BY <1>1, <1>2 DEF Shape
<1>5. SeenOK(found, r, tree, clock)
  <2>1. SeenOK(c.seen, r, tree, clock)
    BY <1>1 DEF CallOK
  <2>2. CASE n \in InDepth(visits[v])
    <3>1. found = Added(c.seen, n, tree[r][n])
      BY <2>2
    <3> HIDE DEF found, n
    <3>2. /\ DOMAIN found = DOMAIN c.seen \cup {n} /\ found[n] = tree[r][n]
          /\ \A m \in DOMAIN found : m # n => found[m] = c.seen[m]
      BY <3>1 DEF Added
    <3>3. ASSUME NEW m \in SeenIn(found)
          PROVE  /\ found[m].version \in 0..clock /\ found[m] = Stamp(found[m].version)
                 /\ NoOlder(tree, r, m, found[m].version)
      <4>1. CASE m = n
        <5>1. m \in FileNodes /\ tree[r][m] # Missing
          BY <3>2, <3>3, <4>1 DEF SeenIn, Existing
        <5>2. tree[r][m].version \in 0..clock /\ tree[r][m] = Stamp(tree[r][m].version)
          BY <1>1, <5>1 DEF IInv, TreeOK
        <5>3. tree[r][m].version >= tree[r][m].version
          BY <5>2
        <5>4. QED
          BY <3>2, <4>1, <5>2, <5>3 DEF NoOlder
      <4>2. CASE m # n
        <5>1. m \in SeenIn(c.seen) /\ found[m] = c.seen[m]
          BY <3>2, <3>3, <4>2 DEF SeenIn, Existing
        <5>2. QED
          BY <2>1, <5>1 DEF SeenOK
      <4>3. QED
        BY <4>1, <4>2
    <3>4. DOMAIN found \subseteq Node
      BY <1>4, <2>1, <3>2 DEF SeenOK
    <3>5. QED
      BY <3>3, <3>4 DEF SeenOK
  <2>3. CASE n \notin InDepth(visits[v])
    BY <2>1, <2>3
  <2>4. QED
    BY <2>2, <2>3
<1> HIDE DEF found, rest
<1>record. s = [c EXCEPT !.at = "walking", !.todo = rest, !.seen = found]
  OBVIOUS
<1> HIDE DEF s, c
<1>6. Shape(s) /\ s.at = "walking" /\ s.seen = found /\ s.files = c.files /\ s.unsaved = c.unsaved
  BY <1>1, <1>4, <1>record DEF Shape
<1>7. CallOK(s, r, tree, clock)
  BY <1>1, <1>2, <1>5, <1>6 DEF CallOK
<1>8. QED
  BY <1>2, <1>3, <1>6, <1>7, PlainStep

(* The filter drops entries.                                                *)
LEMMA KeepChangedStep == ASSUME IInv, NEW v \in DOMAIN visits, KeepChanged(v) PROVE IInv'
<1> DEFINE c == steps[v]
           r == visits[v].root
           kept == IF visits[v].git # "none" THEN FilterByGit(c.seen, ChangedFiles(r)) ELSE c.seen
           s == [c EXCEPT !.at = "keyed", !.seen = kept]
<1>1. /\ r \in Roots /\ clock \in Nat /\ Shape(c) /\ CallOK(c, r, tree, clock) /\ v \in DOMAIN steps
  BY ThisCall
<1>2. c.at = "walking" /\ UNCHANGED <<tree, clock, visits, directoryCache, diskListings>>
  BY DEF KeepChanged, WalkEnded
<1>3. steps' = [steps EXCEPT ![v] = s]
  BY <1>1, Zenon DEF KeepChanged
<1>4. DOMAIN kept \subseteq DOMAIN c.seen /\ \A m \in DOMAIN kept : kept[m] = c.seen[m]
  BY DEF FilterByGit, Restrict
<1> HIDE DEF kept
<1>5. SeenIn(kept) \subseteq SeenIn(c.seen) /\ \A m \in SeenIn(kept) : kept[m] = c.seen[m]
  BY <1>4 DEF SeenIn, Existing
<1>6. SeenOK(kept, r, tree, clock)
  BY <1>1, <1>4, <1>5 DEF CallOK, SeenOK
<1>record. s = [c EXCEPT !.at = "keyed", !.seen = kept]
  OBVIOUS
<1> HIDE DEF s, c
<1>7. Shape(s) /\ s.at = "keyed" /\ s.seen = kept /\ s.files = c.files /\ s.unsaved = c.unsaved
  BY <1>1, <1>record DEF Shape
<1>8. CallOK(s, r, tree, clock)
  BY <1>1, <1>2, <1>6, <1>7 DEF CallOK
<1>9. QED
  BY <1>2, <1>3, <1>7, <1>8, PlainStep

(* A call that ends without a listing.                                      *)
LEMMA DeniedStep ==
  ASSUME IInv, NEW v \in DOMAIN visits, GitFails(v) \/ CancelAnalysis(v)
  PROVE  IInv'
<1> DEFINE c == steps[v]
           r == visits[v].root
<1>1. /\ r \in Roots /\ clock \in Nat /\ Shape(c) /\ CallOK(c, r, tree, clock) /\ v \in DOMAIN steps
  BY ThisCall
<1>2. UNCHANGED <<tree, clock, visits, directoryCache, diskListings>>
  BY DEF GitFails, CancelAnalysis
<1>3. PICK why \in {"invalid_params", "cancelled"} :
        steps' = [steps EXCEPT ![v].at = "answered", ![v].answer = Denied(why)]
  BY DEF GitFails, CancelAnalysis
<1> DEFINE no == Denied(why)
           s == [c EXCEPT !.at = "answered", !.answer = no]
<1>4. steps' = [steps EXCEPT ![v] = s]
  BY <1>1, <1>3, Zenon
<1>5. no.kind \notin {"summary", "page", "text"}
  BY DEF Denied, NoListing
<1> HIDE DEF no
<1>record. s = [c EXCEPT !.at = "answered", !.answer = no]
  OBVIOUS
<1> HIDE DEF s, c
<1>6. Shape(s) /\ s.at = "answered" /\ s.seen = c.seen /\ s.answer = no /\ s.unsaved = c.unsaved
  BY <1>1, <1>record DEF Shape
<1>7. CallOK(s, r, tree, clock)
  BY <1>1, <1>5, <1>6 DEF CallOK
<1>8. QED
  BY <1>2, <1>4, <1>6, <1>7, PlainStep

LEMMA LookInMemoryStep == ASSUME IInv, NEW v \in DOMAIN visits, LookInMemory(v) PROVE IInv'
<1> DEFINE c == steps[v]
           r == visits[v].root
           K == KeyOf(visits[v], c.seen)
<1>1. /\ r \in Roots /\ clock \in Nat /\ Shape(c) /\ CallOK(c, r, tree, clock) /\ v \in DOMAIN steps
  BY ThisCall
<1>2. UNCHANGED <<tree, clock, visits, directoryCache, diskListings>> /\ c.at = "keyed"
  BY DEF LookInMemory
<1>3. CASE K \in DOMAIN directoryCache
  <2> DEFINE o == directoryCache[K]
             s == [c EXCEPT !.at = "got", !.tier = "l1_memory", !.output = o]
  <2>1. steps' = [steps EXCEPT ![v].at = "got", ![v].tier = "l1_memory", ![v].output = o]
    BY <1>3 DEF LookInMemory, MemoryKey
  <2>2. steps' = [steps EXCEPT ![v] = s]
    BY <1>1, <2>1, Zenon
  <2>3. MemoryFresh(K, o, tree)
    BY <1>3 DEF IInv
  <2>4. SeenOK(c.seen, r, tree, clock)
    BY <1>1 DEF CallOK
  <2>5. OutputOK(o, c.seen, r, tree)
    BY <2>3, <2>4, MemoryHit
  <2>6. s = [c EXCEPT !.at = "got", !.tier = "l1_memory", !.output = o]
    OBVIOUS
  <2> HIDE DEF s, c, o
  <2>7. Shape(s) /\ s.at = "got" /\ s.seen = c.seen /\ s.output = o /\ s.unsaved = c.unsaved
    BY <1>1, <2>6 DEF Shape
  <2>8. CallOK(s, r, tree, clock)
    BY <1>1, <2>4, <2>5, <2>7 DEF CallOK
  <2>9. QED
    BY <1>2, <2>2, <2>7, <2>8, PlainStep
<1>4. CASE K \notin DOMAIN directoryCache
  <2> DEFINE s == [c EXCEPT !.at = "missed"]
  <2>1. steps' = [steps EXCEPT ![v].at = "missed"]
    BY <1>4 DEF LookInMemory, MemoryKey
  <2>2. steps' = [steps EXCEPT ![v] = s]
    BY <1>1, <2>1, Zenon
  <2>3. s = [c EXCEPT !.at = "missed"]
    OBVIOUS
  <2> HIDE DEF s, c
  <2>4. Shape(s) /\ s.at = "missed" /\ s.seen = c.seen /\ s.files = c.files /\ s.unsaved = c.unsaved
    BY <1>1, <2>3 DEF Shape
  <2>5. CallOK(s, r, tree, clock)
    BY <1>1, <1>2, <2>4 DEF CallOK
  <2>6. QED
    BY <1>2, <2>2, <2>4, <2>5, PlainStep
<1>5. QED
  BY <1>3, <1>4

(* A listing goes into the memory under the call's key.                     *)
LEMMA AddedFresh ==
  ASSUME IInv, NEW v \in DOMAIN visits, NEW o,
         MemoryFresh(KeyOf(visits[v], steps[v].seen), o, tree),
         directoryCache' = Added(directoryCache, KeyOf(visits[v], steps[v].seen), o)
  PROVE  \A K \in DOMAIN directoryCache' : KeyOK(K, clock) /\ MemoryFresh(K, directoryCache'[K], tree)
<1> DEFINE k == KeyOf(visits[v], steps[v].seen)
<1>1. KeyOK(k, clock)
  BY ThisCall, KeyTimes DEF CallOK
<1>2. MemoryFresh(k, o, tree) /\ directoryCache' = Added(directoryCache, k, o)
  OBVIOUS
<1> HIDE DEF k
<1>3. QED
  BY <1>1, <1>2 DEF IInv, Added

(* The files that are left to analyse are those the walk saw.               *)
LEMMA ToAnalyseAll ==
  ASSUME NEW v
  PROVE  LET todo == ToAnalyse(v)
             F == SeenIn(steps[v].seen)
         IN  /\ todo \in Seq(Node)
             /\ \A i \in 1..Len(todo) : todo[i] \in F
             /\ \A n \in F : \E i \in 1..Len(todo) : todo[i] = n
<1> DEFINE E == Existing(steps[v].seen)
           todo == ToAnalyse(v)
<1>1. SeenIn(steps[v].seen) = E \cap {"file", "deep"}
  BY DEF SeenIn, FileNodes
<1>2. "file" \in Node /\ "deep" \in Node
  BY NodeSet
<1>3. todo = (IF "file" \in E THEN <<"file">> ELSE <<>>) \o (IF "deep" \in E THEN <<"deep">> ELSE <<>>)
  BY DEF ToAnalyse
<1> HIDE DEF E, todo
<1>4. CASE "file" \in E /\ "deep" \in E
  <2>1. todo = <<"file">> \o <<"deep">>
    BY <1>3, <1>4
  <2>2. todo \in Seq(Node) /\ Len(todo) = 2 /\ todo[1] = "file" /\ todo[2] = "deep"
    BY <1>2, <2>1
  <2>3. QED
    BY <1>1, <1>4, <2>2 DEF todo
<1>5. CASE "file" \in E /\ "deep" \notin E
  <2>1. todo = <<"file">>
    BY <1>3, <1>5
  <2>2. todo \in Seq(Node) /\ Len(todo) = 1 /\ todo[1] = "file"
    BY <1>2, <2>1
  <2>3. QED
    BY <1>1, <1>5, <2>2 DEF todo
<1>6. CASE "file" \notin E /\ "deep" \in E
  <2>1. todo = <<"deep">>
    BY <1>3, <1>6
  <2>2. todo \in Seq(Node) /\ Len(todo) = 1 /\ todo[1] = "deep"
    BY <1>2, <2>1
  <2>3. QED
    BY <1>1, <1>6, <2>2 DEF todo
<1>7. CASE "file" \notin E /\ "deep" \notin E
  <2>1. todo = <<>>
    BY <1>3, <1>7
  <2>2. todo \in Seq(Node) /\ Len(todo) = 0
    BY <2>1
  <2>3. QED
    BY <1>1, <1>7, <2>2 DEF todo
<1>8. QED
  BY <1>4, <1>5, <1>6, <1>7

LEMMA LookOnDiskStep == ASSUME IInv, NEW v \in DOMAIN visits, LookOnDisk(v) PROVE IInv'
<1> DEFINE c == steps[v]
           r == visits[v].root
           D == DiskKey(visits[v], c.seen)
<1>1. /\ r \in Roots /\ clock \in Nat /\ Shape(c) /\ CallOK(c, r, tree, clock) /\ v \in DOMAIN steps
  BY ThisCall
<1>2. UNCHANGED <<tree, clock, visits, diskListings>> /\ c.at = "missed"
  BY DEF LookOnDisk
<1>3. SeenOK(c.seen, r, tree, clock)
  BY <1>1 DEF CallOK
<1>4. CASE D \in DOMAIN diskListings
  <2> DEFINE o == diskListings[D]
             s == [c EXCEPT !.at = "got", !.tier = "l2_disk", !.output = o]
  <2>1. /\ steps' = [steps EXCEPT ![v].at = "got", ![v].tier = "l2_disk", ![v].output = o]
        /\ directoryCache' = Added(directoryCache, KeyOf(visits[v], steps[v].seen), o)
    BY <1>4 DEF LookOnDisk, MemoryKey
  <2>2. steps' = [steps EXCEPT ![v] = s]
    BY <1>1, <2>1, Zenon
  <2>3. DiskFresh(D, o)
    BY <1>4 DEF IInv
  <2>4. MemoryFresh(KeyOf(visits[v], c.seen), o, tree)
    BY <1>3, <2>3, DiskHit
  <2>5. OutputOK(o, c.seen, r, tree)
    BY <1>3, <2>4, MemoryHit
  <2>6. s = [c EXCEPT !.at = "got", !.tier = "l2_disk", !.output = o]
    OBVIOUS
  <2> HIDE DEF o
  <2>7. \A K \in DOMAIN directoryCache' : KeyOK(K, clock) /\ MemoryFresh(K, directoryCache'[K], tree)
    BY <2>1, <2>4, AddedFresh
  <2> HIDE DEF s, c
  <2>8. Shape(s) /\ s.at = "got" /\ s.seen = c.seen /\ s.output = o /\ s.unsaved = c.unsaved
    BY <1>1, <2>6 DEF Shape
  <2>9. CallOK(s, r, tree, clock)
    BY <1>1, <1>3, <2>5, <2>8 DEF CallOK
  <2>10. \A K \in DOMAIN diskListings' : DiskFresh(K, diskListings'[K])
    BY <1>2 DEF IInv
  <2>11. QED
    BY <1>2, <2>2, <2>7, <2>8, <2>9, <2>10, OwnStep
<1>5. CASE D \notin DOMAIN diskListings
  <2> DEFINE todo == ToAnalyse(v)
             s == [c EXCEPT !.at = "analysing", !.todo = todo]
  <2>1. /\ steps' = [steps EXCEPT ![v].at = "analysing", ![v].todo = todo]
        /\ directoryCache' = directoryCache
    BY <1>5 DEF LookOnDisk
  <2>2. steps' = [steps EXCEPT ![v] = s]
    BY <1>1, <2>1, Zenon
  <2>3. /\ todo \in Seq(Node)
        /\ \A i \in 1..Len(todo) : todo[i] \in SeenIn(c.seen)
        /\ \A n \in SeenIn(c.seen) : \E i \in 1..Len(todo) : todo[i] = n
    BY ToAnalyseAll
  <2>4. s = [c EXCEPT !.at = "analysing", !.todo = todo]
    OBVIOUS
  <2> HIDE DEF s, c, todo
  <2>5. /\ Shape(s) /\ s.at = "analysing" /\ s.seen = c.seen /\ s.todo = todo
        /\ s.files = c.files /\ s.unsaved = c.unsaved
    BY <1>1, <2>3, <2>4 DEF Shape
  <2>6. c.files = <<>>
    BY <1>1, <1>2 DEF CallOK
  <2>7. Analysing(s, r, tree)
    BY <2>3, <2>5, <2>6 DEF Analysing
  <2>8. CallOK(s, r, tree, clock)
    BY <1>1, <1>3, <2>5, <2>7 DEF CallOK
  <2>9. QED
    BY <1>2, <2>1, <2>2, <2>5, <2>8, PlainStep
<1>6. QED
  BY <1>4, <1>5

(* The head of what is left is read, or gone.                               *)
LEMMA AnalyseFileStep == ASSUME IInv, NEW v \in DOMAIN visits, AnalyseFile(v) PROVE IInv'
<1> DEFINE c == steps[v]
           r == visits[v].root
           n == Head(c.todo)
           f == [root |-> r, node |-> n, version |-> tree[r][n].version]
           rest == Tail(c.todo)
           files == IF tree[r][n] = Missing THEN c.files ELSE Append(c.files, f)
           s == [c EXCEPT !.todo = rest, !.files = files]
<1>1. /\ r \in Roots /\ clock \in Nat /\ Shape(c) /\ CallOK(c, r, tree, clock) /\ v \in DOMAIN steps
  BY ThisCall
<1>2. /\ c.at = "analysing" /\ c.todo # <<>>
      /\ UNCHANGED <<tree, clock, visits, directoryCache, diskListings>>
  BY DEF AnalyseFile
<1>3. steps' = [steps EXCEPT ![v] = s]
  BY <1>1, Zenon DEF AnalyseFile
<1>4. c.todo \in Seq(Node) /\ c.files \in Seq(Record) /\ SeenOK(c.seen, r, tree, clock) /\ Analysing(c, r, tree)
  BY <1>1, <1>2 DEF Shape, CallOK
<1>5. /\ n \in Node /\ rest \in Seq(Node) /\ Len(c.todo) \in Nat /\ Len(rest) = Len(c.todo) - 1
      /\ c.todo[1] = n /\ 1 \in 1..Len(c.todo)
      /\ \A i \in 1..Len(rest) : rest[i] = c.todo[i + 1] /\ i + 1 \in 1..Len(c.todo)
      /\ \A i \in 1..Len(c.todo) : i # 1 => i - 1 \in 1..Len(rest) /\ rest[i - 1] = c.todo[i]
  <2> DEFINE todo == c.todo
  <2>1. todo \in Seq(Node) /\ todo # <<>>
    BY <1>2, <1>4
  <2> HIDE DEF todo
  <2>2. /\ Head(todo) \in Node /\ Tail(todo) \in Seq(Node) /\ Len(todo) \in Nat /\ Len(todo) >= 1
        /\ Len(Tail(todo)) = Len(todo) - 1 /\ todo[1] = Head(todo)
        /\ \A i \in 1..Len(Tail(todo)) : Tail(todo)[i] = todo[i + 1]
    BY <2>1
  <2>3. \A i \in 1..Len(todo) : i # 1 => i - 1 \in 1..Len(Tail(todo)) /\ (i - 1) + 1 = i
    BY <2>2
  <2>4. \A i \in 1..Len(Tail(todo)) : i + 1 \in 1..Len(todo)
    BY <2>2
  <2>5. QED
    BY <2>2, <2>3, <2>4 DEF todo
<1>6. n \in SeenIn(c.seen) /\ n \in FileNodes
  BY <1>4, <1>5 DEF Analysing, SeenIn
<1>7. /\ c.seen[n].version \in 0..clock /\ c.seen[n] # Missing
      /\ tree[r][n] # Missing => /\ tree[r][n].version \in Nat
                                 /\ tree[r][n].version >= c.seen[n].version
  <2>1. c.seen[n].version \in 0..clock /\ NoOlder(tree, r, n, c.seen[n].version)
    BY <1>4, <1>6 DEF SeenOK
  <2>2. c.seen[n] # Missing
    BY <1>6 DEF SeenIn, Existing
  <2>3. tree[r][n] # Missing => tree[r][n].version \in 0..clock
    BY <1>1, <1>6 DEF IInv, TreeOK
  <2>4. QED
    BY <1>1, <2>1, <2>2, <2>3 DEF NoOlder
<1>8. tree[r][n] # Missing => f \in Record
  BY <1>1, <1>6, <1>7 DEF Record
<1>9. s = [c EXCEPT !.todo = rest, !.files = files]
  OBVIOUS
<1>10. /\ tree[r][n] = Missing => files = c.files
       /\ tree[r][n] # Missing => files = Append(c.files, f)
       /\ f.root = r /\ f.node = n /\ f.version = tree[r][n].version
  OBVIOUS
<1> HIDE DEF f, files, rest, n, s, c
<1>11. /\ files \in Seq(Record) /\ Len(c.files) \in Nat
       /\ \A i \in 1..Len(c.files) : i \in 1..Len(files) /\ files[i] = c.files[i]
       /\ \A i \in 1..Len(files) : i \in 1..Len(c.files) \/ (files[i] = f /\ tree[r][n] # Missing)
       /\ tree[r][n] # Missing => \E i \in 1..Len(files) : files[i] = f
  <2>1. CASE tree[r][n] = Missing
    BY <1>4, <1>10, <2>1
  <2>2. CASE tree[r][n] # Missing
    <3>1. files = Append(c.files, f) /\ f \in Record /\ c.files \in Seq(Record)
      BY <1>4, <1>8, <1>10, <2>2
    <3>2. /\ files \in Seq(Record) /\ Len(c.files) \in Nat /\ Len(files) = Len(c.files) + 1
          /\ files[Len(c.files) + 1] = f
          /\ \A i \in 1..Len(c.files) : files[i] = c.files[i]
      BY <3>1
    <3>3. QED
      BY <2>2, <3>2
  <2>3. QED
    BY <2>1, <2>2
<1>12. /\ Shape(s) /\ s.at = c.at /\ s.seen = c.seen /\ s.todo = rest /\ s.files = files
       /\ s.unsaved = c.unsaved
  BY <1>1, <1>5, <1>9, <1>11 DEF Shape
<1>13. Analysing(s, r, tree)
  <2>1. \A i \in 1..Len(rest) : rest[i] \in SeenIn(c.seen)
    BY <1>4, <1>5 DEF Analysing
  <2>2. ASSUME NEW i \in 1..Len(files)
        PROVE  /\ files[i].root = r /\ files[i].node \in SeenIn(c.seen)
               /\ files[i].version >= c.seen[files[i].node].version
    <3>1. CASE i \in 1..Len(c.files)
      BY <1>4, <1>11, <3>1 DEF Analysing
    <3>2. CASE files[i] = f /\ tree[r][n] # Missing
      BY <1>6, <1>7, <1>10, <3>2
    <3>3. QED
      BY <1>11, <3>1, <3>2
  <2>3. ASSUME NEW m \in SeenIn(c.seen)
        PROVE  \/ \E i \in 1..Len(rest) : rest[i] = m
               \/ \E i \in 1..Len(files) : files[i].node = m
               \/ tree[r][m] # c.seen[m]
    <3>1. CASE m = n
      BY <1>7, <1>10, <1>11, <3>1
    <3>2. CASE m # n
      <4>1. CASE \E i \in 1..Len(c.todo) : c.todo[i] = m
        BY <1>5, <3>2, <4>1
      <4>2. CASE \E i \in 1..Len(c.files) : c.files[i].node = m
        BY <1>11, <4>2
      <4>3. QED
        BY <1>4, <4>1, <4>2 DEF Analysing
    <3>3. QED
      BY <3>1, <3>2
  <2>4. QED
    BY <1>12, <2>1, <2>2, <2>3 DEF Analysing
<1>14. CallOK(s, r, tree, clock)
  BY <1>1, <1>2, <1>12, <1>13 DEF CallOK
<1>15. QED
  BY <1>2, <1>3, <1>12, <1>14, PlainStep

LEMMA StoreListingStep == ASSUME IInv, NEW v \in DOMAIN visits, StoreListing(v) PROVE IInv'
<1> DEFINE c == steps[v]
           r == visits[v].root
           names == {<<visits[v].root, n>> : n \in Existing(c.seen)}
           o == [files |-> c.files, entries |-> names, counts |-> SubtreeCounts(v), formatted |-> names]
           d == [o EXCEPT !.entries = {}, !.counts = <<>>]
           save == [key |-> <<DiskKey(visits[v], c.seen)>>, value |-> d]
           s == [c EXCEPT !.at = "got", !.tier = "miss", !.output = o, !.unsaved = save]
<1>1. /\ r \in Roots /\ clock \in Nat /\ Shape(c) /\ CallOK(c, r, tree, clock) /\ v \in DOMAIN steps
  BY ThisCall
<1>2. /\ c.at = "analysing" /\ c.todo = <<>>
      /\ UNCHANGED <<tree, clock, visits, diskListings>>
      /\ directoryCache' = Added(directoryCache, KeyOf(visits[v], steps[v].seen), o)
      /\ steps' = [steps EXCEPT ![v].at = "got", ![v].tier = "miss", ![v].output = o, ![v].unsaved = save]
  BY DEF StoreListing, MemoryKey
<1>3. steps' = [steps EXCEPT ![v] = s]
  BY <1>1, <1>2, Zenon
<1>4. o.files = c.files /\ d.files = c.files /\ d.entries = {}
  OBVIOUS
<1>5. save.key[1] = DiskKey(visits[v], c.seen) /\ save.value = d
  OBVIOUS
<1>6. s = [c EXCEPT !.at = "got", !.tier = "miss", !.output = o, !.unsaved = save]
  OBVIOUS
<1> HIDE DEF s, save, d, o
<1>7. SeenOK(c.seen, r, tree, clock) /\ Analysing(c, r, tree) /\ c.files \in Seq(Record)
  BY <1>1, <1>2 DEF CallOK, Shape
<1>8. /\ MemoryFresh(KeyOf(visits[v], c.seen), o, tree)
      /\ OutputOK(o, c.seen, r, tree)
      /\ DiskFresh(DiskKey(visits[v], c.seen), d)
  BY <1>1, <1>2, <1>4, <1>7, ListingMade
<1>9. \A K \in DOMAIN directoryCache' : KeyOK(K, clock) /\ MemoryFresh(K, directoryCache'[K], tree)
  BY <1>2, <1>8, AddedFresh
<1>10. DiskFresh(save.key[1], save.value)
  BY <1>5, <1>8
<1> HIDE DEF c
<1>11. Shape(s) /\ s.at = "got" /\ s.seen = c.seen /\ s.output = o /\ s.unsaved = save
  BY <1>1, <1>6 DEF Shape
<1>12. CallOK(s, r, tree, clock)
  BY <1>7, <1>8, <1>10, <1>11 DEF CallOK
<1>13. \A K \in DOMAIN diskListings' : DiskFresh(K, diskListings'[K])
  BY <1>2 DEF IInv
<1>14. QED
  BY <1>2, <1>3, <1>9, <1>11, <1>12, <1>13, OwnStep

LEMMA SaveListingStep == ASSUME IInv, NEW v \in DOMAIN visits, SaveListing(v) PROVE IInv'
<1> DEFINE c == steps[v]
           r == visits[v].root
           k == c.unsaved.key[1]
           o == c.unsaved.value
           s == [c EXCEPT !.unsaved = Unsaved]
<1>1. /\ r \in Roots /\ clock \in Nat /\ Shape(c) /\ CallOK(c, r, tree, clock) /\ v \in DOMAIN steps
  BY ThisCall
<1>2. /\ UNCHANGED <<tree, clock, visits, directoryCache>> /\ diskListings' = Added(diskListings, k, o)
      /\ c.unsaved # Unsaved
  BY DEF SaveListing
<1>3. steps' = [steps EXCEPT ![v] = s]
  BY <1>1, Zenon DEF SaveListing
<1>4. DiskFresh(k, o)
  BY <1>1, <1>2 DEF CallOK
<1>5. s = [c EXCEPT !.unsaved = Unsaved]
  OBVIOUS
<1> HIDE DEF k, o
<1>6. \A K \in DOMAIN diskListings' : DiskFresh(K, diskListings'[K])
  BY <1>2, <1>4 DEF IInv, Added
<1>7. \A K \in DOMAIN directoryCache' : KeyOK(K, clock) /\ MemoryFresh(K, directoryCache'[K], tree)
  BY <1>2 DEF IInv
<1> HIDE DEF s, c
<1>8. /\ Shape(s) /\ s.at = c.at /\ s.seen = c.seen /\ s.todo = c.todo /\ s.files = c.files
      /\ s.output = c.output /\ s.answer = c.answer /\ s.unsaved = Unsaved
  BY <1>1, <1>5 DEF Shape
<1>9. CallOK(s, r, tree, clock)
  BY <1>1, <1>8 DEF CallOK, Analysing
<1>10. QED
  BY <1>2, <1>3, <1>6, <1>7, <1>8, <1>9, OwnStep

LEMMA ReplyStep == ASSUME IInv, NEW v \in DOMAIN visits, ReplyListing(v) PROVE IInv'
<1> DEFINE c == steps[v]
           r == visits[v].root
           a == ListingOf(visits[v], c.output)
           s == [c EXCEPT !.at = "answered", !.answer = a]
<1>1. /\ r \in Roots /\ clock \in Nat /\ Shape(c) /\ CallOK(c, r, tree, clock) /\ v \in DOMAIN steps
  BY ThisCall
<1>2. c.at = "got" /\ UNCHANGED <<tree, clock, visits, directoryCache, diskListings>>
  BY DEF ReplyListing
<1>3. steps' = [steps EXCEPT ![v] = s]
  BY <1>1, Zenon DEF ReplyListing
<1>4. s = [c EXCEPT !.at = "answered", !.answer = a]
  OBVIOUS
<1> HIDE DEF s, c, a
<1>5. /\ Shape(s) /\ s.at = "answered" /\ s.seen = c.seen /\ s.output = c.output /\ s.unsaved = c.unsaved
  BY <1>1, <1>4 DEF Shape
<1>6. CallOK(s, r, tree, clock)
  BY <1>1, <1>2, <1>5 DEF CallOK
<1>7. QED
  BY <1>2, <1>3, <1>5, <1>6, PlainStep

(* The memory is empty, and the calls under way are gone.                   *)
LEMMA RestartStep == ASSUME IInv, RestartServer PROVE IInv'
<1>0. UNCHANGED <<tree, clock, visits, diskListings>> /\ directoryCache' = << >>
  BY DEF RestartServer
<1>n. DOMAIN << >> = {}
  OBVIOUS
<1>d. DOMAIN steps = DOMAIN visits
  BY DEF IInv, StepsOK
<1>1. /\ UNCHANGED <<tree, clock, visits, diskListings>> /\ DOMAIN directoryCache' = {}
      /\ DOMAIN steps = DOMAIN visits
  BY <1>0, <1>n, <1>d
<1>2. ASSUME NEW v \in DOMAIN visits
      PROVE  Shape(steps'[v]) /\ CallOK(steps'[v], visits[v].root, tree, clock)
  <2> DEFINE c == steps[v]
             at == IF c.at \in {"asked", "answered"} THEN c.at ELSE "dropped"
             s == [c EXCEPT !.unsaved = Unsaved, !.at = at]
  <2>1. steps'[v] = s
    BY <1>1, Zenon DEF RestartServer
  <2>2. Shape(c) /\ CallOK(c, visits[v].root, tree, clock)
    BY ThisCall
  <2>3. s = [c EXCEPT !.unsaved = Unsaved, !.at = at]
    OBVIOUS
  <2>4. (at = c.at /\ at \in {"asked", "answered"}) \/ at = "dropped"
    OBVIOUS
  <2> HIDE DEF s, at, c
  <2>5. /\ Shape(s) /\ s.at = at /\ s.seen = c.seen /\ s.files = c.files /\ s.output = c.output
        /\ s.answer = c.answer /\ s.unsaved = Unsaved
    BY <2>2, <2>3 DEF Shape
  <2>6. CallOK(s, visits[v].root, tree, clock)
    BY <2>2, <2>4, <2>5 DEF CallOK
  <2>7. QED
    BY <2>1, <2>5, <2>6
<1>3. steps' = [v \in DOMAIN visits |-> steps'[v]]
  BY <1>1 DEF RestartServer
<1>4. StepsOK'
  BY <1>1, <1>2, <1>3 DEF IInv, StepsOK
<1>5. QED
  BY <1>1, <1>4 DEF IInv

-----------------------------------------------------------------------------
(* The result.                                                             *)

LEMMA InitIInv == DirectoryInit => IInv
<1> SUFFICES ASSUME DirectoryInit PROVE IInv
  OBVIOUS
<1>1. /\ tree = [r \in Roots |-> [n \in Node |-> Stamp(0)]] /\ clock = 0
      /\ visits \in Visits /\ steps = [v \in DOMAIN visits |-> NewStep]
      /\ DOMAIN directoryCache = {} /\ DOMAIN diskListings = {}
  BY DEF DirectoryInit, Stamp
<1>2. TreeOK(tree, clock)
  BY <1>1, NodeSet DEF TreeOK, Stamp
<1>3. Shape(NewStep)
  BY DEF Shape, NewStep, WalkOrder, Node, ToSet
<1>4. \A r : CallOK(NewStep, r, tree, clock)
  BY DEF CallOK, SeenOK, SeenIn, Existing, NewStep
<1>5. \A v \in DOMAIN visits : visits[v].root \in Roots
  BY <1>1, DirectoryAssumption
<1>6. StepsOK
  BY <1>1, <1>3, <1>4, <1>5 DEF StepsOK
<1>7. QED
  BY <1>1, <1>2, <1>6 DEF IInv

LEMMA IInvStep == IInv /\ [DirectoryNext]_directoryVars => IInv'
<1> SUFFICES ASSUME IInv, [DirectoryNext]_directoryVars PROVE IInv'
  OBVIOUS
<1>1. DOMAIN steps = DOMAIN visits
  BY DEF IInv, StepsOK
<1>2. ASSUME NEW v \in DOMAIN visits, VisitNext(v) PROVE IInv'
  BY <1>2, WalkEntryStep, KeepChangedStep, DeniedStep, LookInMemoryStep, LookOnDiskStep,
     AnalyseFileStep, StoreListingStep, SaveListingStep, ReplyStep DEF VisitNext
<1>3. ASSUME NEW r \in Edited, NEW n \in FileNodes, WriteFile(r, n) \/ DeleteFile(r, n) PROVE IInv'
  <2>1. r \in Roots
    BY DirectoryAssumption
  <2>2. PICK new : (new = Missing \/ new = Stamp(clock + 1)) /\ Changes(r, n, new)
    BY <1>3 DEF WriteFile, DeleteFile, Stamp
  <2>3. QED
    BY <2>1, <2>2, ChangeStep
<1>4. CASE UNCHANGED directoryVars
  BY <1>4 DEF directoryVars, IInv, StepsOK
<1>5. QED
  BY <1>2, <1>3, <1>4, RestartStep DEF DirectoryNext

(* Whatever is written or deleted between the walk, the reads, the stores   *)
(* and a restart, a listing has no file the walk of its call did not see,   *)
(* and nothing older than its tier of the cache can tell apart.             *)
THEOREM DirectoryListingsFresh == DirectorySpec => []ListingsFresh
<1>1. IInv => ListingsFresh
  <2> SUFFICES ASSUME IInv, NEW v \in DOMAIN steps, Served(v)
               PROVE  /\ \A f \in Listed(v) :
                           /\ f.node \in SeenFiles(v)
                           /\ AnalysedHere(v) => f.root = visits[v].root /\ f.version >= steps[v].seen[f.node].version
                           /\ Second(f.version) >= Second(steps[v].seen[f.node].version)
                      /\ AnalysedHere(v) =>
                           \A n \in SeenFiles(v) : \/ n \in {f.node : f \in Listed(v)}
                                                   \/ tree[visits[v].root][n] # steps[v].seen[n]
    BY DEF ListingsFresh
  <2>1. v \in DOMAIN visits
    BY DEF IInv, StepsOK
  <2>2. OutputOK(steps[v].output, steps[v].seen, visits[v].root, tree)
    BY <2>1, ThisCall DEF CallOK, Served
  <2>3. SeenFiles(v) = SeenIn(steps[v].seen)
    BY DEF SeenFiles, SeenIn
  <2>4. QED
    BY <2>2, <2>3 DEF OutputOK, Listed, AnalysedHere
<1>2. QED
  BY <1>1, InitIInv, IInvStep, PTL DEF DirectorySpec
===============================================================================
