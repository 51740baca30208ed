---------------------------- MODULE FileCacheProofs ----------------------------
(***************************************************************************)
(* What the two caches guarantee for every set of files, spellings and     *)
(* calls, every capacity and any number of versions.                       *)
(***************************************************************************)
EXTENDS FileCache, TLAPS

(* The part of the variables' types that the arguments below rest on; the   *)
(* recency order of L1 matters to none of them.                             *)
Typed ==
  /\ versions \in [Files -> Seq(Version)]
  /\ \A f \in Files : Len(versions[f]) >= 1
  /\ "map" \in DOMAIN l1
  /\ DOMAIN l1.map \subseteq Names \X Nat
  /\ \A k \in DOMAIN l1.map : l1.map[k] \in Analysis
  /\ l2 \in [Tools -> [Contents -> Analysis \cup {NoValue}]]
  /\ call \in [Calls -> CallState]
  /\ behind \subseteq Calls

Begun(c) == call[c].pc \notin {"new", "lost"}

(* What a call knows, by where it is.                                       *)
CallShape(c) ==
  /\ Begun(c) => /\ call[c].name \in Names
                 /\ call[c].tool \in Tools \cup {"complete"}
  /\ call[c].pc = "stat" => call[c].tool \in {"analyze_file", "complete"}
  /\ call[c].pc \in {"read", "retry"} => call[c].tool = "analyze_file"
  /\ call[c].pc \in {"l2", "analyze"} =>
       call[c].tool \in Tools /\ call[c].bytes \in Contents

Shape == Typed /\ \A c \in Calls : CallShape(c)

LEMMA InitShape == Init => Shape
<1> SUFFICES ASSUME Init PROVE Shape
  OBVIOUS
<1>1. versions \in [Files -> Seq(Version)] /\ \A f \in Files : Len(versions[f]) = 1
  <2>1. ASSUME NEW c \in Contents \cup {Absent}
        PROVE  LET s == <<[content |-> c, mtime |-> 1]>>
               IN  s \in Seq(Version) /\ Len(s) = 1
    <3>1. [content |-> c, mtime |-> 1] \in Version
      BY DEF Version
    <3>2. QED
      BY <3>1
  <2>2. \A f \in Files : \E c \in Contents \cup {Absent} :
          versions[f] = <<[content |-> c, mtime |-> 1]>>
    BY DEF Init
  <2>3. versions = [f \in Files |-> versions[f]]
    BY DEF Init
  <2>4. QED
    BY <2>1, <2>2, <2>3
<1>2. "map" \in DOMAIN l1 /\ DOMAIN l1.map = {}
  BY DEF Init, EmptyLru
<1>3. NewCall \in CallState
  BY DEF NewCall, CallState
<1>4. call \in [Calls -> CallState] /\ \A c \in Calls : call[c].pc = "new"
  BY <1>3 DEF Init, NewCall
<1>5. l2 \in [Tools -> [Contents -> Analysis \cup {NoValue}]]
  BY DEF Init
<1>6. behind \subseteq Calls
  BY DEF Init
<1>7. Typed
  <2>1. \A f \in Files : Len(versions[f]) >= 1
    <3>1. \A n : n = 1 => n >= 1
      OBVIOUS
    <3>2. QED
      BY <1>1, <3>1, Zenon
  <2>2. DOMAIN l1.map \subseteq Names \X Nat /\ \A k \in DOMAIN l1.map : l1.map[k] \in Analysis
    BY <1>2, Zenon
  <2>3. QED
    BY <1>1, <1>2, <1>4, <1>5, <1>6, <2>1, <2>2, Zenon DEF Typed
<1>8. QED
  BY <1>4, <1>7 DEF Shape, CallShape, Begun

(* The operations of the LRU cache: no key appears but the one pushed, and  *)
(* no other key changes its value.                                          *)
LEMMA PushMap ==
  ASSUME NEW s, NEW k, NEW v, NEW n
  PROVE  LET t == LruPush(s, k, v, n)
         IN  /\ "map" \in DOMAIN t
             /\ DOMAIN t.map \subseteq DOMAIN s.map \cup {k}
             /\ \A x \in DOMAIN t.map : t.map[x] = IF x = k THEN v ELSE s.map[x]
BY DEF LruPush

LEMMA DropMap ==
  ASSUME NEW s, NEW K
  PROVE  LET t == LruDrop(s, K)
         IN  /\ "map" \in DOMAIN t
             /\ DOMAIN t.map \subseteq DOMAIN s.map
             /\ \A x \in DOMAIN t.map : t.map[x] = s.map[x]
BY DEF LruDrop

LEMMA GetMap ==
  ASSUME NEW s, NEW k, "map" \in DOMAIN s
  PROVE  "map" \in DOMAIN LruGet(s, k) /\ LruGet(s, k).map = s.map
BY DEF LruGet

(* A version appended to a file's history.                                  *)
LEMMA AppendVersion ==
  ASSUME NEW s \in Seq(Version), NEW v \in Version, Len(s) >= 1
  PROVE  /\ Append(s, v) \in Seq(Version)
         /\ Len(Append(s, v)) = Len(s) + 1
         /\ \A i \in 1..Len(s) : Append(s, v)[i] = s[i]
         /\ Append(s, v)[Len(s) + 1] = v
OBVIOUS

LEMMA LastVersion ==
  ASSUME Typed, NEW f \in Files
  PROVE  /\ Len(versions[f]) \in Nat /\ Len(versions[f]) >= 1
         /\ Latest(versions[f]) \in Version
         /\ OnDisk(f) \in Contents \cup {Absent}
         /\ OnDisk(f) = versions[f][Len(versions[f])].content
         /\ Mtime(f) \in Nat
         /\ Mtime(f) = versions[f][Len(versions[f])].mtime
<1>1. versions[f] \in Seq(Version) /\ Len(versions[f]) >= 1
  BY DEF Typed
<1>2. Len(versions[f]) \in 1..Len(versions[f])
  BY <1>1
<1>3. versions[f][Len(versions[f])] \in Version
  BY <1>1, <1>2
<1>4. QED
  BY <1>1, <1>3 DEF Latest, OnDisk, Mtime, Version

-----------------------------------------------------------------------------
(* The steps of a call write its own record only.                           *)
OwnStep(c) ==
  /\ call' \in [Calls -> CallState]
  /\ \A d \in Calls \ {c} : call'[d] = call[d]
  /\ CallShape(c)'

LEMMA OwnStepShape ==
  ASSUME Shape, NEW c \in Calls, OwnStep(c), versions' = versions,
         l2' = l2, behind' \subseteq behind \cup {c},
         "map" \in DOMAIN l1', DOMAIN l1'.map \subseteq Names \X Nat,
         \A k \in DOMAIN l1'.map : l1'.map[k] \in Analysis
  PROVE  Shape'
<1>1. Typed'
  BY Zenon DEF Shape, Typed, OwnStep
<1>2. ASSUME NEW d \in Calls PROVE CallShape(d)'
  <2>1. CASE d = c
    BY <2>1 DEF OwnStep
  <2>2. CASE d # c
    <3>1. call'[d] = call[d]
      BY <2>2 DEF OwnStep
    <3>2. CallShape(d)
      BY DEF Shape
    <3>3. QED
      BY <3>1, <3>2 DEF CallShape, Begun
  <2>3. QED
    BY <2>1, <2>2
<1>3. QED
  BY <1>1, <1>2 DEF Shape

(* A call's record replaced by another one.                                 *)
LEMMA Replaced ==
  ASSUME Shape, NEW c \in Calls, NEW k \in CallState, call' = [call EXCEPT ![c] = k]
  PROVE  /\ call' \in [Calls -> CallState]
         /\ call'[c] = k
         /\ \A d \in Calls \ {c} : call'[d] = call[d]
BY DEF Shape, Typed

LEMMA StatOwn ==
  ASSUME Shape, NEW c \in Calls, NEW n \in Names, NEW t \in {"analyze_file", "complete"},
         Stat(c, t, n)
  PROVE  /\ OwnStep(c)
         /\ call'[c].pc = "stat" /\ call'[c].name = n
         /\ call'[c].from = Len(versions[FileOf[n]])
         /\ call'[c].key \in {NoKey, Mtime(FileOf[n])}
<1>1. FileOf[n] \in Files
  BY FileCacheAssumption
<1>2. Len(versions[FileOf[n]]) \in Nat /\ Mtime(FileOf[n]) \in Nat
  BY <1>1, LastVersion DEF Shape
<1>3. call[c] \in CallState
  BY DEF Shape, Typed
<1> DEFINE b == Begin(c, t, n)
           key == IF OnDisk(FileOf[n]) = Absent THEN NoKey ELSE Mtime(FileOf[n])
           k == [b EXCEPT !.pc = "stat", !.key = key]
<1>4. b \in CallState /\ b.name = n /\ b.tool = t /\ b.from = Len(versions[FileOf[n]])
  BY <1>2, <1>3 DEF Begin, CallState, Tools
<1>5. key \in Nat \cup {NoKey} /\ key \in {NoKey, Mtime(FileOf[n])}
  BY <1>2
<1>6. call' = [call EXCEPT ![c] = k]
  BY DEF Stat
<1> HIDE DEF b, key
<1>7. /\ k \in CallState /\ k.pc = "stat" /\ k.name = n /\ k.tool = t
      /\ k.from = Len(versions[FileOf[n]]) /\ k.key \in {NoKey, Mtime(FileOf[n])}
  BY <1>4, <1>5 DEF CallState
<1> HIDE DEF k
<1>8. call' \in [Calls -> CallState] /\ call'[c] = k /\ \A d \in Calls \ {c} : call'[d] = call[d]
  BY <1>6, <1>7, Replaced
<1>9. QED
  BY <1>7, <1>8 DEF OwnStep, CallShape, Begun, Tools

LEMMA ReadModuleOwn ==
  ASSUME Shape, NEW c \in Calls, NEW n \in Names, ReadModule(c, n)
  PROVE  OwnStep(c) /\ call'[c].tool = "analyze_module"
<1>1. FileOf[n] \in Files
  BY FileCacheAssumption
<1>2. Len(versions[FileOf[n]]) \in Nat /\ OnDisk(FileOf[n]) \in Contents \cup {Absent}
  BY <1>1, LastVersion DEF Shape
<1>3. call[c] \in CallState
  BY DEF Shape, Typed
<1> DEFINE b == Begin(c, "analyze_module", n)
           k == IF OnDisk(FileOf[n]) = Absent
                THEN [b EXCEPT !.pc = "error"]
                ELSE [b EXCEPT !.pc = "l2", !.bytes = OnDisk(FileOf[n])]
<1>4. b \in CallState /\ b.name = n /\ b.tool = "analyze_module"
  BY <1>2, <1>3 DEF Begin, CallState, Tools
<1> HIDE DEF b
<1>5. /\ k \in CallState /\ k.name = n /\ k.tool = "analyze_module"
      /\ k.pc \in {"error", "l2"}
      /\ k.pc = "l2" => k.bytes \in Contents
  BY <1>2, <1>4 DEF CallState
<1>6. call' = [call EXCEPT ![c] = k]
  BY DEF ReadModule, b
<1> HIDE DEF k
<1>7. call' \in [Calls -> CallState] /\ call'[c] = k /\ \A d \in Calls \ {c} : call'[d] = call[d]
  BY <1>5, <1>6 DEF Shape, Typed
<1>8. QED
  BY <1>5, <1>7 DEF OwnStep, CallShape, Begun, Tools

LEMMA AnswerOwn ==
  ASSUME Shape, NEW c \in Calls, NEW v \in Analysis, Begun(c), call' = Answer(c, v)
  PROVE  /\ OwnStep(c)
         /\ call'[c] = [call[c] EXCEPT !.pc = "answered", !.value = v]
<1> DEFINE k == [call[c] EXCEPT !.pc = "answered", !.value = v]
<1>1. call[c] \in CallState /\ call \in [Calls -> CallState]
  BY DEF Shape, Typed
<1>2. /\ k \in CallState /\ k.pc = "answered"
      /\ k.name = call[c].name /\ k.tool = call[c].tool
  BY <1>1 DEF CallState
<1>3. call' = [call EXCEPT ![c] = k]
  BY <1>1 DEF Answer
<1>4. call[c].name \in Names /\ call[c].tool \in Tools \cup {"complete"}
  BY DEF Shape, CallShape
<1> HIDE DEF k
<1>5. call' \in [Calls -> CallState] /\ call'[c] = k /\ \A d \in Calls \ {c} : call'[d] = call[d]
  BY <1>2, <1>3, Replaced
<1>6. OwnStep(c)
  BY <1>2, <1>4, <1>5 DEF OwnStep, CallShape, Begun
<1>7. QED
  BY <1>5, <1>6 DEF k

(* A call that moves on, its other fields unchanged.                        *)
Moved(c, p, y) == [call[c] EXCEPT !.pc = p, !.bytes = y]

LEMMA MoveOwn ==
  ASSUME Shape, NEW c \in Calls, NEW p \in {"read", "retry", "l2", "analyze", "error"},
         NEW y \in Contents \cup {NoValue}, Begun(c),
         p \in {"read", "retry"} => call[c].tool = "analyze_file",
         p \in {"l2", "analyze"} => call[c].tool \in Tools /\ y \in Contents,
         call' = [call EXCEPT ![c] = Moved(c, p, y)]
  PROVE  OwnStep(c) /\ call'[c] = Moved(c, p, y)
<1> DEFINE k == Moved(c, p, y)
<1>1. call[c] \in CallState
  BY DEF Shape, Typed
<1>2. /\ k \in CallState /\ k.pc = p /\ k.bytes = y
      /\ k.name = call[c].name /\ k.tool = call[c].tool
  BY <1>1 DEF CallState, Moved
<1>4. call[c].name \in Names /\ call[c].tool \in Tools \cup {"complete"}
  BY DEF Shape, CallShape
<1>3. call' = [call EXCEPT ![c] = k]
  OBVIOUS
<1> HIDE DEF k
<1>5. call' \in [Calls -> CallState] /\ call'[c] = k /\ \A d \in Calls \ {c} : call'[d] = call[d]
  BY <1>2, <1>3, Replaced
<1>6. OwnStep(c)
  BY <1>2, <1>4, <1>5 DEF OwnStep, CallShape, Begun
<1>7. QED
  BY <1>5, <1>6 DEF k

(* The analysis a call computes.                                            *)
LEMMA OwnAnalysis ==
  ASSUME Shape, NEW c \in Calls, NEW y \in Contents, Begun(c)
  PROVE  /\ AnalysisOf(c, y) \in Analysis
         /\ AnalysisOf(c, y).bytes = y
         /\ AnalysisOf(c, y).of = call[c].name
<1>1. call[c].name \in Names
  BY DEF Shape, CallShape
<1>2. QED
  BY <1>1 DEF AnalysisOf, Analysis

-----------------------------------------------------------------------------
(* What analyze_file stored on disk, and what is queued to be stored.       *)
Queued(c) ==
  /\ call[c].pc = "answered"
  /\ call[c].tool \in Tools
  /\ call[c].bytes \in Contents
  /\ call[c].tool = "analyze_file" => /\ call[c].value.bytes = call[c].bytes
                                     /\ call[c].value.of \notin Unsupported

Disk == DiskEntriesTruthful /\ \A c \in behind : Queued(c)

Inv == Shape /\ Disk

(* The entries of L1 after a store: the old ones and the stored one.        *)
LEMMA StoreMap ==
  ASSUME Shape, NEW c \in Calls, NEW v \in Analysis, Begun(c), L1Store(c, v)
  PROVE  /\ "map" \in DOMAIN l1'
         /\ DOMAIN l1'.map \subseteq Names \X Nat
         /\ \A k \in DOMAIN l1'.map : l1'.map[k] \in Analysis
         /\ \A k \in DOMAIN l1'.map :
              \/ k \in DOMAIN l1.map /\ l1'.map[k] = l1.map[k]
              \/ call[c].key # NoKey /\ k = L1Key(c) /\ l1'.map[k] = v
<1>1. /\ "map" \in DOMAIN l1 /\ DOMAIN l1.map \subseteq Names \X Nat
      /\ \A k \in DOMAIN l1.map : l1.map[k] \in Analysis
  BY DEF Shape, Typed
<1>2. CASE call[c].key = NoKey
  <2>1. l1' = l1
    BY <1>2 DEF L1Store
  <2>2. QED
    BY <1>1, <2>1
<1>3. CASE call[c].key # NoKey
  <2>1. L1Key(c) \in Names \X Nat
    <3>1. call[c] \in CallState /\ call[c].name \in Names
      BY DEF Shape, Typed, CallShape
    <3>2. call[c].key \in Nat
      BY <1>3, <3>1 DEF CallState
    <3>3. QED
      BY <3>1, <3>2 DEF L1Key
  <2>2. l1' = LruPush(l1, L1Key(c), v, Capacity)
    BY <1>3 DEF L1Store
  <2>3. /\ "map" \in DOMAIN l1'
        /\ DOMAIN l1'.map \subseteq DOMAIN l1.map \cup {L1Key(c)}
        /\ \A x \in DOMAIN l1'.map :
             l1'.map[x] = IF x = L1Key(c) THEN v ELSE l1.map[x]
    BY <2>2, PushMap
  <2>4. QED
    BY <1>1, <1>3, <2>1, <2>3
<1>4. QED
  BY <1>2, <1>3

LEMMA OwnStepDisk ==
  ASSUME Inv, NEW c \in Calls, OwnStep(c), l2' = l2,
         \/ behind' = behind /\ call[c].pc # "answered"
         \/ behind' = behind \cup {c} /\ Queued(c)'
  PROVE  Disk'
<1>1. DiskEntriesTruthful'
  BY DEF Inv, Disk, DiskEntriesTruthful, Truthful
<1>2. ASSUME NEW d \in behind' PROVE Queued(d)'
  <2>1. CASE d = c
    BY <2>1 DEF Inv, Disk, Queued
  <2>2. CASE d # c
    <3>1. d \in behind /\ Queued(d)
      BY <1>2, <2>2 DEF Inv, Disk
    <3>2. call'[d] = call[d]
      BY <2>2, <3>1 DEF OwnStep, Inv, Shape, Typed
    <3>3. QED
      BY <3>1, <3>2 DEF Queued
  <2>3. QED
    BY <2>1, <2>2
<1>3. QED
  BY <1>1, <1>2 DEF Disk

(* A call's step that leaves L1, L2 and the queue alone.                    *)
LEMMA PlainStep ==
  ASSUME Inv, NEW c \in Calls, OwnStep(c), call[c].pc # "answered",
         UNCHANGED <<versions, l1, l2, behind>>
  PROVE  Inv'
<1>1. /\ "map" \in DOMAIN l1' /\ DOMAIN l1'.map \subseteq Names \X Nat
      /\ \A k \in DOMAIN l1'.map : l1'.map[k] \in Analysis
  BY DEF Inv, Shape, Typed
<1>2. Shape'
  BY <1>1, OwnStepShape DEF Inv
<1>3. Disk'
  <2>1. l2' = l2 /\ behind' = behind /\ call[c].pc # "answered"
    OBVIOUS
  <2>2. QED
    BY <2>1, OwnStepDisk, Zenon
<1>4. QED
  BY <1>2, <1>3 DEF Inv

(* A call's step that answers.                                              *)
LEMMA AnswerStep ==
  ASSUME Inv, NEW c \in Calls, NEW v \in Analysis, Begun(c), call[c].pc # "answered",
         call' = Answer(c, v), UNCHANGED <<versions, l2>>,
         "map" \in DOMAIN l1', DOMAIN l1'.map \subseteq Names \X Nat,
         \A k \in DOMAIN l1'.map : l1'.map[k] \in Analysis,
         \/ behind' = behind
         \/ /\ behind' = behind \cup {c}
            /\ call[c].tool \in Tools /\ call[c].bytes \in Contents
            /\ call[c].tool = "analyze_file" =>
                 v.bytes = call[c].bytes /\ v.of \notin Unsupported
  PROVE  Inv'
<1>1. OwnStep(c) /\ call'[c] = [call[c] EXCEPT !.pc = "answered", !.value = v]
  BY AnswerOwn DEF Inv
<1>2. Shape'
  BY <1>1, OwnStepShape DEF Inv
<1>3. Disk'
  <2> l2' = l2 /\ call[c].pc # "answered"
    OBVIOUS
  <2>1. CASE behind' = behind
    BY <1>1, <2>1, OwnStepDisk, Zenon
  <2>2. CASE behind' # behind
    <3>1. Queued(c)'
      <4>1. call[c] \in CallState
        BY DEF Inv, Shape, Typed
      <4>2. QED
        BY <1>1, <2>2, <4>1 DEF Queued, CallState
    <3>2. behind' = behind \cup {c}
      BY <2>2
    <3>3. QED
      BY <1>1, <3>1, <3>2, OwnStepDisk, Zenon
  <2>3. QED
    BY <2>1, <2>2
<1>4. QED
  BY <1>2, <1>3 DEF Inv

LEMMA L1Same ==
  ASSUME Inv, l1' = l1
  PROVE  /\ "map" \in DOMAIN l1' /\ DOMAIN l1'.map \subseteq Names \X Nat
         /\ \A k \in DOMAIN l1'.map : l1'.map[k] \in Analysis
BY DEF Inv, Shape, Typed

(* The record of a call that has begun.                                     *)
LEMMA CallFields ==
  ASSUME Inv, NEW c \in Calls
  PROVE  /\ call \in [Calls -> CallState] /\ call[c] \in CallState
         /\ call[c].bytes \in Contents \cup {NoValue}
         /\ Begun(c) => /\ call[c].name \in Names
                        /\ FileOf[call[c].name] \in Files
                        /\ call[c].tool \in Tools \cup {"complete"}
                        /\ OnDisk(FileOf[call[c].name]) \in Contents \cup {Absent}
<1>1. call \in [Calls -> CallState] /\ call[c] \in CallState
  BY DEF Inv, Shape, Typed
<1>2. call[c].bytes \in Contents \cup {NoValue}
  BY <1>1 DEF CallState
<1>3. ASSUME Begun(c)
      PROVE  /\ call[c].name \in Names
             /\ call[c].tool \in Tools \cup {"complete"}
  BY <1>3 DEF Inv, Shape, CallShape
<1>4. ASSUME Begun(c) PROVE FileOf[call[c].name] \in Files
  BY <1>3, <1>4, FileCacheAssumption
<1>5. ASSUME Begun(c)
      PROVE  OnDisk(FileOf[call[c].name]) \in Contents \cup {Absent}
  BY <1>4, <1>5, LastVersion DEF Inv, Shape
<1>6. QED
  BY <1>1, <1>2, <1>3, <1>4, <1>5

LEMMA BeginInv ==
  ASSUME Inv, NEW c \in Calls, NEW n \in Names, NEW t \in {"analyze_file", "complete"},
         Stat(c, t, n) \/ ReadModule(c, n)
  PROVE  Inv'
<1>1. CASE Stat(c, t, n)
  <2>1. OwnStep(c)
    BY <1>1, StatOwn DEF Inv
  <2>2. call[c].pc # "answered" /\ UNCHANGED <<versions, l1, l2, behind>>
    BY <1>1 DEF Stat
  <2>3. QED
    BY <2>1, <2>2, PlainStep
<1>2. CASE ReadModule(c, n)
  <2>1. OwnStep(c)
    BY <1>2, ReadModuleOwn DEF Inv
  <2>2. call[c].pc # "answered" /\ UNCHANGED <<versions, l1, l2, behind>>
    BY <1>2 DEF ReadModule
  <2>3. QED
    BY <2>1, <2>2, PlainStep
<1>3. QED
  BY <1>1, <1>2

LEMMA MoveInv ==
  ASSUME Inv, NEW c \in Calls, NEW p \in {"read", "retry", "l2", "analyze", "error"},
         NEW y \in Contents \cup {NoValue}, Begun(c), call[c].pc # "answered",
         p \in {"read", "retry"} => call[c].tool = "analyze_file",
         p \in {"l2", "analyze"} => call[c].tool \in Tools /\ y \in Contents,
         call' = [call EXCEPT ![c] = Moved(c, p, y)],
         UNCHANGED <<versions, l1, l2, behind>>
  PROVE  Inv'
<1>1. OwnStep(c)
  BY MoveOwn DEF Inv
<1>2. QED
  BY <1>1, PlainStep

LEMMA RefuseInv ==
  ASSUME Inv, NEW c \in Calls, Begun(c), call[c].pc # "answered",
         call' = Refuse(c), UNCHANGED <<versions, l1, l2, behind>>
  PROVE  Inv'
<1>1. call[c] \in CallState /\ call[c].bytes \in Contents \cup {NoValue}
  BY CallFields
<1>2. [call[c] EXCEPT !.pc = "error"]
        = Moved(c, "error", call[c].bytes)
  BY <1>1 DEF CallState, Moved
<1>3. call' = [call EXCEPT ![c] = Moved(c, "error", call[c].bytes)]
  BY <1>2, CallFields DEF Refuse
<1>4. QED
  BY <1>1, <1>3, MoveInv

LEMMA L1HitInv ==
  ASSUME Inv, NEW c \in Calls, L1Hit(c)
  PROVE  Inv' /\ l1'.map = l1.map
<1>1. Begun(c) /\ call[c].pc # "answered"
  BY DEF L1Hit, Begun
<1>2. "map" \in DOMAIN l1 /\ L1Key(c) \in DOMAIN l1.map
  BY DEF L1Hit, LruHas, Inv, Shape, Typed
<1>3. l1.map[L1Key(c)] \in Analysis
  BY <1>2 DEF Inv, Shape, Typed
<1>4. "map" \in DOMAIN l1' /\ l1'.map = l1.map
  BY <1>2, GetMap DEF L1Hit
<1>5. /\ DOMAIN l1'.map \subseteq Names \X Nat
      /\ \A k \in DOMAIN l1'.map : l1'.map[k] \in Analysis
  BY <1>4 DEF Inv, Shape, Typed
<1>6. call' = Answer(c, l1.map[L1Key(c)]) /\ UNCHANGED <<versions, l2, behind>>
  BY DEF L1Hit
<1>7. QED
  BY <1>1, <1>3, <1>4, <1>5, <1>6, AnswerStep

LEMMA L1MissInv ==
  ASSUME Inv, NEW c \in Calls, L1Miss(c)
  PROVE  Inv'
<1>1. Begun(c) /\ call[c].pc # "answered" /\ UNCHANGED <<versions, l1, l2, behind>>
  BY DEF L1Miss, Begun
<1>2. CASE call[c].tool = "complete"
  BY <1>1, <1>2, RefuseInv DEF L1Miss
<1>3. CASE call[c].tool # "complete"
  <2>1. call[c].tool = "analyze_file"
    BY <1>3 DEF Inv, Shape, CallShape, L1Miss
  <2>2. [call[c] EXCEPT !.pc = "read"]
          = Moved(c, "read", call[c].bytes)
    BY CallFields DEF CallState, Moved
  <2>3. call' = [call EXCEPT ![c] = Moved(c, "read", call[c].bytes)]
    BY <1>3, <2>2, CallFields DEF L1Miss
  <2>4. QED
    BY <1>1, <2>1, <2>3, CallFields, MoveInv
<1>4. QED
  BY <1>2, <1>3

LEMMA ReadFileInv ==
  ASSUME Inv, NEW c \in Calls, ReadFile(c)
  PROVE  /\ Inv'
         /\ LET bytes == OnDisk(FileOf[call[c].name])
            IN  call' = [call EXCEPT ![c] =
                   Moved(c, IF bytes = Absent THEN "retry" ELSE "l2",
                            IF bytes = Absent THEN Empty ELSE bytes)]
<1> DEFINE bytes == OnDisk(FileOf[call[c].name])
           p == IF bytes = Absent THEN "retry" ELSE "l2"
           y == IF bytes = Absent THEN Empty ELSE bytes
<1>1. Begun(c) /\ call[c].pc # "answered" /\ UNCHANGED <<versions, l1, l2, behind>>
  BY DEF ReadFile, Begun
<1>2. call[c].tool = "analyze_file"
  BY DEF Inv, Shape, CallShape, ReadFile
<1>3. p \in {"retry", "l2"} /\ y \in Contents
  BY <1>1, CallFields, FileCacheAssumption
<1>4. call' = [call EXCEPT ![c].pc = p, ![c].bytes = y]
  BY DEF ReadFile
<1> HIDE DEF bytes, p, y
<1>5. call' = [call EXCEPT ![c] = Moved(c, p, y)]
  BY <1>4, CallFields DEF CallState, Moved
<1>6. Inv'
  BY <1>1, <1>2, <1>3, <1>5, MoveInv DEF Tools
<1>7. QED
  BY <1>5, <1>6 DEF bytes, p, y

LEMMA L2HitInv ==
  ASSUME Inv, NEW c \in Calls, L2Hit(c)
  PROVE  Inv'
<1> DEFINE v == l2[call[c].tool][call[c].bytes]
<1>1. Begun(c) /\ call[c].pc # "answered" /\ UNCHANGED <<versions, l2, behind>>
  BY DEF L2Hit, Begun
<1>2. call[c].tool \in Tools /\ call[c].bytes \in Contents
  BY DEF L2Hit, Inv, Shape, CallShape
<1>3. v \in Analysis
  BY <1>2 DEF L2Hit, Inv, Shape, Typed
<1>4. call' = Answer(c, v)
        /\ IF call[c].tool = "analyze_file" THEN L1Store(c, v) ELSE l1' = l1
  BY DEF L2Hit
<1> HIDE DEF v
<1>5. /\ "map" \in DOMAIN l1' /\ DOMAIN l1'.map \subseteq Names \X Nat
      /\ \A k \in DOMAIN l1'.map : l1'.map[k] \in Analysis
  <2>1. CASE call[c].tool = "analyze_file"
    BY <1>1, <1>3, <1>4, <2>1, StoreMap DEF Inv
  <2>2. CASE call[c].tool # "analyze_file"
    BY <1>4, <2>2, L1Same
  <2>3. QED
    BY <2>1, <2>2
<1>6. QED
  BY <1>1, <1>3, <1>4, <1>5, AnswerStep

LEMMA L2MissInv ==
  ASSUME Inv, NEW c \in Calls, L2Miss(c)
  PROVE  Inv'
<1>1. Begun(c) /\ call[c].pc # "answered" /\ UNCHANGED <<versions, l1, l2, behind>>
  BY DEF L2Miss, Begun
<1>2. call[c].tool \in Tools /\ call[c].bytes \in Contents
  BY DEF L2Miss, Inv, Shape, CallShape
<1>3. [call[c] EXCEPT !.pc = "analyze"]
        = Moved(c, "analyze", call[c].bytes)
  BY CallFields DEF CallState, Moved
<1>4. call' = [call EXCEPT ![c] = Moved(c, "analyze", call[c].bytes)]
  BY <1>3, CallFields DEF L2Miss
<1>5. QED
  BY <1>1, <1>2, <1>4, MoveInv

LEMMA AnalyzeFileInv ==
  ASSUME Inv, NEW c \in Calls, AnalyzeFile(c)
  PROVE  Inv'
<1>1. /\ Begun(c) /\ call[c].pc # "answered" /\ UNCHANGED <<versions, l2>>
      /\ call[c].tool = "analyze_file"
  BY DEF AnalyzeFile, Succeeds, Begun
<1>2. call[c].bytes \in Contents /\ call[c].tool \in Tools
  BY <1>1 DEF AnalyzeFile, Succeeds, Inv, Shape, CallShape
<1> DEFINE v == AnalysisOf(c, call[c].bytes)
<1>3. L1Store(c, v) /\ call' = Answer(c, v) /\ behind' = behind \cup {c}
  BY DEF AnalyzeFile
<1>6. v \in Analysis
  BY <1>1, <1>2, OwnAnalysis DEF Inv
<1>7. v.bytes = call[c].bytes /\ v.of \notin Unsupported
  <2>1. v.bytes = call[c].bytes /\ v.of = call[c].name
    BY <1>1, <1>2, OwnAnalysis DEF Inv
  <2>2. QED
    BY <2>1 DEF AnalyzeFile, Succeeds
<1> HIDE DEF v
<1>4. /\ "map" \in DOMAIN l1' /\ DOMAIN l1'.map \subseteq Names \X Nat
      /\ \A k \in DOMAIN l1'.map : l1'.map[k] \in Analysis
  BY <1>1, <1>3, <1>6, StoreMap DEF Inv
<1>5. QED
  BY <1>1, <1>2, <1>3, <1>4, <1>6, <1>7, AnswerStep

LEMMA AnalyzeModuleInv ==
  ASSUME Inv, NEW c \in Calls, AnalyzeModule(c)
  PROVE  Inv'
<1>1. /\ Begun(c) /\ call[c].pc # "answered" /\ UNCHANGED <<versions, l1, l2>>
      /\ call[c].tool = "analyze_module"
  BY DEF AnalyzeModule, Succeeds, Begun
<1>2. call[c].bytes \in Contents /\ call[c].tool \in Tools
  BY <1>1 DEF AnalyzeModule, Succeeds, Inv, Shape, CallShape
<1> DEFINE v == AnalysisOf(c, Analysed(c))
<1>3. Analysed(c) \in Contents /\ call' = Answer(c, v)
        /\ behind' = behind \cup {c}
  BY DEF AnalyzeModule, Succeeds
<1>6. v \in Analysis
  BY <1>1, <1>3, OwnAnalysis DEF Inv
<1> HIDE DEF v
<1>4. /\ "map" \in DOMAIN l1' /\ DOMAIN l1'.map \subseteq Names \X Nat
      /\ \A k \in DOMAIN l1'.map : l1'.map[k] \in Analysis
  BY <1>1, L1Same
<1>5. QED
  BY <1>1, <1>2, <1>3, <1>4, <1>6, AnswerStep

LEMMA PlainAnswerInv ==
  ASSUME Inv, NEW c \in Calls, NEW v \in Analysis, Begun(c), call[c].pc # "answered",
         call' = Answer(c, v), UNCHANGED <<versions, l1, l2, behind>>
  PROVE  Inv'
<1>1. /\ "map" \in DOMAIN l1' /\ DOMAIN l1'.map \subseteq Names \X Nat
      /\ \A k \in DOMAIN l1'.map : l1'.map[k] \in Analysis
  BY L1Same
<1>2. QED
  BY <1>1, AnswerStep

LEMMA AnalysisFailsInv ==
  ASSUME Inv, NEW c \in Calls, AnalysisFails(c)
  PROVE  Inv'
BY RefuseInv DEF AnalysisFails, Begun

LEMMA UnsupportedFallbackInv ==
  ASSUME Inv, NEW c \in Calls, UnsupportedFallback(c)
  PROVE  Inv' /\ call[c].name \in Unsupported
               /\ \E v \in Analysis : call' = Answer(c, v)
<1> DEFINE again == OnDisk(FileOf[call[c].name])
           y == IF call[c].tool = "analyze_module" THEN call[c].bytes
                ELSE IF again = Absent THEN Empty ELSE again
<1>1. /\ Begun(c) /\ call[c].pc # "answered" /\ call[c].name \in Unsupported
      /\ UNCHANGED <<versions, l1, l2, behind>>
      /\ call' = Answer(c, AnalysisOf(c, y))
  BY DEF UnsupportedFallback, Begun
<1>2. call[c].bytes \in Contents
  BY DEF UnsupportedFallback, Inv, Shape, CallShape
<1>3. again \in Contents \cup {Absent}
  BY <1>1, CallFields
<1>4. y \in Contents
  BY <1>2, <1>3, FileCacheAssumption
<1> HIDE DEF y
<1>5. AnalysisOf(c, y) \in Analysis
  BY <1>1, <1>4, OwnAnalysis DEF Inv
<1>6. QED
  BY <1>1, <1>5, PlainAnswerInv

LEMMA RetryInv ==
  ASSUME Inv, NEW c \in Calls, Retry(c)
  PROVE  Inv'
<1> DEFINE v == OnDisk(FileOf[call[c].name])
<1>1. /\ Begun(c) /\ call[c].pc # "answered"
      /\ UNCHANGED <<versions, l1, l2, behind>>
      /\ call' = IF v \in Contents \ Unparsable
                 THEN Answer(c, AnalysisOf(c, v)) ELSE Refuse(c)
  BY DEF Retry, Begun
<1> HIDE DEF v
<1>2. CASE v \in Contents \ Unparsable
  <2>1. AnalysisOf(c, v) \in Analysis
    BY <1>1, <1>2, OwnAnalysis DEF Inv
  <2>2. QED
    BY <1>1, <1>2, <2>1, PlainAnswerInv
<1>3. CASE v \notin Contents \ Unparsable
  BY <1>1, <1>3, RefuseInv
<1>4. QED
  BY <1>2, <1>3

LEMMA L2PutInv ==
  ASSUME Inv, NEW c \in Calls, L2Put(c)
  PROVE  Inv'
<1>1. /\ c \in behind /\ behind' = behind \ {c}
      /\ UNCHANGED <<versions, l1, call>>
  BY DEF L2Put
<1>2. Queued(c)
  BY <1>1 DEF Inv, Disk
<1>3. /\ l2' \in [Tools -> [Contents -> Analysis \cup {NoValue}]]
      /\ DiskEntriesTruthful'
  <2>1. CASE l2' = l2
    BY <2>1 DEF Inv, Shape, Typed, Disk, DiskEntriesTruthful, Truthful
  <2>2. CASE l2' = [l2 EXCEPT ![call[c].tool][call[c].bytes] = call[c].value]
    <3>1. call[c].value \in Analysis \cup {NoValue}
      BY CallFields DEF CallState, Moved
    <3>2. l2 \in [Tools -> [Contents -> Analysis \cup {NoValue}]]
      BY DEF Inv, Shape, Typed
    <3>3. l2' \in [Tools -> [Contents -> Analysis \cup {NoValue}]]
      BY <1>2, <2>2, <3>1, <3>2 DEF Queued
    <3>4. ASSUME NEW h \in Contents, l2'["analyze_file"][h] # NoValue
          PROVE  /\ l2'["analyze_file"][h].bytes = h
                 /\ l2'["analyze_file"][h].of \notin Unsupported
      <4>1. CASE call[c].tool = "analyze_file" /\ call[c].bytes = h
        BY <1>2, <2>2, <3>2, <4>1 DEF Queued
      <4>2. CASE ~(call[c].tool = "analyze_file" /\ call[c].bytes = h)
        <5>1. l2'["analyze_file"][h] = l2["analyze_file"][h]
          BY <1>2, <2>2, <3>2, <4>2 DEF Queued, Tools
        <5>2. QED
          BY <3>4, <5>1 DEF Inv, Disk, DiskEntriesTruthful, Truthful
      <4>3. QED
        BY <4>1, <4>2
    <3>5. QED
      BY <3>3, <3>4 DEF DiskEntriesTruthful, Truthful
  <2>3. QED
    BY <2>1, <2>2 DEF L2Put
<1>4. Typed' /\ \A d \in Calls : CallShape(d)'
  BY <1>1, <1>3 DEF Inv, Shape, Typed, CallShape, Begun
<1>5. \A d \in behind' : Queued(d)'
  BY <1>1 DEF Inv, Disk, Queued
<1>6. QED
  BY <1>3, <1>4, <1>5 DEF Inv, Shape, Disk

(* A write adds a version to one file.                                      *)
LEMMA WriteVersions ==
  ASSUME Shape, NEW f \in Files, NEW v \in Contents \cup {Absent}, Write(f, v)
  PROVE  /\ versions' \in [Files -> Seq(Version)]
         /\ \A g \in Files : Len(versions'[g]) >= Len(versions[g])
         /\ \A g \in Files : \A i \in 1..Len(versions[g]) :
              versions'[g][i] = versions[g][i]
         /\ \A g \in Files \ {f} : versions'[g] = versions[g]
         /\ Len(versions'[f]) = Len(versions[f]) + 1
         /\ \E m \in {Mtime(f), Mtime(f) + 1} :
              /\ FineMtime => m # Mtime(f)
              /\ versions'[f][Len(versions[f]) + 1] = [content |-> v, mtime |-> m]
<1>1. PICK m \in {Mtime(f), Mtime(f) + 1} :
        /\ FineMtime => m # Mtime(f)
        /\ versions' = [versions EXCEPT ![f] = Append(@, [content |-> v, mtime |-> m])]
  BY DEF Write
<1>2. versions \in [Files -> Seq(Version)] /\ \A g \in Files : Len(versions[g]) >= 1
  BY DEF Shape, Typed
<1>3. Mtime(f) \in Nat
  BY LastVersion DEF Shape
<1> DEFINE w == [content |-> v, mtime |-> m]
<1>4. w \in Version
  BY <1>3 DEF Version
<1> HIDE DEF w
<1>5. /\ Append(versions[f], w) \in Seq(Version)
      /\ Len(Append(versions[f], w)) = Len(versions[f]) + 1
      /\ \A i \in 1..Len(versions[f]) : Append(versions[f], w)[i] = versions[f][i]
      /\ Append(versions[f], w)[Len(versions[f]) + 1] = w
  BY <1>2, <1>4, AppendVersion
<1>6. /\ versions' \in [Files -> Seq(Version)]
      /\ versions'[f] = Append(versions[f], w)
      /\ \A g \in Files \ {f} : versions'[g] = versions[g]
  BY <1>1, <1>2, <1>5 DEF w
<1>7. \A g \in Files : Len(versions[g]) \in Nat
  BY <1>2
<1>8. ASSUME NEW g \in Files
      PROVE  /\ Len(versions'[g]) >= Len(versions[g])
             /\ \A i \in 1..Len(versions[g]) : versions'[g][i] = versions[g][i]
  BY <1>5, <1>6, <1>7
<1>9. QED
  BY <1>1, <1>5, <1>6, <1>8 DEF w

LEMMA WriteInv ==
  ASSUME Inv, NEW f \in Files, NEW v \in Contents \cup {Absent}, Write(f, v),
         UNCHANGED <<l1, l2, call, behind>>
  PROVE  Inv'
<1>1. /\ versions' \in [Files -> Seq(Version)]
      /\ \A g \in Files : Len(versions'[g]) >= Len(versions[g])
  BY WriteVersions DEF Inv
<1>2. \A g \in Files : Len(versions[g]) \in Nat /\ Len(versions'[g]) \in Nat
                        /\ Len(versions[g]) >= 1
  BY <1>1 DEF Inv, Shape, Typed
<1>3. \A g \in Files : Len(versions'[g]) >= 1
  BY <1>1, <1>2
<1>4. Typed'
  BY <1>1, <1>3 DEF Inv, Shape, Typed
<1>5. QED
  BY <1>4 DEF Inv, Shape, CallShape, Begun, Disk, Queued, DiskEntriesTruthful, Truthful

LEMMA InvalidateInv ==
  ASSUME Inv, NEW e \in Edits, Invalidate(e)
  PROVE  /\ Inv'
         /\ DOMAIN l1'.map \subseteq DOMAIN l1.map
         /\ \A k \in DOMAIN l1'.map : l1'.map[k] = l1.map[k]
<1>1. /\ "map" \in DOMAIN l1' /\ DOMAIN l1'.map \subseteq DOMAIN l1.map
      /\ \A k \in DOMAIN l1'.map : l1'.map[k] = l1.map[k]
  BY DropMap DEF Invalidate
<1>2. UNCHANGED <<versions, l2, call, behind>>
  BY DEF Invalidate
<1>3. /\ DOMAIN l1'.map \subseteq Names \X Nat
      /\ \A k \in DOMAIN l1'.map : l1'.map[k] \in Analysis
  BY <1>1 DEF Inv, Shape, Typed
<1>4. Typed'
  BY <1>1, <1>2, <1>3 DEF Inv, Shape, Typed
<1>5. Inv'
  BY <1>2, <1>4 DEF Inv, Shape, CallShape, Begun, Disk, Queued,
                    DiskEntriesTruthful, Truthful
<1>6. QED
  BY <1>1, <1>5

LEMMA RestartInv ==
  ASSUME Inv, Restart
  PROVE  Inv' /\ DOMAIN l1'.map = {}
             /\ \A c \in Calls : call'[c].pc \in {"new", "lost"}
<1>1. "map" \in DOMAIN l1' /\ DOMAIN l1'.map = {}
  BY DEF Restart, EmptyLru
<1>2. NewCall \in CallState /\ [NewCall EXCEPT !.pc = "lost"] \in CallState
      /\ NewCall.pc = "new" /\ [NewCall EXCEPT !.pc = "lost"].pc = "lost"
  BY DEF NewCall, CallState
<1>3. call' = [c \in Calls |-> IF call[c].pc = "new" THEN NewCall
                               ELSE [NewCall EXCEPT !.pc = "lost"]]
  BY DEF Restart
<1>4. call' \in [Calls -> CallState] /\ \A c \in Calls : call'[c].pc \in {"new", "lost"}
  BY <1>2, <1>3
<1>5. behind' = {} /\ UNCHANGED <<versions, l2>>
  BY DEF Restart
<1>6. DOMAIN l1'.map \subseteq Names \X Nat /\ \A k \in DOMAIN l1'.map : l1'.map[k] \in Analysis
  BY <1>1, Zenon
<1>7. Typed'
  BY <1>1, <1>4, <1>5, <1>6 DEF Inv, Shape, Typed
<1>8. \A c \in Calls : CallShape(c)'
  BY <1>4 DEF CallShape, Begun
<1>9. Disk'
  BY <1>5 DEF Inv, Disk, DiskEntriesTruthful, Truthful
<1>10. QED
  BY <1>1, <1>4, <1>7, <1>8, <1>9 DEF Inv, Shape

LEMMA StepInv == Inv /\ [Next]_vars => Inv'
<1> SUFFICES ASSUME Inv, [Next]_vars PROVE Inv'
  OBVIOUS
<1>1. ASSUME NEW c \in Calls, CallStep(c) PROVE Inv'
  <2>1. CASE \E n \in Names : \/ \E t \in {"analyze_file", "complete"} : Stat(c, t, n)
                             \/ ReadModule(c, n)
    <3>1. PICK n \in Names : \/ \E t \in {"analyze_file", "complete"} : Stat(c, t, n)
                             \/ ReadModule(c, n)
      BY <2>1
    <3>2. QED
      BY <3>1, BeginInv
  <2>2. CASE L1Hit(c)
    BY <2>2, L1HitInv
  <2>3. CASE L1Miss(c)
    BY <2>3, L1MissInv
  <2>4. CASE ReadFile(c)
    BY <2>4, ReadFileInv
  <2>5. CASE L2Hit(c)
    BY <2>5, L2HitInv
  <2>6. CASE L2Miss(c)
    BY <2>6, L2MissInv
  <2>7. CASE AnalyzeFile(c)
    BY <2>7, AnalyzeFileInv
  <2>8. CASE AnalyzeModule(c)
    BY <2>8, AnalyzeModuleInv
  <2>9. CASE AnalysisFails(c)
    BY <2>9, AnalysisFailsInv
  <2>10. CASE UnsupportedFallback(c)
    BY <2>10, UnsupportedFallbackInv
  <2>11. CASE Retry(c)
    BY <2>11, RetryInv
  <2>12. CASE L2Put(c)
    BY <2>12, L2PutInv
  <2>13. QED
    BY <1>1, <2>1, <2>2, <2>3, <2>4, <2>5, <2>6, <2>7, <2>8, <2>9, <2>10,
       <2>11, <2>12 DEF CallStep
<1>2. ASSUME NEW e \in Edits, NEW n \in Names, NEW v \in Contents, EditWrite(e, n, v)
      PROVE  Inv'
  <2>1. FileOf[n] \in Files
    BY FileCacheAssumption
  <2>2. QED
    BY <1>2, <2>1, WriteInv DEF EditWrite
<1>3. ASSUME NEW e \in Edits, Invalidate(e) PROVE Inv'
  BY <1>3, InvalidateInv
<1>4. ASSUME NEW f \in Files, NEW v \in Contents \cup {Absent}, OutsideWrite(f, v)
      PROVE  Inv'
  BY <1>4, WriteInv DEF OutsideWrite
<1>5. CASE Restart
  BY <1>5, RestartInv
<1>6. CASE UNCHANGED vars
  BY <1>6 DEF vars, Inv, Shape, Typed, CallShape, Begun, Disk, Queued,
              DiskEntriesTruthful, Truthful
<1>7. QED
  BY <1>1, <1>2, <1>3, <1>4, <1>5, <1>6 DEF Next

LEMMA InitInv == Init => Inv
<1> SUFFICES ASSUME Init PROVE Inv
  OBVIOUS
<1>1. behind = {} /\ l2 = [t \in Tools |-> [h \in Contents |-> NoValue]]
  BY DEF Init
<1>2. DiskEntriesTruthful
  BY <1>1 DEF DiskEntriesTruthful, Truthful, Tools
<1>3. QED
  BY <1>1, <1>2, InitShape DEF Inv, Disk

(* In every behaviour, an entry that analyze_file left on disk was computed *)
(* from the content it is keyed by (DiskCache::put and get, with the hash   *)
(* of the buffer that was analysed), whatever is read, written, evicted,    *)
(* lost or restarted meanwhile, and without any assumption on mtimes.       *)
THEOREM DiskTruthful == Spec => []DiskEntriesTruthful
<1>1. Inv => DiskEntriesTruthful
  BY DEF Inv, Disk
<1>2. QED
  BY InitInv, StepInv, <1>1, PTL DEF Spec

-----------------------------------------------------------------------------
(* Freshness, when no two writes of a file share an mtime: the mtime of a   *)
(* version is then its position in the file's history, an L1 entry holds a  *)
(* content the file had at or after the version its key names, and a call   *)
(* holds a content the file had since the version the call began with.      *)
Since(f, i) == {versions[f][j].content : j \in i..Len(versions[f])}

Stamps == \A f \in Files : \A i \in 1..Len(versions[f]) : versions[f][i].mtime = i

L1True(k) ==
  /\ k[2] \in 1..Len(versions[FileOf[k[1]]])
  /\ l1.map[k].bytes \in Since(FileOf[k[1]], k[2])

Cached(c) == Begun(c) /\ call[c].tool \in {"analyze_file", "complete"}

CallTrue(c) ==
  Cached(c) =>
    /\ call[c].from \in 1..Len(versions[FileOf[call[c].name]])
    /\ call[c].key \in {NoKey, call[c].from}
    /\ call[c].pc \in {"l2", "analyze"} =>
         call[c].bytes \in Since(FileOf[call[c].name], call[c].from)
    /\ call[c].pc = "answered" /\ call[c].name \notin Unsupported =>
         call[c].value.bytes \in Since(FileOf[call[c].name], call[c].from)

Track == Stamps /\ (\A k \in DOMAIN l1.map : L1True(k)) /\ \A c \in Calls : CallTrue(c)

(* A file's history only grows.                                             *)
Grown ==
  \A f \in Files :
    /\ Len(versions'[f]) >= Len(versions[f])
    /\ \A i \in 1..Len(versions[f]) : versions'[f][i] = versions[f][i]

LEMMA SinceGrows ==
  ASSUME Shape, Shape', Grown, NEW f \in Files, NEW i \in 1..Len(versions[f])
  PROVE  Since(f, i) \subseteq Since(f, i)' /\ i \in 1..Len(versions'[f])
<1>1. Len(versions[f]) \in Nat /\ Len(versions'[f]) \in Nat
  BY DEF Shape, Typed
<1>2. Len(versions'[f]) >= Len(versions[f])
      /\ \A j \in 1..Len(versions[f]) : versions'[f][j] = versions[f][j]
  BY DEF Grown
<1>3. ASSUME NEW x \in Since(f, i) PROVE x \in Since(f, i)'
  <2>1. PICK j \in i..Len(versions[f]) : x = versions[f][j].content
    BY DEF Since
  <2>2. j \in 1..Len(versions[f]) /\ j \in i..Len(versions'[f])
    BY <1>1, <1>2
  <2>3. x = versions'[f][j].content
    BY <1>2, <2>1, <2>2
  <2>4. QED
    BY <2>2, <2>3 DEF Since
<1>4. QED
  BY <1>1, <1>2, <1>3

(* The content on disk is one the file has had since any of its versions.   *)
LEMMA OnDiskSince ==
  ASSUME Shape, NEW f \in Files, NEW i \in 1..Len(versions[f])
  PROVE  OnDisk(f) \in Since(f, i)
<1>1. Len(versions[f]) \in i..Len(versions[f])
  BY LastVersion
<1>2. OnDisk(f) = versions[f][Len(versions[f])].content
  BY LastVersion DEF Shape
<1>3. QED
  BY <1>1, <1>2 DEF Since

LEMMA InitTrack == Init => Track
<1> SUFFICES ASSUME Init PROVE Track
  OBVIOUS
<1>1. Stamps
  <2>1. ASSUME NEW f \in Files, NEW i \in 1..Len(versions[f])
        PROVE  versions[f][i].mtime = i
    <3>1. PICK x \in Contents \cup {Absent} : versions[f] = <<[content |-> x, mtime |-> 1]>>
      BY DEF Init
    <3>2. i = 1
      BY <3>1
    <3>3. QED
      BY <3>1, <3>2
  <2>2. QED
    BY <2>1 DEF Stamps
<1>2. DOMAIN l1.map = {}
  BY DEF Init, EmptyLru
<1>3. \A c \in Calls : ~Begun(c)
  BY DEF Init, NewCall, Begun
<1>4. \A c \in Calls : CallTrue(c)
  BY <1>3 DEF CallTrue, Cached
<1>5. \A k \in DOMAIN l1.map : L1True(k)
  BY <1>2
<1>6. QED
  BY <1>1, <1>4, <1>5 DEF Track

(* The steps of a call leave what the others know as it was.                *)
LEMMA OwnTrack ==
  ASSUME Inv, Track, NEW c \in Calls, OwnStep(c), versions' = versions,
         CallTrue(c)', \A k \in DOMAIN l1'.map : L1True(k)'
  PROVE  Track'
<1>1. Stamps'
  BY DEF Track, Stamps
<1>2. ASSUME NEW d \in Calls PROVE CallTrue(d)'
  <2>1. CASE d = c
    BY <2>1
  <2>2. CASE d # c
    <3>1. call'[d] = call[d] /\ CallTrue(d)
      BY <2>2 DEF OwnStep, Track
    <3>2. QED
      BY <3>1 DEF CallTrue, Cached, Begun, Since
  <2>3. QED
    BY <2>1, <2>2
<1>3. QED
  BY <1>1, <1>2 DEF Track

LEMMA L1SameTrue ==
  ASSUME Track, l1'.map = l1.map, versions' = versions
  PROVE  \A k \in DOMAIN l1'.map : L1True(k)'
BY DEF Track, L1True, Since

LEMMA StoreTrue ==
  ASSUME Inv, Track, NEW c \in Calls, NEW v \in Analysis, Cached(c), L1Store(c, v),
         versions' = versions, v.bytes \in Since(FileOf[call[c].name], call[c].from)
  PROVE  \A k \in DOMAIN l1'.map : L1True(k)'
<1>1. ASSUME NEW k \in DOMAIN l1'.map PROVE L1True(k)'
  <2>1. CASE k \in DOMAIN l1.map /\ l1'.map[k] = l1.map[k]
    BY <2>1 DEF Track, L1True, Since
  <2>2. CASE call[c].key # NoKey /\ k = L1Key(c) /\ l1'.map[k] = v
    <3>1. k[1] = call[c].name /\ k[2] = call[c].from
          /\ call[c].from \in 1..Len(versions[FileOf[call[c].name]])
      BY <2>2 DEF Track, CallTrue, L1Key
    <3>2. QED
      BY <2>2, <3>1 DEF L1True, Since
  <2>3. QED
    BY <2>1, <2>2, StoreMap DEF Inv, Cached
<1>2. QED
  BY <1>1

(* A content the file of a call had since the call began.                   *)
Witnessed(c, y) == Cached(c) => y \in Since(FileOf[call[c].name], call[c].from)

LEMMA AnswerTrack ==
  ASSUME Inv, Track, NEW c \in Calls, NEW v \in Analysis, Begun(c), call' = Answer(c, v),
         versions' = versions, \A k \in DOMAIN l1'.map : L1True(k)',
         call[c].name \notin Unsupported => Witnessed(c, v.bytes)
  PROVE  Track'
<1>1. OwnStep(c) /\ call'[c] = [call[c] EXCEPT !.pc = "answered", !.value = v]
  BY AnswerOwn DEF Inv
<1>2. /\ call'[c].pc = "answered" /\ call'[c].value = v
      /\ call'[c].name = call[c].name /\ call'[c].tool = call[c].tool
      /\ call'[c].from = call[c].from /\ call'[c].key = call[c].key
  BY <1>1, CallFields DEF CallState, Moved
<1>3. CallTrue(c)
  BY DEF Track
<1>4. CallTrue(c)'
  BY <1>2, <1>3 DEF CallTrue, Cached, Begun, Since, Witnessed
<1>5. QED
  BY <1>1, <1>4, OwnTrack

LEMMA MoveTrack ==
  ASSUME Inv, Track, NEW c \in Calls, NEW p \in {"read", "retry", "l2", "analyze", "error"},
         NEW y \in Contents \cup {NoValue}, Begun(c),
         p \in {"read", "retry"} => call[c].tool = "analyze_file",
         p \in {"l2", "analyze"} => call[c].tool \in Tools /\ y \in Contents,
         call' = [call EXCEPT ![c] = Moved(c, p, y)],
         versions' = versions, l1' = l1,
         p \in {"l2", "analyze"} => Witnessed(c, y)
  PROVE  Track'
<1>0. Shape
  BY DEF Inv
<1>1. OwnStep(c) /\ call'[c] = Moved(c, p, y)
  BY <1>0, MoveOwn
<1>2. /\ call'[c].pc = p /\ call'[c].bytes = y
      /\ call'[c].name = call[c].name /\ call'[c].tool = call[c].tool
      /\ call'[c].from = call[c].from /\ call'[c].key = call[c].key
  BY <1>1, CallFields DEF CallState, Moved
<1>3. CallTrue(c)
  BY DEF Track
<1>4. CallTrue(c)'
  BY <1>2, <1>3 DEF CallTrue, Cached, Begun, Since, Witnessed
<1>5. \A k \in DOMAIN l1'.map : L1True(k)'
  BY L1SameTrue
<1>6. QED
  BY <1>1, <1>4, <1>5, OwnTrack

(* A step that changes only where a call is.                                *)
LEMMA PcTrack ==
  ASSUME Inv, Track, NEW c \in Calls, NEW p \in {"read", "analyze", "error"}, Begun(c),
         p = "read" => call[c].tool = "analyze_file",
         p = "analyze" => call[c].pc = "l2",
         call' = [call EXCEPT ![c].pc = p], versions' = versions, l1' = l1
  PROVE  Track'
<1>1. [call[c] EXCEPT !.pc = p] = Moved(c, p, call[c].bytes)
  BY CallFields DEF CallState, Moved
<1>2. call' = [call EXCEPT ![c] = Moved(c, p, call[c].bytes)]
  BY <1>1, CallFields
<1>3. p \in {"l2", "analyze"} => call[c].tool \in Tools /\ call[c].bytes \in Contents
  BY DEF Inv, Shape, CallShape
<1>4. p \in {"l2", "analyze"} => Witnessed(c, call[c].bytes)
  BY DEF Track, CallTrue, Witnessed
<1>5. call[c].bytes \in Contents \cup {NoValue}
  BY CallFields
<1>6. QED
  BY <1>2, <1>3, <1>4, <1>5, MoveTrack

LEMMA BeginTrack ==
  ASSUME Inv, Track, NEW c \in Calls, NEW n \in Names,
         NEW t \in {"analyze_file", "complete"}, Stat(c, t, n) \/ ReadModule(c, n)
  PROVE  Track'
<1>1. FileOf[n] \in Files
  BY FileCacheAssumption
<1>2. /\ Len(versions[FileOf[n]]) \in 1..Len(versions[FileOf[n]])
      /\ Mtime(FileOf[n]) = versions[FileOf[n]][Len(versions[FileOf[n]])].mtime
  BY <1>1, LastVersion DEF Inv, Shape
<1>3. Mtime(FileOf[n]) = Len(versions[FileOf[n]])
  BY <1>1, <1>2 DEF Track, Stamps
<1>4. versions' = versions /\ l1' = l1
  BY DEF Stat, ReadModule
<1>5. \A k \in DOMAIN l1'.map : L1True(k)'
  BY <1>4, L1SameTrue
<1>6. CASE Stat(c, t, n)
  <2>1. /\ OwnStep(c) /\ call'[c].pc = "stat" /\ call'[c].name = n
        /\ call'[c].from = Len(versions[FileOf[n]])
        /\ call'[c].key \in {NoKey, Mtime(FileOf[n])}
    BY <1>6, StatOwn DEF Inv
  <2>2. CallTrue(c)'
    BY <1>2, <1>3, <1>4, <2>1 DEF CallTrue
  <2>3. QED
    BY <1>4, <1>5, <2>1, <2>2, OwnTrack
<1>7. CASE ReadModule(c, n)
  <2>1. OwnStep(c) /\ call'[c].tool = "analyze_module"
    BY <1>7, ReadModuleOwn DEF Inv
  <2>2. CallTrue(c)'
    BY <2>1 DEF CallTrue, Cached
  <2>3. QED
    BY <1>4, <1>5, <2>1, <2>2, OwnTrack
<1>8. QED
  BY <1>6, <1>7

LEMMA L1HitTrack ==
  ASSUME Inv, Track, NEW c \in Calls, L1Hit(c)
  PROVE  Track'
<1>1. Begun(c) /\ call[c].key # NoKey /\ L1Key(c) \in DOMAIN l1.map
  BY DEF L1Hit, Begun, LruHas
<1>2. l1'.map = l1.map /\ versions' = versions
  BY L1HitInv DEF L1Hit
<1>3. L1True(L1Key(c)) /\ l1.map[L1Key(c)] \in Analysis
  BY <1>1 DEF Track, Inv, Shape, Typed
<1>4. Witnessed(c, l1.map[L1Key(c)].bytes)
  BY <1>1, <1>3 DEF Witnessed, Track, CallTrue, L1True, L1Key
<1>5. \A k \in DOMAIN l1'.map : L1True(k)'
  BY <1>2, L1SameTrue
<1>6. call' = Answer(c, l1.map[L1Key(c)])
  BY DEF L1Hit
<1>7. QED
  BY <1>1, <1>2, <1>3, <1>4, <1>5, <1>6, AnswerTrack

LEMMA L1MissTrack ==
  ASSUME Inv, Track, NEW c \in Calls, L1Miss(c)
  PROVE  Track'
<1>1. Begun(c) /\ versions' = versions /\ l1' = l1
  BY DEF L1Miss, Begun
<1>2. CASE call[c].tool = "complete"
  BY <1>1, <1>2, PcTrack DEF L1Miss, Refuse
<1>3. CASE call[c].tool # "complete"
  <2>1. call[c].tool = "analyze_file"
    BY <1>3 DEF Inv, Shape, CallShape, L1Miss
  <2>2. QED
    BY <1>1, <1>3, <2>1, PcTrack DEF L1Miss
<1>4. QED
  BY <1>2, <1>3

LEMMA ReadFileTrack ==
  ASSUME Inv, Track, NEW c \in Calls, ReadFile(c)
  PROVE  Track'
<1> DEFINE bytes == OnDisk(FileOf[call[c].name])
           p == IF bytes = Absent THEN "retry" ELSE "l2"
           y == IF bytes = Absent THEN Empty ELSE bytes
<1>1. Begun(c) /\ versions' = versions /\ l1' = l1 /\ call[c].tool = "analyze_file"
  BY DEF ReadFile, Begun, Inv, Shape, CallShape
<1>2. bytes \in Contents \cup {Absent} /\ FileOf[call[c].name] \in Files
  BY <1>1, CallFields
<1>3. call[c].from \in 1..Len(versions[FileOf[call[c].name]])
  BY <1>1 DEF Track, CallTrue, Cached
<1>4. bytes \in Since(FileOf[call[c].name], call[c].from)
  BY <1>2, <1>3, OnDiskSince DEF Inv
<1>5. call' = [call EXCEPT ![c] = Moved(c, p, y)]
  BY ReadFileInv
<1> HIDE DEF bytes
<1>6. p \in {"retry", "l2"} /\ y \in Contents /\ (p = "l2" => Witnessed(c, y))
  BY <1>2, <1>4, FileCacheAssumption DEF Witnessed
<1> HIDE DEF p, y
<1>7. QED
  BY <1>1, <1>5, <1>6, MoveTrack DEF Tools

LEMMA L2HitTrack ==
  ASSUME Inv, Track, NEW c \in Calls, L2Hit(c)
  PROVE  Track'
<1> DEFINE v == l2[call[c].tool][call[c].bytes]
<1>1. Begun(c) /\ versions' = versions
  BY DEF L2Hit, Begun
<1>2. call[c].tool \in Tools /\ call[c].bytes \in Contents
  BY DEF L2Hit, Inv, Shape, CallShape
<1>3. v \in Analysis
  BY <1>2 DEF L2Hit, Inv, Shape, Typed
<1>4. call' = Answer(c, v)
        /\ IF call[c].tool = "analyze_file" THEN L1Store(c, v) ELSE l1' = l1
  BY DEF L2Hit
<1>5. call[c].tool = "analyze_file" => v.bytes = call[c].bytes
  BY <1>2 DEF L2Hit, Inv, Disk, DiskEntriesTruthful, Truthful
<1>6. call[c].tool = "analyze_file" =>
        /\ Cached(c)
        /\ call[c].bytes \in Since(FileOf[call[c].name], call[c].from)
  BY <1>1 DEF L2Hit, Track, CallTrue, Cached
<1> HIDE DEF v
<1>7. Witnessed(c, v.bytes)
  BY <1>2, <1>5, <1>6 DEF Witnessed, Cached, Tools
<1>8. \A k \in DOMAIN l1'.map : L1True(k)'
  <2>1. CASE call[c].tool = "analyze_file"
    BY <1>1, <1>3, <1>4, <1>5, <1>6, <2>1, StoreTrue
  <2>2. CASE call[c].tool # "analyze_file"
    BY <1>1, <1>4, <2>2, L1SameTrue
  <2>3. QED
    BY <2>1, <2>2
<1>9. QED
  BY <1>1, <1>3, <1>4, <1>7, <1>8, AnswerTrack

LEMMA AnalyzeFileTrack ==
  ASSUME Inv, Track, NEW c \in Calls, AnalyzeFile(c)
  PROVE  Track'
<1>1. /\ Begun(c) /\ versions' = versions /\ call[c].tool = "analyze_file"
      /\ call[c].pc = "analyze"
  BY DEF AnalyzeFile, Succeeds, Begun
<1>2. call[c].bytes \in Contents
  BY <1>1 DEF Inv, Shape, CallShape
<1> DEFINE v == AnalysisOf(c, call[c].bytes)
<1>3. L1Store(c, v) /\ call' = Answer(c, v)
  BY DEF AnalyzeFile
<1>8. v \in Analysis /\ v.bytes = call[c].bytes
  BY <1>1, <1>2, OwnAnalysis DEF Inv
<1>4. Cached(c) /\ call[c].bytes \in Since(FileOf[call[c].name], call[c].from)
  BY <1>1 DEF Track, CallTrue, Cached
<1>9. v.bytes \in Since(FileOf[call[c].name], call[c].from)
  BY <1>4, <1>8
<1> HIDE DEF v
<1>5. \A k \in DOMAIN l1'.map : L1True(k)'
  BY <1>1, <1>3, <1>4, <1>8, <1>9, StoreTrue
<1>6. Witnessed(c, v.bytes)
  BY <1>9 DEF Witnessed
<1>7. QED
  BY <1>1, <1>3, <1>5, <1>6, <1>8, AnswerTrack

(* A call of analyze_module ends; a preview of an unsupported file does.    *)
LEMMA UntrackedAnswer ==
  ASSUME Inv, Track, NEW c \in Calls, AnalyzeModule(c) \/ UnsupportedFallback(c)
  PROVE  Track'
<1>1. Begun(c) /\ versions' = versions /\ l1' = l1
  BY DEF AnalyzeModule, UnsupportedFallback, Succeeds, Begun
<1>2. \A k \in DOMAIN l1'.map : L1True(k)'
  BY <1>1, L1SameTrue
<1>3. CASE AnalyzeModule(c)
  <2> DEFINE v == AnalysisOf(c, Analysed(c))
  <2>1. /\ Analysed(c) \in Contents /\ call' = Answer(c, v)
        /\ call[c].tool = "analyze_module"
    BY <1>3 DEF AnalyzeModule, Succeeds
  <2>2. v \in Analysis
    BY <1>1, <2>1, OwnAnalysis DEF Inv
  <2> HIDE DEF v
  <2>3. Witnessed(c, v.bytes)
    BY <2>1 DEF Witnessed, Cached
  <2>4. QED
    BY <1>1, <1>2, <2>1, <2>2, <2>3, AnswerTrack
<1>4. CASE UnsupportedFallback(c)
  BY <1>1, <1>2, <1>4, UnsupportedFallbackInv, AnswerTrack
<1>5. QED
  BY <1>3, <1>4

LEMMA RetryTrack ==
  ASSUME Inv, Track, NEW c \in Calls, Retry(c)
  PROVE  Track'
<1> DEFINE v == OnDisk(FileOf[call[c].name])
<1>1. /\ Begun(c) /\ versions' = versions /\ l1' = l1
      /\ call' = IF v \in Contents \ Unparsable
                 THEN Answer(c, AnalysisOf(c, v)) ELSE Refuse(c)
  BY DEF Retry, Begun
<1>2. FileOf[call[c].name] \in Files
  BY <1>1, CallFields
<1>3. Cached(c) => call[c].from \in 1..Len(versions[FileOf[call[c].name]])
  BY DEF Track, CallTrue
<1>4. Witnessed(c, v)
  BY <1>2, <1>3, OnDiskSince DEF Inv, Witnessed
<1>5. \A k \in DOMAIN l1'.map : L1True(k)'
  BY <1>1, L1SameTrue
<1> HIDE DEF v
<1>6. CASE v \in Contents \ Unparsable
  <2> DEFINE a == AnalysisOf(c, v)
  <2>1. a \in Analysis /\ a.bytes = v
    BY <1>1, <1>6, OwnAnalysis DEF Inv
  <2>2. call' = Answer(c, a)
    BY <1>1, <1>6
  <2> HIDE DEF a
  <2>3. Witnessed(c, a.bytes)
    BY <1>4, <2>1
  <2>4. QED
    BY <1>1, <1>5, <2>1, <2>2, <2>3, AnswerTrack
<1>7. CASE v \notin Contents \ Unparsable
  BY <1>1, <1>7, PcTrack DEF Refuse
<1>8. QED
  BY <1>6, <1>7

(* What calls and entries know stays true while histories grow.             *)
LEMMA GrownTrack ==
  ASSUME Inv, Inv', Track, Grown, Stamps', call' = call,
         DOMAIN l1'.map \subseteq DOMAIN l1.map,
         \A k \in DOMAIN l1'.map : l1'.map[k] = l1.map[k]
  PROVE  Track'
<1>1. ASSUME NEW k \in DOMAIN l1'.map PROVE L1True(k)'
  <2>1. k \in DOMAIN l1.map /\ L1True(k) /\ k \in Names \X Nat
    BY DEF Track, Inv, Shape, Typed
  <2>2. FileOf[k[1]] \in Files
    BY <2>1, FileCacheAssumption
  <2>3. /\ Since(FileOf[k[1]], k[2]) \subseteq Since(FileOf[k[1]], k[2])'
        /\ k[2] \in 1..Len(versions'[FileOf[k[1]]])
    BY <2>1, <2>2, SinceGrows DEF L1True, Inv
  <2>4. QED
    BY <2>1, <2>3 DEF L1True
<1>2. ASSUME NEW c \in Calls PROVE CallTrue(c)'
  <2>1. SUFFICES ASSUME Cached(c) PROVE CallTrue(c)'
    BY DEF CallTrue, Cached, Begun
  <2>2. FileOf[call[c].name] \in Files
    BY <2>1, CallFields DEF Cached
  <2>3. CallTrue(c)
    BY DEF Track
  <2>4. call[c].from \in 1..Len(versions[FileOf[call[c].name]])
    BY <2>1, <2>3 DEF CallTrue
  <2>5. /\ Since(FileOf[call[c].name], call[c].from)
             \subseteq Since(FileOf[call[c].name], call[c].from)'
        /\ call[c].from \in 1..Len(versions'[FileOf[call[c].name]])
    BY <2>2, <2>4, SinceGrows DEF Inv
  <2>6. QED
    BY <2>1, <2>3, <2>5 DEF CallTrue
<1>3. QED
  BY <1>1, <1>2 DEF Track

LEMMA WriteTrack ==
  ASSUME FineMtime, Inv, Track, NEW f \in Files, NEW v \in Contents \cup {Absent},
         Write(f, v), UNCHANGED <<l1, l2, call, behind>>
  PROVE  Track'
<1>1. /\ Inv'
      /\ versions' \in [Files -> Seq(Version)]
      /\ \A g \in Files : Len(versions'[g]) >= Len(versions[g])
      /\ \A g \in Files : \A i \in 1..Len(versions[g]) : versions'[g][i] = versions[g][i]
      /\ \A g \in Files \ {f} : versions'[g] = versions[g]
      /\ Len(versions'[f]) = Len(versions[f]) + 1
  BY WriteInv, WriteVersions DEF Inv
<1>2. Grown
  BY <1>1 DEF Grown
<1>3. Len(versions[f]) \in Nat /\ Len(versions[f]) >= 1 /\ Mtime(f) = Len(versions[f])
  <2>1. /\ Len(versions[f]) \in Nat /\ Len(versions[f]) >= 1
        /\ Mtime(f) = versions[f][Len(versions[f])].mtime
    BY LastVersion DEF Inv, Shape
  <2>2. Len(versions[f]) \in 1..Len(versions[f])
    BY <2>1
  <2>3. QED
    BY <2>1, <2>2 DEF Track, Stamps
<1>4. versions'[f][Len(versions[f]) + 1].mtime = Len(versions[f]) + 1
  <2>1. PICK m \in {Mtime(f), Mtime(f) + 1} :
          /\ FineMtime => m # Mtime(f)
          /\ versions'[f][Len(versions[f]) + 1] = [content |-> v, mtime |-> m]
    BY WriteVersions DEF Inv
  <2>2. m # Mtime(f)
    BY <2>1, Zenon
  <2>3. m = Len(versions[f]) + 1
    BY <1>3, <2>1, <2>2
  <2>4. QED
    BY <2>1, <2>3
<1>5. ASSUME NEW g \in Files, NEW i \in 1..Len(versions'[g])
      PROVE  versions'[g][i].mtime = i
  <2>1. CASE i \in 1..Len(versions[g])
    BY <1>1, <2>1 DEF Track, Stamps
  <2>2. CASE i \notin 1..Len(versions[g])
    <3>1. g = f
      BY <1>1, <2>2
    <3>2. i = Len(versions[f]) + 1
      BY <1>1, <1>3, <2>2, <3>1
    <3>3. QED
      BY <1>4, <3>1, <3>2
  <2>3. QED
    BY <2>1, <2>2
<1>6. Stamps'
  BY <1>5 DEF Stamps
<1>7. QED
  BY <1>1, <1>2, <1>6, GrownTrack

LEMMA StandTrack ==
  ASSUME Inv, Track, UNCHANGED <<versions, call>>,
         DOMAIN l1'.map \subseteq DOMAIN l1.map,
         \A k \in DOMAIN l1'.map : l1'.map[k] = l1.map[k]
  PROVE  Track'
<1>1. Stamps'
  BY DEF Track, Stamps
<1>2. ASSUME NEW k \in DOMAIN l1'.map PROVE L1True(k)'
  BY DEF Track, L1True, Since
<1>3. ASSUME NEW c \in Calls PROVE CallTrue(c)'
  <2>1. CallTrue(c)
    BY DEF Track
  <2>2. QED
    BY <2>1 DEF CallTrue, Cached, Begun, Since
<1>4. QED
  BY <1>1, <1>2, <1>3 DEF Track

LEMMA RestartTrack ==
  ASSUME Inv, Track, Restart
  PROVE  Track'
<1>1. DOMAIN l1'.map = {} /\ \A c \in Calls : call'[c].pc \in {"new", "lost"}
  BY RestartInv
<1>2. versions' = versions
  BY DEF Restart
<1>3. Stamps'
  BY <1>2 DEF Track, Stamps
<1>4. \A k \in DOMAIN l1'.map : L1True(k)'
  BY <1>1
<1>5. \A c \in Calls : CallTrue(c)'
  BY <1>1 DEF CallTrue, Cached, Begun
<1>6. QED
  BY <1>3, <1>4, <1>5 DEF Track

LEMMA StepTrack ==
  ASSUME FineMtime, Inv, Track, [Next]_vars
  PROVE  Track'
<1>1. ASSUME NEW c \in Calls, CallStep(c) PROVE Track'
  <2>1. CASE \E n \in Names : \/ \E t \in {"analyze_file", "complete"} : Stat(c, t, n)
                             \/ ReadModule(c, n)
    <3>1. PICK n \in Names : \/ \E t \in {"analyze_file", "complete"} : Stat(c, t, n)
                             \/ ReadModule(c, n)
      BY <2>1
    <3>2. QED
      BY <3>1, BeginTrack
  <2>2. CASE L1Hit(c)
    BY <2>2, L1HitTrack
  <2>3. CASE L1Miss(c)
    BY <2>3, L1MissTrack
  <2>4. CASE ReadFile(c)
    BY <2>4, ReadFileTrack
  <2>5. CASE L2Hit(c)
    BY <2>5, L2HitTrack
  <2>6. CASE L2Miss(c)
    BY <2>6, PcTrack DEF L2Miss, Begun
  <2>7. CASE AnalyzeFile(c)
    BY <2>7, AnalyzeFileTrack
  <2>8. CASE AnalyzeModule(c) \/ UnsupportedFallback(c)
    BY <2>8, UntrackedAnswer
  <2>9. CASE AnalysisFails(c)
    BY <2>9, PcTrack DEF AnalysisFails, Refuse, Begun
  <2>10. CASE Retry(c)
    BY <2>10, RetryTrack
  <2>11. CASE L2Put(c)
    BY <2>11, StandTrack DEF L2Put
  <2>12. QED
    BY <1>1, <2>1, <2>2, <2>3, <2>4, <2>5, <2>6, <2>7, <2>8, <2>9, <2>10,
       <2>11 DEF CallStep
<1>2. ASSUME NEW e \in Edits, NEW n \in Names, NEW v \in Contents, EditWrite(e, n, v)
      PROVE  Track'
  <2>1. FileOf[n] \in Files
    BY FileCacheAssumption
  <2>2. QED
    BY <1>2, <2>1, WriteTrack DEF EditWrite
<1>3. ASSUME NEW e \in Edits, Invalidate(e) PROVE Track'
  BY <1>3, InvalidateInv, StandTrack DEF Invalidate
<1>4. ASSUME NEW f \in Files, NEW v \in Contents \cup {Absent}, OutsideWrite(f, v)
      PROVE  Track'
  BY <1>4, WriteTrack DEF OutsideWrite
<1>5. CASE Restart
  BY <1>5, RestartTrack
<1>6. CASE UNCHANGED vars
  BY <1>6, StandTrack DEF vars
<1>7. QED
  BY <1>1, <1>2, <1>3, <1>4, <1>5, <1>6 DEF Next

LEMMA TrackFresh == Track => AnswersFresh
<1> SUFFICES ASSUME Track, NEW c \in Calls, call[c].pc = "answered",
                    call[c].tool \in {"analyze_file", "complete"},
                    call[c].name \notin Unsupported
             PROVE  Fresh(c)
  BY DEF AnswersFresh, AnsweredBy
<1>1. call[c].value.bytes \in Since(FileOf[call[c].name], call[c].from)
  BY DEF Track, CallTrue, Cached, Begun
<1>2. QED
  BY <1>1 DEF Since, Fresh, During

(* In every behaviour, when no two writes of a file share an mtime, what    *)
(* analyze_file and the completions answer was computed from a content the  *)
(* file had during the call: the mtime read before the bytes, the content   *)
(* hash and the invalidation by the edits together make both caches safe,   *)
(* for every number of files, spellings and calls and every capacity.       *)
THEOREM Freshness == FineMtime => (Spec => []AnswersFresh)
<1>1. Init => Inv /\ Track
  BY InitInv, InitTrack
<1>2. ASSUME FineMtime PROVE Inv /\ Track /\ [Next]_vars => (Inv /\ Track)'
  BY <1>2, StepInv, StepTrack
<1>3. Inv /\ Track => AnswersFresh
  BY TrackFresh
<1>4. SUFFICES ASSUME FineMtime PROVE Spec => []AnswersFresh
  OBVIOUS
<1>5. Inv /\ Track /\ [Next]_vars => (Inv /\ Track)'
  BY <1>2, <1>4
<1>6. QED
  BY <1>1, <1>3, <1>5, PTL DEF Spec
==============================================================================
