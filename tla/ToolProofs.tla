------------------------------ MODULE ToolProofs ------------------------------
(***************************************************************************)
(* What the tools that are functions of a request guarantee on any file    *)
(* system and for any request: the paths of edits, the working directory   *)
(* of a command, citations, wildcard imports, the pages of a file and what *)
(* an edit takes out of one.                                               *)
(***************************************************************************)
EXTENDS TextTools, FileAnswers, FiniteSetTheorems, SequenceTheorems, WellFoundedInduction, TLAPS

(* An answer is what the handler makes of the request.                      *)
AnswerInv ==
  /\ request \in Requests
  /\ Answered("edit_block") => answer = Block(request)
  /\ Answered("edit_path") => answer = EditPath(request)
  /\ Answered("exec_command") => answer = Check(request)
  /\ Answered("verify_anchors") => answer = VerifyAnchors(request)
  /\ Answered("wildcards") => answer = Imports(request)

LEMMA AnswersHold == TextSpec => []AnswerInv
<1>1. RequestInit => AnswerInv
  BY DEF RequestInit, AnswerInv, Answered
<1>2. AnswerInv /\ [TextNext]_requestVars => AnswerInv'
  <2> SUFFICES ASSUME AnswerInv, [TextNext]_requestVars PROVE AnswerInv'
    OBVIOUS
  <2>1. CASE EditNext
    BY <2>1 DEF EditNext, ReplaceBlock, ReplaceBatch, Answers, AnswerInv, Answered
  <2>2. CASE ResolveEditPath
    BY <2>2 DEF ResolveEditPath, Answers, AnswerInv, Answered
  <2>3. CASE CheckCommand
    BY <2>3 DEF CheckCommand, Answers, AnswerInv, Answered
  <2>4. CASE CheckAnchors
    BY <2>4 DEF CheckAnchors, Answers, AnswerInv, Answered
  <2>5. CASE ImportsNext
    BY <2>5 DEF ImportsNext, ResolveImports, LookupImport, Answers, AnswerInv, Answered
  <2>6. CASE UNCHANGED requestVars
    BY <2>6 DEF requestVars, AnswerInv, Answered
  <2>7. QED
    BY <2>1, <2>2, <2>3, <2>4, <2>5, <2>6 DEF TextNext
<1>3. QED
  BY <1>1, <1>2, PTL DEF TextSpec

-----------------------------------------------------------------------------
(* Numbers.                                                                *)

LEMMA LeastNat ==
  ASSUME NEW S \in SUBSET Nat, S # {}
  PROVE  \E m \in S : \A n \in S : m <= n
<1>1. PICK x \in S : \A y \in S : ~ (<<y, x>> \in OpToRel(<,Nat))
  BY NatLessThanWellFounded, WFMin
<1>2. OpToRel(<, Nat) = {ss \in Nat \X Nat : ss[1] < ss[2]}
  BY DEF OpToRel
<1> HIDE DEF OpToRel
<1>3. \A y \in S : ~ (<<y, x>> \in {ss \in Nat \X Nat : ss[1] < ss[2]})
  BY <1>1, <1>2, Zenon
<1>4. ASSUME NEW y \in S, y < x PROVE FALSE
  <2>1. <<y, x>> \in Nat \X Nat /\ <<y, x>>[1] < <<y, x>>[2]
    BY <1>4
  <2>2. QED
    BY <2>1, <1>3
<1>5. QED
  BY <1>4

(* A set that has 0 and with each number the next, up to n, has them all.   *)
LEMMA Upwards ==
  ASSUME NEW n \in Nat, NEW T, 0 \in T, \A i \in 1..n : i - 1 \in T => i \in T
  PROVE  \A i \in 0..n : i \in T
<1> DEFINE S == {i \in 0..n : i \notin T}
<1> SUFFICES ASSUME S # {} PROVE FALSE
  OBVIOUS
<1>1. S \in SUBSET Nat
  OBVIOUS
<1>2. PICK m \in S : \A i \in S : m <= i
  BY <1>1, LeastNat
<1>3. m # 0 /\ m \in 1..n /\ m - 1 \in 0..n /\ m - 1 < m
  OBVIOUS
<1>4. m - 1 \notin S
  BY <1>2, <1>3
<1>5. QED
  BY <1>3, <1>4

(* The least of a set of numbers.                                           *)
LEMMA MinLeast ==
  ASSUME NEW S \in SUBSET Nat, S # {}
  PROVE  Min(S) \in S /\ \A x \in S : Min(S) <= x
<1>1. \E m \in S : \A y \in S : m <= y
  BY LeastNat
<1>2. QED
  BY <1>1 DEF Min

(* The greatest of a set of numbers.                                        *)
LEMMA MaxIs ==
  ASSUME NEW S \in SUBSET Int, NEW m \in S, \A x \in S : x <= m
  PROVE  Max(S) = m
<1>1. \A x \in S : (\A y \in S : x >= y) <=> x = m
  OBVIOUS
<1>2. QED
  BY <1>1 DEF Max

(* The values that begin with a and go on, n times, by F.                   *)
Recursion(n, a, F) == CHOOSE g : g = [i \in 0..n |-> IF i = 0 THEN a ELSE F[<<i, g[i - 1]>>]]

LEMMA RecursionTo ==
  ASSUME NEW n \in Nat, NEW a, NEW F
  PROVE  LET g == Recursion(n, a, F)
         IN  /\ DOMAIN g = 0..n /\ g = [i \in DOMAIN g |-> g[i]]
             /\ g[0] = a /\ \A i \in 1..n : g[i] = F[<<i, g[i - 1]>>]
<1> DEFINE Def(k, g) == g = [i \in 0..k |-> IF i = 0 THEN a ELSE F[<<i, g[i - 1]>>]]
           T == {k \in Nat : \E g : Def(k, g)}
<1>1. 0 \in T
  <2> DEFINE g == [i \in 0..0 |-> a]
  <2>1. Def(0, g)
    OBVIOUS
  <2>2. QED
    BY <2>1
<1>2. ASSUME NEW k \in 1..n, k - 1 \in T PROVE k \in T
  <2>1. PICK g : Def(k - 1, g)
    BY <1>2
  <2>2. k \in Nat /\ k # 0 /\ k - 1 \in Nat /\ k - 1 \in 0..k /\ k - 1 # k
    OBVIOUS
  <2> DEFINE top == F[<<k, g[k - 1]>>]
             h == [i \in 0..k |-> IF i = k THEN top ELSE g[i]]
  <2>3. ASSUME NEW i \in 0..k
        PROVE  h[i] = IF i = 0 THEN a ELSE F[<<i, h[i - 1]>>]
    <3>1. CASE i = k
      BY <2>2, <3>1
    <3>2. CASE i # k
      <4>1. i \in 0..(k - 1) /\ (i # 0 => i - 1 \in 0..k /\ i - 1 # k)
        BY <2>2, <3>2
      <4>2. g[i] = IF i = 0 THEN a ELSE F[<<i, g[i - 1]>>]
        BY <2>1, <4>1
      <4>3. h[i] = g[i] /\ (i # 0 => h[i - 1] = g[i - 1])
        BY <3>2, <4>1
      <4>4. QED
        BY <4>2, <4>3
    <3>3. QED
      BY <3>1, <3>2
  <2>4. Def(k, h)
    <3>1. h = [i \in 0..k |-> h[i]]
      OBVIOUS
    <3> HIDE DEF h
    <3>2. QED
      BY <2>3, <3>1
  <2>5. QED
    BY <2>2, <2>4
<1>3. n \in T
  <2> HIDE DEF T
  <2>1. \A i \in 0..n : i \in T
    BY <1>1, <1>2, Upwards
  <2>2. QED
    BY <2>1
<1> DEFINE g == Recursion(n, a, F)
<1>4. Def(n, g)
  BY <1>3 DEF Recursion
<1> HIDE DEF g
<1>5. DOMAIN g = 0..n /\ g = [i \in DOMAIN g |-> g[i]]
  BY <1>4
<1>6. g[0] = a /\ \A i \in 1..n : g[i] = F[<<i, g[i - 1]>>]
  <2>1. \A i \in 0..n : g[i] = IF i = 0 THEN a ELSE F[<<i, g[i - 1]>>]
    BY <1>4, Zenon
  <2>2. 0 \in 0..n /\ \A i \in 1..n : i \in 0..n /\ i # 0
    OBVIOUS
  <2>3. QED
    BY <2>1, <2>2
<1>7. QED
  BY <1>5, <1>6 DEF g

-----------------------------------------------------------------------------
(* Paths.                                                                  *)

(* canonicalize goes through the names one by one.                          *)
LEMMA CanonicalFunction ==
  ASSUME NEW fs, NEW base, NEW names \in Seq(STRING)
  PROVE  \E reached : /\ Canonical(fs, base, names) = reached[Len(names)]
                      /\ reached[0] = At(base)
                      /\ \A i \in 1..Len(names) : reached[i] = Step(fs, reached[i - 1], names[i])
<1> DEFINE Def(n, g) == g = [i \in 0..n |-> IF i = 0 THEN At(base) ELSE Step(fs, g[i - 1], names[i])]
           T == {n \in Nat : \E g : Def(n, g)}
<1>1. Len(names) \in Nat
  OBVIOUS
<1>2. 0 \in T
  <2> DEFINE g == [i \in 0..0 |-> At(base)]
  <2>1. Def(0, g)
    OBVIOUS
  <2>2. QED
    BY <2>1
<1>3. ASSUME NEW n \in 1..Len(names), n - 1 \in T PROVE n \in T
  <2>1. PICK g : Def(n - 1, g)
    BY <1>3
  <2> DEFINE top == Step(fs, g[n - 1], names[n])
             h == [i \in 0..n |-> IF i = n THEN top ELSE g[i]]
  <2>2. n \in Nat /\ n # 0 /\ n - 1 \in Nat
    BY <1>1
  <2>3. \A i \in 0..n : i # n => i \in 0..(n - 1) /\ i - 1 # n
    BY <2>2
  <2>4. ASSUME NEW i \in 0..n
        PROVE  h[i] = IF i = 0 THEN At(base) ELSE Step(fs, h[i - 1], names[i])
    <3>1. CASE i = n
      <4>1. n - 1 \in 0..n /\ n - 1 # n
        BY <2>2
      <4>2. h[n] = top /\ h[n - 1] = g[n - 1]
        BY <4>1, <2>2
      <4>3. QED
        BY <3>1, <4>2, <2>2
    <3>2. CASE i # n
      <4>1. h[i] = g[i]
        BY <3>2
      <4>2. g[i] = IF i = 0 THEN At(base) ELSE Step(fs, g[i - 1], names[i])
        BY <2>1, <2>3, <3>2
      <4>3. i # 0 => i - 1 \in 0..n /\ i - 1 # n
        BY <2>2, <2>3, <3>2
      <4>4. i # 0 => h[i - 1] = g[i - 1]
        BY <4>3
      <4>5. QED
        BY <4>1, <4>2, <4>4
    <3>3. QED
      BY <3>1, <3>2
  <2> HIDE DEF top
  <2>5. Def(n, h)
    <3>1. h = [i \in 0..n |-> h[i]]
      OBVIOUS
    <3> HIDE DEF h
    <3>2. QED
      BY <2>4, <3>1
  <2>6. QED
    BY <2>2, <2>5
<1>4. Len(names) \in T
  <2> HIDE DEF T
  <2>1. \A i \in 0..Len(names) : i \in T
    BY <1>1, <1>2, <1>3, Upwards
  <2>2. QED
    BY <1>1, <2>1
<1> DEFINE f == CHOOSE g : Def(Len(names), g)
<1>5. Def(Len(names), f)
  BY <1>4
<1>6. Canonical(fs, base, names) = f[Len(names)]
  BY DEF Canonical
<1> HIDE DEF f
<1>7. /\ f[0] = At(base)
      /\ \A i \in 1..Len(names) : f[i] = Step(fs, f[i - 1], names[i])
  <2>1. \A i \in 0..Len(names) : f[i] = IF i = 0 THEN At(base) ELSE Step(fs, f[i - 1], names[i])
    BY <1>5, Zenon
  <2>2. 0 \in 0..Len(names) /\ \A i \in 1..Len(names) : i \in 0..Len(names) /\ i # 0
    BY <1>1
  <2>3. QED
    BY <2>1, <2>2
<1>8. QED
  BY <1>6, <1>7

(* What it found is a path.                                                 *)
LEMMA CanonicalForm ==
  ASSUME NEW fs, NEW base, NEW names \in Seq(STRING), Found(Canonical(fs, base, names))
  PROVE  Canonical(fs, base, names) = At(Canonical(fs, base, names).path)
<1>1. PICK reached : /\ Canonical(fs, base, names) = reached[Len(names)]
                     /\ reached[0] = At(base)
                     /\ \A i \in 1..Len(names) : reached[i] = Step(fs, reached[i - 1], names[i])
  BY CanonicalFunction
<1> DEFINE T == {i \in 0..Len(names) : Found(reached[i]) => reached[i] = At(reached[i].path)}
<1>2. Len(names) \in Nat
  OBVIOUS
<1>3. 0 \in T
  BY <1>1, <1>2 DEF At
<1>4. ASSUME NEW i \in 1..Len(names), i - 1 \in T PROVE i \in T
  <2>1. reached[i] = Step(fs, reached[i - 1], names[i])
    BY <1>1
  <2>2. \/ reached[i] = reached[i - 1] \/ \E e : reached[i] = Failed(e) /\ e # "none"
        \/ \E p : reached[i] = At(p)
    BY <2>1 DEF Step
  <2> DEFINE r == reached[i]
  <2>a. ASSUME r = reached[i - 1] PROVE Found(r) => r = At(r.path)
    BY <1>4, <2>a
  <2>b. ASSUME NEW e, r = Failed(e), e # "none" PROVE Found(r) => r = At(r.path)
    <3> HIDE DEF r
    <3>1. QED
      BY <2>b DEF Failed, Found
  <2>c. ASSUME NEW p, r = At(p) PROVE Found(r) => r = At(r.path)
    <3> HIDE DEF r
    <3>1. QED
      BY <2>c DEF At
  <2>3. Found(r) => r = At(r.path)
    BY <2>2, <2>a, <2>b, <2>c
  <2>4. QED
    BY <2>3, <1>2
<1>5. Len(names) \in T
  <2> HIDE DEF T
  <2>1. \A i \in 0..Len(names) : i \in T
    BY <1>2, <1>3, <1>4, Upwards
  <2>2. QED
    BY <1>2, <2>1
<1>6. QED
  BY <1>1, <1>5

(* The last name is looked up in what the others lead to.                   *)
LEMMA CanonicalLast ==
  ASSUME NEW fs, NEW base, NEW names \in Seq(STRING), names # <<>>
  PROVE  Canonical(fs, base, names) = Step(fs, Canonical(fs, base, Front(names)), Last(names))
<1> DEFINE l == Len(names)
           front == Front(names)
<1>1. l \in Nat /\ l >= 1 /\ front \in Seq(STRING) /\ Len(front) = l - 1
      /\ \A i \in 1..(l - 1) : front[i] = names[i]
  <2>1. l \in Nat /\ l >= 1
    OBVIOUS
  <2>2. \A i \in 1..(l - 1) : i \in 1..l
    BY <2>1
  <2>3. front = SubSeq(names, 1, l - 1)
    BY DEF Front
  <2>4. names \in Seq(STRING) /\ Len(names) = l
    OBVIOUS
  <2>5. \A i \in 1..(l - 1) : names[i] \in STRING
    BY <2>2, <2>4
  <2> HIDE DEF l, front
  <2>6. QED
    BY <2>1, <2>3, <2>5, SubSeqProperties
<1>2. PICK reached : /\ Canonical(fs, base, names) = reached[l]
                     /\ reached[0] = At(base)
                     /\ \A i \in 1..l : reached[i] = Step(fs, reached[i - 1], names[i])
  BY CanonicalFunction
<1>3. PICK before : /\ Canonical(fs, base, front) = before[l - 1]
                    /\ before[0] = At(base)
                    /\ \A i \in 1..(l - 1) : before[i] = Step(fs, before[i - 1], front[i])
  <2> HIDE DEF front, l
  <2>0. front \in Seq(STRING)
    BY <1>1
  <2>1. \A ns \in Seq(STRING) :
          \E g : /\ Canonical(fs, base, ns) = g[Len(ns)]
                /\ g[0] = At(base)
                /\ \A i \in 1..Len(ns) : g[i] = Step(fs, g[i - 1], ns[i])
    BY CanonicalFunction
  <2>2. PICK g : /\ Canonical(fs, base, front) = g[Len(front)]
                 /\ g[0] = At(base)
                 /\ \A i \in 1..Len(front) : g[i] = Step(fs, g[i - 1], front[i])
    BY <2>0, <2>1, Zenon
  <2>3. QED
    BY <1>1, <2>2
<1> DEFINE T == {i \in 0..(l - 1) : before[i] = reached[i]}
<1> HIDE DEF l, front
<1>4. 0 \in T
  BY <1>1, <1>2, <1>3
<1>5. ASSUME NEW i \in 1..(l - 1), i - 1 \in T PROVE i \in T
  BY <1>1, <1>2, <1>3, <1>5
<1>6. l - 1 \in T
  <2> HIDE DEF T
  <2>1. l - 1 \in Nat
    BY <1>1
  <2>2. \A i \in 0..(l - 1) : i \in T
    BY <2>1, <1>4, <1>5, Upwards
  <2>3. QED
    BY <2>1, <2>2
<1>7. reached[l] = Step(fs, reached[l - 1], names[l])
  BY <1>1, <1>2
<1>8. QED
  BY <1>2, <1>3, <1>6, <1>7 DEF Last, l, front

LEMMA FrontNames ==
  ASSUME NEW arg \in Argument, HasFileName(arg)
  PROVE  /\ arg.names \in Seq(STRING) /\ arg.names # <<>> /\ Last(arg.names) # ".."
         /\ Parent(arg).abs = arg.abs /\ Parent(arg).names = Front(arg.names)
BY DEF Argument, HasFileName, Parent

(* A path that is found, and is no link, is its name in its directory.      *)
LEMMA ResolveLast ==
  ASSUME NEW fs, NEW dir, NEW arg \in Argument, HasFileName(arg), Found(Resolve(fs, dir, arg))
  PROVE  LET parent == Resolve(fs, dir, Parent(arg))
             next == parent.path \o <<Last(arg.names)>>
         IN  /\ Found(parent) /\ IsDir(fs, parent.path)
             /\ IsLink(fs, next) \/ Resolve(fs, dir, arg) = At(next)
<1> DEFINE parent == Resolve(fs, dir, Parent(arg))
           next == parent.path \o <<Last(arg.names)>>
           base == Base(dir, arg)
<1>1. /\ arg.names \in Seq(STRING) /\ arg.names # <<>> /\ Last(arg.names) # ".."
      /\ Parent(arg).abs = arg.abs /\ Parent(arg).names = Front(arg.names)
  BY FrontNames
<1>2. Resolve(fs, dir, arg) = Canonical(fs, base, arg.names)
  BY DEF Resolve
<1>3. parent = Canonical(fs, base, Front(arg.names))
  BY <1>1 DEF Resolve, Base
<1> HIDE DEF base, parent
<1>4. Resolve(fs, dir, arg) = Step(fs, parent, Last(arg.names))
  BY <1>1, <1>2, <1>3, CanonicalLast
<1>5. /\ Found(parent) /\ IsDir(fs, parent.path)
      /\ IsLink(fs, next) \/ Resolve(fs, dir, arg) = At(next)
  BY <1>1, <1>4 DEF Step, Found, Failed
<1>6. QED
  BY <1>5 DEF parent

LEMMA OneNameHolds == AnswerInv => OneNamePerFile
<1> SUFFICES ASSUME AnswerInv, Answered("edit_path"), request.mustExist, answer.kind = "path"
             PROVE  OneNamePerFile
  BY DEF OneNamePerFile
<1> DEFINE r == request
           q == [request EXCEPT !.mustExist = FALSE]
           dir == WorkingDir(r.fs, r.cwd, r.dir)
           parent == Resolve(r.fs, dir.path, Parent(r.path))
           next == parent.path \o <<Last(r.path.names)>>
           res == Resolve(r.fs, dir.path, r.path)
<1>1. answer = EditPath(r) /\ IsPathRequest(r)
  BY PathAssumption DEF AnswerInv, Answered
<1>2. /\ q.fs = r.fs /\ q.cwd = r.cwd /\ q.dir = r.dir /\ q.path = r.path /\ q.mustExist = FALSE
  BY <1>1 DEF IsPathRequest
<1>3. /\ Found(dir) /\ IsDir(r.fs, dir.path) /\ Found(res)
      /\ answer = [kind |-> "path", path |-> res.path]
  BY <1>1 DEF EditPath, RelativeTo, Failed, Found
<1> SUFFICES ASSUME ~ IsDir(r.fs, answer.path), HasFileName(r.path), ~ IsLink(r.fs, next)
             PROVE  EditPath(q) = answer
  BY DEF OneNamePerFile
<1>4. r.path \in Argument
  BY <1>1 DEF IsPathRequest
<1>5. Found(parent) /\ IsDir(r.fs, parent.path) /\ res = At(next)
  BY <1>3, <1>4, ResolveLast
<1>6. RelativeTo(r.fs, dir.path, r.path, FALSE) = At(next)
  BY <1>3, <1>5 DEF RelativeTo
<1> HIDE DEF q, dir, parent, next, res
<1>7. At(next).path = next /\ Found(At(next)) /\ ~ IsDir(r.fs, next)
  BY <1>3, <1>5 DEF At, Found
<1>8. EditPath(q) = [kind |-> "path", path |-> next]
  BY <1>2, <1>3, <1>6, <1>7 DEF EditPath, dir
<1>9. QED
  BY <1>3, <1>5, <1>7, <1>8

(* edit_overwrite and edit_replace resolve a path to the same name, in any  *)
(* tree of directories, files and links, unless it ends in a link or names  *)
(* a directory (validate_path_relative_to).                                 *)
THEOREM ToolOneNamePerFile == TextSpec => []OneNamePerFile
BY AnswersHold, OneNameHolds, PTL

-----------------------------------------------------------------------------
(* The working directory of a command.                                     *)

LEMMA FrontOfConcat ==
  ASSUME NEW S, NEW d \in Seq(S), NEW m \in Seq(S), m # <<>>
  PROVE  d \o m # <<>> /\ Front(d \o m) = d \o Front(m) /\ Last(d \o m) = Last(m)
<1> DEFINE k == Len(d)
           l == Len(m)
           whole == d \o m
           left == Front(whole)
           right == d \o Front(m)
<1>1. k \in Nat /\ l \in Nat /\ l >= 1
  OBVIOUS
<1>2. /\ whole \in Seq(S) /\ Len(whole) = k + l
      /\ \A i \in 1..(k + l) : whole[i] = IF i <= k THEN d[i] ELSE m[i - k]
  BY ConcatProperties
<1>3. /\ Front(m) \in Seq(S) /\ Len(Front(m)) = l - 1
      /\ \A i \in 1..(l - 1) : Front(m)[i] = m[i]
  <2>1. \A i \in 1..(l - 1) : m[i] \in S
    OBVIOUS
  <2>2. 1 \in Int /\ l - 1 \in Int /\ Front(m) = SubSeq(m, 1, l - 1)
    BY <1>1 DEF Front
  <2> HIDE DEF l
  <2>3. QED
    BY <1>1, <2>1, <2>2, SubSeqProperties
<1> HIDE DEF k, l, whole
<1>4. /\ left \in Seq(S) /\ Len(left) = k + l - 1
      /\ \A i \in 1..(k + l - 1) : left[i] = whole[i]
  <2>1. \A i \in 1..(k + l - 1) : whole[i] \in S
    BY <1>1, <1>2
  <2>2. 1 \in Int /\ k + l - 1 \in Int
    BY <1>1
  <2>3. QED
    BY <1>1, <1>2, <2>1, <2>2, SubSeqProperties DEF Front
<1>5. /\ right \in Seq(S) /\ Len(right) = k + (l - 1)
      /\ \A i \in 1..(k + (l - 1)) : right[i] = IF i <= k THEN d[i] ELSE Front(m)[i - k]
  BY <1>3, ConcatProperties DEF k
<1> HIDE DEF left, right
<1>6. \A i \in 1..(k + l - 1) : left[i] = right[i]
  <2> SUFFICES ASSUME NEW i \in 1..(k + l - 1) PROVE left[i] = right[i]
    OBVIOUS
  <2>1. i \in 1..(k + l) /\ i \in 1..(k + (l - 1))
    BY <1>1
  <2>2. left[i] = whole[i]
    BY <1>4
  <2>3. CASE i <= k
    BY <1>2, <1>5, <2>1, <2>2, <2>3
  <2>4. CASE i > k
    <3>1. i - k \in 1..(l - 1) /\ ~ (i <= k)
      BY <1>1, <2>4
    <3>2. left[i] = m[i - k]
      BY <1>2, <2>1, <2>2, <3>1
    <3>3. right[i] = Front(m)[i - k]
      BY <1>5, <2>1, <3>1
    <3>4. QED
      BY <1>3, <3>1, <3>2, <3>3
  <2>5. QED
    BY <1>1, <2>3, <2>4
<1>7. left = right
  <2>1. Len(left) = Len(right) /\ \A i \in 1..Len(left) : left[i] = right[i]
    BY <1>1, <1>4, <1>5, <1>6
  <2>2. QED
    BY <1>4, <1>5, <2>1, SeqEqual
<1>8. whole # <<>>
  BY <1>1, <1>2
<1>9. whole[k + l] = m[l]
  <2>1. k + l \in 1..(k + l) /\ ~ (k + l <= k) /\ (k + l) - k = l
    BY <1>1
  <2>2. QED
    BY <1>2, <2>1
<1>10. QED
  BY <1>2, <1>7, <1>8, <1>9 DEF Last, k, l, whole, left, right

LEMMA FrontOfNext ==
  ASSUME NEW S, NEW d \in Seq(S), NEW e \in S
  PROVE  d \o <<e>> # <<>> /\ Front(d \o <<e>>) = d
<1> DEFINE next == <<e>>
<1>1. next \in Seq(S) /\ next # <<>> /\ Front(next) = <<>>
  BY DEF Front
<1> HIDE DEF next
<1>2. d \o next # <<>> /\ Front(d \o next) = d \o Front(next)
  BY <1>1, FrontOfConcat
<1>3. d \o Front(next) = d
  BY <1>1, ConcatEmptySeq
<1>4. QED
  BY <1>2, <1>3 DEF next

(* Names are canonicalized from left to right, none of them to the base.    *)
LEMMA CanonicalNone ==
  ASSUME NEW fs, NEW base, NEW names \in Seq(STRING)
  PROVE  names = <<>> => Canonical(fs, base, names) = At(base)
<1>1. PICK reached : /\ Canonical(fs, base, names) = reached[Len(names)]
                     /\ reached[0] = At(base)
                     /\ \A i \in 1..Len(names) : reached[i] = Step(fs, reached[i - 1], names[i])
  BY CanonicalFunction
<1>2. QED
  BY <1>1

(* So goes the cd of the shell.                                             *)
LEMMA WayFunction ==
  ASSUME NEW fs, NEW base, NEW names \in Seq(STRING)
  PROVE  LET way == LogicalWay(fs, base, names)
         IN  /\ way[0] = At(base)
             /\ \A i \in 1..Len(names) : way[i] = LogicalStep(fs, way[i - 1], names[i])
<1> DEFINE Def(n, g) == g = [i \in 0..n |-> IF i = 0 THEN At(base)
                                            ELSE LogicalStep(fs, g[i - 1], names[i])]
           T == {n \in Nat : \E g : Def(n, g)}
<1>1. Len(names) \in Nat
  OBVIOUS
<1>2. 0 \in T
  <2> DEFINE g == [i \in 0..0 |-> At(base)]
  <2>1. Def(0, g)
    OBVIOUS
  <2>2. QED
    BY <2>1
<1>3. ASSUME NEW n \in 1..Len(names), n - 1 \in T PROVE n \in T
  <2>1. PICK g : Def(n - 1, g)
    BY <1>3
  <2> DEFINE top == LogicalStep(fs, g[n - 1], names[n])
             h == [i \in 0..n |-> IF i = n THEN top ELSE g[i]]
  <2>2. n \in Nat /\ n # 0 /\ n - 1 \in Nat
    BY <1>1
  <2>3. \A i \in 0..n : i # n => i \in 0..(n - 1) /\ i - 1 # n
    BY <2>2
  <2>4. ASSUME NEW i \in 0..n
        PROVE  h[i] = IF i = 0 THEN At(base) ELSE LogicalStep(fs, h[i - 1], names[i])
    <3>1. CASE i = n
      <4>1. n - 1 \in 0..n /\ n - 1 # n
        BY <2>2
      <4>2. h[n] = top /\ h[n - 1] = g[n - 1]
        BY <4>1, <2>2
      <4>3. QED
        BY <3>1, <4>2, <2>2
    <3>2. CASE i # n
      <4>1. h[i] = g[i]
        BY <3>2
      <4>2. g[i] = IF i = 0 THEN At(base) ELSE LogicalStep(fs, g[i - 1], names[i])
        BY <2>1, <2>3, <3>2
      <4>3. i # 0 => i - 1 \in 0..n /\ i - 1 # n
        BY <2>2, <2>3, <3>2
      <4>4. i # 0 => h[i - 1] = g[i - 1]
        BY <4>3
      <4>5. QED
        BY <4>1, <4>2, <4>4
    <3>3. QED
      BY <3>1, <3>2
  <2> HIDE DEF top
  <2>5. Def(n, h)
    <3>1. h = [i \in 0..n |-> h[i]]
      OBVIOUS
    <3> HIDE DEF h
    <3>2. QED
      BY <2>4, <3>1
  <2>6. QED
    BY <2>2, <2>5
<1>4. Len(names) \in T
  <2> HIDE DEF T
  <2>1. \A i \in 0..Len(names) : i \in T
    BY <1>1, <1>2, <1>3, Upwards
  <2>2. QED
    BY <1>1, <2>1
<1> DEFINE f == CHOOSE g : Def(Len(names), g)
<1>5. Def(Len(names), f)
  BY <1>4
<1>6. LogicalWay(fs, base, names) = f
  BY DEF LogicalWay
<1> HIDE DEF f
<1>7. \A i \in 0..Len(names) : f[i] = IF i = 0 THEN At(base) ELSE LogicalStep(fs, f[i - 1], names[i])
  BY <1>5, Zenon
<1>8. 0 \in 0..Len(names) /\ \A i \in 1..Len(names) : i \in 0..Len(names) /\ i # 0
  BY <1>1
<1>9. QED
  BY <1>6, <1>7, <1>8

(* What leads to a name that is no link leads to its directory.             *)
LEMMA UpFromName ==
  ASSUME NEW fs, \A p \in DOMAIN fs : p \in Seq(STRING), NEW at, NEW name \in STRING, name # "..",
         Found(at) => at = At(at.path), ~ IsLink(fs, at.path \o <<name>>),
         Found(Step(fs, at, name)), IsDir(fs, Step(fs, at, name).path)
  PROVE  Step(fs, Step(fs, at, name), "..") = at
<1> DEFINE next == at.path \o <<name>>
           here == Step(fs, at, name)
<1>1. Found(at) /\ IsDir(fs, at.path) /\ here = At(next)
  BY DEF Step, Found, Failed
<1>2. at.path \in Seq(STRING)
  BY <1>1 DEF IsDir
<1>3. next # <<>> /\ Front(next) = at.path
  BY <1>2, FrontOfNext
<1> HIDE DEF here, next
<1>4. Found(here) /\ IsDir(fs, here.path) /\ here.path = next
  BY <1>1 DEF here, At
<1>5. Step(fs, here, "..") = At(Front(next))
  BY <1>3, <1>4 DEF Step
<1>6. QED
  BY <1>1, <1>3, <1>5 DEF here

(* Where the path of a cd climbs out of no link, the shell reaches what     *)
(* canonicalize makes of it.                                                *)
LEMMA LogicalPhysical ==
  ASSUME NEW fs, \A p \in DOMAIN fs : p \in Seq(STRING), NEW names \in Seq(STRING),
         ~ LinkClimbed(fs, names)
  PROVE  LET written == LogicalWay(fs, <<>>, names)[Len(names)]
         IN  IF Found(written)
             THEN Canonical(fs, <<>>, written.path) = Canonical(fs, <<>>, names)
             ELSE ~ Found(Canonical(fs, <<>>, names))
<1> DEFINE S == STRING \ {".."}
           root == <<>>
           l == Len(names)
           way == LogicalWay(fs, root, names)
<1>1. l \in Nat /\ \A i \in 1..l : names[i] \in STRING
  OBVIOUS
<1>2. way[0] = At(root) /\ \A i \in 1..l : way[i] = LogicalStep(fs, way[i - 1], names[i])
  BY WayFunction
<1>3. PICK reached : /\ Canonical(fs, root, names) = reached[l]
                     /\ reached[0] = At(root)
                     /\ \A i \in 1..l : reached[i] = Step(fs, reached[i - 1], names[i])
  <2> HIDE DEF root
  <2>1. PICK g : /\ Canonical(fs, root, names) = g[Len(names)]
                 /\ g[0] = At(root)
                 /\ \A i \in 1..Len(names) : g[i] = Step(fs, g[i - 1], names[i])
    BY CanonicalFunction
  <2>2. QED
    BY <2>1
<1>4. \A i \in 1..l :
        ~ /\ names[i] = ".." /\ way[i - 1].path # root
          /\ IsLink(fs, Canonical(fs, root, Front(way[i - 1].path)).path \o <<Last(way[i - 1].path)>>)
  BY DEF LinkClimbed
<1>5. Canonical(fs, root, root) = At(root)
  <2>1. \A ns \in Seq(STRING) : ns = <<>> => Canonical(fs, <<>>, ns) = At(<<>>)
    BY CanonicalNone
  <2>2. root \in Seq(STRING) /\ root = <<>>
    OBVIOUS
  <2>3. QED
    BY <2>1, <2>2
<1> HIDE DEF way
<1> DEFINE Ok(i) == /\ Found(way[i]) => /\ way[i].path \in Seq(S)
                                        /\ Canonical(fs, root, way[i].path) = reached[i]
                    /\ ~ Found(way[i]) => ~ Found(reached[i])
           T == {i \in 0..l : Ok(i)}
<1>6. Ok(0)
  <2>1. root \in Seq(S) /\ way[0].path = root /\ Found(way[0])
    BY <1>2 DEF At, Found
  <2>2. QED
    BY <1>3, <1>5, <2>1
<1>7. ASSUME NEW i \in 1..l, Ok(i - 1) PROVE Ok(i)
  <2> DEFINE at == way[i - 1]
             path == at.path
             here == Canonical(fs, root, path)
             name == names[i]
  <2>1. way[i] = LogicalStep(fs, at, name) /\ reached[i] = Step(fs, reached[i - 1], name) /\ name \in STRING
    BY <1>1, <1>2, <1>3
  <2>2. CASE ~ Found(at)
    BY <1>7, <2>1, <2>2 DEF LogicalStep, Step
  <2>3. CASE Found(at) /\ name # ".."
    <3> DEFINE next == path \o <<name>>
    <3>1. path \in Seq(S) /\ name \in S /\ reached[i - 1] = here
      BY <1>7, <2>1, <2>3
    <3>2. next \in Seq(S) /\ next \in Seq(STRING) /\ next # <<>> /\ Front(next) = path /\ Last(next) = name
      <4> HIDE DEF S, path, name
      <4>1. next \in Seq(S) /\ next # <<>> /\ Front(next) = path /\ Last(next) = name
        BY <3>1, FrontOfNext DEF Last
      <4>2. QED
        BY <4>1, SeqMonotonic DEF S
    <3>3. way[i] = At(next)
      BY <2>1, <2>3 DEF LogicalStep
    <3> HIDE DEF next, path, name, here, at
    <3>4. Canonical(fs, root, next) = Step(fs, here, name)
      BY <3>2, CanonicalLast DEF here
    <3>5. Found(way[i]) /\ way[i].path = next
      BY <3>3 DEF At, Found
    <3>6. QED
      BY <2>1, <3>1, <3>2, <3>4, <3>5
  <2>4. CASE Found(at) /\ name = ".." /\ (~ Found(here) \/ ~ IsDir(fs, here.path))
    <3>1. way[i] = Failed("cd") /\ reached[i - 1] = here
      BY <1>7, <2>1, <2>4 DEF LogicalStep
    <3>2. ~ Found(way[i])
      BY <3>1 DEF Failed, Found
    <3>3. ~ Found(reached[i])
      BY <2>1, <2>4, <3>1 DEF Step, Failed, Found
    <3>4. QED
      BY <3>2, <3>3
  <2>5. CASE Found(at) /\ name = ".." /\ Found(here) /\ IsDir(fs, here.path) /\ path = root
    <3>1. way[i] = At(root) /\ reached[i - 1] = here /\ here = At(root)
      BY <1>5, <1>7, <2>1, <2>5 DEF LogicalStep
    <3>2. reached[i] = At(root)
      BY <2>1, <2>5, <3>1 DEF Step, At, Found
    <3>3. Found(way[i]) /\ way[i].path = root /\ root \in Seq(S)
      BY <3>1 DEF At, Found
    <3>4. QED
      BY <1>5, <3>2, <3>3
  <2>6. CASE Found(at) /\ name = ".." /\ Found(here) /\ IsDir(fs, here.path) /\ path # root
    <3> DEFINE front == Front(path)
               c == Canonical(fs, root, front)
               last == Last(path)
    <3>1. way[i] = At(front) /\ reached[i - 1] = here /\ path \in Seq(S)
      BY <1>7, <2>1, <2>6 DEF LogicalStep
    <3>2. path \in Seq(STRING) /\ front \in Seq(S) /\ front \in Seq(STRING) /\ last \in S
      <4> HIDE DEF S, path
      <4>1. front \in Seq(S) /\ last \in S
        <5>1. path \in Seq(S) /\ path # <<>>
          BY <2>6, <3>1
        <5>2. Len(path) \in Nat /\ Len(path) >= 1 /\ \A k \in 1..Len(path) : path[k] \in S
          BY <5>1
        <5>3. Last(path) \in S
          BY <5>2 DEF Last
        <5>4. 1 \in Int /\ Len(path) - 1 \in Int /\ \A k \in 1..(Len(path) - 1) : path[k] \in S
          BY <5>2
        <5>5. QED
          BY <5>1, <5>3, <5>4, SubSeqProperties DEF Front
      <4>2. QED
        BY <3>1, <4>1, SeqMonotonic DEF S
    <3>3. ~ IsLink(fs, c.path \o <<last>>)
      BY <1>4, <2>6
    <3> HIDE DEF front, last, path, here, name, at
    <3>4. here = Step(fs, c, last)
      BY <2>6, <3>2, CanonicalLast DEF here, front, last
    <3>5. Found(c) => c = At(c.path)
      BY <3>2, CanonicalForm
    <3> HIDE DEF c
    <3>6. Step(fs, Step(fs, c, last), "..") = c
      BY <2>6, <3>2, <3>3, <3>4, <3>5, UpFromName
    <3>7. reached[i] = c
      BY <2>1, <2>6, <3>1, <3>4, <3>6
    <3>8. Found(way[i]) /\ way[i].path = front
      BY <3>1 DEF At, Found
    <3>9. QED
      BY <3>2, <3>7, <3>8 DEF c
  <2>7. QED
    BY <2>2, <2>3, <2>4, <2>5, <2>6
<1>8. Ok(l)
  <2> HIDE DEF Ok
  <2>1. 0 \in T /\ \A i \in 1..l : i - 1 \in T => i \in T
    BY <1>1, <1>6, <1>7
  <2> HIDE DEF T
  <2>2. \A i \in 0..l : i \in T
    BY <1>1, <2>1, Upwards
  <2>3. QED
    BY <1>1, <2>2 DEF T
<1>9. QED
  BY <1>3, <1>8 DEF way

(* A path in the server's directory is what canonicalize makes of it.       *)
LEMMA Validated ==
  ASSUME NEW fs, NEW cwd, NEW arg \in Argument
  PROVE  LET found == Resolve(fs, cwd, arg)
             valid == ValidatePath(fs, cwd, arg, TRUE)
         IN  /\ Found(valid) => valid = found /\ valid = At(valid.path)
             /\ ~ Found(valid) => ~ Found(found) \/ ~ Inside(cwd, found.path)
<1> DEFINE found == Resolve(fs, cwd, arg)
           valid == ValidatePath(fs, cwd, arg, TRUE)
<1>1. Found(found) => found = At(found.path)
  BY CanonicalForm DEF Resolve, Argument
<1>2. Found(valid) => valid = found
  BY DEF ValidatePath, Failed, Found
<1>3. ~ Found(valid) => ~ Found(found) \/ ~ Inside(cwd, found.path)
  BY DEF ValidatePath, Failed, Found
<1>4. QED
  BY <1>1, <1>2, <1>3

(* What is run is in the directory the working-directory phase chose.       *)
LEMMA Spawning ==
  ASSUME NEW r, NEW stdin, Vetted(Quieted(r), stdin).kind = "run",
         \/ \E dir, words, cd : r = Run(dir, words, cd)
         \/ \E why : r = Refused(why)
  PROVE  /\ \E dir, words, cd : r = Run(dir, words, cd)
         /\ Vetted(Quieted(r), stdin).dir = r.dir /\ Vetted(Quieted(r), stdin).cd = r.cd
<1> DEFINE v == Vetted(Quieted(r), stdin)
<1>1. ASSUME NEW why PROVE Refused(why).kind = "refused"
  BY DEF Refused
<1>2. ASSUME NEW why, r = Refused(why) PROVE v.kind = "refused"
  BY <1>1, <1>2 DEF Vetted, Quieted
<1>3. ASSUME NEW dir, NEW words, NEW cd, r = Run(dir, words, cd)
      PROVE  /\ Quieted(r).kind = "run" /\ Quieted(r).dir = r.dir /\ Quieted(r).cd = r.cd
  <2> DEFINE quiet == NoStat(r.words)
  <2>1. Quieted(r) = IF r.cd = <<>> THEN [r EXCEPT !.words = quiet] ELSE r
    BY <1>3 DEF Quieted, Run
  <2> HIDE DEF quiet
  <2>2. QED
    BY <1>3, <2>1 DEF Run
<1>4. v.kind = "run" /\ Quieted(r).kind = "run" => v = Quieted(r)
  <2> DEFINE q == Quieted(r)
             verdict == PreSpawn(Full(q), stdin)
  <2>1. q.kind = "run" => v = IF verdict # "none" THEN Refused(verdict) ELSE q
    BY DEF Vetted, Spawned
  <2> HIDE DEF q, verdict, v
  <2>2. v.kind = "run" /\ q.kind = "run" => v = q
    BY <1>1, <2>1
  <2>3. QED
    BY <2>2 DEF q
<1> HIDE DEF v
<1>5. \E dir, words, cd : r = Run(dir, words, cd)
  BY <1>2 DEF v
<1>6. QED
  BY <1>3, <1>4, <1>5 DEF v

LEMMA Refusing ==
  ASSUME NEW r, NEW stdin, NEW why \in {"cd_path_not_found", "cd_path_not_dir"},
         Vetted(Quieted(r), stdin).kind = "refused", Vetted(Quieted(r), stdin).subtype = why,
         \/ \E dir, words, cd : r = Run(dir, words, cd)
         \/ \E e : r = Refused(e)
  PROVE  r = Refused(why)
<1>1. ASSUME NEW dir, NEW words, NEW cd, r = Run(dir, words, cd) PROVE FALSE
  <2> DEFINE q == Quieted(r)
             verdict == PreSpawn(Full(q), stdin)
             quiet == NoStat(r.words)
  <2>1. q = IF r.cd = <<>> THEN [r EXCEPT !.words = quiet] ELSE r
    BY <1>1 DEF Quieted, Run
  <2> HIDE DEF quiet
  <2>2. q.kind = "run"
    BY <1>1, <2>1 DEF Run
  <2>3. verdict \in {"stdin_too_large", "heredoc_error", "none"}
    BY DEF PreSpawn
  <2>4. Vetted(q, stdin) = IF verdict # "none" THEN Refused(verdict) ELSE q
    BY <2>2 DEF Vetted, Spawned
  <2> HIDE DEF q, verdict
  <2>5. Vetted(q, stdin).kind = "refused" /\ Vetted(q, stdin).subtype = why
    BY DEF q
  <2>6. QED
    BY <2>2, <2>3, <2>4, <2>5 DEF Refused
<1>2. ASSUME NEW e, r = Refused(e) PROVE r = Refused(why)
  <2>1. r.kind = "refused" /\ r.subtype = e
    BY <1>2 DEF Refused
  <2>2. Vetted(Quieted(r), stdin) = r
    BY <2>1 DEF Vetted, Quieted
  <2>3. QED
    BY <1>2, <2>1, <2>2
<1>3. QED
  BY <1>1, <1>2

(* The phase keeps the command where it was, or takes its cd away where the *)
(* shell would have gone to the same directory.                             *)
LEMMA WorkingDirKept ==
  ASSUME NEW r, r.cd \in Seq(Argument), r.dir \in Seq(Argument),
         \A p \in DOMAIN r.fs : p \in Seq(STRING), r.text = "plain", Unambiguous(r)
  PROVE  LET asked == ShellDir(r.fs, WorkingDir(r.fs, r.cwd, r.dir).path, r.cd)
             phase == WorkingDirPhase(r)
         IN  \/ \E dir, words, cd : /\ phase = Run(dir, words, cd)
                                    /\ ShellDir(r.fs, dir, cd) = asked
             \/ \E why : /\ phase = Refused(why)
                         /\ why \in {"cd_path_not_found", "cd_path_not_dir"} =>
                              asked = Failed("cd") \/ ~ Inside(r.cwd, asked.path)
<1> DEFINE dir == WorkingDir(r.fs, r.cwd, r.dir)
           asked == ShellDir(r.fs, dir.path, r.cd)
           phase == WorkingDirPhase(r)
           whole == Run(dir.path, r.words, r.cd)
           to == CdPath(r)
           found == Resolve(r.fs, r.cwd, r.cd[1])
           Good(p) == \/ \E d, words, cd : p = Run(d, words, cd) /\ ShellDir(r.fs, d, cd) = asked
                      \/ \E why : /\ p = Refused(why)
                                  /\ why \in {"cd_path_not_found", "cd_path_not_dir"} =>
                                       asked = Failed("cd") \/ ~ Inside(r.cwd, asked.path)
<1>1. Good(whole)
  OBVIOUS
<1>2. ASSUME r.cd # <<>>
      PROVE  /\ Found(to) => to = found /\ to = At(to.path)
             /\ ~ Found(to) => ~ Found(found) \/ ~ Inside(r.cwd, found.path)
  <2>1. r.cd[1] \in Argument
    BY <1>2
  <2>2. to = ValidatePath(r.fs, r.cwd, r.cd[1], TRUE)
    BY DEF CdPath
  <2>3. QED
    BY <2>1, <2>2, Validated
<1>4. ASSUME r.cd # <<>>, r.cd[1].abs
      PROVE  asked = IF Found(found) /\ IsDir(r.fs, found.path) THEN found ELSE Failed("cd")
  <2> DEFINE names == r.cd[1].names
             written == LogicalWay(r.fs, <<>>, names)[Len(names)]
             to2 == Canonical(r.fs, <<>>, written.path)
  <2>1. names \in Seq(STRING) /\ ~ LinkClimbed(r.fs, names)
    <3>1. r.cd[1] \in Argument
      BY <1>4
    <3>2. QED
      BY <1>4, <3>1 DEF Argument, Unambiguous
  <2>2. found = Canonical(r.fs, <<>>, names)
    BY <1>4 DEF Resolve, Base
  <2>3. asked = IF Found(written) /\ Found(to2) /\ IsDir(r.fs, to2.path) THEN to2 ELSE Failed("cd")
    BY <1>4 DEF ShellDir, Base
  <2> HIDE DEF names, found, asked
  <2>4. IF Found(written) THEN to2 = found ELSE ~ Found(found)
    BY <2>1, <2>2, LogicalPhysical
  <2> HIDE DEF written, to2
  <2>5. QED
    BY <2>3, <2>4
<1>5. CASE ~ Found(dir) \/ (r.dir # <<>> /\ ~ IsDir(r.fs, dir.path))
  <2>1. phase \in {Refused("working_dir_not_found"), Refused("working_dir_not_dir")}
    BY <1>5 DEF WorkingDirPhase
  <2>2. QED
    BY <2>1
<1>6. CASE Found(dir) /\ (r.dir = <<>> \/ IsDir(r.fs, dir.path))
  <2>1. phase = StripCd(r, dir.path, whole)
    BY <1>6 DEF WorkingDirPhase
  <2>2. CASE r.cd = <<>>
    BY <1>1, <2>1, <2>2 DEF StripCd
  <2>3. CASE r.cd # <<>> /\ r.dir = <<>> /\ r.cd[1].abs
    <3>1. phase = Promoted(r, whole, to)
      BY <2>1, <2>3 DEF StripCd
    <3>2. CASE phase = whole
      BY <1>1, <3>2
    <3>3. CASE ~ Found(to) /\ phase = Refused("cd_path_not_found")
      <4>1. asked = Failed("cd") \/ ~ Inside(r.cwd, asked.path)
        BY <1>2, <1>4, <2>3, <3>3
      <4>2. QED
        BY <3>3, <4>1
    <3>4. CASE Found(to) /\ IsDir(r.fs, to.path) /\ phase = Run(to.path, r.words, <<>>)
      <4>1. asked = to /\ to = At(to.path)
        BY <1>2, <1>4, <2>3, <3>4
      <4>2. ShellDir(r.fs, to.path, <<>>) = At(to.path)
        BY DEF ShellDir
      <4>3. QED
        BY <3>4, <4>1, <4>2
    <3>5. CASE Found(to) /\ ~ IsDir(r.fs, to.path) /\ phase = Refused("cd_path_not_dir")
      <4>1. asked = Failed("cd")
        BY <1>2, <1>4, <2>3, <3>5
      <4>2. QED
        BY <3>5, <4>1
    <3>6. QED
      BY <3>1, <3>2, <3>3, <3>4, <3>5 DEF Promoted
  <2>4. CASE r.cd # <<>> /\ r.dir = <<>> /\ ~ r.cd[1].abs
    <3>1. phase = whole
      BY <2>1, <2>4 DEF StripCd, Promoted
    <3>2. QED
      BY <1>1, <3>1
  <2>5. CASE r.cd # <<>> /\ r.dir # <<>>
    <3>1. phase = Dropped(r, dir.path, whole, to)
      BY <2>1, <2>5 DEF StripCd
    <3>2. CASE phase = whole
      BY <1>1, <3>2
    <3>3. CASE to = At(dir.path) /\ phase = Run(dir.path, r.words, <<>>)
      <4>1. Found(to) /\ to.path = dir.path
        BY <3>3 DEF At, Found
      <4>2. asked = to
        <5>1. r.cd[1].abs
          BY <2>5 DEF Unambiguous
        <5>2. QED
          BY <1>2, <1>4, <1>6, <2>5, <4>1, <5>1
      <4>3. ShellDir(r.fs, dir.path, <<>>) = At(dir.path)
        BY DEF ShellDir
      <4>4. QED
        BY <3>3, <4>2, <4>3
    <3>4. QED
      BY <3>1, <3>2, <3>3 DEF Dropped
  <2>6. QED
    BY <2>2, <2>3, <2>4, <2>5
<1>7. QED
  BY <1>5, <1>6

(* A cd is refused only where there is no working_dir.                      *)
LEMMA PhaseShape ==
  ASSUME NEW r
  PROVE  \/ \E dir, words, cd : WorkingDirPhase(r) = Run(dir, words, cd)
         \/ \E why : /\ WorkingDirPhase(r) = Refused(why)
                     /\ why \in {"cd_path_not_found", "cd_path_not_dir"} => r.dir = <<>>
<1> DEFINE dir == WorkingDir(r.fs, r.cwd, r.dir)
           phase == WorkingDirPhase(r)
           whole == Run(dir.path, r.words, r.cd)
           to == CdPath(r)
<1>1. \/ phase = Refused("working_dir_not_found") \/ phase = Refused("working_dir_not_dir")
      \/ phase = StripCd(r, dir.path, whole)
  BY DEF WorkingDirPhase
<1>2. \/ StripCd(r, dir.path, whole) = whole
      \/ StripCd(r, dir.path, whole) = Run(dir.path, r.words, <<>>)
      \/ r.dir = <<>> /\ StripCd(r, dir.path, whole) = Promoted(r, whole, to)
  BY DEF StripCd, Dropped
<1>3. \/ Promoted(r, whole, to) = whole \/ Promoted(r, whole, to) = Run(to.path, r.words, <<>>)
      \/ \E why : Promoted(r, whole, to) = Refused(why)
  BY DEF Promoted
<1>4. QED
  BY <1>1, <1>2, <1>3

LEMMA CdHolds == AnswerInv => CdHonoured
<1> SUFFICES ASSUME AnswerInv, Answered("exec_command"), request.text = "plain",
                    Unambiguous(request)
             PROVE  /\ answer.kind = "run"
                       => ShellDir(request.fs, answer.dir, answer.cd) = AskedDir
                    /\ /\ answer.kind = "refused"
                       /\ answer.subtype \in {"cd_path_not_found", "cd_path_not_dir"}
                       => AskedDir = Failed("cd") \/ ~ Inside(request.cwd, AskedDir.path)
  BY DEF CdHonoured, CdKept, Answered
<1> DEFINE r == request
           phase == WorkingDirPhase(r)
<1>1. /\ r.cd \in Seq(Argument) /\ r.dir \in Seq(Argument)
      /\ \A p \in DOMAIN r.fs : p \in Seq(STRING)
      /\ answer = Vetted(Quieted(phase), r.stdin)
  BY CommandAssumption DEF AnswerInv, Answered, Check
<1>2. \/ \E dir, words, cd : phase = Run(dir, words, cd)
      \/ \E why : phase = Refused(why)
  BY PhaseShape
<1>3. \/ \E dir, words, cd : /\ phase = Run(dir, words, cd)
                             /\ ShellDir(r.fs, dir, cd) = AskedDir
      \/ \E why : /\ phase = Refused(why)
                  /\ why \in {"cd_path_not_found", "cd_path_not_dir"} =>
                       AskedDir = Failed("cd") \/ ~ Inside(r.cwd, AskedDir.path)
  BY <1>1, WorkingDirKept DEF AskedDir
<1>4. ASSUME NEW dir, NEW words, NEW cd, phase = Run(dir, words, cd)
      PROVE  phase.kind = "run" /\ phase.dir = dir /\ phase.cd = cd
  BY <1>4 DEF Run
<1>5. ASSUME NEW why, phase = Refused(why) PROVE phase.kind = "refused" /\ phase.subtype = why
  BY <1>5 DEF Refused
<1> HIDE DEF phase
<1>6. ASSUME answer.kind = "run"
      PROVE  ShellDir(r.fs, answer.dir, answer.cd) = AskedDir
  <2>1. /\ \E dir, words, cd : phase = Run(dir, words, cd)
        /\ answer.dir = phase.dir /\ answer.cd = phase.cd
    BY <1>1, <1>2, <1>6, Spawning
  <2>2. phase.kind = "run"
    BY <1>4, <2>1
  <2>3. \E dir, words, cd : phase = Run(dir, words, cd) /\ ShellDir(r.fs, dir, cd) = AskedDir
    BY <1>3, <1>5, <1>6, <2>2
  <2>4. QED
    BY <1>4, <2>1, <2>3
<1>7. ASSUME answer.kind = "refused", answer.subtype \in {"cd_path_not_found", "cd_path_not_dir"}
      PROVE  AskedDir = Failed("cd") \/ ~ Inside(r.cwd, AskedDir.path)
  <2> DEFINE why == answer.subtype
  <2>1. phase = Refused(why)
    BY <1>1, <1>2, <1>7, Refusing
  <2>2. phase.kind = "refused" /\ phase.subtype = why
    BY <1>5, <2>1
  <2>3. r.dir = <<>>
    BY <1>4, <1>5, <1>7, <2>2, PhaseShape DEF phase
  <2>4. QED
    BY <1>3, <1>4, <1>5, <1>7, <2>2, <2>3
<1>8. QED
  BY <1>6, <1>7

(* A cd that is taken away, or refused, was to lead where the command is    *)
(* run, or nowhere that is allowed: whatever the tree, the working_dir and  *)
(* the command (strip_cd_prefix), but for a relative cd with a working_dir  *)
(* and a cd that climbs out of a symbolic link.                             *)
THEOREM ToolCdHonoured == TextSpec => []CdHonoured
BY AnswersHold, CdHolds, PTL

-----------------------------------------------------------------------------
(* Here-documents.                                                         *)

(* Those asked for, and those the server adds.                              *)
Word == STRING \cup {"--no-stat", "cd", "path", "&"}

(* The scan back from a << finds a redirection with a command that writes.  *)
LEMMA FileWriteFound ==
  ASSUME NEW words, NEW n \in Nat, NEW m \in Nat \ {0}, m < n - 2,
         IsWriteCommand(words[m]), words[n - 2] \in {">", ">>"},
         \A j \in m..(n - 1) : words[j] \notin Separators \cup {"nl"}
  PROVE  FileWrite(words, n)
<1> DEFINE places == Before(words, n)
           args == WithoutLast(places)
           first == WithoutLast(args)
<1>1. n - 1 \in places /\ \A k \in places : k \in Int /\ k <= n - 1
  BY DEF Before
<1>2. args = places \ {n - 1}
  BY <1>1, MaxIs DEF WithoutLast
<1>3. n - 2 \in args /\ \A k \in args : k \in Int /\ k <= n - 2
  BY <1>1, <1>2 DEF Before
<1> HIDE DEF args
<1>4. Max(args) = n - 2 /\ first = args \ {n - 2}
  BY <1>3, MaxIs DEF WithoutLast
<1>5. m \in first
  BY <1>2, <1>4 DEF Before
<1>6. \A j \in first : m <= j => words[j] \notin Separators
  BY <1>2, <1>4 DEF Before
<1> HIDE DEF first
<1>7. ScanArgs(words, first)
  BY <1>5, <1>6 DEF ScanArgs, WithoutLast
<1>8. QED
  BY <1>1, <1>3, <1>4, <1>7 DEF FileWrite, args, first, places

(* A command that passes the first phase has no << that is refused.         *)
LEMMA Phase1Passed ==
  ASSUME NEW words \in Seq(Word), NEW stdin, Phase1(words, stdin) = "none",
         NEW n \in Documents(words)
  PROVE  ~ FileWrite(words, n)
<1> DEFINE bad == {k \in Documents(words) : Verdict(words, k, stdin) # "none"}
<1>1. bad \in SUBSET Nat
  BY DEF Documents
<1>2. bad = {}
  <2>1. SUFFICES ASSUME bad # {} PROVE FALSE
    OBVIOUS
  <2>2. Min(bad) \in bad
    <3> HIDE DEF bad
    <3>1. QED
      BY <1>1, <2>1, MinLeast
  <2>3. Phase1(words, stdin) = Verdict(words, Min(bad), stdin)
    BY <2>1 DEF Phase1
  <2>4. QED
    BY <2>2, <2>3
<1>3. Verdict(words, n, stdin) = "none"
  BY <1>2
<1>4. QED
  BY <1>3 DEF Verdict

(* The quotes of the first phase, where none is escaped.                    *)
LEMMA QuotedFunction ==
  ASSUME NEW words \in Seq(Word)
  PROVE  \E quoted \in [0..Len(words) -> BOOLEAN] :
           /\ quoted[0] = FALSE
           /\ \A k \in 1..Len(words) :
                quoted[k] = (IF words[k] = "quote" \/ (words[k] = "escaped" /\ quoted[k - 1])
                             THEN ~ quoted[k - 1] ELSE quoted[k - 1])
           /\ \A n \in 1..Len(words) : Quoted(words, n) = quoted[n - 1]
<1> DEFINE l == Len(words)
           F == [p \in (1..l) \X BOOLEAN |->
                   IF words[p[1]] = "quote" \/ (words[p[1]] = "escaped" /\ p[2]) THEN ~ p[2] ELSE p[2]]
           Def(g) == g = [k \in 0..l |->
                            IF k = 0 THEN FALSE
                            ELSE IF words[k] = "quote" \/ (words[k] = "escaped" /\ g[k - 1])
                                 THEN ~ g[k - 1] ELSE g[k - 1]]
           f == CHOOSE g : Def(g)
<1>1. l \in Nat
  OBVIOUS
<1> DEFINE start == FALSE
           g == Recursion(l, start, F)
<1>2. /\ DOMAIN g = 0..l /\ g = [i \in DOMAIN g |-> g[i]]
      /\ g[0] = FALSE /\ \A i \in 1..l : g[i] = F[<<i, g[i - 1]>>]
  <2> HIDE DEF F, l, start
  <2>1. /\ DOMAIN g = 0..l /\ g = [i \in DOMAIN g |-> g[i]]
        /\ g[0] = start /\ \A i \in 1..l : g[i] = F[<<i, g[i - 1]>>]
    BY <1>1, RecursionTo
  <2>2. QED
    BY <2>1 DEF start
<1> HIDE DEF g
<1>3. \A k \in 0..l : g[k] \in BOOLEAN
  <2> DEFINE T == {k \in 0..l : g[k] \in BOOLEAN}
  <2>1. 0 \in T
    BY <1>1, <1>2
  <2>2. ASSUME NEW k \in 1..l, k - 1 \in T PROVE k \in T
    <3>1. <<k, g[k - 1]>> \in (1..l) \X BOOLEAN
      BY <2>2
    <3>2. F[<<k, g[k - 1]>>] \in BOOLEAN
      BY <3>1
    <3>3. g[k] = F[<<k, g[k - 1]>>]
      <4> HIDE DEF F
      <4>1. QED
        BY <1>2
    <3>4. QED
      BY <3>2, <3>3, <1>1
  <2> HIDE DEF T
  <2>3. \A k \in 0..l : k \in T
    BY <1>1, <2>1, <2>2, Upwards
  <2>4. QED
    BY <2>3 DEF T
<1>4. \A k \in 1..l : F[<<k, g[k - 1]>>] =
        (IF words[k] = "quote" \/ (words[k] = "escaped" /\ g[k - 1]) THEN ~ g[k - 1] ELSE g[k - 1])
  <2> SUFFICES ASSUME NEW k \in 1..l
               PROVE  F[<<k, g[k - 1]>>] =
                        (IF words[k] = "quote" \/ (words[k] = "escaped" /\ g[k - 1])
                         THEN ~ g[k - 1] ELSE g[k - 1])
    OBVIOUS
  <2>1. k - 1 \in 0..l
    BY <1>1
  <2>2. <<k, g[k - 1]>> \in (1..l) \X BOOLEAN
    BY <1>3, <2>1
  <2>3. QED
    BY <2>2
<1> HIDE DEF F
<1>5. Def(g)
  BY <1>1, <1>2, <1>4
<1>6. Def(f)
  <2> HIDE DEF Def
  <2>1. QED
    BY <1>5
<1>7. \A n \in 1..l : Quoted(words, n) = f[n - 1]
  BY DEF Quoted
<1> HIDE DEF f
<1>8. f[0] = FALSE /\ \A k \in 1..l :
        f[k] = (IF words[k] = "quote" \/ (words[k] = "escaped" /\ f[k - 1]) THEN ~ f[k - 1] ELSE f[k - 1])
  <2>1. \A k \in 0..l : f[k] =
          (IF k = 0 THEN FALSE
           ELSE IF words[k] = "quote" \/ (words[k] = "escaped" /\ f[k - 1]) THEN ~ f[k - 1] ELSE f[k - 1])
    BY <1>6, Zenon
  <2>2. 0 \in 0..l /\ \A k \in 1..l : k \in 0..l /\ k # 0
    BY <1>1
  <2>3. QED
    BY <2>1, <2>2
<1>9. f \in [0..l -> BOOLEAN]
  <2> DEFINE T == {k \in 0..l : f[k] \in BOOLEAN}
  <2>1. 0 \in T
    <3>1. f[0] \in BOOLEAN
      BY <1>8, Zenon
    <3>2. 0 \in 0..l
      BY <1>1
    <3>3. QED
      BY <3>1, <3>2, Zenon
  <2>2. ASSUME NEW k \in 1..l, k - 1 \in T PROVE k \in T
    <3>1. f[k - 1] \in BOOLEAN
      BY <2>2, Zenon
    <3>2. f[k] \in BOOLEAN
      BY <1>8, <3>1, Zenon
    <3>3. k \in 0..l
      BY <1>1
    <3>4. QED
      BY <3>2, <3>3, Zenon
  <2> HIDE DEF T
  <2>3. \A k \in 0..l : k \in T
    BY <1>1, <2>1, <2>2, Upwards
  <2>4. \A k \in 0..l : f[k] \in BOOLEAN
    BY <2>3 DEF T
  <2>5. f = [k \in 0..l |-> f[k]]
    BY <1>6
  <2>6. QED
    BY <2>4, <2>5
<1>10. QED
  BY <1>7, <1>8, <1>9

ScanState == [next : Nat, quoted : BOOLEAN, ok : BOOLEAN]

LEMMA ScannedState ==
  ASSUME NEW words \in Seq(Word), NEW st \in ScanState, NEW n \in 1..Len(words)
  PROVE  Scanned(words, st, n) \in ScanState
<1> DEFINE after == DelimiterAfter(words, n)
           closers == Closers(words, Min(after))
           res == Scanned(words, st, n)
<1>1. CASE res = st
  BY <1>1
<1>2. CASE res = [st EXCEPT !.quoted = ~ st.quoted] \/ res = [st EXCEPT !.ok = FALSE]
  <2> DEFINE other == ~ st.quoted
  <2> HIDE DEF res, other
  <2>1. other \in BOOLEAN
    BY DEF other
  <2>2. [st EXCEPT !.quoted = other] \in ScanState
    BY <2>1 DEF ScanState
  <2>3. [st EXCEPT !.ok = FALSE] \in ScanState
    BY DEF ScanState
  <2>4. res = [st EXCEPT !.quoted = other] \/ res = [st EXCEPT !.ok = FALSE]
    BY <1>2 DEF other
  <2>5. QED
    BY <2>2, <2>3, <2>4 DEF res
<1>3. CASE res # st /\ res # [st EXCEPT !.quoted = ~ st.quoted] /\ res # [st EXCEPT !.ok = FALSE]
  <2>1. after # {} /\ closers # {} /\ res = [st EXCEPT !.next = Min(closers) + 1]
    BY <1>3 DEF Scanned
  <2>2. after \in SUBSET Nat
    BY DEF DelimiterAfter
  <2>3. Min(after) \in Nat
    <3> HIDE DEF after
    <3>1. QED
      BY <2>1, <2>2, MinLeast
  <2>4. closers \in SUBSET Nat
    <3> HIDE DEF after
    <3>1. QED
      BY <2>3 DEF Closers
  <2>5. Min(closers) \in Nat
    <3> HIDE DEF closers
    <3>1. QED
      BY <2>1, <2>4, MinLeast
  <2> DEFINE m == Min(closers)
  <2>6. m + 1 \in Nat
    BY <2>5
  <2> HIDE DEF closers, res, m
  <2>7. [st EXCEPT !.next = m + 1] \in ScanState
    BY <2>6 DEF ScanState
  <2>8. res = [st EXCEPT !.next = m + 1]
    BY <2>1 DEF m
  <2>9. QED
    BY <2>7, <2>8 DEF res
<1>4. QED
  BY <1>1, <1>2, <1>3

(* The states of the second phase.                                          *)
LEMMA ScanFunction ==
  ASSUME NEW words \in Seq(Word)
  PROVE  \E scan : /\ scan[0] = [next |-> 1, quoted |-> FALSE, ok |-> TRUE]
                   /\ \A k \in 1..Len(words) : scan[k] = Scanned(words, scan[k - 1], k)
                   /\ Phase2(words) = scan[Len(words)].ok
<1> DEFINE l == Len(words)
           start == [next |-> 1, quoted |-> FALSE, ok |-> TRUE]
           F == [p \in (1..l) \X ScanState |-> Scanned(words, p[2], p[1])]
           Def(g) == g = [k \in 0..l |-> IF k = 0 THEN start ELSE Scanned(words, g[k - 1], k)]
           f == CHOOSE g : Def(g)
           g == Recursion(l, start, F)
<1>1. l \in Nat /\ start \in ScanState
  BY DEF ScanState
<1>2. /\ DOMAIN g = 0..l /\ g = [i \in DOMAIN g |-> g[i]]
      /\ g[0] = start /\ \A i \in 1..l : g[i] = F[<<i, g[i - 1]>>]
  <2> HIDE DEF F, l, start
  <2>1. QED
    BY <1>1, RecursionTo
<1>3. \A k \in 1..l : \A st \in ScanState :
        F[<<k, st>>] = Scanned(words, st, k) /\ F[<<k, st>>] \in ScanState
  <2> SUFFICES ASSUME NEW k \in 1..l, NEW st \in ScanState
               PROVE  F[<<k, st>>] = Scanned(words, st, k) /\ F[<<k, st>>] \in ScanState
    OBVIOUS
  <2>1. <<k, st>> \in (1..l) \X ScanState
    OBVIOUS
  <2>2. F[<<k, st>>] = Scanned(words, st, k)
    BY <2>1
  <2>3. QED
    BY <2>2, ScannedState
<1> HIDE DEF F, g, l, start
<1>4. \A k \in 0..l : g[k] \in ScanState
  <2> DEFINE T == {k \in 0..l : g[k] \in ScanState}
  <2>1. 0 \in T
    BY <1>1, <1>2
  <2>2. ASSUME NEW k \in 1..l, k - 1 \in T PROVE k \in T
    <3>1. g[k - 1] \in ScanState
      BY <2>2
    <3>2. g[k] = F[<<k, g[k - 1]>>] /\ F[<<k, g[k - 1]>>] \in ScanState
      BY <1>2, <1>3, <3>1
    <3>3. QED
      BY <1>1, <3>2
  <2> HIDE DEF T
  <2>3. \A k \in 0..l : k \in T
    BY <1>1, <2>1, <2>2, Upwards
  <2>4. QED
    BY <2>3 DEF T
<1>5. \A k \in 1..l : g[k] = Scanned(words, g[k - 1], k)
  <2> SUFFICES ASSUME NEW k \in 1..l PROVE g[k] = Scanned(words, g[k - 1], k)
    OBVIOUS
  <2>1. g[k - 1] \in ScanState
    BY <1>1, <1>4
  <2>2. QED
    BY <1>2, <1>3, <2>1
<1>6. Def(g)
  <2>1. \A k \in 0..l : g[k] = IF k = 0 THEN start ELSE Scanned(words, g[k - 1], k)
    BY <1>1, <1>2, <1>5
  <2>2. QED
    BY <1>2, <2>1
<1>7. Def(f)
  <2> HIDE DEF Def
  <2>1. QED
    BY <1>6
<1>8. Phase2(words) = f[l].ok
  BY DEF Phase2, l, start
<1> HIDE DEF f
<1>9. f[0] = start /\ \A k \in 1..l : f[k] = Scanned(words, f[k - 1], k)
  <2>1. \A k \in 0..l : f[k] = IF k = 0 THEN start ELSE Scanned(words, f[k - 1], k)
    BY <1>7, Zenon
  <2>2. 0 \in 0..l /\ \A k \in 1..l : k \in 0..l /\ k # 0
    BY <1>1
  <2>3. QED
    BY <2>1, <2>2
<1>10. QED
  BY <1>8, <1>9 DEF l, start

(* The first here-document of a command that passes both phases is closed.  *)
LEMMA FirstClosed ==
  ASSUME NEW words \in Seq(Word), Phase2(words), Documents(words) # {},
         \A n \in DOMAIN words : words[n] # "escaped"
  PROVE  Closers(words, Min(DelimiterAfter(words, Min(Documents(words))))) # {}
<1> DEFINE l == Len(words)
           docs == Documents(words)
           first == Min(docs)
           closers == Closers(words, Min(DelimiterAfter(words, first)))
<1> SUFFICES ASSUME closers = {} PROVE FALSE
  OBVIOUS
<1>1. l \in Nat /\ DOMAIN words = 1..l
  OBVIOUS
<1>2. docs \in SUBSET Nat /\ docs # {}
  BY DEF Documents
<1>3. first \in docs /\ \A n \in docs : first <= n
  <2> HIDE DEF docs
  <2>1. QED
    BY <1>2, MinLeast
<1>4. first \in 1..l /\ words[first] = "<<" /\ ~ Quoted(words, first)
  BY <1>3 DEF Documents
<1>5. \A n \in 1..l : n < first /\ words[n] = "<<" => Quoted(words, n)
  <2> SUFFICES ASSUME NEW n \in 1..l, n < first, words[n] = "<<", ~ Quoted(words, n) PROVE FALSE
    OBVIOUS
  <2>1. n \in docs
    BY DEF Documents
  <2>2. QED
    BY <1>3, <1>4, <2>1
<1>6. PICK quoted \in [0..l -> BOOLEAN] :
        /\ quoted[0] = FALSE
        /\ \A k \in 1..l :
             quoted[k] = (IF words[k] = "quote" \/ (words[k] = "escaped" /\ quoted[k - 1])
                          THEN ~ quoted[k - 1] ELSE quoted[k - 1])
        /\ \A n \in 1..l : Quoted(words, n) = quoted[n - 1]
  BY QuotedFunction
<1>7. PICK scan : /\ scan[0] = [next |-> 1, quoted |-> FALSE, ok |-> TRUE]
                  /\ \A k \in 1..l : scan[k] = Scanned(words, scan[k - 1], k)
                  /\ Phase2(words) = scan[l].ok
  BY ScanFunction
<1> HIDE DEF docs, first, closers, l
<1> DEFINE Alike(k) == /\ scan[k].next = 1 /\ scan[k].ok = TRUE /\ scan[k].quoted = quoted[k]
                       /\ scan[k] = [next |-> 1, quoted |-> scan[k].quoted, ok |-> TRUE]
           T == {k \in 0..(first - 1) : Alike(k)}
<1>8. 0 \in T
  <2>1. scan[0].next = 1 /\ scan[0].ok = TRUE /\ scan[0].quoted = FALSE
    BY <1>7
  <2>2. scan[0] = [next |-> 1, quoted |-> scan[0].quoted, ok |-> TRUE]
    BY <1>7, <2>1, Zenon
  <2>3. scan[0].quoted = quoted[0]
    BY <1>6, <2>1, Zenon
  <2>4. 0 \in 0..(first - 1)
    BY <1>1, <1>4
  <2>5. QED
    BY <2>1, <2>2, <2>3, <2>4, Zenon
<1>9. ASSUME NEW k \in 1..(first - 1), k - 1 \in T PROVE k \in T
  <2>1. k \in 1..l /\ k < first /\ k \in 0..(first - 1) /\ k \in Nat /\ ~ (k < 1)
    BY <1>1, <1>4
  <2>2. /\ words[k] # "escaped" /\ scan[k] = Scanned(words, scan[k - 1], k)
        /\ words[k] = "<<" => quoted[k - 1]
    BY <1>1, <1>5, <1>6, <1>7, <2>1
  <2>3. /\ scan[k - 1].next = 1 /\ scan[k - 1].ok = TRUE /\ scan[k - 1].quoted = quoted[k - 1]
        /\ scan[k - 1] = [next |-> 1, quoted |-> scan[k - 1].quoted, ok |-> TRUE]
    BY <1>9
  <2>4. CASE words[k] = "quote"
    <3>1. scan[k] = [scan[k - 1] EXCEPT !.quoted = ~@]
      BY <2>1, <2>2, <2>3, <2>4 DEF Scanned
    <3>2. quoted[k] = ~ quoted[k - 1]
      BY <1>6, <2>1, <2>4, Zenon
    <3>3. scan[k] = [next |-> 1, quoted |-> ~ scan[k - 1].quoted, ok |-> TRUE]
      BY <2>3, <3>1
    <3>4. scan[k].next = 1 /\ scan[k].ok = TRUE /\ scan[k].quoted = ~ scan[k - 1].quoted
      BY <3>3
    <3>5. scan[k] = [next |-> 1, quoted |-> scan[k].quoted, ok |-> TRUE]
      BY <3>3, <3>4, Zenon
    <3>6. scan[k].quoted = quoted[k]
      BY <2>3, <3>2, <3>4, Zenon
    <3>7. QED
      BY <2>1, <3>4, <3>5, <3>6, Zenon
  <2>5. CASE words[k] # "quote"
    <3>1. scan[k] = scan[k - 1]
      BY <2>1, <2>2, <2>3, <2>5 DEF Scanned
    <3>2. quoted[k] = quoted[k - 1]
      BY <1>6, <2>1, <2>2, <2>5, Zenon
    <3>3. QED
      BY <2>1, <2>3, <3>1, <3>2
  <2>6. QED
    BY <2>4, <2>5
<1>10. Alike(first - 1)
  <2>1. first - 1 \in Nat /\ first - 1 \in 0..(first - 1)
    BY <1>1, <1>4
  <2> HIDE DEF T, Alike
  <2>2. \A k \in 0..(first - 1) : k \in T
    BY <2>1, <1>8, <1>9, Upwards
  <2>3. QED
    BY <2>1, <2>2 DEF T
<1>11. ~ scan[first].ok
  <2>1. ~ quoted[first - 1] /\ scan[first] = Scanned(words, scan[first - 1], first)
    BY <1>4, <1>6, <1>7
  <2>2. ~ (first < 1)
    BY <1>1, <1>4
  <2>3. scan[first] = [scan[first - 1] EXCEPT !.ok = FALSE]
    BY <1>4, <1>10, <2>1, <2>2 DEF Scanned, closers
  <2>4. QED
    BY <1>10, <2>3
<1> DEFINE U == {k \in 0..l : first <= k => ~ scan[k].ok}
<1>12. 0 \in U
  BY <1>1, <1>4
<1>13. ASSUME NEW k \in 1..l, k - 1 \in U PROVE k \in U
  <2>1. CASE first <= k - 1
    <3>1. ~ scan[k - 1].ok
      BY <1>13, <2>1
    <3>2. scan[k] = Scanned(words, scan[k - 1], k)
      BY <1>7
    <3>3. scan[k] = scan[k - 1]
      BY <3>1, <3>2 DEF Scanned
    <3>4. QED
      BY <1>1, <3>1, <3>3
  <2>2. CASE ~ (first <= k - 1)
    BY <1>1, <1>4, <1>11, <2>2
  <2>3. QED
    BY <2>1, <2>2
<1>14. l \in U
  <2> HIDE DEF U
  <2>1. \A k \in 0..l : k \in U
    BY <1>1, <1>12, <1>13, Upwards
  <2>2. QED
    BY <1>1, <2>1
<1>15. ~ scan[l].ok
  BY <1>1, <1>4, <1>14
<1>16. QED
  BY <1>7, <1>15, Zenon

(* What is run has passed the checks, with the words that were asked for.   *)
LEMMA AcceptedWords ==
  ASSUME NEW r, r.words \in Seq(STRING), NEW stdin,
         Vetted(Quieted(WorkingDirPhase(r)), stdin).kind = "run"
  PROVE  LET run == Vetted(Quieted(WorkingDirPhase(r)), stdin)
         IN  Full(run) \in Seq(Word) /\ PreSpawn(Full(run), stdin) = "none"
<1> DEFINE phase == WorkingDirPhase(r)
           q == Quieted(phase)
           run == Vetted(q, stdin)
           verdict == PreSpawn(Full(q), stdin)
           dir == WorkingDir(r.fs, r.cwd, r.dir)
           whole == Run(dir.path, r.words, r.cd)
           to == CdPath(r)
<1>1. \/ \E d, cd : phase = Run(d, r.words, cd)
      \/ \E why : phase = Refused(why)
  <2>1. \/ phase = Refused("working_dir_not_found") \/ phase = Refused("working_dir_not_dir")
        \/ phase = StripCd(r, dir.path, whole)
    BY DEF WorkingDirPhase
  <2>2. \/ StripCd(r, dir.path, whole) = whole
        \/ StripCd(r, dir.path, whole) = Run(dir.path, r.words, <<>>)
        \/ StripCd(r, dir.path, whole) = Promoted(r, whole, to)
    BY DEF StripCd, Dropped
  <2>3. \/ Promoted(r, whole, to) = whole \/ Promoted(r, whole, to) = Run(to.path, r.words, <<>>)
        \/ \E why : Promoted(r, whole, to) = Refused(why)
    BY DEF Promoted
  <2>4. QED
    BY <2>1, <2>2, <2>3
<1>2. ASSUME NEW why, phase = Refused(why) PROVE run.kind = "refused"
  <2>1. phase.kind = "refused"
    BY <1>2 DEF Refused
  <2>2. run = phase
    BY <2>1 DEF Vetted, Quieted
  <2>3. QED
    BY <2>1, <2>2
<1>3. PICK d, cd : phase = Run(d, r.words, cd)
  BY <1>1, <1>2
<1>4. phase.kind = "run" /\ phase.words = r.words /\ r.words \in Seq(Word)
  BY <1>3, SeqMonotonic DEF Run, Word
<1>5. q.kind = "run" /\ q.words \in Seq(Word)
  <2>1. NoStat(r.words) \in Seq(Word)
    <3>1. r.words \in Seq(Word) /\ "--no-stat" \in Word
      BY SeqMonotonic DEF Word
    <3>2. Append(r.words, "--no-stat") \in Seq(Word)
      BY <3>1, AppendProperties
    <3>3. QED
      BY <3>1, <3>2 DEF NoStat
  <2>2. q = IF phase.cd = <<>> THEN [phase EXCEPT !.words = NoStat(r.words)] ELSE phase
    BY <1>4 DEF Quieted
  <2> DEFINE quiet == NoStat(r.words)
  <2> HIDE DEF quiet, phase, q
  <2>3. phase = [kind |-> "run", dir |-> d, words |-> r.words, cd |-> cd]
    BY <1>3 DEF Run
  <2>4. QED
    BY <1>4, <2>1, <2>2, <2>3 DEF quiet
<1>6. run = IF verdict # "none" THEN Refused(verdict) ELSE q
  BY <1>5 DEF Vetted, Spawned
<1>7. run = q /\ verdict = "none"
  <2>1. Refused(verdict).kind = "refused"
    BY DEF Refused
  <2> HIDE DEF verdict, q, run
  <2>2. run.kind = "run"
    BY DEF run, q
  <2>3. QED
    BY <1>6, <2>1, <2>2
<1>8. Full(q) \in Seq(Word)
  <2> DEFINE head == IF q.cd = <<>> THEN <<>> ELSE <<"cd", "path", "&">>
  <2>1. head \in Seq(Word)
    <3>1. <<>> \in Seq(Word)
      OBVIOUS
    <3>2. "cd" \in Word /\ "path" \in Word /\ "&" \in Word
      BY DEF Word
    <3>3. <<"cd", "path", "&">> \in Seq(Word)
      BY <3>2
    <3>4. QED
      BY <3>1, <3>3
  <2> HIDE DEF q, head
  <2>2. head \o q.words \in Seq(Word)
    BY <1>5, <2>1, ConcatProperties
  <2>3. QED
    BY <2>2 DEF Full, head
<1>9. QED
  BY <1>7, <1>8

LEMMA HeredocsHold == AnswerInv => AcceptedHeredocs
<1> SUFFICES ASSUME AnswerInv, Answered("exec_command"), answer.kind = "run"
             PROVE  AcceptedHeredocs!2
  BY DEF AcceptedHeredocs
<1> DEFINE words == Full(answer)
           stdin == request.stdin
           docs == Documents(words)
<1>1. request.words \in Seq(STRING) /\ answer = Vetted(Quieted(WorkingDirPhase(request)), stdin)
  BY CommandAssumption DEF AnswerInv, Answered, Check
<1>2. words \in Seq(Word) /\ PreSpawn(words, stdin) = "none"
  BY <1>1, AcceptedWords
<1> HIDE DEF words
<1>3. Phase1(words, stdin > 0) = "none" /\ Phase2(words)
  BY <1>2 DEF PreSpawn
<1>4. ASSUME NEW n \in docs, NEW m \in DOMAIN words, m < n - 2,
             IsWriteCommand(words[m]), words[n - 2] \in {">", ">>"},
             \A j \in m..(n - 1) : words[j] \notin Separators \cup {"nl"}
      PROVE  FALSE
  <2>1. n \in Nat /\ m \in Nat \ {0}
    BY <1>2 DEF Documents
  <2>2. FileWrite(words, n)
    BY <1>4, <2>1, FileWriteFound
  <2>3. QED
    BY <1>2, <1>3, <2>2, Phase1Passed
<1>5. ASSUME docs # {}, \A n \in DOMAIN words : words[n] # "escaped"
      PROVE  Closers(words, Min(DelimiterAfter(words, Min(docs)))) # {}
  BY <1>2, <1>3, <1>5, FirstClosed
<1>6. QED
  BY <1>4, <1>5 DEF words

(* A command that is run has no here-document behind a redirection of a     *)
(* command that writes, and its first one is closed, for any words          *)
(* (validate_heredocs, scan_backward_for_file_write).                       *)
THEOREM ToolAcceptedHeredocs == TextSpec => []AcceptedHeredocs
BY AnswersHold, HeredocsHold, PTL

-----------------------------------------------------------------------------
(* Citations.                                                              *)

(* The window is the lines at most Window away.                             *)
LEMMA WindowLines ==
  ASSUME NEW line \in Nat \ {0}, NEW lines \in Nat, line <= lines
  PROVE  WindowOf(line, lines) = {n \in 1..lines : line - Window <= n /\ n <= line + Window}
<1>1. Window \in Nat
  BY AnchorsAssumption
<1> DEFINE least == Min({line + Window, lines})
<1>2. {line + Window, lines} \in SUBSET Nat /\ {line + Window, lines} # {}
  BY <1>1
<1>3. /\ least \in {line + Window, lines}
      /\ \A x \in {line + Window, lines} : least <= x
  BY <1>2, MinLeast
<1>4. WindowOf(line, lines) = (IF line > 1 + Window THEN line - Window ELSE 1)..least
  BY DEF WindowOf
<1> HIDE DEF least
<1>5. QED
  BY <1>1, <1>3, <1>4

LEMMA VerdictExact ==
  ASSUME NEW a \in Anchor, NEW reading,
         reading = <<>> \/ \E t \in Seq(SUBSET STRING) : reading = <<t>>
  PROVE  LET res == Verify(a, reading)
             lines == reading[1]
         IN  /\ <<res.path, res.line, res.symbol>> = <<a.path, a.line, a.symbol>>
             /\ Holds(res) <=>
                  /\ reading # <<>> /\ a.line \in DOMAIN lines
                  /\ a.symbol # <<>> =>
                       \E d \in -Window..Window : /\ a.line + d \in DOMAIN lines
                                                  /\ a.symbol[1] \in lines[a.line + d]
             /\ res.at # NoLine =>
                  /\ reading # <<>>
                  /\ \A k \in DOMAIN lines : a.symbol[1] \in lines[k] /\ k < res.at => k < a.line - Window
<1> DEFINE res == Verify(a, reading)
           lines == reading[1]
           hits == {n \in WindowOf(a.line, Len(lines)) : a.symbol[1] \in lines[n]}
           seen == [Nothing(a) EXCEPT !.exists = TRUE, !.inRange = a.line <= Len(lines)]
           near == \E d \in -Window..Window : /\ a.line + d \in DOMAIN lines
                                              /\ a.symbol[1] \in lines[a.line + d]
           none == [path |-> a.path, line |-> a.line, symbol |-> a.symbol,
                    exists |-> FALSE, inRange |-> FALSE, found |-> "not_searched", at |-> 0]
<1>1. Nothing(a) = none /\ a.line \in Nat /\ Window \in Nat /\ NoLine = 0
  BY AnchorsAssumption DEF Nothing, NoLine, Anchor
<1>2. CASE reading = <<>> \/ a.line = 0
  <2>1. res = none
    BY <1>1, <1>2 DEF Verify
  <2>2. reading # <<>> => a.line \notin DOMAIN lines
    BY <1>2
  <2> HIDE DEF res, near
  <2>3. QED
    BY <1>1, <2>1, <2>2 DEF Holds, res
<1>3. CASE reading # <<>> /\ a.line # 0
  <2>1. lines \in Seq(SUBSET STRING) /\ Len(lines) \in Nat /\ DOMAIN lines = 1..Len(lines)
    BY <1>3
  <2>2. seen = [path |-> a.path, line |-> a.line, symbol |-> a.symbol, exists |-> TRUE,
                inRange |-> a.line <= Len(lines), found |-> "not_searched", at |-> 0]
    <3> DEFINE within == a.line <= Len(lines)
    <3>1. seen = [none EXCEPT !.exists = TRUE, !.inRange = within]
      BY <1>1
    <3> HIDE DEF within, seen
    <3>2. seen = [path |-> a.path, line |-> a.line, symbol |-> a.symbol, exists |-> TRUE,
                  inRange |-> within, found |-> "not_searched", at |-> 0]
      BY <3>1
    <3>3. QED
      BY <3>2 DEF within
  <2>3. res = IF a.symbol = <<>> \/ ~ seen.inRange THEN seen
              ELSE IF hits = {} THEN [seen EXCEPT !.found = "no"]
              ELSE [seen EXCEPT !.found = "yes", !.at = Min(hits)]
    BY <1>3 DEF Verify
  <2>4. a.line \in DOMAIN lines <=> a.line <= Len(lines)
    BY <1>1, <1>3, <2>1
  <2>5. CASE a.symbol = <<>> \/ ~ seen.inRange
    <3>1. res = seen
      BY <2>3, <2>5
    <3> HIDE DEF res, seen, near, lines
    <3>2. /\ res.path = a.path /\ res.line = a.line /\ res.symbol = a.symbol
          /\ res.at = 0 /\ (Holds(res) <=> a.line <= Len(lines))
          /\ (seen.inRange <=> a.line <= Len(lines))
      BY <2>2, <3>1 DEF Holds
    <3>3. Holds(res) <=> reading # <<>> /\ a.line \in DOMAIN lines /\ (a.symbol # <<>> => near)
      BY <1>3, <2>4, <2>5, <3>2
    <3>4. QED
      BY <1>1, <3>2, <3>3 DEF res, lines, near
  <2>6. CASE a.symbol # <<>> /\ seen.inRange
    <3>1. a.line <= Len(lines)
      BY <2>2, <2>6
    <3>2. hits = {n \in 1..Len(lines) : a.line - Window <= n /\ n <= a.line + Window /\ a.symbol[1] \in lines[n]}
      <4>1. WindowOf(a.line, Len(lines)) =
              {n \in 1..Len(lines) : a.line - Window <= n /\ n <= a.line + Window}
        BY <1>1, <1>3, <2>1, <3>1, WindowLines
      <4>2. QED
        BY <4>1
    <3>3. near <=> hits # {}
      <4>1. ASSUME NEW d \in -Window..Window, a.line + d \in DOMAIN lines,
                   a.symbol[1] \in lines[a.line + d]
            PROVE  a.line + d \in hits
        BY <1>1, <2>1, <3>2, <4>1
      <4>2. ASSUME NEW n \in hits
            PROVE  /\ n - a.line \in -Window..Window /\ a.line + (n - a.line) = n
                   /\ n \in DOMAIN lines /\ a.symbol[1] \in lines[n]
        BY <1>1, <2>1, <3>2
      <4>3. QED
        BY <4>1, <4>2
    <3>4. CASE hits = {}
      <4>1. res = [seen EXCEPT !.found = "no"]
        BY <2>3, <2>6, <3>4
      <4> HIDE DEF res, seen, near, lines, hits
      <4>2. /\ res.path = a.path /\ res.line = a.line /\ res.symbol = a.symbol
            /\ res.found = "no" /\ res.at = 0
        BY <2>2, <4>1
      <4>3. ~ Holds(res)
        BY <4>2 DEF Holds
      <4>4. QED
        BY <1>1, <2>6, <3>3, <3>4, <4>2, <4>3 DEF res, lines, near
    <3>5. CASE hits # {}
      <4>1. res = [seen EXCEPT !.found = "yes", !.at = Min(hits)]
        BY <2>3, <2>6, <3>5
      <4>2. hits \in SUBSET Nat
        BY <2>1, <3>2
      <4>3. Min(hits) \in hits /\ \A n \in hits : Min(hits) <= n
        <5> HIDE DEF hits
        <5>1. QED
          BY <3>5, <4>2, MinLeast
      <4> HIDE DEF seen, res
      <4>4. /\ res.path = a.path /\ res.line = a.line /\ res.symbol = a.symbol
            /\ res.found = "yes" /\ res.at = Min(hits) /\ res.exists /\ res.inRange
        <5> HIDE DEF hits, lines
        <5>1. QED
          BY <2>2, <3>1, <4>1
      <4>5. Holds(res)
        BY <4>4 DEF Holds
      <4>6. ASSUME NEW k \in DOMAIN lines, a.symbol[1] \in lines[k], k < Min(hits)
            PROVE  k < a.line - Window
        <5> DEFINE m == Min(hits)
        <5>1. m \in Nat /\ m <= a.line + Window /\ k \notin hits /\ k \in 1..Len(lines)
          <6>1. k \in 1..Len(lines) /\ k \in Int
            BY <2>1
          <6>2. m \in hits /\ m \in Nat
            BY <4>2, <4>3
          <6>3. m <= a.line + Window
            BY <3>2, <6>2
          <6> HIDE DEF hits
          <6>4. k \notin hits
            BY <4>3, <4>6, <6>1, <6>2
          <6>5. QED
            BY <6>1, <6>2, <6>3, <6>4
        <5>2. ~ (a.line - Window <= k /\ k <= a.line + Window)
          BY <3>2, <4>6, <5>1
        <5> HIDE DEF m
        <5>3. k < m
          BY <4>6 DEF m
        <5>4. QED
          BY <1>1, <2>1, <5>1, <5>2, <5>3
      <4> HIDE DEF near, lines, hits
      <4>7. QED
        BY <1>3, <2>4, <3>1, <3>3, <3>5, <4>4, <4>5, <4>6 DEF res, lines, near
    <3>6. QED
      BY <3>4, <3>5
  <2>7. QED
    BY <2>5, <2>6
<1>4. QED
  BY <1>2, <1>3

LEMMA AnchorsHold == AnswerInv => AnchorsExact
<1> SUFFICES ASSUME AnswerInv, Answered("verify_anchors"), answer.kind = "ok",
                    NEW n \in DOMAIN request.anchors
             PROVE  AnchorsExact!2!(n)
  BY DEF AnchorsExact
<1> DEFINE a == request.anchors[n]
           base == RelativeTo(request.fs, request.cwd, request.root, TRUE)
           root == Resolve(request.fs, request.cwd, request.root).path
           p == Resolve(request.later, root, a.path)
           present == Found(p) /\ Inside(root, p.path) /\ p.path \in DOMAIN request.text
           reading == Reading(request.text, request.later, root, a.path)
<1>1. answer = VerifyAnchors(request)
  BY DEF AnswerInv
<1>2. /\ request.anchors \in Seq(Anchor)
      /\ \A q \in DOMAIN request.text : request.text[q] \in Seq(SUBSET STRING)
  BY AnchorsAssumption DEF AnswerInv, Answered
<1>3. a \in Anchor
  BY <1>2
<1>4. Found(base)
  BY <1>1 DEF VerifyAnchors
<1>5. base.path = root
  BY <1>4 DEF RelativeTo, Found, Failed
<1>6. answer.results = VerifyBatch(request, base.path)
  BY <1>1 DEF VerifyAnchors
<1>7. answer.results[n] = Verify(a, reading)
  BY <1>5, <1>6 DEF VerifyBatch
<1>8. reading = IF present THEN <<request.text[p.path]>> ELSE <<>>
  BY DEF Reading
<1>9. reading = <<>> \/ \E t \in Seq(SUBSET STRING) : reading = <<t>>
  <2> HIDE DEF reading
  <2>1. QED
    BY <1>2, <1>8
<1>10. /\ reading # <<>> <=> present
       /\ present => reading[1] = request.text[p.path]
  <2> HIDE DEF reading
  <2>1. QED
    BY <1>8
<1> HIDE DEF a, base, root, p, present, reading
<1>11. LET res == answer.results[n]
           lines == reading[1]
       IN  /\ <<res.path, res.line, res.symbol>> = <<a.path, a.line, a.symbol>>
           /\ Holds(res) <=>
                /\ reading # <<>> /\ a.line \in DOMAIN lines
                /\ a.symbol # <<>> =>
                     \E d \in -Window..Window : /\ a.line + d \in DOMAIN lines
                                                /\ a.symbol[1] \in lines[a.line + d]
           /\ res.at # NoLine =>
                /\ reading # <<>>
                /\ \A k \in DOMAIN lines : a.symbol[1] \in lines[k] /\ k < res.at => k < a.line - Window
  BY <1>3, <1>7, <1>9, VerdictExact
<1> DEFINE res == answer.results[n]
           lines == request.text[p.path]
<1>12. /\ <<res.path, res.line, res.symbol>> = <<a.path, a.line, a.symbol>>
       /\ Holds(res) <=>
            /\ present /\ a.line \in DOMAIN lines
            /\ a.symbol # <<>> =>
                 \E d \in -Window..Window : /\ a.line + d \in DOMAIN lines
                                            /\ a.symbol[1] \in lines[a.line + d]
       /\ res.at # NoLine =>
            \A k \in DOMAIN lines : a.symbol[1] \in lines[k] /\ k < res.at => k < a.line - Window
  <2> DEFINE first == reading[1]
  <2>1. present => first = lines
    BY <1>10
  <2> HIDE DEF first, lines, res
  <2>2. QED
    BY <1>10, <1>11, <2>1 DEF first, res
<1>13. QED
  BY <1>12 DEF a, p, root, present

(* Each citation of a batch has the verdict it would have alone, whatever    *)
(* the files are when they are read, and one that holds has the line, and   *)
(* the symbol within the window (verify_grouped, verify_anchors_with).      *)
THEOREM ToolAnchorsExact == TextSpec => []AnchorsExact
BY AnswersHold, AnchorsHold, PTL

-----------------------------------------------------------------------------
(* The modules of imports.                                                 *)

(* Where one file can be meant, Locate finds it, and where none can, none.  *)
LEMMA LocateExact ==
  ASSUME NEW fs, NEW p \in Seq(STRING), NEW import \in Import, import.dots > 0,
         \A q \in DOMAIN fs : q # <<>> => IsDir(fs, Front(q))
  PROVE  LET files == PythonFiles(fs, p, import)
         IN  /\ files = {} => Locate(fs, p, import) = <<>>
             /\ IsFiniteSet(files)
             /\ \A f : files = {f} => Locate(fs, p, import) = <<f>>
<1> DEFINE dots == import.dots
           module == import.module
           dir == Climb(p, dots)
           whole == dir \o module
           first == Py["__init__"]
           init == whole \o <<first>>
           file == dir \o Front(module) \o <<Py[Last(module)]>>
           files == PythonFiles(fs, p, import)
           S == STRING \cup {first}
<1>1. dots \in Nat /\ dots > 0 /\ module \in Seq(STRING) /\ Len(p) \in Nat
  BY DEF Import
<1>2. CASE Len(p) < dots
  <2>1. Locate(fs, p, import) = <<>>
    BY <1>2 DEF Locate
  <2>2. files = {}
    BY <1>1, <1>2 DEF PythonFiles
  <2> HIDE DEF files
  <2>3. QED
    BY <2>1, <2>2, FS_EmptySet DEF files
<1>3. CASE ~ (Len(p) < dots)
  <2>1. ~ (Len(p) - dots < 0)
    BY <1>1, <1>3
  <2>2. dir \in Seq(S)
    <3>1. \A i \in 1..(Len(p) - dots) : p[i] \in S
      BY <1>1, <1>3
    <3>2. 1 \in Int /\ Len(p) - dots \in Int
      BY <1>1
    <3>3. QED
      BY <3>1, <3>2, SubSeqProperties DEF Climb
  <2>3. module \in Seq(S)
    BY <1>1, SeqMonotonic
  <2>4. whole \in Seq(S)
    BY <2>2, <2>3, ConcatProperties
  <2>5. init # <<>> /\ Front(init) = whole
    <3>1. first \in S
      OBVIOUS
    <3> HIDE DEF S, first, whole
    <3>2. whole \o <<first>> # <<>> /\ Front(whole \o <<first>>) = whole
      BY <2>4, <3>1, FrontOfNext
    <3>3. QED
      BY <3>2
  <2>6. IsFile(fs, init) => IsDir(fs, whole)
    BY <2>5 DEF IsFile
  <2>7. files = {f \in {init} : IsFile(fs, f)}
                \cup (IF module = <<>> THEN {}
                      ELSE {f \in {Front(whole) \o <<Py[Last(whole)]>>} : IsFile(fs, f)})
    BY <2>1 DEF PythonFiles, Climb, Front, Last
  <2>8. Locate(fs, p, import) =
          LET named == IF module = <<>> THEN dir \o <<first>> ELSE file
          IN  IF IsFile(fs, named) THEN <<named>>
              ELSE IF module # <<>> /\ IsDir(fs, whole) /\ IsFile(fs, init)
              THEN <<init>> ELSE <<>>
    BY <1>3 DEF Locate
  <2>9. CASE module = <<>>
    <3>1. whole = dir
      BY <2>2, <2>9, ConcatEmptySeq
    <3>2. files = {f \in {init} : IsFile(fs, f)}
      BY <2>7, <2>9
    <3>3. Locate(fs, p, import) = IF IsFile(fs, init) THEN <<init>> ELSE <<>>
      BY <2>8, <2>9, <3>1
    <3> HIDE DEF init, files
    <3>4. files = IF IsFile(fs, init) THEN {init} ELSE {}
      BY <3>2
    <3>5. IsFiniteSet(files)
      BY <3>4, FS_EmptySet, FS_Singleton
    <3>6. QED
      BY <3>3, <3>4, <3>5 DEF files
  <2>10. CASE module # <<>>
    <3>1. Front(whole) = dir \o Front(module) /\ Last(whole) = Last(module)
      BY <2>2, <2>3, <2>10, FrontOfConcat
    <3>2. files = {f \in {init} : IsFile(fs, f)} \cup {f \in {file} : IsFile(fs, f)}
      BY <2>7, <2>10, <3>1
    <3>3. Locate(fs, p, import) = IF IsFile(fs, file) THEN <<file>>
                                  ELSE IF IsFile(fs, init) THEN <<init>> ELSE <<>>
      BY <2>6, <2>8, <2>10
    <3> HIDE DEF init, file, files
    <3>4. IsFiniteSet(files)
      <4>1. IsFiniteSet({init} \cup {file})
        BY FS_Singleton, FS_AddElement
      <4>2. files \in SUBSET ({init} \cup {file})
        BY <3>2
      <4>3. QED
        BY <4>1, <4>2, FS_Subset
    <3>5. files = {} => ~ IsFile(fs, init) /\ ~ IsFile(fs, file)
      BY <3>2
    <3>6. ASSUME NEW f, files = {f}
          PROVE  Locate(fs, p, import) = <<f>>
      <4>1. IsFile(fs, file) => file = f
        BY <3>2, <3>6
      <4>2. ~ IsFile(fs, file) => IsFile(fs, init) /\ init = f
        BY <3>2, <3>6
      <4>3. QED
        BY <3>3, <4>1, <4>2
    <3>7. QED
      BY <3>3, <3>4, <3>5, <3>6 DEF files
  <2>11. QED
    BY <2>9, <2>10
<1>4. QED
  BY <1>2, <1>3

LEMMA WildcardsHold == AnswerInv => WildcardAsPython
<1> SUFFICES ASSUME AnswerInv, Answered("wildcards"), NEW n \in DOMAIN answer
             PROVE  WildcardAsPython!2!(n)
  BY DEF WildcardAsPython
<1> DEFINE r == request
           p == r.file
           import == r.text[p].imports[n]
           files == PythonFiles(r.fs, p, import)
           chosen == CHOOSE f \in files : TRUE
           src == r.text[chosen]
           target == Locate(r.fs, p, import)
<1>1. answer = Imports(r) /\ r \in Requests /\ r.tool = "wildcards"
  BY DEF AnswerInv, Answered
<1>2. /\ p \in Seq(STRING) /\ p \in DOMAIN r.text
      /\ \A q \in DOMAIN r.fs : q # <<>> => IsDir(r.fs, Front(q))
      /\ \A q \in DOMAIN r.text : /\ r.text[q].imports \in Seq(Import)
                                 /\ r.text[q].all \in Seq(SUBSET STRING) /\ Len(r.text[q].all) <= 1
  BY <1>1, ImportsAssumption
<1>3. n \in DOMAIN r.text[p].imports /\ answer[n] = Resolved(r, p, import)
  BY <1>1 DEF Imports
<1>4. import \in Import
  BY <1>2, <1>3
<1> HIDE DEF r, p, import, files, target
<1>5. ASSUME Wildcard(import), import.dots > 0, files # {p}, files = {}
      PROVE  answer[n] = import
  BY <1>2, <1>3, <1>4, <1>5, LocateExact DEF Resolved, files, target
<1>6. ASSUME Wildcard(import), import.dots > 0, files # {p}, Cardinality(files) = 1,
             files \subseteq DOMAIN r.text, src.all # <<{}>>
      PROVE  /\ answer[n].items \subseteq Binds(src)
             /\ src.others = {} \/ src.all # <<>> => answer[n].items = Binds(src)
  <2>1. IsFiniteSet(files)
    BY <1>2, <1>4, <1>6, LocateExact DEF files
  <2>2. PICK f : files = {f}
    BY <1>6, <2>1, FS_Singleton
  <2>3. target = <<f>>
    BY <1>2, <1>4, <1>6, <2>2, LocateExact DEF files, target
  <2>4. chosen = f /\ f \in DOMAIN r.text /\ f # p
    BY <1>6, <2>2
  <2>5. target # <<>> /\ target # <<p>> /\ target[1] = f
    BY <2>3, <2>4
  <2>6. answer[n] = [import EXCEPT !.items = Exported(r.text[f])]
    <3>1. Wildcard(import) /\ import.dots # 0
      BY <1>6
    <3> HIDE DEF chosen, src
    <3>2. QED
      BY <1>3, <2>4, <2>5, <3>1 DEF Resolved, target
  <2>7. answer[n].items = Exported(src)
    BY <1>4, <2>4, <2>6 DEF Import
  <2>8. src.all # <<>> => src.all[1] # {}
    <3>1. src.all \in Seq(SUBSET STRING) /\ Len(src.all) <= 1
      BY <1>2, <2>4
    <3> HIDE DEF src
    <3>2. src.all # <<>> => src.all = <<src.all[1]>>
      BY <3>1
    <3>3. QED
      BY <1>6, <3>2
  <2>9. QED
    BY <2>7, <2>8 DEF Exported, Binds
<1>7. QED
  BY <1>5, <1>6 DEF r, p, import, files

(* A wildcard import of a Python file is replaced by names that Python      *)
(* binds for it, in any tree of packages where one file can be meant, by    *)
(* all of them when that file has but plain definitions or an __all__, and  *)
(* stays as it is where no file can (resolve_single_wildcard).              *)
THEOREM ToolWildcardAsPython == TextSpec => []WildcardAsPython
BY AnswersHold, WildcardsHold, PTL

-----------------------------------------------------------------------------
(* Pages of a file.                                                        *)

(* What is picked up to each place.                                        *)
Picking(X, seq, places, g) ==
  /\ g \in [0..Len(seq) -> Seq(X)]
  /\ g[0] = << >> /\ g[Len(seq)] = Picked(seq, places)
  /\ \A i \in 1..Len(seq) :
       g[i] = IF i \in places THEN Append(g[i - 1], seq[i]) ELSE g[i - 1]

LEMMA PickedSteps ==
  ASSUME NEW X, NEW seq \in Seq(X), NEW places
  PROVE  \E g : Picking(X, seq, places, g)
<1> DEFINE n == Len(seq)
           NextPick(i, s) == IF i \in places THEN Append(s, seq[i]) ELSE s
           F == [x \in (1..n) \X Seq(X) |-> NextPick(x[1], x[2])]
           Def(g) == g = [i \in 0..n |-> IF i = 0 THEN << >> ELSE NextPick(i, g[i - 1])]
<1>1. n \in Nat /\ << >> \in Seq(X) /\ n \in 0..n
  OBVIOUS
<1>2. ASSUME NEW i \in 1..n, NEW s \in Seq(X) PROVE NextPick(i, s) \in Seq(X) /\ F[<<i, s>>] = NextPick(i, s)
  <2>1. Append(s, seq[i]) \in Seq(X)
    OBVIOUS
  <2>2. QED
    BY <2>1
<1>3. F \in [(1..n) \X Seq(X) -> Seq(X)]
  <2> HIDE DEF NextPick, n
  <2>1. QED
    BY <1>2
<1> HIDE DEF F, NextPick, n
<1>4. PICK g : g \in [0..n -> Seq(X)] /\ g[0] = << >> /\ \A i \in 1..n : g[i] = F[<<i, g[i - 1]>>]
  <2> DEFINE g == Recursion(n, << >>, F)
             T == {i \in 0..n : g[i] \in Seq(X)}
  <2>1. DOMAIN g = 0..n /\ g = [i \in DOMAIN g |-> g[i]] /\ g[0] = << >> /\ \A i \in 1..n : g[i] = F[<<i, g[i - 1]>>]
    BY <1>1, RecursionTo
  <2> HIDE DEF g
  <2>2. 0 \in T
    <3>1. 0 \in 0..n /\ g[0] \in Seq(X)
      BY <1>1, <2>1
    <3>2. QED
      BY <3>1, Zenon
  <2>3. ASSUME NEW i \in 1..n, i - 1 \in T PROVE i \in T
    <3>1. g[i] = F[<<i, g[i - 1]>>] /\ g[i - 1] \in Seq(X) /\ i \in 0..n
      BY <1>1, <2>1, <2>3
    <3>2. QED
      BY <1>3, <3>1
  <2>4. \A i \in 0..n : i \in T
    <3> HIDE DEF T
    <3>1. QED
      BY <1>1, <2>2, <2>3, Upwards
  <2>5. QED
    BY <2>1, <2>4
<1>5. \A i \in 0..n : g[i] = IF i = 0 THEN << >> ELSE NextPick(i, g[i - 1])
  <2> SUFFICES ASSUME NEW i \in 0..n, i # 0 PROVE g[i] = NextPick(i, g[i - 1])
    BY <1>4
  <2>1. i \in 1..n /\ i - 1 \in 0..n
    BY <1>1
  <2>2. QED
    BY <1>2, <1>4, <2>1
<1>6. Def(g)
  <2>1. g = [i \in 0..n |-> g[i]]
    BY <1>4
  <2>2. QED
    BY <1>5, <2>1
<1> DEFINE picked == CHOOSE f : Def(f)
<1>7. Def(picked)
  BY <1>6
<1>8. Picked(seq, places) = picked[n]
  BY Zenon DEF Picked, NextPick, n
<1> HIDE DEF picked
<1>9. picked[0] = << >> /\ \A i \in 1..n : picked[i] = NextPick(i, picked[i - 1])
  <2>1. 0 \in 0..n /\ \A i \in 1..n : i \in 0..n /\ i # 0
    BY <1>1
  <2>2. QED
    BY <1>7, <2>1
<1> DEFINE T == {i \in 0..n : picked[i] \in Seq(X)}
<1>10. \A i \in 0..n : i \in T
  <2>1. 0 \in T
    <3>1. 0 \in 0..n /\ picked[0] \in Seq(X)
      BY <1>1, <1>9
    <3>2. QED
      BY <3>1, Zenon
  <2>2. ASSUME NEW i \in 1..n, i - 1 \in T PROVE i \in T
    <3>1. i \in 0..n
      BY <1>1
    <3>2. QED
      BY <1>2, <1>9, <2>2, <3>1
  <2> HIDE DEF T
  <2>3. QED
    BY <1>1, <2>1, <2>2, Upwards
<1>11. picked \in [0..n -> Seq(X)]
  <2>1. picked = [i \in 0..n |-> picked[i]]
    BY <1>7
  <2>2. QED
    BY <1>10, <2>1
<1>12. QED
  BY <1>8, <1>9, <1>11 DEF NextPick, n, Picking

(* Where the elements of a sequence have been picked, up to the place n.    *)
Spots(n, seq, places, picked, at) ==
  /\ at \in [1..Len(picked) -> (1..n) \cap places]
  /\ \A i, j \in 1..Len(picked) : i < j => at[i] < at[j]
  /\ \A k \in (1..n) \cap places : \E i \in 1..Len(picked) : at[i] = k
  /\ \A i \in 1..Len(picked) : picked[i] = seq[at[i]]

LEMMA PickedSpots ==
  ASSUME NEW X, NEW seq \in Seq(X), NEW places
  PROVE  /\ Picked(seq, places) \in Seq(X)
         /\ \E at : Spots(Len(seq), seq, places, Picked(seq, places), at)
<1> DEFINE n == Len(seq)
<1>1. n \in Nat
  OBVIOUS
<1>2. PICK g : Picking(X, seq, places, g)
  BY PickedSteps
<1>3. /\ g \in [0..n -> Seq(X)] /\ g[0] = << >> /\ g[n] = Picked(seq, places)
      /\ \A i \in 1..n : g[i] = IF i \in places THEN Append(g[i - 1], seq[i]) ELSE g[i - 1]
  BY <1>2 DEF Picking
<1> HIDE DEF n
<1> DEFINE T == {k \in 0..n : \E at : Spots(k, seq, places, g[k], at)}
<1>4. 0 \in T
  <2>1. Spots(0, seq, places, << >>, << >>)
    BY DEF Spots
  <2>2. QED
    BY <1>1, <1>3, <2>1
<1>5. ASSUME NEW k \in 1..n, k - 1 \in T PROVE k \in T
  <2>1. PICK at : Spots(k - 1, seq, places, g[k - 1], at)
    BY <1>5
  <2>2. k \in 0..n /\ k \in Nat /\ k - 1 \in 0..n /\ k - 1 \in Nat /\ g[k - 1] \in Seq(X) /\ g[k] \in Seq(X)
    BY <1>1, <1>3
  <2> DEFINE s == g[k - 1]
             m == Len(s)
  <2>3. m \in Nat
    BY <2>2
  <2>4. CASE k \notin places
    <3>1. g[k] = s
      BY <1>3, <2>4
    <3>2. (1..k) \cap places = (1..(k - 1)) \cap places
      BY <2>2, <2>4
    <3>3. Spots(k, seq, places, g[k], at)
      BY <2>1, <3>1, <3>2 DEF Spots
    <3>4. QED
      BY <2>2, <3>3
  <2>5. CASE k \in places
    <3>1. g[k] = Append(s, seq[k])
      BY <1>3, <2>5
    <3>2. Len(g[k]) = m + 1 /\ g[k][m + 1] = seq[k] /\ \A i \in 1..m : g[k][i] = s[i]
      BY <2>2, <3>1
    <3> HIDE DEF m, s
    <3> DEFINE to == [i \in 1..(m + 1) |-> IF i = m + 1 THEN k ELSE at[i]]
    <3>3. /\ at \in [1..m -> (1..(k - 1)) \cap places]
          /\ \A i, j \in 1..m : i < j => at[i] < at[j]
          /\ \A l \in (1..(k - 1)) \cap places : \E i \in 1..m : at[i] = l
          /\ \A i \in 1..m : s[i] = seq[at[i]]
      BY <2>1 DEF Spots, m, s
    <3>4. \A i \in 1..(m + 1) : i # m + 1 => i \in 1..m
      BY <2>3
    <3>5. /\ \A i \in 1..m : to[i] = at[i] /\ to[i] \in (1..(k - 1)) \cap places
          /\ to[m + 1] = k /\ m + 1 \in 1..(m + 1)
      BY <2>3, <3>3
    <3>6. to \in [1..(m + 1) -> (1..k) \cap places]
      <4>1. \A l \in (1..(k - 1)) \cap places : l \in (1..k) \cap places
        BY <2>2
      <4>2. k \in (1..k) \cap places
        BY <2>2, <2>5
      <4>3. QED
        BY <3>3, <3>4, <4>1, <4>2
    <3> HIDE DEF to
    <3>7. \A i, j \in 1..(m + 1) : i < j => to[i] < to[j]
      <4> SUFFICES ASSUME NEW i \in 1..(m + 1), NEW j \in 1..(m + 1), i < j PROVE to[i] < to[j]
        OBVIOUS
      <4>1. i \in 1..m
        BY <2>3
      <4>2. to[i] \in 1..(k - 1)
        BY <3>5, <4>1
      <4>3. CASE j = m + 1
        BY <2>2, <3>5, <4>2, <4>3
      <4>4. CASE j # m + 1
        BY <3>3, <3>4, <3>5, <4>1, <4>4
      <4>5. QED
        BY <4>3, <4>4
    <3>8. \A l \in (1..k) \cap places : \E i \in 1..(m + 1) : to[i] = l
      <4> SUFFICES ASSUME NEW l \in (1..k) \cap places PROVE \E i \in 1..(m + 1) : to[i] = l
        OBVIOUS
      <4>1. CASE l = k
        BY <3>5, <4>1
      <4>2. CASE l # k
        <5>1. l \in (1..(k - 1)) \cap places
          BY <2>2, <4>2
        <5>2. PICK i \in 1..m : at[i] = l
          BY <3>3, <5>1
        <5>3. i \in 1..(m + 1)
          BY <2>3
        <5>4. QED
          BY <3>5, <5>2, <5>3
      <4>3. QED
        BY <4>1, <4>2
    <3>9. \A i \in 1..(m + 1) : g[k][i] = seq[to[i]]
      BY <3>2, <3>3, <3>4, <3>5
    <3>10. Spots(k, seq, places, g[k], to)
      BY <3>2, <3>6, <3>7, <3>8, <3>9 DEF Spots
    <3>11. QED
      BY <2>2, <3>10
  <2>6. QED
    BY <2>4, <2>5
<1>6. n \in T
  <2> HIDE DEF T
  <2>1. \A i \in 0..n : i \in T
    BY <1>1, <1>4, <1>5, Upwards
  <2>2. QED
    BY <1>1, <2>1
<1>7. QED
  BY <1>1, <1>3, <1>6 DEF n

(* All are picked.                                                         *)
LEMMA PickedAll ==
  ASSUME NEW X, NEW seq \in Seq(X), NEW places, DOMAIN seq \subseteq places
  PROVE  Picked(seq, places) = seq
<1> DEFINE n == Len(seq)
           r == Picked(seq, places)
<1>1. n \in Nat /\ DOMAIN seq = 1..n
  OBVIOUS
<1>2. r \in Seq(X)
  BY PickedSpots
<1>3. PICK at : Spots(n, seq, places, r, at)
  BY PickedSpots
<1>4. Len(r) \in Nat /\ DOMAIN r = 1..Len(r)
  BY <1>2
<1> HIDE DEF n, r
<1>5. /\ at \in [1..Len(r) -> 1..n]
      /\ \A i, j \in 1..Len(r) : i < j => at[i] < at[j]
      /\ \A k \in 1..n : \E i \in 1..Len(r) : at[i] = k
      /\ \A i \in 1..Len(r) : r[i] = seq[at[i]]
  BY <1>1, <1>3 DEF Spots
<1>6. \A i \in 1..Len(r) : at[i] >= i
  <2> DEFINE T == {i \in 0..Len(r) : i # 0 => at[i] >= i}
  <2>1. 0 \in T
    BY <1>4
  <2>2. ASSUME NEW i \in 1..Len(r), i - 1 \in T PROVE i \in T
    <3>1. CASE i = 1
      BY <1>4, <1>5, <3>1
    <3>2. CASE i # 1
      <4>1. i - 1 \in 1..Len(r) /\ i - 1 < i /\ i \in 0..Len(r)
        BY <1>4, <3>2
      <4>2. at[i - 1] < at[i] /\ at[i - 1] >= i - 1 /\ at[i] \in Int /\ at[i - 1] \in Int
        BY <1>1, <1>5, <2>2, <4>1
      <4>3. QED
        BY <4>1, <4>2
    <3>3. QED
      BY <3>1, <3>2
  <2> HIDE DEF T
  <2>3. \A i \in 0..Len(r) : i \in T
    BY <1>4, <2>1, <2>2, Upwards
  <2>4. QED
    BY <1>4, <2>3 DEF T
<1>7. \A i \in 1..Len(r) : at[i] = i
  <2> DEFINE T == {i \in 0..Len(r) : \A j \in 1..i : at[j] = j}
  <2>1. 0 \in T
    BY <1>4
  <2>2. ASSUME NEW i \in 1..Len(r), i - 1 \in T PROVE i \in T
    <3>1. \A j \in 1..(i - 1) : at[j] = j
      BY <2>2
    <3>2. at[i] = i
      <4> SUFFICES ASSUME at[i] # i PROVE FALSE
        OBVIOUS
      <4>1. i \in 1..n /\ i < at[i]
        BY <1>1, <1>4, <1>5, <1>6
      <4>2. PICK k \in 1..Len(r) : at[k] = i
        BY <1>5, <4>1
      <4>3. ~ (k < i)
        BY <1>4, <3>1, <4>2
      <4>4. ~ (i < k)
        BY <1>1, <1>5, <4>1, <4>2
      <4>5. QED
        BY <1>4, <4>1, <4>2, <4>3, <4>4
    <3>3. QED
      BY <1>4, <3>1, <3>2
  <2> HIDE DEF T
  <2>3. \A i \in 0..Len(r) : i \in T
    BY <1>4, <2>1, <2>2, Upwards
  <2>4. Len(r) \in T
    BY <1>4, <2>3
  <2>5. QED
    BY <2>4 DEF T
<1>8. Len(r) = n
  <2>1. Len(r) <= n
    <3> SUFFICES ASSUME Len(r) > n PROVE FALSE
      BY <1>1, <1>4
    <3>1. n + 1 \in 1..Len(r)
      BY <1>1, <1>4
    <3>2. QED
      BY <1>1, <1>5, <1>7, <3>1
  <2>2. Len(r) >= n
    <3> SUFFICES ASSUME Len(r) < n PROVE FALSE
      BY <1>1, <1>4
    <3>1. n \in 1..n
      BY <1>1, <1>4
    <3>2. PICK i \in 1..Len(r) : at[i] = n
      BY <1>5, <3>1
    <3>3. QED
      BY <1>1, <1>4, <1>7, <3>2
  <2>3. n \in Int /\ Len(r) \in Int
    BY <1>1, <1>4
  <2>4. QED
    BY <2>1, <2>2, <2>3
<1>9. \A i \in 1..n : r[i] = seq[i]
  BY <1>5, <1>7, <1>8
<1>10. QED
  BY <1>1, <1>2, <1>4, <1>8, <1>9 DEF n, r

(* The functions before a page.                                            *)
Gone(p) == p * FunctionPage

LEMMA GoneIs ==
  /\ Gone(0) = 0
  /\ \A p \in Nat : Gone(p) \in Nat /\ Gone(p + 1) = Gone(p) + FunctionPage
<1>1. FunctionPage \in Nat
  BY FileAnswersAssumption
<1>2. QED
  BY <1>1 DEF Gone

LEMMA GoneGrows ==
  ASSUME NEW p \in Nat, NEW q \in Nat, p < q
  PROVE  Gone(p) + FunctionPage <= Gone(q)
<1> DEFINE T == {d \in 0..(q - p - 1) : Gone(p) + FunctionPage <= Gone(p + 1 + d)}
<1>1. FunctionPage \in Nat /\ q - p - 1 \in Nat
  BY FileAnswersAssumption
<1>2. 0 \in T
  <2>1. Gone(p + 1) = Gone(p) + FunctionPage /\ Gone(p) \in Nat /\ p + 1 + 0 = p + 1
    BY GoneIs
  <2>2. QED
    BY <1>1, <2>1
<1>3. ASSUME NEW d \in 1..(q - p - 1), d - 1 \in T PROVE d \in T
  <2>1. p + 1 + (d - 1) = p + d /\ p + d \in Nat /\ p + 1 + d = (p + d) + 1 /\ d \in 0..(q - p - 1)
    BY <1>1
  <2>2. Gone(p + d) \in Nat /\ Gone(p + 1 + d) = Gone(p + d) + FunctionPage /\ Gone(p) \in Nat
    BY <2>1, GoneIs
  <2>3. Gone(p) + FunctionPage <= Gone(p + d)
    BY <1>3, <2>1
  <2>4. QED
    BY <1>1, <2>1, <2>2, <2>3
<1>4. q - p - 1 \in T
  <2> HIDE DEF T
  <2>1. \A d \in 0..(q - p - 1) : d \in T
    BY <1>1, <1>2, <1>3, Upwards
  <2>2. QED
    BY <1>1, <2>1
<1>5. p + 1 + (q - p - 1) = q
  OBVIOUS
<1>6. QED
  BY <1>4, <1>5

(* The page a number is on.                                                *)
LEMMA PageOfNumber ==
  ASSUME NEW m \in Nat, NEW k \in Nat, 0 < k, k <= Gone(m)
  PROVE  \E p \in 1..m : Gone(p - 1) < k /\ k <= Gone(p)
<1> DEFINE S == {p \in 0..m : k <= Gone(p)}
<1>1. m \in S
  OBVIOUS
<1>2. S \in SUBSET Nat /\ S # {}
  BY <1>1
<1> HIDE DEF S
<1>3. PICK p \in S : \A q \in S : p <= q
  BY <1>2, LeastNat
<1>4. p \in 0..m /\ k <= Gone(p)
  BY <1>3 DEF S
<1>5. p # 0
  BY <1>4, GoneIs
<1>6. p \in 1..m /\ p - 1 \in 0..m /\ p - 1 < p /\ p - 1 \in Nat
  BY <1>4, <1>5
<1>7. p - 1 \notin S
  BY <1>3, <1>6
<1>8. Gone(p - 1) \in Nat /\ ~ (k <= Gone(p - 1))
  BY <1>6, <1>7, GoneIs DEF S
<1>9. QED
  BY <1>4, <1>6, <1>8

(* A page of the functions that are in no class.                           *)
LEMMA PageIs ==
  ASSUME NEW file \in File, NEW o \in Nat
  PROVE  LET top == TopLevel(file)
             page == FunctionsAt(file, o)
         IN  /\ top \in Seq(Function) /\ page \in Seq(Function)
             /\ DOMAIN page = {k \in 1..FunctionPage : o + k <= Len(top)}
             /\ \A k \in DOMAIN page : page[k] = top[o + k]
<1> DEFINE top == TopLevel(file)
           n == Len(top)
           rest == SubSeq(top, o + 1, n)
           page == FunctionsAt(file, o)
<1>1. FunctionPage \in Nat \ {0}
  BY FileAnswersAssumption
<1>2. top \in Seq(Function)
  BY PickedSpots DEF TopLevel, File
<1>3. n \in Nat
  BY <1>2, LenProperties
<1>4. page = FirstOf(rest, FunctionPage)
  BY DEF FunctionsAt
<1> HIDE DEF top
<1>5. /\ rest \in Seq(Function) /\ Len(rest) = (IF o < n THEN n - o ELSE 0)
      /\ \A k \in 1..Len(rest) : rest[k] = top[o + k]
  BY <1>2, <1>3
<1> DEFINE m == IF Len(rest) < FunctionPage THEN Len(rest) ELSE FunctionPage
<1>6. m \in Nat /\ m <= Len(rest) /\ \A k \in Nat \ {0} : k <= m <=> k <= FunctionPage /\ o + k <= n
  BY <1>1, <1>3, <1>5
<1>7. page = SubSeq(rest, 1, m)
  BY <1>4 DEF FirstOf
<1> HIDE DEF page, rest, n, m
<1>8. page \in Seq(Function) /\ Len(page) = m /\ \A k \in 1..m : page[k] = rest[k]
  BY <1>5, <1>6, <1>7
<1>9. DOMAIN page = 1..m /\ \A k \in DOMAIN page : page[k] = top[o + k]
  BY <1>5, <1>6, <1>8
<1>10. DOMAIN page = {k \in 1..FunctionPage : o + k <= n}
  BY <1>1, <1>6, <1>9
<1>11. QED
  BY <1>2, <1>8, <1>9, <1>10 DEF top, page, n

(* The text of a page shows the whole of it.                               *)
LEMMA TextShowsPage ==
  ASSUME NEW r, r.file \in File, r.fields = {}, NEW o \in Nat
  PROVE  PageText(r, o).functions = FunctionsAt(r.file, o)
<1> DEFINE file == r.file
           page == FunctionsAt(file, o)
           top == TopLevel(file)
           places == {k \in DOMAIN file.functions : ~ InClass(file, file.functions[k])}
           shown == {k \in DOMAIN page : ~ InClass(file, page[k])}
<1>1. PageText(r, o).functions = Picked(page, shown)
  BY DEF PageText, Shows
<1>2. /\ page \in Seq(Function) /\ DOMAIN page = {k \in 1..FunctionPage : o + k <= Len(top)}
      /\ \A k \in DOMAIN page : page[k] = top[o + k]
  BY PageIs
<1>3. file.functions \in Seq(Function) /\ top = Picked(file.functions, places)
  BY DEF File, TopLevel
<1>4. PICK at : Spots(Len(file.functions), file.functions, places, top, at)
  BY <1>3, PickedSpots
<1>5. FunctionPage \in Nat /\ Len(top) \in Nat
  BY <1>3, PickedSpots, LenProperties, FileAnswersAssumption
<1>6. \A i \in 1..Len(top) : ~ InClass(file, top[i])
  BY <1>4 DEF Spots
<1> HIDE DEF page, top, places
<1>7. DOMAIN page \subseteq shown
  BY <1>2, <1>5, <1>6
<1> HIDE DEF shown
<1>8. QED
  BY <1>1, <1>2, <1>7, PickedAll DEF page

FileShape(r) ==
  /\ r \in [tool : {"analyze_file"}, file : File, fields : SUBSET STRING,
            summary : {"unset", "true", "false"}, cursor : {r.cursor}, read : {r.read}, walk : BOOLEAN]
  /\ IsInjective(r.file.functions)

(* What is asked is answered with pages.                                   *)
Paging(r) == r.summary # "true" /\ ~ (r.file.long /\ r.summary = "false") /\ ~ UsesFileSummary(r)

(* A walk has read n pages, the first first, and asks for the next.        *)
Followed(r, n) ==
  /\ r.read = [p \in 1..n |-> PageText(r, Gone(p - 1))]
  /\ n = 0 => r.cursor = NoCursor
  /\ n # 0 => r.cursor = Mark(Gone(n)) /\ Paging(r)

FileInv ==
  /\ request.tool = "analyze_file" => FileShape(request)
  /\ request.tool = "analyze_file" /\ request.walk /\ request.file.kind = "source" =>
       \E n \in Nat : Followed(request, n)
  /\ Answered("analyze_file") => answer \in Replies(request)

LEMMA CursorsDiffer ==
  ASSUME NEW o
  PROVE  Mark(o) # NoCursor /\ Mark(o) # BadCursor /\ Mark(o)[2] = o
BY DEF Mark, NoCursor, BadCursor

LEMMA PageReply ==
  ASSUME NEW r, NEW a \in Replies(r), a.result = "page", r.file.kind = "source"
  PROVE  /\ Paging(r)
         /\ a.text = PageText(r, Offset(r))
         /\ a.next = IF Offset(r) + FunctionPage < Len(TopLevel(r.file))
                     THEN Mark(Offset(r) + FunctionPage) ELSE NoCursor
<1> DEFINE page == [result |-> "page",
                    text |-> IF r.file.kind = "unsupported" THEN FirstLines ELSE PageText(r, Offset(r)),
                    next |-> IF Offset(r) + FunctionPage < Len(TopLevel(r.file))
                             THEN Mark(Offset(r) + FunctionPage) ELSE NoCursor]
<1>1. \A why : Rejected(why).result # "page"
  BY DEF Rejected
<1>2. \A S : [result |-> "summary", functions |-> S].result # "page"
  OBVIOUS
<1>3. a \in {page} /\ ~ UsesFileSummary(r) /\ ~ (r.file.long /\ r.summary = "false")
  <2> HIDE DEF page
  <2>1. \A S : a # [result |-> "summary", functions |-> S]
    BY <1>2
  <2>2. \A why : a # Rejected(why)
    BY <1>1
  <2>3. a \notin {[result |-> "summary", functions |-> S] : S \in Largest(r.file)}
    BY <2>1
  <2>4. QED
    BY <2>2, <2>3 DEF Replies, page
<1>4. r.summary # "true"
  BY <1>3 DEF UsesFileSummary
<1>5. a = page
  BY <1>3
<1>6. QED
  BY <1>3, <1>4, <1>5 DEF Paging

LEMMA WalkAnswered ==
  ASSUME NEW r, NEW n \in Nat, Followed(r, n), n # 0, r.file.kind = "source", NEW a \in Replies(r)
  PROVE  a.result = "page"
<1>1. r.cursor # BadCursor /\ Paging(r)
  BY CursorsDiffer DEF Followed
<1>2. QED
  BY <1>1 DEF Replies, Paging

LEMMA OffsetIs ==
  ASSUME NEW r, NEW n \in Nat, Followed(r, n)
  PROVE  Offset(r) = Gone(n)
<1>1. CASE n = 0
  BY <1>1, GoneIs DEF Followed, Offset
<1>2. CASE n # 0
  BY <1>2, CursorsDiffer DEF Followed, Offset
<1>3. QED
  BY <1>1, <1>2

LEMMA FileInit ==
  ASSUME RequestInit
  PROVE  FileInv
<1>1. request \in Requests /\ answer = Unanswered
  BY DEF RequestInit
<1>2. CASE request.tool = "analyze_file"
  <2>1. /\ request \in [tool : {"analyze_file"}, file : File, fields : SUBSET STRING,
                        summary : {"unset", "true", "false"}, cursor : {request.cursor},
                        read : {<< >>}, walk : BOOLEAN]
        /\ IsInjective(request.file.functions)
        /\ request.walk => request.cursor = NoCursor
    BY <1>1, <1>2, FileRequestsAssumption
  <2>2. request.read = << >>
    BY <2>1
  <2>3. FileShape(request)
    BY <2>1, <2>2 DEF FileShape
  <2>4. request.walk => Followed(request, 0)
    <3>1. [p \in 1..0 |-> PageText(request, Gone(p - 1))] = << >>
      OBVIOUS
    <3>2. QED
      BY <2>1, <2>2, <3>1 DEF Followed
  <2>5. QED
    BY <1>1, <2>3, <2>4 DEF FileInv, Answered
<1>3. CASE request.tool # "analyze_file"
  BY <1>3 DEF FileInv, Answered
<1>4. QED
  BY <1>2, <1>3

LEMMA FileAnswerStep ==
  ASSUME FileInv, FileAnswer
  PROVE  FileInv'
BY DEF FileInv, FileAnswer, Answered

(* The text of a page is that of the file and the fields.                  *)
LEMMA TextKept ==
  ASSUME NEW r, NEW s, s.file = r.file, s.fields = r.fields
  PROVE  \A o : PageText(s, o) = PageText(r, o)
BY DEF PageText, Shows

LEMMA NextPageStep ==
  ASSUME FileInv, NextPage
  PROVE  FileInv'
<1> DEFINE r == request
           s == [r EXCEPT !.cursor = answer.next, !.read = Append(@, answer.text)]
<1>1. /\ r.tool = "analyze_file" /\ answer \in Replies(r) /\ answer.result = "page" /\ answer.next # NoCursor
      /\ request' = s /\ answer' = Unanswered /\ FileShape(r)
  BY DEF NextPage, Answered, FileInv
<1>2. /\ s.tool = "analyze_file" /\ s.file = r.file /\ s.fields = r.fields /\ s.summary = r.summary
      /\ s.walk = r.walk /\ s.cursor = answer.next /\ s.read = Append(r.read, answer.text)
      /\ FileShape(s)
  <2>1. r \in [tool : {"analyze_file"}, file : File, fields : SUBSET STRING,
               summary : {"unset", "true", "false"}, cursor : {r.cursor}, read : {r.read}, walk : BOOLEAN]
        /\ IsInjective(r.file.functions)
    BY <1>1 DEF FileShape
  <2> HIDE DEF r
  <2>2. /\ s.tool = "analyze_file" /\ s.file = r.file /\ s.fields = r.fields /\ s.summary = r.summary
        /\ s.walk = r.walk /\ s.cursor = answer.next /\ s.read = Append(r.read, answer.text)
    BY <2>1
  <2>3. s \in [tool : {"analyze_file"}, file : File, fields : SUBSET STRING,
               summary : {"unset", "true", "false"}, cursor : {s.cursor}, read : {s.read}, walk : BOOLEAN]
    BY <2>1, <2>2
  <2>4. QED
    BY <2>1, <2>2, <2>3 DEF FileShape
<1>3. ASSUME r.walk, r.file.kind = "source" PROVE \E n \in Nat : Followed(s, n)
  <2>1. PICK n \in Nat : Followed(r, n)
    BY <1>1, <1>3 DEF FileInv
  <2> HIDE DEF s, r
  <2>2. /\ Paging(r) /\ answer.text = PageText(r, Gone(n))
        /\ answer.next = Mark(Gone(n) + FunctionPage)
    BY <1>1, <1>3, <2>1, OffsetIs, PageReply
  <2>3. Gone(n + 1) = Gone(n) + FunctionPage
    BY GoneIs
  <2>4. s.read = [p \in 1..(n + 1) |-> PageText(s, Gone(p - 1))]
    <3> DEFINE Text(p) == PageText(r, Gone(p - 1))
               read == [p \in 1..n |-> Text(p)]
    <3>1. r.read = read /\ answer.text = Text(n + 1) /\ s.read = Append(r.read, answer.text)
      BY <1>2, <2>1, <2>2 DEF Followed
    <3>2. \A p : PageText(s, Gone(p - 1)) = Text(p)
      BY <1>2, TextKept
    <3> HIDE DEF Text
    <3>3. Append(read, Text(n + 1)) = [p \in 1..(n + 1) |-> Text(p)]
      OBVIOUS
    <3>4. QED
      BY <3>1, <3>2, <3>3
  <2>5. Paging(s)
    BY <1>2, <2>2 DEF Paging, UsesFileSummary
  <2>6. Followed(s, n + 1)
    BY <1>2, <2>2, <2>3, <2>4, <2>5 DEF Followed
  <2>7. QED
    BY <2>6
<1>4. QED
  <2> HIDE DEF s
  <2>1. (\E n \in Nat : Followed(s, n)) => (\E n \in Nat : Followed(request, n))'
    BY <1>1 DEF Followed
  <2>2. QED
    BY <1>1, <1>2, <1>3, <2>1 DEF FileInv, Answered

(* m pages of a file, all its sections shown.                              *)
Texts(r, m) == [p \in 1..m |-> PageText(r, Gone(p - 1))]

(* Where in the functions those in no class are.                           *)
LEMMA TopSpots ==
  ASSUME NEW file \in File
  PROVE  LET top == TopLevel(file)
             places == {k \in DOMAIN file.functions : ~ InClass(file, file.functions[k])}
         IN  \E at : /\ at \in [1..Len(top) -> places]
                     /\ \A i, j \in 1..Len(top) : i < j => at[i] < at[j]
                     /\ \A k \in places : \E i \in 1..Len(top) : at[i] = k
                     /\ \A i \in 1..Len(top) : top[i] = file.functions[at[i]]
<1> DEFINE top == TopLevel(file)
           places == {k \in DOMAIN file.functions : ~ InClass(file, file.functions[k])}
           n == Len(file.functions)
<1>1. file.functions \in Seq(Function) /\ top = Picked(file.functions, places)
  BY DEF File, TopLevel
<1>2. PICK at : Spots(n, file.functions, places, top, at)
  BY <1>1, PickedSpots
<1>3. DOMAIN file.functions = 1..n
  BY <1>1
<1>4. (1..n) \cap places = places
  BY <1>3
<1> HIDE DEF top, places, n
<1>5. /\ at \in [1..Len(top) -> places]
      /\ \A i, j \in 1..Len(top) : i < j => at[i] < at[j]
      /\ \A k \in places : \E i \in 1..Len(top) : at[i] = k
      /\ \A i \in 1..Len(top) : top[i] = file.functions[at[i]]
  BY <1>2, <1>4 DEF Spots
<1>6. QED
  BY <1>5 DEF top, places

(* A place on a page is one in the list of the functions in no class.      *)
LEMMA PlacesAre ==
  ASSUME NEW r, r.file \in File, r.fields = {}, NEW m \in Nat
  PROVE  LET texts == Texts(r, m)
             top == TopLevel(r.file)
         IN  /\ \A q \in PlacesRead(texts) :
                  /\ q = <<q[1], q[2]>> /\ q[1] \in 1..m /\ q[2] \in 1..FunctionPage
                  /\ Gone(q[1] - 1) + q[2] \in 1..Len(top)
                  /\ texts[q[1]].functions[q[2]] = top[Gone(q[1] - 1) + q[2]]
             /\ \A p \in 1..m, k \in 1..FunctionPage :
                  Gone(p - 1) + k <= Len(top) => <<p, k>> \in PlacesRead(texts)
<1> DEFINE texts == Texts(r, m)
           top == TopLevel(r.file)
           page(p) == FunctionsAt(r.file, Gone(p - 1))
<1>1. FunctionPage \in Nat /\ Len(top) \in Nat
  BY PageIs, GoneIs, LenProperties, FileAnswersAssumption
<1>2. ASSUME NEW p \in 1..m
      PROVE  /\ p \in DOMAIN texts /\ texts[p].functions = page(p) /\ Gone(p - 1) \in Nat
             /\ DOMAIN page(p) = {k \in 1..FunctionPage : Gone(p - 1) + k <= Len(top)}
             /\ \A k \in DOMAIN page(p) : page(p)[k] = top[Gone(p - 1) + k]
  <2>1. Gone(p - 1) \in Nat
    BY GoneIs
  <2>2. p \in DOMAIN texts /\ texts[p] = PageText(r, Gone(p - 1))
    BY DEF Texts
  <2> HIDE DEF texts
  <2>3. texts[p].functions = page(p)
    BY <2>1, <2>2, TextShowsPage
  <2>4. /\ DOMAIN page(p) = {k \in 1..FunctionPage : Gone(p - 1) + k <= Len(top)}
        /\ \A k \in DOMAIN page(p) : page(p)[k] = top[Gone(p - 1) + k]
    BY <2>1, PageIs
  <2>5. QED
    BY <2>1, <2>2, <2>3, <2>4
<1>3. DOMAIN texts = 1..m
  BY DEF Texts
<1> HIDE DEF texts, top, page
<1>4. ASSUME NEW q \in PlacesRead(texts)
      PROVE  /\ q = <<q[1], q[2]>> /\ q[1] \in 1..m /\ q[2] \in 1..FunctionPage
             /\ Gone(q[1] - 1) + q[2] \in 1..Len(top)
             /\ texts[q[1]].functions[q[2]] = top[Gone(q[1] - 1) + q[2]]
  <2>1. PICK p \in 1..m : q \in {p} \X DOMAIN texts[p].functions
    BY <1>3 DEF PlacesRead
  <2> DEFINE D == DOMAIN texts[p].functions
             k == q[2]
             o == Gone(p - 1)
  <2>2. q = <<p, k>> /\ q[1] = p /\ k \in D
    <3> HIDE DEF D
    <3>1. QED
      BY <2>1 DEF D
  <2>3. texts[p].functions = page(p) /\ o \in Nat
        /\ DOMAIN page(p) = {l \in 1..FunctionPage : o + l <= Len(top)}
        /\ \A l \in DOMAIN page(p) : page(p)[l] = top[o + l]
    BY <1>2
  <2> HIDE DEF k, o
  <2>4. k \in 1..FunctionPage /\ o + k <= Len(top) /\ texts[p].functions[k] = top[o + k]
    BY <2>2, <2>3
  <2>5. o + k \in 1..Len(top)
    BY <1>1, <2>3, <2>4
  <2>6. q = <<q[1], k>> /\ q[1] \in 1..m
    BY <2>2, Zenon
  <2>7. Gone(q[1] - 1) + k = o + k /\ texts[q[1]].functions[k] = texts[p].functions[k]
    BY <2>2 DEF o
  <2>8. QED
    BY <2>4, <2>5, <2>6, <2>7 DEF k
<1>5. ASSUME NEW p \in 1..m, NEW k \in 1..FunctionPage, Gone(p - 1) + k <= Len(top)
      PROVE  <<p, k>> \in PlacesRead(texts)
  <2>1. k \in DOMAIN texts[p].functions
    BY <1>2, <1>5
  <2>2. <<p, k>> \in {p} \X DOMAIN texts[p].functions
    BY <2>1
  <2>3. QED
    BY <1>3, <2>2 DEF PlacesRead
<1>6. QED
  BY <1>4, <1>5 DEF texts, top

(* What is read first is read on an earlier page, or before on the same.    *)
LEMMA PlacesOrdered ==
  ASSUME NEW a1 \in Nat \ {0}, NEW a2 \in 1..FunctionPage, NEW b1 \in Nat \ {0}, NEW b2 \in 1..FunctionPage
  PROVE  /\ Gone(a1 - 1) + a2 < Gone(b1 - 1) + b2 => a1 < b1 \/ (a1 = b1 /\ a2 < b2)
         /\ Gone(a1 - 1) + a2 = Gone(b1 - 1) + b2 => a1 = b1 /\ a2 = b2
<1> DEFINE x == Gone(a1 - 1)
           y == Gone(b1 - 1)
<1>1. a1 - 1 \in Nat /\ b1 - 1 \in Nat /\ FunctionPage \in Nat
  BY FileAnswersAssumption
<1>2. x \in Nat /\ y \in Nat
  BY <1>1, GoneIs
<1>3. a1 < b1 => x + FunctionPage <= y
  BY <1>1, GoneGrows
<1>4. b1 < a1 => y + FunctionPage <= x
  BY <1>1, GoneGrows
<1>5. a1 = b1 => x = y
  OBVIOUS
<1> HIDE DEF x, y
<1>6. /\ x + a2 < y + b2 => a1 < b1 \/ (a1 = b1 /\ a2 < b2)
      /\ x + a2 = y + b2 => a1 = b1 /\ a2 = b2
  BY <1>1, <1>2, <1>3, <1>4, <1>5
<1>7. QED
  BY <1>6 DEF x, y

LEMMA ReadInOrder ==
  ASSUME NEW r, r.file \in File, IsInjective(r.file.functions), r.fields = {}, NEW m \in Nat,
         NEW a \in PlacesRead(Texts(r, m)), NEW b \in PlacesRead(Texts(r, m)),
         NEW i \in DOMAIN r.file.functions, NEW j \in DOMAIN r.file.functions,
         Texts(r, m)[a[1]].functions[a[2]] = r.file.functions[i],
         Texts(r, m)[b[1]].functions[b[2]] = r.file.functions[j], i < j
  PROVE  ReadBefore(a, b)
<1> DEFINE top == TopLevel(r.file)
           x == Gone(a[1] - 1) + a[2]
           y == Gone(b[1] - 1) + b[2]
           f == r.file.functions
<1>1. /\ a[1] \in 1..m /\ a[2] \in 1..FunctionPage /\ x \in 1..Len(top) /\ top[x] = f[i]
      /\ b[1] \in 1..m /\ b[2] \in 1..FunctionPage /\ y \in 1..Len(top) /\ top[y] = f[j]
  BY PlacesAre
<1>2. PICK at : /\ at \in [1..Len(top) -> {k \in DOMAIN f : ~ InClass(r.file, f[k])}]
                /\ \A k, l \in 1..Len(top) : k < l => at[k] < at[l]
                /\ \A k \in 1..Len(top) : top[k] = f[at[k]]
  BY TopSpots
<1>3. /\ \A k, l \in DOMAIN f : f[k] = f[l] => k = l
      /\ DOMAIN f \subseteq Nat
  <2>1. f \in Seq(Function)
    BY DEF File
  <2>2. QED
    BY <2>1 DEF IsInjective
<1> HIDE DEF top, f
<1>4. at[x] = i /\ at[y] = j
  BY <1>1, <1>2, <1>3 DEF f
<1>5. x < y
  <2>1. ~ (y < x) /\ x # y
    BY <1>1, <1>2, <1>3, <1>4 DEF f
  <2>2. x \in Int /\ y \in Int
    BY <1>1
  <2>3. QED
    BY <2>1, <2>2
<1>6. a[1] < b[1] \/ (a[1] = b[1] /\ a[2] < b[2])
  <2>1. a[1] \in Nat \ {0} /\ b[1] \in Nat \ {0}
    BY <1>1
  <2>2. QED
    BY <1>1, <1>5, <2>1, PlacesOrdered
<1>7. QED
  BY <1>6 DEF ReadBefore

LEMMA ReadOnce ==
  ASSUME NEW r, r.file \in File, IsInjective(r.file.functions), r.fields = {}, NEW m \in Nat,
         Len(TopLevel(r.file)) <= Gone(m), NEW f \in ToSet(r.file.functions), ~ InClass(r.file, f)
  PROVE  LET texts == Texts(r, m)
         IN  Cardinality({q \in PlacesRead(texts) : texts[q[1]].functions[q[2]] = f}) = 1
<1> DEFINE texts == Texts(r, m)
           top == TopLevel(r.file)
           fs == r.file.functions
           n == Len(top)
           S == {q \in PlacesRead(texts) : texts[q[1]].functions[q[2]] = f}
<1>1. /\ \A k, l \in DOMAIN fs : fs[k] = fs[l] => k = l
      /\ DOMAIN fs \subseteq Nat
  <2>1. fs \in Seq(Function)
    BY DEF File
  <2>2. QED
    BY <2>1 DEF IsInjective
<1>2. n \in Nat /\ FunctionPage \in Nat
  BY PageIs, GoneIs, LenProperties, FileAnswersAssumption
<1>3. PICK at : /\ at \in [1..n -> {k \in DOMAIN fs : ~ InClass(r.file, fs[k])}]
                /\ \A k, l \in 1..n : k < l => at[k] < at[l]
                /\ \A k \in {l \in DOMAIN fs : ~ InClass(r.file, fs[l])} : \E i \in 1..n : at[i] = k
                /\ \A k \in 1..n : top[k] = fs[at[k]]
  BY TopSpots
<1>4. PICK i \in DOMAIN fs : f = fs[i]
  BY DEF ToSet
<1>5. PICK k \in 1..n : at[k] = i
  BY <1>3, <1>4
<1>6. top[k] = f /\ \A l \in 1..n : top[l] = f => l = k
  <2>1. top[k] = f
    BY <1>3, <1>4, <1>5
  <2>2. ASSUME NEW l \in 1..n, top[l] = f PROVE l = k
    <3>1. at[l] = i /\ at[l] \in Nat
      BY <1>1, <1>3, <1>4, <2>2
    <3>2. ~ (l < k) /\ ~ (k < l)
      BY <1>3, <1>5, <3>1
    <3>3. QED
      BY <1>2, <3>2
  <2>3. QED
    BY <2>1, <2>2
<1>7. PICK p \in 1..m : Gone(p - 1) < k /\ k <= Gone(p)
  <2>1. Gone(m) \in Nat /\ n <= Gone(m)
    BY GoneIs
  <2> HIDE DEF n
  <2>2. k \in Nat /\ 0 < k /\ k <= Gone(m)
    BY <1>2, <2>1
  <2>3. QED
    BY <2>2, PageOfNumber
<1> DEFINE d == k - Gone(p - 1)
<1>8. d \in 1..FunctionPage /\ Gone(p - 1) + d = k
  <2>1. p - 1 \in Nat /\ (p - 1) + 1 = p
    OBVIOUS
  <2>2. Gone(p - 1) \in Nat /\ Gone(p) = Gone(p - 1) + FunctionPage
    BY <2>1, GoneIs
  <2>3. QED
    BY <1>2, <1>7, <2>2
<1> HIDE DEF d, top, texts, n, fs
<1>9. /\ \A q \in PlacesRead(texts) :
           /\ q = <<q[1], q[2]>> /\ q[1] \in 1..m /\ q[2] \in 1..FunctionPage
           /\ Gone(q[1] - 1) + q[2] \in 1..n
           /\ texts[q[1]].functions[q[2]] = top[Gone(q[1] - 1) + q[2]]
      /\ \A x \in 1..m, y \in 1..FunctionPage :
           Gone(x - 1) + y <= n => <<x, y>> \in PlacesRead(texts)
  BY PlacesAre DEF texts, top, n
<1>10. <<p, d>> \in S
  <2>1. <<p, d>> \in PlacesRead(texts)
    BY <1>2, <1>8, <1>9
  <2>2. texts[p].functions[d] = top[k]
    BY <1>8, <1>9, <2>1
  <2>3. QED
    BY <1>6, <2>1, <2>2
<1>11. ASSUME NEW q \in S PROVE q = <<p, d>>
  <2> DEFINE x == q[1]
             y == q[2]
  <2>1. /\ q = <<x, y>> /\ x \in 1..m /\ y \in 1..FunctionPage
        /\ Gone(x - 1) + y \in 1..n /\ top[Gone(x - 1) + y] = f
    BY <1>9
  <2> HIDE DEF x, y, S
  <2>2. Gone(x - 1) + y = Gone(p - 1) + d
    BY <1>6, <1>8, <2>1
  <2>3. x \in Nat \ {0} /\ p \in Nat \ {0}
    BY <2>1
  <2>4. x = p /\ y = d
    BY <1>8, <2>1, <2>2, <2>3, PlacesOrdered
  <2>5. QED
    BY <2>1, <2>4
<1>12. S = {<<p, d>>}
  <2> HIDE DEF S
  <2>1. QED
    BY <1>10, <1>11
<1>13. Cardinality(S) = 1
  <2> HIDE DEF S
  <2>1. QED
    BY <1>12, FS_Singleton
<1>14. QED
  BY <1>13 DEF texts

LEMMA ShownOfClass ==
  ASSUME NEW r, r.file \in File, r.fields = {}, NEW f \in ToSet(r.file.functions),
         InClass(r.file, f), ~ Unshown(r.file, f)
  PROVE  \E i \in DOMAIN r.file.classes :
           LET methods == PageText(r, 0).classes[i].methods
           IN  \E k \in DOMAIN methods : methods[k] = f
<1> DEFINE file == r.file
           classes == file.classes
<1>1. PICK i \in DOMAIN classes :
        /\ Within(f, classes[i])
        /\ ~ \E j \in DOMAIN classes : j > i /\ classes[j].name = classes[i].name
        /\ MethodsGiven(file, i) = << >>
        /\ ~ \E k \in DOMAIN WithinOf(file, classes[i]) :
               k > MethodLimit /\ WithinOf(file, classes[i])[k] = f
  BY DEF Unshown
<1> DEFINE found == WithinOf(file, classes[i])
           places == {k \in DOMAIN file.functions : Within(file.functions[k], classes[i])}
<1>2. DOMAIN classes \subseteq Nat
  <2>1. classes \in Seq([name : STRING, line : Nat, end : Nat])
    BY DEF File
  <2>2. QED
    BY <2>1
<1>3. ClassMethods(file, i) = found
  <2> DEFINE S == {j \in DOMAIN classes : classes[j].name = classes[i].name}
  <2>1. S \subseteq Int /\ i \in S /\ \A j \in S : j <= i
    BY <1>1, <1>2
  <2>2. Max(S) = i
    <3> HIDE DEF S
    <3>1. QED
      BY <2>1, MaxIs
  <2>3. QED
    BY <1>1, <2>2 DEF ClassMethods, MethodsFound
<1>4. file.functions \in Seq(Function) /\ found = Picked(file.functions, places)
  BY DEF File, WithinOf
<1>5. found \in Seq(Function)
  BY <1>4, PickedSpots
<1>6. \E k \in DOMAIN found : found[k] = f
  <2> DEFINE n == Len(file.functions)
  <2>1. PICK at : Spots(n, file.functions, places, found, at)
    BY <1>4, PickedSpots
  <2>2. PICK j \in DOMAIN file.functions : f = file.functions[j]
    BY DEF ToSet
  <2>3. j \in (1..n) \cap places
    BY <1>1, <1>4, <2>2
  <2>4. DOMAIN found = 1..Len(found)
    BY <1>5, LenProperties
  <2> HIDE DEF n, found, places
  <2>5. PICK k \in 1..Len(found) : at[k] = j
    BY <2>1, <2>3 DEF Spots
  <2>6. found[k] = file.functions[j]
    BY <2>1, <2>5 DEF Spots
  <2>7. QED
    BY <2>2, <2>4, <2>5, <2>6
<1>7. PICK k \in DOMAIN found : found[k] = f
  BY <1>6
<1>8. k <= MethodLimit /\ k \in 1..Len(found) /\ Len(found) \in Nat /\ MethodLimit \in Nat
  <2>1. ~ (k > MethodLimit)
    BY <1>1, <1>7
  <2>2. k \in 1..Len(found) /\ Len(found) \in Nat /\ MethodLimit \in Nat
    BY <1>5, FileAnswersAssumption
  <2> HIDE DEF found
  <2>3. QED
    BY <2>1, <2>2
<1> DEFINE shown == FirstOf(found, MethodLimit)
<1>9. k \in DOMAIN shown /\ shown[k] = f
  <2> HIDE DEF found
  <2> DEFINE m == IF Len(found) < MethodLimit THEN Len(found) ELSE MethodLimit
  <2>1. m \in Nat /\ m <= Len(found) /\ k \in 1..m
    BY <1>8
  <2>2. shown = SubSeq(found, 1, m)
    BY DEF FirstOf
  <2> HIDE DEF m, shown
  <2>3. Len(shown) = m /\ DOMAIN shown = 1..Len(shown) /\ shown[k] = found[k]
    BY <1>5, <2>1, <2>2
  <2>4. QED
    BY <1>7, <2>1, <2>3
<1>10. PageText(r, 0).classes[i].methods = shown
  <2>1. PageText(r, 0).classes = ClassSection(file)
    BY DEF PageText, Shows
  <2>2. QED
    BY <1>3, <2>1 DEF ClassSection
<1> HIDE DEF shown
<1>11. QED
  BY <1>9, <1>10

LEMMA WalkHolds == FileInv => WalkListsFunctions
<1> SUFFICES ASSUME FileInv, Answered("analyze_file"), request.fields = {},
                    request.file.kind = "source", request.walk
             PROVE  WalkListsFunctions
  BY DEF WalkListsFunctions
<1> DEFINE r == request
           paged == answer.result = "page"
           texts == r.read \o (IF paged THEN <<answer.text>> ELSE << >>)
<1>1. r.tool = "analyze_file" /\ answer \in Replies(r) /\ FileShape(r)
  BY DEF FileInv, Answered
<1>2. PICK n \in Nat : Followed(r, n)
  BY <1>1 DEF FileInv
<1>3. r.file \in File /\ IsInjective(r.file.functions) /\ r.fields = {} /\ r.file.kind = "source"
  BY <1>1 DEF FileShape
<1> DEFINE m == IF paged THEN n + 1 ELSE n
<1>4. m \in Nat /\ r.read = Texts(r, n)
  BY <1>2 DEF Followed, Texts
<1>5. texts = Texts(r, m)
  <2> DEFINE Text(p) == PageText(r, Gone(p - 1))
  <2>1. r.read = [p \in 1..n |-> Text(p)] /\ \A k : Texts(r, k) = [p \in 1..k |-> Text(p)]
    BY <1>4 DEF Texts
  <2>2. CASE paged
    <3>1. answer.text = Text(n + 1)
      <4>1. answer.text = PageText(r, Gone(n))
        BY <1>1, <1>2, <1>3, <2>2, OffsetIs, PageReply
      <4>2. (n + 1) - 1 = n
        OBVIOUS
      <4>3. QED
        BY <4>1, <4>2
    <3> HIDE DEF Text
    <3>2. [p \in 1..n |-> Text(p)] \o <<Text(n + 1)>> = [p \in 1..(n + 1) |-> Text(p)]
      OBVIOUS
    <3>3. QED
      BY <2>1, <2>2, <3>1, <3>2
  <2>3. CASE ~ paged
    <3> HIDE DEF Text
    <3>1. [p \in 1..n |-> Text(p)] \o << >> = [p \in 1..n |-> Text(p)]
      OBVIOUS
    <3>2. QED
      BY <2>1, <2>3, <3>1
  <2>4. QED
    BY <2>2, <2>3
<1> DEFINE fs == r.file.functions
           classes == r.file.classes
           at(q) == texts[q[1]].functions[q[2]]
           Listed(f, i) == \E k \in DOMAIN texts[1].classes[i].methods : texts[1].classes[i].methods[k] = f
<1>6. r.read # << >> => paged
  <2>1. CASE n = 0
    <3>1. Texts(r, 0) = << >>
      BY DEF Texts
    <3>2. QED
      BY <1>4, <2>1, <3>1
  <2>2. CASE n # 0
    BY <1>1, <1>2, <1>3, <2>2, WalkAnswered
  <2>3. QED
    BY <2>1, <2>2
<1> HIDE DEF texts, m, r
<1>7. \A a, b \in PlacesRead(texts), i, j \in DOMAIN fs :
        at(a) = fs[i] /\ at(b) = fs[j] /\ i < j => ReadBefore(a, b)
  BY <1>3, <1>4, <1>5, ReadInOrder
<1>8. ASSUME paged, answer.next = NoCursor, NEW f \in ToSet(fs)
      PROVE  IF InClass(r.file, f)
             THEN Unshown(r.file, f) \/ \E i \in DOMAIN classes : Listed(f, i)
             ELSE Cardinality({q \in PlacesRead(texts) : at(q) = f}) = 1
  <2>1. m = n + 1
    BY <1>8 DEF m
  <2>2. CASE InClass(r.file, f) /\ ~ Unshown(r.file, f)
    <3>1. texts[1] = PageText(r, 0)
      <4>1. texts[1] = PageText(r, Gone(1 - 1))
        BY <1>5, <2>1 DEF Texts
      <4>2. QED
        BY <4>1, GoneIs
    <3>2. \E i \in DOMAIN classes :
            LET methods == PageText(r, 0).classes[i].methods
            IN  \E k \in DOMAIN methods : methods[k] = f
      BY <1>3, <2>2, ShownOfClass
    <3>3. QED
      BY <2>2, <3>1, <3>2
  <2>3. CASE ~ InClass(r.file, f)
    <3>1. Len(TopLevel(r.file)) <= Gone(m)
      <4>1. Offset(r) = Gone(n) /\ Gone(n) \in Nat /\ Gone(n + 1) = Gone(n) + FunctionPage
        BY <1>2, OffsetIs, GoneIs
      <4>2. ~ (Gone(n) + FunctionPage < Len(TopLevel(r.file)))
        BY <1>1, <1>3, <1>8, <4>1, PageReply, CursorsDiffer
      <4>3. Len(TopLevel(r.file)) \in Nat /\ FunctionPage \in Nat
        <5>1. TopLevel(r.file) \in Seq(Function)
          BY <1>3, <4>1, PageIs
        <5>2. QED
          BY <5>1, LenProperties, FileAnswersAssumption
      <4>4. QED
        BY <2>1, <4>1, <4>2, <4>3
    <3>2. Cardinality({q \in PlacesRead(texts) : at(q) = f}) = 1
      BY <1>3, <1>4, <1>5, <2>3, <3>1, ReadOnce
    <3>3. QED
      BY <2>3, <3>2
  <2>4. QED
    BY <2>2, <2>3
<1>9. QED
  BY <1>6, <1>7, <1>8 DEF WalkListsFunctions, texts, r

LEMMA FileInvHolds == FileSpec => []FileInv
<1>1. FileInv /\ [FileNext]_requestVars => FileInv'
  <2>1. ASSUME FileInv, UNCHANGED requestVars PROVE FileInv'
    BY <2>1 DEF requestVars, FileInv, Answered
  <2>2. QED
    BY <2>1, FileAnswerStep, NextPageStep DEF FileNext
<1>2. QED
  BY <1>1, FileInit, PTL DEF FileSpec

\* A client that follows the cursors of analyze_file is never refused, reads
\* functions in the order of the text, and in the end has read each that is in no
\* class once and each other under a class, but for those a class's section
\* does not show (format_file_details_paginated, paginate_slice).
THEOREM ToolWalkListsFunctions == FileSpec => []WalkListsFunctions
<1>1. QED
  BY FileInvHolds, WalkHolds, PTL

-----------------------------------------------------------------------------
(* What is picked, counted.                                                *)

(* The places up to x that are in a set.                                   *)
Count(Q, x) == Cardinality((1..x) \cap Q)

LEMMA CountZero ==
  ASSUME NEW Q
  PROVE  Count(Q, 0) = 0
<1>1. (1..0) \cap Q = {}
  OBVIOUS
<1>2. QED
  BY <1>1, FS_EmptySet DEF Count

LEMMA CountStep ==
  ASSUME NEW Q, NEW x \in Nat
  PROVE  /\ Count(Q, x) \in Nat
         /\ Count(Q, x + 1) = Count(Q, x) + (IF x + 1 \in Q THEN 1 ELSE 0)
<1> DEFINE S == (1..x) \cap Q
           T == (1..(x + 1)) \cap Q
<1>1. IsFiniteSet(S)
  <2>1. IsFiniteSet(1..x)
    BY FS_Interval
  <2>2. S \subseteq 1..x
    OBVIOUS
  <2>3. QED
    BY <2>1, <2>2, FS_Subset
<1>2. Cardinality(S) \in Nat
  BY <1>1, FS_CardinalityType
<1>3. CASE x + 1 \in Q
  <2>1. T = S \cup {x + 1} /\ x + 1 \notin S
    BY <1>3
  <2> HIDE DEF S, T
  <2>2. Cardinality(T) = Cardinality(S) + 1
    BY <1>1, <2>1, FS_AddElement
  <2>3. QED
    BY <1>2, <1>3, <2>2 DEF Count, S, T
<1>4. CASE x + 1 \notin Q
  <2>1. T = S
    BY <1>4
  <2> HIDE DEF S, T
  <2>2. Cardinality(T) = Cardinality(S)
    BY <2>1
  <2>3. QED
    BY <1>2, <1>4, <2>2 DEF Count, S, T
<1>5. QED
  BY <1>3, <1>4

(* A place and the one before it.                                          *)
LEMMA CountBefore ==
  ASSUME NEW Q, NEW x \in Nat, x # 0
  PROVE  /\ x - 1 \in Nat /\ Count(Q, x) \in Nat /\ Count(Q, x - 1) \in Nat
         /\ x \in Q => Count(Q, x) = Count(Q, x - 1) + 1
         /\ x \notin Q => Count(Q, x) = Count(Q, x - 1)
<1> DEFINE w == x - 1
<1>1. w \in Nat /\ w + 1 = x
  OBVIOUS
<1> HIDE DEF w
<1>2. Count(Q, w) \in Nat /\ Count(Q, w + 1) = Count(Q, w) + (IF w + 1 \in Q THEN 1 ELSE 0)
  BY <1>1, CountStep
<1>3. QED
  BY <1>1, <1>2 DEF w

(* A count grows by at most one a place.                                   *)
LEMMA CountGrows ==
  ASSUME NEW Q, NEW x \in Nat, NEW y \in Nat, x <= y
  PROVE  /\ Count(Q, x) \in Nat /\ Count(Q, y) \in Nat
         /\ Count(Q, x) <= Count(Q, y) /\ Count(Q, y) <= Count(Q, x) + (y - x)
         /\ (\A z \in (x + 1)..y : z \in Q) => Count(Q, y) = Count(Q, x) + (y - x)
<1> DEFINE GrownTo(z) == /\ Count(Q, x) <= Count(Q, z) /\ Count(Q, z) <= Count(Q, x) + (z - x)
                         /\ (\A w \in (x + 1)..z : w \in Q) => Count(Q, z) = Count(Q, x) + (z - x)
           T == {z \in 0..y : z >= x => GrownTo(z)}
<1>1. Count(Q, x) \in Nat /\ Count(Q, y) \in Nat
  BY CountStep
<1>2. 0 \in T
  <2>1. CASE x = 0
    <3>1. GrownTo(0)
      BY <1>1, <2>1
    <3>2. QED
      BY <3>1
  <2>2. CASE x # 0
    BY <2>2
  <2>3. QED
    BY <2>1, <2>2
<1>3. ASSUME NEW z \in 1..y, z - 1 \in T PROVE z \in T
  <2> SUFFICES ASSUME z >= x PROVE GrownTo(z)
    OBVIOUS
  <2>1. z \in Nat /\ z # 0
    OBVIOUS
  <2>2. CASE z = x
    BY <1>1, <2>2
  <2>3. CASE z # x
    <3> DEFINE v == z - 1
    <3>1. v \in Nat /\ v >= x /\ v + 1 = z
      BY <2>3
    <3>2. Count(Q, z) \in Nat /\ Count(Q, v) \in Nat
          /\ (z \in Q => Count(Q, z) = Count(Q, v) + 1) /\ (z \notin Q => Count(Q, z) = Count(Q, v))
      BY <2>1, CountBefore
    <3>3. GrownTo(v)
      BY <1>3, <3>1
    <3> HIDE DEF v
    <3>4. Count(Q, x) <= Count(Q, z) /\ Count(Q, z) <= Count(Q, x) + (z - x)
      BY <1>1, <3>1, <3>2, <3>3
    <3>5. ASSUME \A w \in (x + 1)..z : w \in Q
          PROVE  Count(Q, z) = Count(Q, x) + (z - x)
      <4>1. z \in Q /\ \A w \in (x + 1)..v : w \in Q
        BY <2>1, <2>3, <3>1, <3>5
      <4>2. QED
        BY <1>1, <3>1, <3>2, <3>3, <4>1
    <3>6. QED
      BY <3>4, <3>5
  <2>4. QED
    BY <2>2, <2>3
<1>4. y \in T
  <2> HIDE DEF T
  <2>1. \A z \in 0..y : z \in T
    BY <1>2, <1>3, Upwards
  <2>2. QED
    BY <2>1
<1>5. QED
  BY <1>1, <1>4

(* A place of the set is the first with its count.                         *)
LEMMA CountAt ==
  ASSUME NEW Q, NEW x \in Nat, NEW y \in Nat
  PROVE  /\ Count(Q, x) < Count(Q, y) => x < y
         /\ y \in Q /\ x < y => Count(Q, x) < Count(Q, y)
         /\ y \in Q /\ Count(Q, x) >= Count(Q, y) => x >= y
<1>1. Count(Q, x) \in Nat /\ Count(Q, y) \in Nat
  BY CountStep
<1>2. Count(Q, x) < Count(Q, y) => x < y
  <2>1. ~ (x < y) => Count(Q, y) <= Count(Q, x)
    BY CountGrows
  <2>2. QED
    BY <1>1, <2>1
<1>3. ASSUME y \in Q, x < y PROVE Count(Q, x) < Count(Q, y)
  <2> DEFINE w == y - 1
  <2>1. w \in Nat /\ x <= w /\ y # 0
    BY <1>3
  <2>2. Count(Q, y) = Count(Q, w) + 1 /\ Count(Q, w) \in Nat
    BY <1>3, <2>1, CountBefore
  <2> HIDE DEF w
  <2>3. Count(Q, x) <= Count(Q, w)
    BY <2>1, CountGrows
  <2>4. QED
    BY <1>1, <2>2, <2>3
<1>4. QED
  BY <1>1, <1>2, <1>3

(* Each count up to the last is that of a first place: the start, or one of *)
(* the set.                                                                 *)
LEMMA CountReached ==
  ASSUME NEW Q, NEW x \in Nat, NEW y \in Nat, x <= y, NEW k \in Nat, Count(Q, x) <= k, k <= Count(Q, y)
  PROVE  \E z \in x..y : Count(Q, z) = k /\ (z = x \/ z \in Q) /\ \A w \in x..y : Count(Q, w) >= k => w >= z
<1> DEFINE S == {z \in x..y : Count(Q, z) >= k}
<1>1. S \subseteq Nat /\ y \in S
  BY CountStep
<1> HIDE DEF S
<1>2. PICK z \in S : \A w \in S : z <= w
  BY <1>1, LeastNat
<1>3. z \in x..y /\ Count(Q, z) >= k /\ z \in Nat /\ Count(Q, z) \in Nat
  <2>1. z \in x..y /\ Count(Q, z) >= k /\ z \in Nat
    BY <1>2 DEF S
  <2>2. QED
    BY <2>1, CountStep
<1>4. CASE z = x
  BY <1>2, <1>3, <1>4 DEF S
<1>5. CASE z # x
  <2> DEFINE v == z - 1
  <2>1. v \in x..y /\ v \in Nat /\ z # 0 /\ v < z
    BY <1>3, <1>5
  <2>2. Count(Q, v) \in Nat /\ (z \in Q => Count(Q, z) = Count(Q, v) + 1) /\ (z \notin Q => Count(Q, z) = Count(Q, v))
    BY <1>3, <2>1, CountBefore
  <2> HIDE DEF v
  <2>3. Count(Q, v) < k
    <3>1. v \notin S
      BY <1>2, <1>3, <2>1
    <3>2. QED
      BY <2>1, <2>2, <3>1 DEF S
  <2>4. z \in Q /\ Count(Q, z) = k
    BY <1>3, <2>2, <2>3
  <2>5. QED
    BY <1>2, <1>3, <2>4 DEF S
<1>6. QED
  BY <1>4, <1>5

(* What is picked, by how many were picked before.                          *)
LEMMA PickedCounted ==
  ASSUME NEW X, NEW seq \in Seq(X), NEW Q
  PROVE  /\ Picked(seq, Q) \in Seq(X) /\ Len(Picked(seq, Q)) = Count(Q, Len(seq))
         /\ \A x \in 1..Len(seq) : x \in Q =>
              Count(Q, x) \in 1..Len(Picked(seq, Q)) /\ Picked(seq, Q)[Count(Q, x)] = seq[x]
<1> DEFINE n == Len(seq)
           Upto(i, s) == /\ Len(s) = Count(Q, i)
                         /\ \A x \in 1..i : x \in Q => Count(Q, x) \in 1..Len(s) /\ s[Count(Q, x)] = seq[x]
<1>1. n \in Nat
  OBVIOUS
<1>2. PICK g : Picking(X, seq, Q, g)
  BY PickedSteps
<1>3. /\ g \in [0..n -> Seq(X)] /\ g[0] = << >> /\ g[n] = Picked(seq, Q)
      /\ \A i \in 1..n : g[i] = IF i \in Q THEN Append(g[i - 1], seq[i]) ELSE g[i - 1]
  BY <1>2 DEF Picking
<1> HIDE DEF n
<1> DEFINE T == {i \in 0..n : Upto(i, g[i])}
<1>4. 0 \in T
  <2>1. Upto(0, << >>)
    BY CountZero
  <2>2. QED
    BY <1>1, <1>3, <2>1
<1>5. ASSUME NEW i \in 1..n, i - 1 \in T PROVE i \in T
  <2> DEFINE h == i - 1
             s == g[h]
  <2>1. i \in 0..n /\ i \in Nat /\ i # 0 /\ h \in 0..n /\ h \in Nat /\ h < i /\ \A x \in 1..i : x \in 1..h \/ x = i
    BY <1>1
  <2>2. s \in Seq(X) /\ g[i] = (IF i \in Q THEN Append(s, seq[i]) ELSE s) /\ Upto(h, s)
    BY <1>3, <1>5, <2>1
  <2>3. Count(Q, i) \in Nat /\ Count(Q, h) \in Nat
        /\ (i \in Q => Count(Q, i) = Count(Q, h) + 1) /\ (i \notin Q => Count(Q, i) = Count(Q, h))
    BY <2>1, CountBefore
  <2> HIDE DEF h, s
  <2>4. Upto(i, g[i])
    <3>1. CASE i \in Q
      <4> DEFINE r == Append(s, seq[i])
      <4>1. r = g[i] /\ Len(r) = Len(s) + 1 /\ r[Len(s) + 1] = seq[i] /\ \A k \in 1..Len(s) : r[k] = s[k]
        BY <2>2, <3>1
      <4> HIDE DEF r
      <4>2. Len(r) = Count(Q, i)
        BY <2>2, <2>3, <3>1, <4>1
      <4>3. ASSUME NEW x \in 1..i, x \in Q
            PROVE  Count(Q, x) \in 1..Len(r) /\ r[Count(Q, x)] = seq[x]
        <5>1. CASE x = i
          <6>1. Count(Q, i) = Len(s) + 1
            BY <2>2, <2>3, <3>1
          <6>2. QED
            BY <2>3, <4>1, <4>2, <5>1, <6>1
        <5>2. CASE x \in 1..h
          <6>1. Count(Q, x) \in 1..Len(s) /\ s[Count(Q, x)] = seq[x]
            BY <2>2, <4>3, <5>2
          <6>2. Len(s) \in Nat
            BY <2>2
          <6>3. QED
            BY <4>1, <6>1, <6>2
        <5>3. QED
          BY <2>1, <5>1, <5>2
      <4>4. QED
        BY <4>1, <4>2, <4>3
    <3>2. CASE i \notin Q
      <4>1. g[i] = s /\ Len(s) = Count(Q, i)
        BY <2>2, <2>3, <3>2
      <4>2. ASSUME NEW x \in 1..i, x \in Q
            PROVE  Count(Q, x) \in 1..Len(s) /\ s[Count(Q, x)] = seq[x]
        <5>1. x \in 1..h
          BY <2>1, <3>2, <4>2
        <5>2. QED
          BY <2>2, <4>2, <5>1
      <4>3. QED
        BY <4>1, <4>2
    <3>3. QED
      BY <3>1, <3>2
  <2>5. QED
    BY <2>1, <2>4
<1>6. n \in T
  <2> HIDE DEF T
  <2>1. \A i \in 0..n : i \in T
    BY <1>1, <1>4, <1>5, Upwards
  <2>2. QED
    BY <1>1, <2>1
<1>7. Upto(n, Picked(seq, Q))
  BY <1>3, <1>6
<1>8. Picked(seq, Q) \in Seq(X)
  BY <1>1, <1>3
<1>9. QED
  BY <1>7, <1>8 DEF n

(* What has a member of the set at each count is what is picked.            *)
LEMMA PickedUnique ==
  ASSUME NEW X, NEW seq \in Seq(X), NEW Q, NEW r \in Seq(X), Len(r) = Count(Q, Len(seq)),
         \A x \in 1..Len(seq) : x \in Q => r[Count(Q, x)] = seq[x]
  PROVE  Picked(seq, Q) = r
<1> DEFINE n == Len(seq)
           p == Picked(seq, Q)
<1>1. n \in Nat
  OBVIOUS
<1>2. /\ p \in Seq(X) /\ Len(p) = Count(Q, n)
      /\ \A x \in 1..n : x \in Q => p[Count(Q, x)] = seq[x]
  BY PickedCounted
<1>3. Len(r) = Count(Q, n) /\ \A x \in 1..n : x \in Q => r[Count(Q, x)] = seq[x]
  OBVIOUS
<1> HIDE DEF n, p
<1>4. ASSUME NEW k \in 1..Len(p) PROVE p[k] = r[k]
  <2>1. k \in Nat /\ Count(Q, 0) <= k /\ k <= Count(Q, n) /\ 0 <= n /\ 0 \in Nat /\ Count(Q, 0) = 0 /\ k # 0
    BY <1>1, <1>2, CountZero
  <2>2. PICK z \in 0..n : Count(Q, z) = k /\ (z = 0 \/ z \in Q)
    BY <1>1, <2>1, CountReached
  <2>3. z \in 1..n /\ z \in Q
    BY <1>1, <2>1, <2>2
  <2>4. QED
    BY <1>2, <1>3, <2>2, <2>3
<1>5. Len(p) = Len(r)
  BY <1>2, <1>3
<1>6. p = r
  BY <1>2, <1>4, <1>5, SeqEqual
<1>7. QED
  BY <1>6 DEF p

(* A count from a place on.                                                 *)
SameFrom(P, Q, x, m) == \A k \in 1..m : k \in P <=> x + k \in Q

LEMMA CountShift ==
  ASSUME NEW Q, NEW P, NEW x \in Nat, NEW m \in Nat, SameFrom(P, Q, x, m)
  PROVE  \A k \in 0..m : /\ Count(P, k) \in Nat /\ Count(Q, x + k) \in Nat
                         /\ Count(Q, x + k) = Count(Q, x) + Count(P, k)
<1> DEFINE Is(k) == /\ Count(P, k) \in Nat /\ Count(Q, x + k) \in Nat
                    /\ Count(Q, x + k) = Count(Q, x) + Count(P, k)
           T == {k \in 0..m : Is(k)}
<1>1. Count(Q, x) \in Nat
  BY CountStep
<1>2. 0 \in T
  <2>1. Count(P, 0) = 0 /\ x + 0 = x
    BY CountZero
  <2>2. QED
    BY <1>1, <2>1
<1>3. ASSUME NEW k \in 1..m, k - 1 \in T PROVE k \in T
  <2> DEFINE y == x + k
             h == k - 1
  <2>1. k \in Nat /\ k # 0 /\ y \in Nat /\ y # 0 /\ y - 1 = x + h /\ k \in 0..m
    OBVIOUS
  <2>2. Is(h)
    BY <1>3
  <2>3. Count(P, k) \in Nat /\ Count(P, h) \in Nat
        /\ (k \in P => Count(P, k) = Count(P, h) + 1) /\ (k \notin P => Count(P, k) = Count(P, h))
    BY <2>1, CountBefore
  <2>4. Count(Q, y) \in Nat /\ Count(Q, y - 1) \in Nat
        /\ (y \in Q => Count(Q, y) = Count(Q, y - 1) + 1) /\ (y \notin Q => Count(Q, y) = Count(Q, y - 1))
    <3> HIDE DEF y
    <3>1. QED
      BY <2>1, CountBefore
  <2>5. k \in P <=> y \in Q
    BY DEF SameFrom
  <2>6. Count(Q, y - 1) = Count(Q, x + h)
    <3> HIDE DEF y, h
    <3>1. QED
      BY <2>1
  <2> HIDE DEF h, y
  <2>7. Count(Q, y) = Count(Q, x) + Count(P, k)
    BY <1>1, <2>2, <2>3, <2>4, <2>5, <2>6
  <2>8. QED
    BY <2>1, <2>3, <2>4, <2>7 DEF y
<1>4. QED
  <2> HIDE DEF T
  <2>1. \A k \in 0..m : k \in T
    BY <1>2, <1>3, Upwards
  <2>2. QED
    BY <2>1 DEF T

(* What is picked from a part is a part of what is picked.                  *)
LEMMA PickedPart ==
  ASSUME NEW X, NEW seq \in Seq(X), NEW Q, NEW P, NEW x \in 0..Len(seq), NEW y \in x..Len(seq),
         SameFrom(P, Q, x, y - x)
  PROVE  Picked(SubSeq(seq, x + 1, y), P) = SubSeq(Picked(seq, Q), Count(Q, x) + 1, Count(Q, y))
<1> DEFINE n == Len(seq)
           m == y - x
           p == Picked(seq, Q)
           w == SubSeq(seq, x + 1, y)
           a == Count(Q, x)
           b == Count(Q, y)
           r == SubSeq(p, a + 1, b)
<1>1. n \in Nat /\ x \in Nat /\ y \in Nat /\ m \in Nat /\ x + m = y /\ x <= y /\ y <= n
  OBVIOUS
<1>2. w \in Seq(X) /\ Len(w) = m /\ \A k \in 1..m : w[k] = seq[x + k] /\ x + k \in 1..n
  OBVIOUS
<1>3. /\ p \in Seq(X) /\ Len(p) = Count(Q, n)
      /\ \A z \in 1..n : z \in Q => Count(Q, z) \in 1..Len(p) /\ p[Count(Q, z)] = seq[z]
  BY PickedCounted
<1>4. \A k \in 0..m : Count(P, k) \in Nat /\ Count(Q, x + k) \in Nat /\ Count(Q, x + k) = Count(Q, x) + Count(P, k)
  <2> HIDE DEF m
  <2>1. SameFrom(P, Q, x, m)
    BY DEF m
  <2>2. QED
    BY <1>1, <2>1, CountShift
<1>5. a \in Nat /\ b \in Nat /\ a <= b
  BY <1>1, CountGrows
<1>6. b <= Count(Q, n)
  BY <1>1, CountGrows
<1> HIDE DEF n, m, p, w, a, b
<1>7. b = a + Count(P, m) /\ Count(P, m) \in Nat
  <2>1. m \in 0..m /\ x + m = y
    BY <1>1
  <2>2. QED
    BY <1>4, <2>1 DEF a, b
<1>8. r \in Seq(X) /\ Len(r) = b - a /\ \A k \in 1..(b - a) : r[k] = p[a + k]
  <2>1. p \in Seq(X) /\ Len(p) \in Nat /\ b <= Len(p)
    BY <1>3, <1>6
  <2>2. a + 1 \in Nat /\ a + 1 >= 1 /\ b <= Len(p) /\ b - (a + 1) + 1 = b - a
    BY <1>5, <2>1
  <2> HIDE DEF r
  <2>3. r \in Seq(X)
    BY <1>5, <2>1, <2>2 DEF r
  <2>4. Len(r) = b - a
    BY <1>5, <2>1, <2>2 DEF r
  <2>5. \A k \in 1..(b - a) : r[k] = p[a + k]
    BY <1>5, <2>1, <2>2 DEF r
  <2>6. QED
    BY <2>3, <2>4, <2>5
<1> HIDE DEF r
<1>9. Len(r) = Count(P, Len(w))
  BY <1>2, <1>5, <1>7, <1>8
<1>10. ASSUME NEW k \in 1..Len(w), k \in P PROVE r[Count(P, k)] = w[k]
  <2> DEFINE z == x + k
             c == Count(P, k)
  <2>1. k \in 1..m /\ k \in 0..m /\ z \in 1..n /\ w[k] = seq[z] /\ z <= y /\ z \in Nat
    BY <1>1, <1>2
  <2>2. z \in Q
    BY <1>10, <2>1 DEF m, SameFrom
  <2>3. c \in Nat /\ Count(Q, z) = a + c
    BY <1>4, <2>1 DEF a
  <2>4. c >= 1
    <3>1. x < z
      BY <2>1, <1>1
    <3> HIDE DEF z, c
    <3>2. Count(Q, x) < Count(Q, z)
      BY <1>1, <2>1, <2>2, <3>1, CountAt
    <3>3. QED
      BY <1>5, <2>3, <3>2 DEF a
  <2>5. Count(Q, z) <= b
    <3> HIDE DEF z
    <3>1. QED
      BY <1>1, <2>1, CountGrows DEF b
  <2>6. c \in 1..(b - a)
    <3> HIDE DEF z, c
    <3>1. QED
      BY <1>5, <2>3, <2>4, <2>5
  <2>7. r[c] = p[a + c] /\ p[Count(Q, z)] = seq[z]
    BY <1>3, <1>8, <2>1, <2>2, <2>6
  <2>8. QED
    BY <2>1, <2>3, <2>7
<1>11. Picked(w, P) = r
  BY <1>2, <1>8, <1>9, <1>10, PickedUnique
<1>12. QED
  BY <1>11 DEF w, r, p, a, b

-----------------------------------------------------------------------------
(* Line endings.                                                           *)

Kept(s) == DOMAIN s \ CRLF(s)

LEMMA CrlfKept ==
  ASSUME NEW s \in Seq(STRING)
  PROVE  /\ Len(s) \in Nat /\ Kept(s) \subseteq 1..Len(s) /\ CRLF(s) \subseteq 1..Len(s)
         /\ \A n \in 1..Len(s) : n \in Kept(s) <=> n \notin CRLF(s)
         /\ \A n \in CRLF(s) : n + 1 \in Kept(s)
<1>1. Len(s) \in Nat /\ DOMAIN s = 1..Len(s)
  OBVIOUS
<1>2. \A n \in CRLF(s) : n \in 1..Len(s) /\ n + 1 \in 1..Len(s) /\ s[n] = "cr" /\ s[n + 1] = "nl"
  BY <1>1 DEF CRLF
<1>3. ASSUME NEW n \in CRLF(s) PROVE n + 1 \in Kept(s)
  <2>1. n + 1 \notin CRLF(s)
    BY <1>2, <1>3
  <2>2. QED
    BY <1>1, <1>2, <2>1 DEF Kept
<1>4. QED
  BY <1>1, <1>2, <1>3 DEF Kept

(* The places of two sets that part the numbers.                            *)
LEMMA CountApart ==
  ASSUME NEW Q, NEW R, NEW m \in Nat, \A k \in 1..m : k \in Q <=> k \notin R
  PROVE  \A k \in 0..m : /\ Count(Q, k) \in Nat /\ Count(R, k) \in Nat
                         /\ Count(Q, k) + Count(R, k) = k
<1> DEFINE Is(k) == /\ Count(Q, k) \in Nat /\ Count(R, k) \in Nat
                    /\ Count(Q, k) + Count(R, k) = k
           T == {k \in 0..m : Is(k)}
<1>1. 0 \in T
  BY CountZero
<1>2. ASSUME NEW k \in 1..m, k - 1 \in T PROVE k \in T
  <2> DEFINE h == k - 1
  <2>1. k \in Nat /\ k # 0 /\ h + 1 = k /\ k \in 0..m
    OBVIOUS
  <2>2. Is(h)
    BY <1>2
  <2>3. Count(Q, k) \in Nat /\ Count(Q, h) \in Nat
        /\ (k \in Q => Count(Q, k) = Count(Q, h) + 1) /\ (k \notin Q => Count(Q, k) = Count(Q, h))
    BY <2>1, CountBefore
  <2>4. Count(R, k) \in Nat /\ Count(R, h) \in Nat
        /\ (k \in R => Count(R, k) = Count(R, h) + 1) /\ (k \notin R => Count(R, k) = Count(R, h))
    BY <2>1, CountBefore
  <2>5. k \in Q <=> k \notin R
    OBVIOUS
  <2> HIDE DEF h
  <2>6. QED
    BY <2>1, <2>2, <2>3, <2>4, <2>5
<1>3. QED
  <2> HIDE DEF T
  <2>1. \A k \in 0..m : k \in T
    BY <1>1, <1>2, Upwards
  <2>2. QED
    BY <2>1 DEF T

LEMMA CrlfAt ==
  ASSUME NEW s \in Seq(STRING)
  PROVE  CrlfPositions(s) = {Count(Kept(s), n - 1) : n \in CRLF(s)}
<1> DEFINE OffsetAt(n) == n - 1 - Cardinality({m \in CRLF(s) : m < n})
<1>1. ASSUME NEW n \in CRLF(s) PROVE OffsetAt(n) = Count(Kept(s), n - 1)
  <2> DEFINE h == n - 1
             C == CRLF(s)
             K == Kept(s)
  <2>1. /\ Len(s) \in Nat /\ n \in 1..Len(s) /\ \A m \in C : m \in 1..Len(s)
        /\ \A m \in 1..Len(s) : m \in K <=> m \notin C
    BY CrlfKept
  <2> HIDE DEF C, K
  <2>2. h \in 0..h /\ h \in Nat /\ \A m \in 1..h : m \in K <=> m \notin C
    BY <2>1
  <2>3. {m \in C : m < n} = (1..h) \cap C
    BY <2>1
  <2> HIDE DEF h
  <2>4. Count(K, h) \in Nat /\ Count(C, h) \in Nat /\ Count(K, h) + Count(C, h) = h
    BY <2>2, CountApart
  <2>5. Cardinality({m \in C : m < n}) = Count(C, h)
    BY <2>3 DEF Count
  <2>6. h - Count(C, h) = Count(K, h)
    BY <2>2, <2>4
  <2>7. QED
    BY <2>5, <2>6 DEF h, C, K
<1>2. CrlfPositions(s) = {OffsetAt(n) : n \in CRLF(s)}
  BY DEF CrlfPositions
<1> HIDE DEF OffsetAt
<1>3. QED
  BY <1>1, <1>2

(* An offset of the normalised text is mapped to the first place of the     *)
(* file before which there is as much.                                      *)
LEMMA ToOriginalIs ==
  ASSUME NEW s \in Seq(STRING), NEW off \in 0..Len(Normalized(s))
  PROVE  LET y == ToOriginal(off, CrlfPositions(s))
         IN  y \in 0..Len(s) /\ Count(Kept(s), y) = off /\ (y = 0 \/ y \in Kept(s))
<1> DEFINE C == CRLF(s)
           K == Kept(s)
           P == CrlfPositions(s)
           L == Len(s)
<1>1. /\ L \in Nat /\ K \subseteq 1..L /\ C \subseteq 1..L
      /\ \A n \in 1..L : n \in K <=> n \notin C
      /\ \A n \in C : n + 1 \in K
  BY CrlfKept
<1>2. Len(Normalized(s)) = Count(K, L)
  BY PickedCounted DEF Normalized, Kept
<1>3. P = {Count(K, n - 1) : n \in C}
  BY CrlfAt
<1>4. off \in Nat /\ off <= Count(K, L) /\ Count(K, 0) = 0 /\ Count(K, L) \in Nat
  <2>1. Count(K, L) \in Nat /\ Count(K, 0) = 0
    BY <1>1, CountStep, CountZero
  <2>2. off \in 0..Count(K, L)
    BY <1>2
  <2> HIDE DEF K, L
  <2>3. QED
    BY <2>1, <2>2
<1> HIDE DEF C, K, P, L
<1>5. PICK z \in 0..L : Count(K, z) = off /\ (z = 0 \/ z \in K)
  <2>1. 0 <= L /\ 0 \in Nat /\ Count(K, 0) <= off
    BY <1>1, <1>4
  <2>2. QED
    BY <1>1, <1>4, <2>1, CountReached
<1> DEFINE A == (1..z) \cap C
           B == {p \in P : p < off}
           f == [n \in A |-> Count(K, n - 1)]
<1>6. z \in Nat /\ z <= L
  BY <1>1, <1>5
<1>7. IsFiniteSet(A)
  <2>1. IsFiniteSet(1..z) /\ A \subseteq 1..z
    BY <1>6, FS_Interval
  <2>2. QED
    BY <2>1, FS_Subset
<1>8. ASSUME NEW n \in A PROVE f[n] \in B
  <2>1. n \in C /\ n \in 1..z /\ n \in Nat /\ n # 0 /\ n \notin K
    BY <1>1
  <2>2. z \in K /\ n < z
    BY <1>5, <1>6, <2>1
  <2>3. Count(K, n) < off
    BY <1>5, <1>6, <2>1, <2>2, CountAt
  <2>4. Count(K, n) = Count(K, n - 1)
    BY <2>1, CountBefore
  <2>5. Count(K, n - 1) \in P
    BY <1>3, <2>1
  <2>6. QED
    BY <2>3, <2>4, <2>5
<1>9. ASSUME NEW n \in A, NEW o \in A, n < o PROVE Count(K, n - 1) < Count(K, o - 1)
  <2> DEFINE h == n - 1
             g == o - 1
             k == n + 1
  <2>1. n \in C /\ o \in C /\ n \in 1..z /\ o \in 1..z /\ o \notin K /\ k \in K
    BY <1>1
  <2>2. h \in Nat /\ g \in Nat /\ k \in Nat /\ h < k
    BY <1>6, <2>1
  <2>3. k <= g
    <3>1. k # o
      BY <2>1
    <3>2. QED
      BY <1>6, <1>9, <2>1, <3>1
  <2> HIDE DEF h, g, k
  <2>4. Count(K, h) < Count(K, k)
    BY <2>1, <2>2, CountAt
  <2>5. Count(K, k) <= Count(K, g) /\ Count(K, k) \in Nat /\ Count(K, g) \in Nat
    BY <2>2, <2>3, CountGrows
  <2>6. Count(K, h) \in Nat
    BY <2>2, CountStep
  <2>7. Count(K, h) < Count(K, g)
    BY <2>4, <2>5, <2>6
  <2>8. QED
    BY <2>7 DEF h, g
<1>10. ASSUME NEW p \in B PROVE \E n \in A : f[n] = p
  <2>1. PICK n \in C : p = Count(K, n - 1)
    BY <1>3
  <2>2. p < off
    OBVIOUS
  <2> DEFINE h == n - 1
  <2>3. n \in Nat /\ h \in Nat /\ n \in 1..L
    BY <1>1
  <2>4. ~ (z <= h)
    <3> HIDE DEF h
    <3>1. z <= h => off <= Count(K, h)
      BY <1>5, <1>6, <2>3, CountGrows
    <3>2. Count(K, h) < off
      BY <2>1, <2>2 DEF h
    <3>3. Count(K, h) \in Nat
      BY <2>3, CountStep
    <3>4. QED
      BY <1>4, <3>1, <3>2, <3>3
  <2>5. n \in A
    BY <1>6, <2>3, <2>4
  <2>6. QED
    BY <2>1, <2>5
<1>11. f \in Surjection(A, B)
  <2>1. f \in [A -> B]
    <3>1. f = [n \in A |-> f[n]] /\ \A n \in A : f[n] \in B
      BY <1>8
    <3> HIDE DEF f, A, B
    <3>2. QED
      BY <3>1
  <2> HIDE DEF f, A, B
  <2>2. QED
    BY <1>10, <2>1 DEF Surjection
<1>12. f \in Injection(A, B)
  <2>1. f \in [A -> B]
    BY <1>11 DEF Surjection
  <2>2. ASSUME NEW n \in A, NEW o \in A, f[n] = f[o] PROVE n = o
    <3>1. n \in Nat /\ o \in Nat
      BY <1>6
    <3>2. f[n] = Count(K, n - 1) /\ f[o] = Count(K, o - 1)
      OBVIOUS
    <3>3. f[n] \in Nat
      <4> DEFINE h == n - 1
      <4>1. h \in Nat
        BY <1>6
      <4> HIDE DEF h
      <4>2. Count(K, h) \in Nat
        BY <4>1, CountStep
      <4>3. QED
        BY <3>2, <4>2 DEF h
    <3>4. ~ (n < o)
      <4>1. n < o => f[n] < f[o]
        BY <1>9, <3>2
      <4>2. QED
        BY <2>2, <3>3, <4>1
    <3>5. ~ (o < n)
      <4>1. o < n => f[o] < f[n]
        BY <1>9, <3>2
      <4>2. QED
        BY <2>2, <3>3, <4>1
    <3>6. QED
      BY <3>1, <3>4, <3>5
  <2> HIDE DEF f, A, B
  <2>3. QED
    BY <2>1, <2>2 DEF Injection, IsInjective
<1>13. Cardinality(B) = Count(C, z)
  <2> HIDE DEF f, B
  <2>1. Cardinality(B) = Cardinality(A)
    BY <1>7, <1>11, <1>12, FS_Surjection
  <2>2. QED
    BY <2>1 DEF Count
<1>14. off + Count(C, z) = z
  <2>1. z \in 0..z /\ \A k \in 1..z : k \in K <=> k \notin C
    BY <1>1, <1>6
  <2>2. Count(K, z) + Count(C, z) = z
    BY <1>6, <2>1, CountApart
  <2>3. QED
    BY <1>5, <2>2
<1>15. ToOriginal(off, P) = z
  BY <1>13, <1>14 DEF ToOriginal
<1>16. QED
  BY <1>5, <1>15 DEF K, P, L

LEMMA NormalizedType ==
  ASSUME NEW s \in Seq(STRING)
  PROVE  /\ Normalized(s) \in Seq(STRING) /\ Len(Normalized(s)) = Count(Kept(s), Len(s))
         /\ Len(s) \in Nat /\ Len(Normalized(s)) \in Nat
<1>1. Normalized(s) \in Seq(STRING) /\ Len(Normalized(s)) = Count(Kept(s), Len(s))
  BY PickedCounted DEF Normalized, Kept
<1>2. QED
  BY <1>1

(* A span of the normalised text, mapped back, is that span normalised, and *)
(* neither end is within a \r\n.                                            *)
LEMMA OriginalSpan ==
  ASSUME NEW s \in Seq(STRING), NEW u \in 0..Len(Normalized(s)), NEW v \in u..Len(Normalized(s))
  PROVE  LET a == ToOriginal(u, CrlfPositions(s))
             b == ToOriginal(v, CrlfPositions(s))
         IN  /\ a \notin CRLF(s) /\ b \notin CRLF(s)
             /\ a \in 0..b /\ b \in 0..Len(s)
             /\ Normalized(SubSeq(s, a + 1, b)) = SubSeq(Normalized(s), u + 1, v)
<1> DEFINE K == Kept(s)
           C == CRLF(s)
           L == Len(s)
           N == Normalized(s)
           a == ToOriginal(u, CrlfPositions(s))
           b == ToOriginal(v, CrlfPositions(s))
           m == b - a
           w == SubSeq(s, a + 1, b)
           P == DOMAIN w \ CRLF(w)
<1>1. L \in Nat /\ Len(N) \in Nat /\ v \in 0..Len(N) /\ u \in Nat /\ v \in Nat /\ u <= v
  BY NormalizedType
<1>2. a \in 0..L /\ Count(K, a) = u /\ (a = 0 \/ a \in K)
  BY ToOriginalIs
<1>3. b \in 0..L /\ Count(K, b) = v /\ (b = 0 \/ b \in K)
  BY <1>1, ToOriginalIs
<1>4. /\ K \subseteq 1..L /\ C \subseteq 1..L
      /\ \A n \in 1..L : n \in K <=> n \notin C
  BY CrlfKept
<1>5. a \notin C /\ b \notin C
  <2> HIDE DEF K, C, L, a, b
  <2>1. 0 \notin C
    BY <1>4
  <2>2. QED
    BY <1>2, <1>3, <1>4, <2>1
<1>6. a <= b
  <2> HIDE DEF K, C, L, a, b
  <2>1. a \in Nat /\ b \in Nat
    BY <1>1, <1>2, <1>3
  <2>2. a \in K /\ b < a => Count(K, b) < Count(K, a)
    BY <2>1, CountAt
  <2>3. QED
    BY <1>1, <1>2, <1>3, <2>1, <2>2
<1>7. m \in Nat /\ a \in Nat /\ b \in Nat /\ a + m = b
  <2> HIDE DEF K, C, L, a, b
  <2>1. QED
    BY <1>1, <1>2, <1>3, <1>6
<1>8. w \in Seq(STRING) /\ Len(w) = m /\ DOMAIN w = 1..m /\ \A k \in 1..m : w[k] = s[a + k]
  <2> HIDE DEF a, b
  <2>1. b <= Len(s)
    BY <1>1, <1>3
  <2>2. QED
    BY <1>6, <1>7, <2>1
<1>9. SameFrom(P, K, a, m)
  <2> SUFFICES ASSUME NEW k \in 1..m PROVE k \in P <=> a + k \in K
    BY DEF SameFrom
  <2> HIDE DEF K, C, a, b, w, m
  <2>1. k \in Nat /\ a + k \in 1..L /\ a + k <= b
    BY <1>1, <1>3, <1>7
  <2>2. k \in P <=> k \notin CRLF(w)
    BY <1>8
  <2>3. a + k \in K <=> a + k \notin C
    BY <1>4, <2>1
  <2>4. ASSUME k \in CRLF(w) PROVE a + k \in C
    <3>1. k + 1 \in 1..m /\ w[k] = "cr" /\ w[k + 1] = "nl"
      BY <1>7, <1>8, <2>4 DEF CRLF
    <3>2. s[a + k] = "cr" /\ s[a + (k + 1)] = "nl" /\ a + (k + 1) = (a + k) + 1 /\ a + (k + 1) <= b
      BY <1>7, <1>8, <3>1
    <3>3. a + k \in 1..(L - 1)
      BY <1>1, <1>3, <1>7, <2>1, <3>2
    <3>4. QED
      BY <3>2, <3>3 DEF C, CRLF
  <2>5. ASSUME a + k \in C PROVE k \in CRLF(w)
    <3>1. a + k # b
      BY <1>5, <2>5
    <3>2. k + 1 \in 1..m /\ k \in 1..(m - 1) /\ a + (k + 1) = (a + k) + 1
      BY <1>7, <2>1, <3>1
    <3>3. s[a + k] = "cr" /\ s[(a + k) + 1] = "nl"
      BY <2>5 DEF C, CRLF
    <3>4. w[k] = "cr" /\ w[k + 1] = "nl"
      BY <1>8, <3>2, <3>3
    <3>5. QED
      BY <1>8, <3>2, <3>4 DEF CRLF
  <2>6. QED
    BY <2>2, <2>3, <2>4, <2>5
<1>10. Picked(w, P) = SubSeq(Picked(s, K), Count(K, a) + 1, Count(K, b))
  <2> HIDE DEF K, a, b, P
  <2>1. a \in 0..Len(s) /\ b \in a..Len(s)
    BY <1>1, <1>2, <1>3, <1>6
  <2>2. SameFrom(P, K, a, b - a)
    BY <1>9
  <2>3. QED
    BY <2>1, <2>2, PickedPart
<1>11. Normalized(w) = Picked(w, P) /\ N = Picked(s, K)
  BY DEF Normalized, Kept
<1>12. Normalized(w) = SubSeq(N, u + 1, v)
  <2> HIDE DEF K, a, b, P, w, N
  <2>1. QED
    BY <1>2, <1>3, <1>10, <1>11
<1>13. a \in 0..b /\ b \in 0..L
  <2> HIDE DEF K, a, b, L
  <2>1. QED
    BY <1>1, <1>2, <1>3, <1>6
<1>14. QED
  BY <1>5, <1>12, <1>13

(* Offsets are mapped back in their order.                                  *)
LEMMA OriginalOrder ==
  ASSUME NEW s \in Seq(STRING), NEW u \in 0..Len(Normalized(s)), NEW v \in 0..Len(Normalized(s)),
         ToOriginal(u, CrlfPositions(s)) < ToOriginal(v, CrlfPositions(s))
  PROVE  u < v
<1> DEFINE a == ToOriginal(u, CrlfPositions(s))
           b == ToOriginal(v, CrlfPositions(s))
<1>1. Len(Normalized(s)) \in Nat
  BY NormalizedType
<1>2. v <= u => b \in 0..a /\ a \in 0..Len(s)
  BY <1>1, OriginalSpan
<1>3. a < b
  OBVIOUS
<1>4. Len(s) \in Nat
  OBVIOUS
<1> HIDE DEF a, b
<1>5. QED
  BY <1>1, <1>2, <1>3, <1>4

-----------------------------------------------------------------------------
(* Matches.                                                                *)

(* What match_indices has found so far.                                     *)
Clear(text, pat, f) ==
  /\ f \in Seq(Nat)
  /\ \A n \in 1..Len(f) : f[n] \in Occurrences(text, pat)
  /\ \A m, n \in 1..Len(f) : m < n => f[m] + Len(pat) <= f[n]

LEMMA MatchedClear ==
  ASSUME NEW text \in Seq(STRING), NEW pat \in Seq(STRING), NEW f, Clear(text, pat, f), NEW i \in Nat
  PROVE  Clear(text, pat, Matched(f, i, Occurrences(text, pat), Len(pat)))
<1> DEFINE O == Occurrences(text, pat)
           l == Len(pat)
           r == Append(f, i)
<1>1. l \in Nat /\ f \in Seq(Nat) /\ Len(f) \in Nat
      /\ (\A n \in 1..Len(f) : f[n] \in O)
      /\ \A m, n \in 1..Len(f) : m < n => f[m] + l <= f[n]
  BY DEF Clear
<1>2. CASE i \in O /\ (f = << >> \/ f[Len(f)] + l <= i)
  <2>1. r \in Seq(Nat) /\ Len(r) = Len(f) + 1 /\ r[Len(f) + 1] = i
        /\ \A n \in 1..Len(f) : r[n] = f[n] /\ f[n] \in Nat
    BY <1>1
  <2> HIDE DEF r, O, l
  <2>2. ASSUME NEW n \in 1..Len(r) PROVE r[n] \in O
    <3>1. CASE n \in 1..Len(f)
      <4>1. r[n] = f[n] /\ f[n] \in O
        BY <1>1, <2>1, <3>1
      <4>2. QED
        BY <4>1
    <3>2. CASE n = Len(f) + 1
      BY <1>2, <2>1, <3>2
    <3>3. QED
      BY <1>1, <2>1, <3>1, <3>2
  <2>3. ASSUME NEW m \in 1..Len(r), NEW n \in 1..Len(r), m < n PROVE r[m] + l <= r[n]
    <3>1. m \in 1..Len(f)
      BY <1>1, <2>1, <2>3
    <3>2. CASE n \in 1..Len(f)
      BY <1>1, <2>1, <2>3, <3>1, <3>2
    <3>3. CASE n = Len(f) + 1
      <4>1. f # << >> /\ Len(f) \in 1..Len(f)
        BY <1>1, <3>1
      <4>2. f[Len(f)] + l <= i
        BY <1>2, <4>1
      <4>3. f[m] <= f[Len(f)]
        <5>1. CASE m = Len(f)
          BY <2>1, <4>1, <5>1
        <5>2. CASE m # Len(f)
          <6>1. m < Len(f)
            BY <1>1, <3>1, <5>2
          <6>2. f[m] + l <= f[Len(f)]
            BY <1>1, <3>1, <4>1, <6>1
          <6>3. f[m] \in Nat /\ f[Len(f)] \in Nat /\ l \in Nat
            BY <1>1, <2>1, <3>1, <4>1
          <6>4. QED
            BY <6>2, <6>3
        <5>3. QED
          BY <5>1, <5>2
      <4>4. f[m] \in Nat /\ f[Len(f)] \in Nat /\ r[m] = f[m] /\ r[n] = i
        BY <2>1, <3>1, <3>3, <4>1
      <4>5. QED
        BY <1>1, <4>2, <4>3, <4>4
    <3>4. QED
      BY <1>1, <2>1, <3>2, <3>3
  <2>4. Clear(text, pat, r)
    BY <2>1, <2>2, <2>3 DEF Clear, O, l
  <2>5. Matched(f, i, O, l) = r
    BY <1>2 DEF Matched, r
  <2>6. QED
    BY <2>4, <2>5 DEF O, l
<1>3. CASE ~(i \in O /\ (f = << >> \/ f[Len(f)] + l <= i))
  <2>1. Matched(f, i, O, l) = f
    BY <1>3 DEF Matched
  <2>2. QED
    BY <2>1
<1>4. QED
  BY <1>2, <1>3

LEMMA MatchesClear ==
  ASSUME NEW text \in Seq(STRING), NEW pat \in Seq(STRING)
  PROVE  Clear(text, pat, MatchIndices(text, pat))
<1> DEFINE n == Len(text) + 1
           NextMatch(i, f) == Matched(f, i - 1, Occurrences(text, pat), Len(pat))
           F == [x \in (1..n) \X Seq(Nat) |-> NextMatch(x[1], x[2])]
           Def(g) == g = [i \in 0..n |-> IF i = 0 THEN << >> ELSE NextMatch(i, g[i - 1])]
<1>1. n \in Nat /\ n \in 0..n /\ Len(pat) \in Nat
  OBVIOUS
<1>2. Clear(text, pat, << >>)
  BY DEF Clear
<1>3. ASSUME NEW i \in 1..n, NEW f, Clear(text, pat, f)
      PROVE  f \in Seq(Nat) /\ Clear(text, pat, NextMatch(i, f)) /\ F[<<i, f>>] = NextMatch(i, f)
  <2>1. i - 1 \in Nat
    OBVIOUS
  <2>2. Clear(text, pat, NextMatch(i, f))
    BY <1>3, <2>1, MatchedClear
  <2>3. f \in Seq(Nat)
    BY <1>3 DEF Clear
  <2> HIDE DEF NextMatch, n
  <2>4. <<i, f>> \in (1..n) \X Seq(Nat)
    BY <2>3
  <2>5. QED
    BY <2>2, <2>3, <2>4
<1> HIDE DEF F, NextMatch, n
<1>4. PICK g : DOMAIN g = 0..n /\ g = [i \in DOMAIN g |-> g[i]] /\ g[0] = << >> /\ \A i \in 1..n : g[i] = F[<<i, g[i - 1]>>]
  <2> DEFINE h == Recursion(n, << >>, F)
  <2>1. DOMAIN h = 0..n /\ h = [i \in DOMAIN h |-> h[i]] /\ h[0] = << >> /\ \A i \in 1..n : h[i] = F[<<i, h[i - 1]>>]
    BY <1>1, RecursionTo
  <2> HIDE DEF h
  <2>2. QED
    BY <2>1
<1>5. \A i \in 0..n : Clear(text, pat, g[i])
  <2> DEFINE T == {i \in 0..n : Clear(text, pat, g[i])}
  <2>1. 0 \in T
    BY <1>1, <1>2, <1>4
  <2>2. ASSUME NEW i \in 1..n, i - 1 \in T PROVE i \in T
    <3>1. g[i] = F[<<i, g[i - 1]>>] /\ Clear(text, pat, g[i - 1]) /\ i \in 0..n
      BY <1>1, <1>4, <2>2
    <3>2. QED
      BY <1>3, <3>1
  <2>3. \A i \in 0..n : i \in T
    <3> HIDE DEF T
    <3>1. QED
      BY <1>1, <2>1, <2>2, Upwards
  <2>4. QED
    BY <2>3
<1>6. \A i \in 0..n : g[i] = IF i = 0 THEN << >> ELSE NextMatch(i, g[i - 1])
  <2> SUFFICES ASSUME NEW i \in 0..n, i # 0 PROVE g[i] = NextMatch(i, g[i - 1])
    BY <1>4
  <2>1. i \in 1..n /\ i - 1 \in 0..n
    BY <1>1
  <2>2. QED
    BY <1>3, <1>4, <1>5, <2>1
<1>7. Def(g)
  BY <1>4, <1>6
<1>8. ASSUME NEW h, Def(h) PROVE h = g
  <2> DEFINE T == {i \in 0..n : h[i] = g[i]}
  <2>1. DOMAIN h = 0..n /\ (\A i \in 0..n : h[i] = IF i = 0 THEN << >> ELSE NextMatch(i, h[i - 1]))
        /\ h = [i \in DOMAIN h |-> h[i]]
    BY <1>8
  <2>2. 0 \in T
    <3>1. 0 \in 0..n /\ h[0] = << >>
      BY <1>1, <2>1
    <3>2. QED
      BY <1>4, <3>1
  <2>3. ASSUME NEW i \in 1..n, i - 1 \in T PROVE i \in T
    <3>1. i \in 0..n /\ i # 0 /\ h[i - 1] = g[i - 1]
      BY <1>1, <2>3
    <3>2. QED
      BY <1>6, <2>1, <3>1
  <2>4. \A i \in 0..n : i \in T
    <3> HIDE DEF T
    <3>1. QED
      BY <1>1, <2>2, <2>3, Upwards
  <2>5. \A i \in 0..n : h[i] = g[i]
    BY <2>4
  <2>6. QED
    BY <1>4, <2>1, <2>5
<1>9. (CHOOSE h : Def(h)) = g
  <2> HIDE DEF Def
  <2>1. QED
    BY <1>7, <1>8
<1>10. MatchIndices(text, pat) = (CHOOSE h : Def(h))[n]
  BY DEF MatchIndices, NextMatch, n
<1>11. QED
  BY <1>1, <1>5, <1>9, <1>10

-----------------------------------------------------------------------------
(* Ends of lines.                                                          *)

Solid(t) == DOMAIN t \ Trailing(t)

LEMMA SolidIs ==
  ASSUME NEW t \in Seq(STRING)
  PROVE  /\ Len(t) \in Nat /\ Solid(t) \subseteq 1..Len(t) /\ Trailing(t) \subseteq 1..Len(t)
         /\ \A n \in 1..Len(t) : n \in Solid(t) <=> n \notin Trailing(t)
         /\ \A n \in 1..Len(t) : t[n] = "nl" \/ ~IsSpace(t[n]) => n \in Solid(t)
<1>1. Len(t) \in Nat /\ DOMAIN t = 1..Len(t)
  OBVIOUS
<1>2. Trailing(t) \subseteq 1..Len(t)
  BY <1>1 DEF Trailing
<1>3. ASSUME NEW n \in 1..Len(t), t[n] = "nl" \/ ~IsSpace(t[n])
      PROVE  n \notin Trailing(t)
  <2> SUFFICES ASSUME n \in Trailing(t) PROVE FALSE
    OBVIOUS
  <2>1. t[n] # "nl" /\ \A m \in n..Len(t) : ~IsSpace(t[m]) => \E k \in n..m : t[k] = "nl"
    BY DEF Trailing
  <2>2. n \in n..Len(t) /\ \A k \in n..n : k = n
    BY <1>1
  <2>3. QED
    BY <1>3, <2>1, <2>2
<1>4. QED
  BY <1>1, <1>2, <1>3 DEF Solid

(* What follows white space at the end of a line is of it too, up to the    *)
(* newline.                                                                 *)
LEMMA TrailingGoesOn ==
  ASSUME NEW t \in Seq(STRING), NEW n \in Trailing(t), NEW m \in n..Len(t),
         \A k \in n..m : t[k] # "nl"
  PROVE  m \in Trailing(t)
<1>1. Len(t) \in Nat /\ n \in 1..Len(t) /\ m \in 1..Len(t) /\ m \in n..m /\ DOMAIN t = 1..Len(t)
  BY SolidIs
<1>2. \A o \in n..Len(t) : ~IsSpace(t[o]) => \E k \in n..o : t[k] = "nl"
  BY DEF Trailing
<1>3. t[m] # "nl"
  BY <1>1
<1>4. ASSUME NEW o \in m..Len(t), ~IsSpace(t[o]) PROVE \E k \in m..o : t[k] = "nl"
  <2>1. o \in n..Len(t)
    BY <1>1
  <2>2. PICK k \in n..o : t[k] = "nl"
    BY <1>2, <1>4, <2>1
  <2>3. ~ (k \in n..m)
    BY <2>2
  <2>4. k \in m..o
    BY <1>1, <2>1, <2>3
  <2>5. QED
    BY <2>2, <2>4
<1>5. QED
  BY <1>1, <1>3, <1>4 DEF Trailing

LEMMA TrimmedType ==
  ASSUME NEW t \in Seq(STRING)
  PROVE  /\ TrimEndLines(t) \in Seq(STRING) /\ Len(TrimEndLines(t)) \in Nat
         /\ Len(TrimEndLines(t)) = Count(Solid(t), Len(t))
         /\ \A x \in Solid(t) : Count(Solid(t), x) \in 1..Len(TrimEndLines(t))
                                /\ TrimEndLines(t)[Count(Solid(t), x)] = t[x]
<1>1. /\ TrimEndLines(t) \in Seq(STRING) /\ Len(TrimEndLines(t)) = Count(Solid(t), Len(t))
      /\ \A x \in 1..Len(t) : x \in Solid(t) =>
           Count(Solid(t), x) \in 1..Len(TrimEndLines(t)) /\ TrimEndLines(t)[Count(Solid(t), x)] = t[x]
  BY PickedCounted DEF TrimEndLines, Solid
<1>2. Solid(t) \subseteq 1..Len(t)
  BY SolidIs
<1>3. QED
  BY <1>1, <1>2

(* A span that does not end within a line's white space, without the ends   *)
(* of its lines.                                                            *)
LEMMA TrimmedPart ==
  ASSUME NEW t \in Seq(STRING), NEW h \in 0..Len(t), NEW v \in (h + 1)..Len(t),
         v = Len(t) \/ t[v] = "nl" \/ ~IsSpace(t[v])
  PROVE  TrimEndLines(SubSeq(t, h + 1, v)) =
           SubSeq(TrimEndLines(t), Count(Solid(t), h) + 1, Count(Solid(t), v))
<1> DEFINE m == v - h
           w == SubSeq(t, h + 1, v)
           K == Solid(t)
           P == Solid(w)
<1>1. Len(t) \in Nat /\ h \in Nat /\ v \in Nat /\ m \in Nat /\ m # 0 /\ h + m = v /\ v <= Len(t) /\ h <= v
  OBVIOUS
<1>2. w \in Seq(STRING) /\ Len(w) = m /\ \A k \in 1..m : w[k] = t[h + k]
  BY <1>1
<1> HIDE DEF m, w
<1>3. \A n \in 1..Len(t) : n \in K <=> n \notin Trailing(t)
  BY SolidIs
<1>4. \A n \in 1..m : n \in P <=> n \notin Trailing(w)
  BY <1>2, SolidIs
<1>5. DOMAIN w = 1..m /\ DOMAIN t = 1..Len(t)
  BY <1>2
<1>6. ASSUME NEW n \in 1..m, h + n \in Trailing(t) PROVE n \in Trailing(w)
  <2>1. /\ t[h + n] # "nl"
        /\ \A o \in (h + n)..Len(t) : ~IsSpace(t[o]) => \E k \in (h + n)..o : t[k] = "nl"
    BY <1>6 DEF Trailing
  <2>2. w[n] # "nl"
    BY <1>2, <2>1
  <2>3. ASSUME NEW o \in n..m, ~IsSpace(w[o]) PROVE \E k \in n..o : w[k] = "nl"
    <3>1. o \in 1..m /\ h + o \in (h + n)..Len(t) /\ t[h + o] = w[o]
      BY <1>1, <1>2
    <3>2. PICK k \in (h + n)..(h + o) : t[k] = "nl"
      BY <2>1, <2>3, <3>1
    <3>3. k - h \in n..o /\ k - h \in 1..m /\ h + (k - h) = k
      BY <1>1, <3>1
    <3>4. w[k - h] = t[k]
      BY <1>2, <3>3
    <3>5. QED
      BY <3>2, <3>3, <3>4
  <2>4. QED
    BY <1>2, <1>5, <2>2, <2>3 DEF Trailing
<1>7. ASSUME NEW n \in 1..m, n \in Trailing(w) PROVE h + n \in Trailing(t)
  <2>1. w[n] # "nl" /\ \A o \in n..m : ~IsSpace(w[o]) => \E k \in n..o : w[k] = "nl"
    BY <1>2, <1>7 DEF Trailing
  <2>2. t[h + n] # "nl" /\ h + n \in 1..Len(t)
    BY <1>1, <1>2, <2>1
  <2>3. ASSUME NEW o \in n..m, ~IsSpace(t[h + o])
        PROVE  \E k \in (h + n)..(h + o) : t[k] = "nl"
    <3>1. o \in 1..m /\ t[h + o] = w[o]
      BY <1>1, <1>2
    <3>2. PICK k \in n..o : w[k] = "nl"
      BY <2>1, <2>3, <3>1
    <3>3. k \in 1..m /\ h + k \in (h + n)..(h + o)
      BY <1>1, <3>1
    <3>4. t[h + k] = "nl"
      BY <1>2, <3>2, <3>3
    <3>5. QED
      BY <3>3, <3>4
  <2>4. ASSUME NEW o \in (h + n)..Len(t), ~IsSpace(t[o])
        PROVE  \E k \in (h + n)..o : t[k] = "nl"
    <3>1. CASE o <= v
      <4>1. o - h \in n..m /\ h + (o - h) = o
        BY <1>1, <3>1
      <4>2. QED
        BY <2>3, <2>4, <4>1
    <3>2. CASE o > v
      <4>1. v \in (h + n)..o /\ m \in n..m /\ v # Len(t)
        BY <1>1, <3>2
      <4>2. CASE t[v] = "nl"
        BY <4>1, <4>2
      <4>3. CASE ~IsSpace(t[v])
        <5>1. \E k \in (h + n)..v : t[k] = "nl"
          BY <1>1, <2>3, <4>1, <4>3
        <5>2. \A k \in (h + n)..v : k \in (h + n)..o
          BY <1>1, <3>2
        <5>3. QED
          BY <5>1, <5>2
      <4>4. QED
        BY <4>1, <4>2, <4>3
    <3>3. QED
      BY <1>1, <3>1, <3>2
  <2>5. QED
    BY <1>5, <2>2, <2>4 DEF Trailing
<1>8. SameFrom(P, K, h, m)
  <2> SUFFICES ASSUME NEW n \in 1..m PROVE n \in P <=> h + n \in K
    BY DEF SameFrom
  <2>1. h + n \in 1..Len(t)
    BY <1>1
  <2> HIDE DEF P, K
  <2>2. QED
    BY <1>3, <1>4, <1>6, <1>7, <2>1
<1>9. Picked(w, P) = SubSeq(Picked(t, K), Count(K, h) + 1, Count(K, v))
  <2> HIDE DEF K, P
  <2>1. h \in 0..Len(t) /\ v \in h..Len(t) /\ SameFrom(P, K, h, v - h)
    BY <1>1, <1>8 DEF m
  <2>2. Picked(SubSeq(t, h + 1, v), P) = SubSeq(Picked(t, K), Count(K, h) + 1, Count(K, v))
    BY <2>1, PickedPart
  <2>3. QED
    BY <2>2 DEF w
<1>10. QED
  BY <1>9 DEF TrimEndLines, w, Solid

(* What is left of a text does not end with white space within a line.      *)
LEMMA TrimmedEnd ==
  ASSUME NEW o \in Seq(STRING), TrimEndLines(o) # << >>
  PROVE  LET pat == TrimEndLines(o)
         IN  pat[Len(pat)] = "nl" \/ ~IsSpace(pat[Len(pat)])
<1> DEFINE K == Solid(o)
           pat == TrimEndLines(o)
           l == Len(pat)
           n == Len(o)
<1>1. /\ pat \in Seq(STRING) /\ l \in Nat /\ l = Count(K, n)
      /\ \A x \in K : Count(K, x) \in 1..l /\ pat[Count(K, x)] = o[x]
  BY TrimmedType
<1>2. l # 0
  BY <1>1
<1>3. n \in Nat /\ K \subseteq 1..n /\ \A x \in 1..n : x \in K <=> x \notin Trailing(o)
  BY SolidIs
<1>4. PICK x \in 0..n : Count(K, x) = l /\ (x = 0 \/ x \in K)
  <2> HIDE DEF K, n, l
  <2>1. 0 <= n /\ 0 \in Nat /\ Count(K, 0) <= l /\ l <= Count(K, n)
    BY <1>1, <1>3, CountZero
  <2>2. QED
    BY <1>1, <1>3, <2>1, CountReached
<1>5. x \in K /\ x \in 1..n
  <2>1. Count(K, 0) = 0
    BY CountZero
  <2> HIDE DEF K, n, l
  <2>2. QED
    BY <1>2, <1>3, <1>4, <2>1
<1>6. pat[l] = o[x]
  BY <1>1, <1>4, <1>5
<1>7. ASSUME o[x] # "nl", IsSpace(o[x]) PROVE FALSE
  <2>1. x \notin Trailing(o)
    BY <1>3, <1>5
  <2>2. ~ \A m \in x..Len(o) : ~IsSpace(o[m]) => \E k \in x..m : o[k] = "nl"
    BY <1>5, <1>7, <2>1 DEF Trailing
  <2>3. PICK m \in x..n : ~IsSpace(o[m]) /\ \A k \in x..m : o[k] # "nl"
    BY <2>2
  <2>4. m # x /\ m \in 1..n /\ x < m /\ x \in Nat /\ m \in Nat /\ m <= n
    BY <1>3, <1>5, <1>7, <2>3
  <2>5. m \in K
    BY <2>3, <2>4, SolidIs
  <2> HIDE DEF K, n, l
  <2>6. Count(K, x) < Count(K, m)
    BY <2>4, <2>5, CountAt
  <2>7. Count(K, m) <= Count(K, n) /\ Count(K, m) \in Nat
    BY <1>3, <2>4, CountGrows
  <2>8. QED
    BY <1>1, <1>4, <2>6, <2>7
<1>8. QED
  BY <1>6, <1>7

LEMMA GreatestNat ==
  ASSUME NEW n \in Nat, NEW S, S \subseteq 0..n, S # {}
  PROVE  \E m \in S : (\A x \in S : x <= m) /\ Max(S) = m
<1> DEFINE R == {x \in 0..n : n - x \in S}
<1>1. R \subseteq Nat /\ R # {}
  <2>1. PICK x \in S : TRUE
    OBVIOUS
  <2>2. n - x \in 0..n /\ n - (n - x) = x
    BY <2>1
  <2>3. n - x \in R
    BY <2>1, <2>2
  <2>4. R \subseteq Nat
    OBVIOUS
  <2> HIDE DEF R
  <2>5. QED
    BY <2>3, <2>4
<1>2. PICK r \in R : \A x \in R : r <= x
  <2> HIDE DEF R
  <2>1. QED
    BY <1>1, LeastNat
<1> DEFINE m == n - r
<1>3. m \in S /\ r \in 0..n
  OBVIOUS
<1>4. ASSUME NEW x \in S PROVE x <= m
  <2>1. n - x \in 0..n /\ n - (n - x) = x
    OBVIOUS
  <2>2. n - x \in R
    BY <2>1
  <2>3. r <= n - x
    BY <1>2, <2>2
  <2>4. QED
    BY <1>3, <2>1, <2>3
<1>5. Max(S) = m
  <2> HIDE DEF m
  <2>1. S \subseteq Int
    OBVIOUS
  <2>2. QED
    BY <1>3, <1>4, <2>1, MaxIs
<1>6. QED
  BY <1>3, <1>4, <1>5

(* Where the lines of a text begin.                                         *)
LinesAt(t, S) ==
  /\ S \in Seq(Nat)
  /\ \A k \in 1..Len(S) : S[k] + 1 \in 1..Len(t) /\ (S[k] = 0 \/ t[S[k]] = "nl")
  /\ \A i, j \in 1..Len(S) : i < j => S[i] < S[j]
  /\ Len(t) # 0 => \E k \in 1..Len(S) : S[k] = 0
  /\ \A n \in 1..Len(t) : t[n] = "nl" /\ n < Len(t) => \E k \in 1..Len(S) : S[k] = n

LEMMA LineStartsAre ==
  ASSUME NEW t \in Seq(STRING)
  PROVE  LinesAt(t, LineStarts(t))
<1> DEFINE n == Len(t)
           places == {p \in 1..n : p = 1 \/ t[p - 1] = "nl"}
           offsets == [p \in 1..n |-> p - 1]
           S == LineStarts(t)
<1>1. n \in Nat /\ offsets \in Seq(Nat) /\ Len(offsets) = n
  OBVIOUS
<1>2. S = Picked(offsets, places)
  BY DEF LineStarts
<1>3. places \subseteq 1..n /\ \A p \in 1..n : offsets[p] = p - 1
  OBVIOUS
<1>4. \A p \in 1..n : p \in places <=> (p = 1 \/ t[p - 1] = "nl")
  OBVIOUS
<1> HIDE DEF offsets, places, S, n
<1>5. S \in Seq(Nat) /\ \E at : Spots(n, offsets, places, S, at)
  BY <1>1, <1>2, PickedSpots
<1>6. PICK at : Spots(n, offsets, places, S, at)
  BY <1>5
<1>7. /\ at \in [1..Len(S) -> (1..n) \cap places]
      /\ \A i, j \in 1..Len(S) : i < j => at[i] < at[j]
      /\ \A k \in (1..n) \cap places : \E i \in 1..Len(S) : at[i] = k
      /\ \A i \in 1..Len(S) : S[i] = offsets[at[i]]
  BY <1>6 DEF Spots
<1>8. \A k \in 1..Len(S) : at[k] \in 1..n /\ at[k] \in places /\ S[k] = at[k] - 1 /\ S[k] + 1 = at[k]
  <2> SUFFICES ASSUME NEW k \in 1..Len(S)
               PROVE  at[k] \in 1..n /\ at[k] \in places /\ S[k] = at[k] - 1 /\ S[k] + 1 = at[k]
    OBVIOUS
  <2>1. at[k] \in 1..n /\ at[k] \in places
    BY <1>7
  <2>2. S[k] = at[k] - 1
    BY <1>3, <1>7, <2>1
  <2>3. QED
    BY <1>1, <2>1, <2>2
<1>9. ASSUME NEW k \in 1..Len(S) PROVE S[k] + 1 \in 1..n /\ (S[k] = 0 \/ t[S[k]] = "nl")
  <2>1. at[k] = 1 \/ t[at[k] - 1] = "nl"
    BY <1>4, <1>8
  <2>2. at[k] = 1 => S[k] = 0
    BY <1>8
  <2>3. QED
    BY <1>8, <2>1, <2>2
<1>10. ASSUME NEW i \in 1..Len(S), NEW j \in 1..Len(S), i < j PROVE S[i] < S[j]
  <2>1. at[i] < at[j]
    BY <1>7, <1>10
  <2>2. at[i] \in Int /\ at[j] \in Int
    BY <1>1, <1>8
  <2>3. QED
    BY <1>8, <2>1, <2>2
<1>11. ASSUME NEW p \in places PROVE \E k \in 1..Len(S) : S[k] = p - 1
  <2>1. PICK k \in 1..Len(S) : at[k] = p
    BY <1>3, <1>7
  <2>2. QED
    BY <1>8, <2>1
<1>12. ASSUME n # 0 PROVE \E k \in 1..Len(S) : S[k] = 0
  <2>1. 1 \in places /\ 1 - 1 = 0
    BY <1>1, <1>4, <1>12
  <2>2. QED
    BY <1>11, <2>1
<1>13. ASSUME NEW q \in 1..n, t[q] = "nl", q < n PROVE \E k \in 1..Len(S) : S[k] = q
  <2> DEFINE p == q + 1
  <2>1. p \in 1..n /\ p - 1 = q
    BY <1>1, <1>13
  <2> HIDE DEF p
  <2>2. p \in places
    BY <1>4, <1>13, <2>1
  <2>3. \E k \in 1..Len(S) : S[k] = p - 1
    BY <1>11, <2>2
  <2>4. QED
    BY <2>1, <2>3
<1>14. QED
  BY <1>5, <1>9, <1>10, <1>12, <1>13 DEF LinesAt, n, S

(* The line an offset of the trimmed text falls in: it begins at b and ends *)
(* at e.                                                                    *)
InLine(t, off, b, e) ==
  /\ b \in 0..Len(t) /\ e \in (b + 1)..Len(t)
  /\ b = 0 \/ b \in Solid(t)
  /\ Count(Solid(t), b) <= off /\ off <= Count(Solid(t), e)
  /\ Count(Solid(t), e) = off => e = Len(t)
  /\ \A n \in (b + 1)..(e - 1) : t[n] # "nl"

LEMMA LineIs ==
  ASSUME NEW t \in Seq(STRING), NEW off \in 0..Len(TrimEndLines(t)), t # << >>
  PROVE  \E b, e : /\ InLine(t, off, b, e)
                   /\ MapToNorm(TrimEndIndex(t), off) = b + (off - Count(Solid(t), b))
                   /\ EndOfLine(TrimEndIndex(t), LineOf(off, TrimEndIndex(t).trimStarts)) = e
<1> DEFINE K == Solid(t)
           S == LineStarts(t)
           TS == TrimStarts(t)
           n == Len(t)
           index == TrimEndIndex(t)
           Down == {k \in 1..Len(TS) : TS[k] <= off}
<1>1. n \in Nat /\ n # 0 /\ K \subseteq 1..n
  <2>1. n # 0
    OBVIOUS
  <2>2. QED
    BY <2>1, SolidIs
<1>2. off \in Nat /\ off <= Count(K, n) /\ Count(K, n) \in Nat
  <2>1. Len(TrimEndLines(t)) = Count(K, n) /\ Len(TrimEndLines(t)) \in Nat
    BY TrimmedType
  <2> HIDE DEF K, n
  <2>2. QED
    BY <2>1
<1>3. /\ S \in Seq(Nat) /\ Len(S) \in Nat
      /\ \A k \in 1..Len(S) : S[k] + 1 \in 1..n /\ (S[k] = 0 \/ t[S[k]] = "nl")
      /\ \A i, j \in 1..Len(S) : i < j => S[i] < S[j]
      /\ \E k \in 1..Len(S) : S[k] = 0
      /\ \A p \in 1..n : t[p] = "nl" /\ p < n => \E k \in 1..Len(S) : S[k] = p
  BY <1>1, LineStartsAre DEF LinesAt
<1>4. index.starts = S /\ index.trimStarts = TS /\ index.norm = t
  BY DEF TrimEndIndex
<1> HIDE DEF S
<1>5. \A k \in 1..Len(S) : S[k] \in 0..(n - 1) /\ S[k] \in Nat
  BY <1>1, <1>3
<1>6. Len(TS) = Len(S) /\ \A k \in 1..Len(S) : TS[k] = Count(K, S[k])
  <2>1. DOMAIN S = 1..Len(S)
    BY <1>3
  <2>2. TS = [k \in 1..Len(S) |-> Cardinality(1..S[k] \ Trailing(t))]
    BY <2>1 DEF TrimStarts, S
  <2>3. Len(TS) = Len(S)
    BY <1>3, <2>2
  <2>4. ASSUME NEW k \in 1..Len(S) PROVE TS[k] = Count(K, S[k])
    <3>1. TS[k] = Cardinality(1..S[k] \ Trailing(t))
      BY <2>2
    <3>2. \A x \in 1..n : x \in K <=> x \notin Trailing(t)
      BY SolidIs
    <3>3. \A x \in 1..S[k] : x \in 1..n
      BY <1>1, <1>5
    <3> HIDE DEF K, TS
    <3>4. (1..S[k]) \ Trailing(t) = (1..S[k]) \cap K
      BY <3>2, <3>3
    <3>5. QED
      BY <3>1, <3>4 DEF Count
  <2>5. QED
    BY <2>3, <2>4
<1> HIDE DEF TS, K, n
<1>7. Down \subseteq 0..Len(S) /\ Down # {}
  <2>1. PICK k \in 1..Len(S) : S[k] = 0
    BY <1>3
  <2>2. TS[k] = 0
    BY <1>6, <2>1, CountZero
  <2>3. k \in Down
    BY <1>2, <1>6, <2>2
  <2>4. Down \subseteq 0..Len(S)
    BY <1>3, <1>6
  <2> HIDE DEF Down
  <2>5. QED
    BY <2>3, <2>4
<1>8. PICK k \in Down : (\A x \in Down : x <= k) /\ Max(Down) = k
  <2> HIDE DEF Down
  <2>1. QED
    BY <1>3, <1>7, GreatestNat
<1>9. LineOf(off, TS) = k
  BY <1>8 DEF LineOf
<1>10. k \in 1..Len(S) /\ k \in Nat /\ TS[k] <= off /\ \A x \in 1..Len(S) : TS[x] <= off => x <= k
  BY <1>3, <1>6, <1>8
<1> HIDE DEF Down
<1> DEFINE b == S[k]
           e == IF k < Len(S) THEN S[k + 1] ELSE n
<1>11. EndOfLine(index, LineOf(off, index.trimStarts)) = e
  BY <1>4, <1>9 DEF EndOfLine, n
<1>12. MapToNorm(index, off) = b + (off - Count(K, b))
  BY <1>4, <1>6, <1>9, <1>10 DEF MapToNorm
<1>13. b \in 0..(n - 1) /\ b \in Nat
  BY <1>5, <1>10
<1>14. b = 0 \/ b \in K
  <2>1. CASE t[b] = "nl" /\ b # 0
    <3>1. b \in 1..n
      BY <1>1, <1>13, <2>1
    <3> HIDE DEF b
    <3>2. QED
      BY <2>1, <3>1, SolidIs DEF K, n
  <2>2. QED
    BY <1>3, <1>10, <2>1
<1>15. Count(K, b) <= off
  BY <1>6, <1>10
<1>16. e \in (b + 1)..n
  <2>1. CASE k < Len(S)
    <3>1. k + 1 \in 1..Len(S) /\ k < k + 1
      BY <1>3, <1>10, <2>1
    <3>2. S[k] < S[k + 1] /\ S[k + 1] \in 0..(n - 1)
      BY <1>3, <1>5, <1>10, <3>1
    <3>3. QED
      BY <1>1, <1>13, <2>1, <3>2
  <2>2. CASE ~ (k < Len(S))
    BY <1>1, <1>13, <2>2
  <2>3. QED
    BY <2>1, <2>2
<1>17. off <= Count(K, e) /\ (Count(K, e) = off => e = n)
  <2>1. CASE k < Len(S)
    <3>1. k + 1 \in 1..Len(S) /\ ~ (k + 1 <= k)
      BY <1>3, <1>10, <2>1
    <3>2. ~ (TS[k + 1] <= off)
      BY <1>10, <3>1
    <3>3. TS[k + 1] = Count(K, e)
      BY <1>6, <2>1, <3>1
    <3>4. Count(K, e) \in Nat
      <4>1. e \in Nat
        BY <1>5, <2>1, <3>1
      <4> HIDE DEF e
      <4>2. QED
        BY <4>1, CountStep
    <3> HIDE DEF e
    <3>5. QED
      BY <1>2, <3>2, <3>3, <3>4
  <2>2. CASE ~ (k < Len(S))
    BY <1>2, <2>2
  <2>3. QED
    BY <2>1, <2>2
<1>18. ASSUME NEW p \in (b + 1)..(e - 1), t[p] = "nl" PROVE FALSE
  <2>1. p \in 1..n /\ p < n /\ b < p /\ p < e
    <3> HIDE DEF b, e
    <3>1. QED
      BY <1>1, <1>13, <1>16
  <2>2. PICK j \in 1..Len(S) : S[j] = p
    BY <1>3, <1>18, <2>1
  <2>3. k < j
    <3>1. j < k => S[j] < S[k]
      BY <1>3, <1>10
    <3>2. j # k
      BY <2>1, <2>2
    <3>3. ~ (S[j] < S[k])
      BY <2>1, <2>2, <1>13
    <3>4. QED
      BY <1>3, <1>10, <3>1, <3>2, <3>3
  <2>4. k < Len(S) /\ k + 1 \in 1..Len(S) /\ (j = k + 1 \/ k + 1 < j)
    <3> HIDE DEF b, e
    <3>1. k \in 1..Len(S) /\ j \in 1..Len(S) /\ Len(S) \in Nat
      BY <1>3, <1>10
    <3>2. QED
      BY <2>3, <3>1
  <2>5. S[k + 1] <= S[j]
    <3>1. S[k + 1] \in Nat /\ S[j] \in Nat
      BY <1>5, <2>4
    <3>2. k + 1 < j => S[k + 1] < S[j]
      BY <1>3, <2>4
    <3>3. QED
      BY <2>4, <3>1, <3>2
  <2>6. e = S[k + 1] /\ S[k + 1] \in Nat
    BY <1>5, <2>4
  <2>7. QED
    BY <2>1, <2>2, <2>5, <2>6
<1>19. InLine(t, off, b, e)
  <2>1. b \in 0..n
    BY <1>1, <1>13
  <2> HIDE DEF b, e
  <2>2. QED
    BY <1>14, <1>15, <1>16, <1>17, <1>18, <2>1 DEF InLine, K, n
<1> HIDE DEF b, e
<1>20. QED
  BY <1>11, <1>12, <1>19 DEF K

(* An offset before the end of the trimmed text is mapped to the first      *)
(* place of the text before which there is as much.                         *)
LEMMA MapToNormIs ==
  ASSUME NEW t \in Seq(STRING), NEW off \in 0..Len(TrimEndLines(t)), NEW b, NEW e,
         InLine(t, off, b, e), off < Count(Solid(t), e)
  PROVE  LET h == b + (off - Count(Solid(t), b))
         IN  h \in b..(e - 1) /\ h \in 0..Len(t) /\ Count(Solid(t), h) = off /\ (h = 0 \/ h \in Solid(t))
<1> DEFINE K == Solid(t)
           n == Len(t)
           h == b + (off - Count(K, b))
<1>1. /\ n \in Nat /\ K \subseteq 1..n
      /\ \A x \in 1..n : x \in K <=> x \notin Trailing(t)
  BY SolidIs
<1>2. /\ b \in 0..n /\ e \in (b + 1)..n /\ (b = 0 \/ b \in K)
      /\ Count(K, b) <= off /\ off < Count(K, e)
      /\ \A x \in (b + 1)..(e - 1) : t[x] # "nl"
  BY DEF InLine
<1>3. off \in Nat
  <2>1. Len(TrimEndLines(t)) \in Nat
    BY TrimmedType
  <2>2. QED
    BY <2>1
<1> HIDE DEF K, n
<1>4. b \in Nat /\ e \in Nat /\ b <= e /\ e <= n /\ b < e
  BY <1>1, <1>2
<1>5. Count(K, b) \in Nat /\ Count(K, e) \in Nat
  BY <1>4, CountStep
<1>6. PICK z \in b..e : Count(K, z) = off /\ (z = b \/ z \in K)
  <2>1. off <= Count(K, e)
    BY <1>2, <1>3, <1>5
  <2>2. QED
    BY <1>2, <1>3, <1>4, <2>1, CountReached
<1>7. z \in Nat /\ z # e /\ z < e /\ b <= z
  BY <1>2, <1>3, <1>4, <1>6
<1>8. ASSUME NEW x \in (b + 1)..z PROVE x \in K
  <2>1. x \in 1..n /\ x \in Nat /\ x <= z /\ z \in K /\ z \in 1..n
    BY <1>1, <1>4, <1>6, <1>7
  <2> SUFFICES ASSUME x \notin K PROVE FALSE
    OBVIOUS
  <2>2. x \in Trailing(t) /\ z \notin Trailing(t)
    BY <1>1, <2>1
  <2>3. z \in x..Len(t)
    BY <1>1, <2>1 DEF n
  <2>4. \A k \in x..z : t[k] # "nl"
    BY <1>2, <1>4, <1>7
  <2>5. QED
    BY <2>2, <2>3, <2>4, TrailingGoesOn
<1>9. Count(K, z) = Count(K, b) + (z - b)
  BY <1>4, <1>7, <1>8, CountGrows
<1>10. h = z
  BY <1>4, <1>5, <1>6, <1>7, <1>9
<1>11. z \in b..(e - 1) /\ z \in 0..n /\ (z = 0 \/ z \in K)
  BY <1>1, <1>2, <1>4, <1>6, <1>7
<1> HIDE DEF h
<1>12. h \in b..(e - 1) /\ h \in 0..n /\ Count(K, h) = off /\ (h = 0 \/ h \in K)
  BY <1>6, <1>10, <1>11
<1>13. QED
  BY <1>12 DEF K, n, h

(* Where a match of the trimmed text begins.                                *)
LEMMA MatchBegins ==
  ASSUME NEW t \in Seq(STRING), NEW off \in 0..Len(TrimEndLines(t)), off # Len(TrimEndLines(t))
  PROVE  LET h == MapToNorm(TrimEndIndex(t), off)
         IN  h \in 0..Len(t) /\ Count(Solid(t), h) = off /\ (h = 0 \/ h \in Solid(t))
<1> DEFINE K == Solid(t)
           T == TrimEndLines(t)
<1>1. Len(T) \in Nat /\ Len(T) = Count(K, Len(t)) /\ Len(t) \in Nat
  BY TrimmedType, SolidIs
<1>2. off \in Nat /\ off < Len(T)
  BY <1>1
<1>3. t # << >>
  <2>1. Len(t) = 0 => Len(T) = 0
    BY <1>1, CountZero
  <2> HIDE DEF T
  <2>2. QED
    BY <1>1, <1>2, <2>1
<1>4. PICK b, e : /\ InLine(t, off, b, e)
                  /\ MapToNorm(TrimEndIndex(t), off) = b + (off - Count(K, b))
  BY <1>3, LineIs
<1>5. Count(K, e) = off => e = Len(t)
  BY <1>4 DEF InLine
<1>6. off <= Count(K, e) /\ b \in 0..Len(t) /\ e \in (b + 1)..Len(t)
  BY <1>4 DEF InLine
<1>7. Count(K, e) \in Nat
  <2>1. e \in Nat
    BY <1>1, <1>6
  <2>2. QED
    BY <2>1, CountStep
<1>8. off < Count(K, e)
  <2> HIDE DEF K, T
  <2>1. QED
    BY <1>1, <1>2, <1>5, <1>6, <1>7
<1> DEFINE h == b + (off - Count(K, b))
<1>9. h \in 0..Len(t) /\ Count(K, h) = off /\ (h = 0 \/ h \in K)
  BY <1>4, <1>8, MapToNormIs
<1>10. MapToNorm(TrimEndIndex(t), off) = h
  BY <1>4
<1> HIDE DEF h
<1>11. QED
  BY <1>9, <1>10

(* Where it ends: as much of the trimmed text is before it, or that and a   *)
(* newline.                                                                 *)
EndsAs(t, T, off, v) ==
  \/ Count(Solid(t), v) = off /\ (v = Len(t) \/ v \in Solid(t))
  \/ /\ Count(Solid(t), v) = off + 1 /\ v \in Solid(t) /\ t[v] = "nl"
     /\ off + 1 \in 1..Len(T) /\ T[off + 1] = "nl"

LEMMA MatchEnds ==
  ASSUME NEW t \in Seq(STRING), NEW off \in 1..Len(TrimEndLines(t))
  PROVE  LET v == MapEndToNorm(TrimEndIndex(t), off)
         IN  v \in 1..Len(t) /\ EndsAs(t, TrimEndLines(t), off, v)
<1> DEFINE K == Solid(t)
           T == TrimEndLines(t)
           n == Len(t)
           index == TrimEndIndex(t)
           v == MapEndToNorm(index, off)
<1>1. /\ T \in Seq(STRING) /\ Len(T) \in Nat /\ Len(T) = Count(K, n)
      /\ \A x \in K : Count(K, x) \in 1..Len(T) /\ T[Count(K, x)] = t[x]
  BY TrimmedType
<1>2. n \in Nat /\ K \subseteq 1..n
  BY SolidIs
<1>3. off \in Nat /\ off # 0 /\ off \in 0..Len(T) /\ off <= Len(T)
  BY <1>1
<1>4. t # << >>
  <2>1. n = 0 => Len(T) = 0
    BY <1>1, CountZero
  <2> HIDE DEF T
  <2>2. QED
    BY <1>1, <1>2, <1>3, <2>1
<1>5. PICK b, e : /\ InLine(t, off, b, e)
                  /\ MapToNorm(index, off) = b + (off - Count(K, b))
                  /\ EndOfLine(index, LineOf(off, index.trimStarts)) = e
  BY <1>3, <1>4, LineIs
<1>6. /\ b \in 0..n /\ e \in (b + 1)..n
      /\ Count(K, b) <= off /\ off <= Count(K, e)
      /\ Count(K, e) = off => e = n
      /\ \A x \in (b + 1)..(e - 1) : t[x] # "nl"
  BY <1>5 DEF InLine
<1>7. index.trimmed = T
  BY DEF TrimEndIndex
<1>8. AtTrimmedEnd(index, off) <=> off = Len(T) \/ T[off + 1] = "nl"
  BY <1>7 DEF AtTrimmedEnd
<1>9. Count(K, 0) = 0
  BY CountZero
<1> HIDE DEF K, T, n, index
<1>10. b \in Nat /\ e \in Nat /\ e \in 1..n /\ b <= e /\ e <= n
  BY <1>2, <1>6
<1>11. Count(K, b) \in Nat /\ Count(K, e) \in Nat /\ Count(K, e) <= Len(T)
  <2>1. Count(K, b) \in Nat
    BY <1>10, CountStep
  <2>2. Count(K, e) \in Nat /\ Count(K, e) <= Count(K, n)
    BY <1>2, <1>10, CountGrows
  <2>3. QED
    BY <1>1, <2>1, <2>2
<1>12. CASE AtTrimmedEnd(index, off) /\ off = Len(T)
  <2>1. v = e
    BY <1>5, <1>12 DEF MapEndToNorm
  <2>2. Count(K, e) = off
    BY <1>1, <1>3, <1>6, <1>11, <1>12
  <2>3. e = n
    BY <1>6, <2>2
  <2> HIDE DEF v
  <2>4. v \in 1..n /\ Count(K, v) = off /\ v = n
    BY <1>10, <2>1, <2>2, <2>3
  <2>5. QED
    BY <2>4 DEF EndsAs, K, n, T, v, index
<1>13. CASE AtTrimmedEnd(index, off) /\ off # Len(T)
  <2>1. v = e
    BY <1>5, <1>13 DEF MapEndToNorm
  <2>2. T[off + 1] = "nl" /\ off + 1 \in 1..Len(T) /\ off + 1 \in Nat
    BY <1>1, <1>3, <1>8, <1>13
  <2>3. off + 1 <= Count(K, e)
    <3>1. Count(K, e) # off
      BY <1>1, <1>6, <1>13
    <3>2. QED
      BY <1>3, <1>6, <1>11, <3>1
  <2> DEFINE o == off + 1
  <2>4. o \in Nat /\ Count(K, b) <= o /\ o <= Count(K, e) /\ o > off
    BY <1>3, <1>6, <1>11, <2>3
  <2> HIDE DEF o
  <2>5. PICK z \in b..e : Count(K, z) = o /\ (z = b \/ z \in K)
    BY <1>10, <2>4, CountReached
  <2>6. z # b
    BY <1>3, <1>6, <1>11, <2>4, <2>5
  <2>7. z \in K /\ t[z] = "nl"
    <3>1. z \in K
      BY <2>5, <2>6
    <3>2. T[Count(K, z)] = t[z]
      BY <1>1, <3>1
    <3>3. T[o] = "nl"
      BY <2>2 DEF o
    <3>4. QED
      BY <2>5, <3>1, <3>2, <3>3
  <2>8. z = e
    <3>1. ~ (z \in (b + 1)..(e - 1))
      BY <1>6, <2>7
    <3>2. QED
      BY <1>10, <2>5, <2>6, <3>1
  <2> HIDE DEF v
  <2>9. v \in 1..n /\ Count(K, v) = off + 1 /\ v \in K /\ t[v] = "nl"
    BY <1>10, <2>1, <2>5, <2>7, <2>8 DEF o
  <2>10. QED
    BY <2>2, <2>9 DEF EndsAs, K, n, T, v, index
<1>14. CASE ~ AtTrimmedEnd(index, off)
  <2>1. v = MapToNorm(index, off)
    BY <1>14 DEF MapEndToNorm
  <2>2. off # Len(T)
    BY <1>8, <1>14
  <2> HIDE DEF v
  <2>3. v \in 0..n /\ Count(K, v) = off /\ (v = 0 \/ v \in K)
    BY <1>3, <2>1, <2>2, MatchBegins DEF K, T, n, index
  <2>4. v # 0
    BY <1>3, <1>9, <2>3
  <2>5. v \in 1..n /\ v \in K
    BY <1>2, <2>3, <2>4
  <2>6. QED
    BY <2>3, <2>5 DEF EndsAs, K, n, T, v, index
<1>15. QED
  BY <1>12, <1>13, <1>14

LEMMA OneElement ==
  ASSUME NEW X, NEW x \in X
  PROVE  <<x>> \in Seq(X) /\ Len(<<x>>) = 1 /\ <<x>>[1] = x
  OBVIOUS

(* A match of the trimmed text, mapped back: without the ends of its lines  *)
(* it is the text looked for, with at most one newline more.                *)
LEMMA TrimmedMatch ==
  ASSUME NEW t \in Seq(STRING), NEW o \in Seq(STRING), TrimEndLines(o) # << >>,
         NEW f \in Occurrences(TrimEndLines(t), TrimEndLines(o))
  PROVE  LET pat == TrimEndLines(o)
             h == MapToNorm(TrimEndIndex(t), f)
             v == MapEndToNorm(TrimEndIndex(t), f + Len(pat))
         IN  /\ f \in Nat /\ h \in 0..v /\ v \in 0..Len(t)
             /\ Count(Solid(t), h) = f /\ (h = 0 \/ h \in Solid(t))
             /\ EndsAs(t, TrimEndLines(t), f + Len(pat), v)
             /\ TrimEndLines(SubSeq(t, h + 1, v)) \in {pat, pat \o <<"nl">>}
<1> DEFINE K == Solid(t)
           T == TrimEndLines(t)
           n == Len(t)
           pat == TrimEndLines(o)
           l == Len(pat)
           q == f + l
           h == MapToNorm(TrimEndIndex(t), f)
           v == MapEndToNorm(TrimEndIndex(t), q)
           w == TrimEndLines(SubSeq(t, h + 1, v))
<1>1. /\ T \in Seq(STRING) /\ Len(T) \in Nat /\ Len(T) = Count(K, n)
      /\ \A x \in K : Count(K, x) \in 1..Len(T) /\ T[Count(K, x)] = t[x]
  BY TrimmedType
<1>2. pat \in Seq(STRING) /\ l \in Nat /\ pat # << >> /\ l # 0
  <2>1. pat \in Seq(STRING) /\ pat # << >>
    BY TrimmedType
  <2> HIDE DEF pat
  <2>2. QED
    BY <2>1
<1>3. n \in Nat /\ K \subseteq 1..n
  BY SolidIs
<1>4. pat[l] = "nl" \/ ~IsSpace(pat[l])
  BY TrimmedEnd
<1>5. f \in 0..(Len(T) - l) /\ SubSeq(T, f + 1, f + l) = pat
  BY DEF Occurrences
<1> HIDE DEF T, pat, l
<1>6. f \in Nat /\ q \in Nat /\ q # 0 /\ f < q /\ q <= Len(T) /\ f \in 0..Len(T) /\ f # Len(T) /\ q \in 1..Len(T)
  BY <1>1, <1>2, <1>5
<1>7. T[q] = pat[l]
  <2>1. pat[l] = T[f + l]
    BY <1>1, <1>2, <1>5, <1>6
  <2>2. QED
    BY <2>1
<1>8. h \in 0..n /\ Count(K, h) = f /\ (h = 0 \/ h \in K)
  BY <1>6, MatchBegins DEF T
<1>9. v \in 1..n /\ EndsAs(t, T, q, v)
  <2> HIDE DEF q
  <2>1. QED
    BY <1>6, MatchEnds DEF T
<1> HIDE DEF K, n, q, h, v
<1>10. Count(K, v) = q \/ Count(K, v) = q + 1
  BY <1>9 DEF EndsAs, K
<1>11. h \in Nat /\ v \in Nat /\ h < v /\ v <= n
  <2>1. h \in Nat /\ v \in Nat /\ v <= n
    BY <1>3, <1>8, <1>9
  <2>2. Count(K, h) < Count(K, v)
    BY <1>6, <1>8, <1>10
  <2>3. QED
    BY <2>1, <2>2, CountAt
<1>12. v = n \/ t[v] = "nl" \/ ~IsSpace(t[v])
  <2>1. CASE Count(K, v) = q /\ v \in K
    <3>1. t[v] = pat[l]
      BY <1>1, <1>7, <2>1
    <3>2. QED
      BY <1>4, <3>1
  <2>2. QED
    BY <1>9, <2>1 DEF EndsAs, K, n
<1>13. w = SubSeq(T, f + 1, Count(K, v))
  <2>1. h \in 0..Len(t) /\ v \in (h + 1)..Len(t)
    BY <1>8, <1>9, <1>11 DEF n
  <2>2. v = Len(t) \/ t[v] = "nl" \/ ~IsSpace(t[v])
    BY <1>12 DEF n
  <2>3. w = SubSeq(T, Count(K, h) + 1, Count(K, v))
    BY <2>1, <2>2, TrimmedPart DEF T, K
  <2> HIDE DEF w
  <2>4. QED
    BY <1>8, <2>3
<1>14. w \in {pat, pat \o <<"nl">>}
  <2>1. CASE Count(K, v) = q
    BY <1>5, <1>13, <2>1 DEF q
  <2>2. CASE Count(K, v) # q
    <3>1. Count(K, v) = q + 1 /\ q + 1 <= Len(T) /\ T[q + 1] = "nl"
      <4>1. Count(K, v) = q + 1 /\ q + 1 \in 1..Len(T) /\ T[q + 1] = "nl"
        BY <1>9, <2>2 DEF EndsAs, K
      <4>2. QED
        BY <1>1, <4>1
    <3> DEFINE r == SubSeq(T, f + 1, q + 1)
               g == pat \o <<"nl">>
    <3>2. q + 1 - (f + 1) + 1 = l + 1 /\ q - (f + 1) + 1 = l /\ q = f + l
      BY <1>2, <1>6 DEF q
    <3>3. r \in Seq(STRING) /\ Len(r) = l + 1 /\ \A k \in 1..(l + 1) : r[k] = T[f + k]
      BY <1>1, <1>2, <1>6, <3>1, <3>2
    <3>4. Len(pat) = l /\ \A k \in 1..l : pat[k] = T[f + k]
      BY <1>1, <1>2, <1>5, <1>6 DEF l
    <3>5. g \in Seq(STRING) /\ Len(g) = l + 1 /\ g[l + 1] = "nl" /\ \A k \in 1..l : g[k] = pat[k]
      <4> DEFINE nl == <<"nl">>
      <4>1. pat \in Seq(STRING) /\ nl \in Seq(STRING) /\ Len(nl) = 1 /\ nl[1] = "nl" /\ Len(pat) \in Nat
        <5>1. nl \in Seq(STRING) /\ Len(nl) = 1 /\ nl[1] = "nl"
          <6>1. "nl" \in STRING
            <7>1. q + 1 \in 1..Len(T)
              BY <1>1, <1>6, <3>1
            <7>2. T[q + 1] \in STRING
              BY <1>1, <7>1, ElementOfSeq
            <7>3. QED
              BY <3>1, <7>2
          <6>2. QED
            BY <6>1, OneElement
        <5>2. pat \in Seq(STRING)
          BY <1>2
        <5>3. QED
          BY <5>1, <5>2
      <4> HIDE DEF nl
      <4>2. /\ pat \o nl \in Seq(STRING) /\ Len(pat \o nl) = Len(pat) + 1
            /\ (pat \o nl)[Len(pat) + 1] = nl[1] /\ \A k \in 1..Len(pat) : (pat \o nl)[k] = pat[k]
        <5>1. /\ Len(pat \o nl) = Len(pat) + Len(nl)
              /\ \A k \in 1..(Len(pat) + Len(nl)) :
                   (pat \o nl)[k] = IF k <= Len(pat) THEN pat[k] ELSE nl[k - Len(pat)]
          BY <4>1, ConcatProperties
        <5>2. pat \o nl \in Seq(STRING)
          BY <4>1
        <5>3. QED
          BY <4>1, <5>1, <5>2
      <4>3. g = pat \o nl
        BY DEF g, nl
      <4> HIDE DEF g
      <4>4. QED
        BY <3>4, <4>1, <4>2, <4>3
    <3> HIDE DEF r, g
    <3>6. ASSUME NEW k \in 1..Len(r) PROVE r[k] = g[k]
      <4>1. k \in 1..(l + 1)
        BY <3>3
      <4>2. CASE k = l + 1
        <5>1. f + k = q + 1
          BY <1>2, <1>6, <3>2, <4>2
        <5>2. QED
          BY <3>1, <3>3, <3>5, <4>1, <4>2, <5>1
      <4>3. CASE k \in 1..l
        BY <3>3, <3>4, <3>5, <4>1, <4>3
      <4>4. QED
        BY <1>2, <4>1, <4>2, <4>3
    <3>7. r = g
      BY <3>3, <3>5, <3>6, SeqEqual
    <3>8. w = r
      BY <1>13, <3>1 DEF r
    <3> HIDE DEF w
    <3>9. QED
      BY <3>7, <3>8 DEF g
  <2>3. QED
    BY <2>1, <2>2
<1>15. h \in 0..v /\ v \in 0..n
  BY <1>3, <1>11
<1>16. QED
  BY <1>6, <1>8, <1>9, <1>14, <1>15 DEF K, T, n, pat, l, q, h, v

(* A match that begins before an earlier one ends, in the text: it begins   *)
(* with the newline that the earlier one takes in.                          *)
LEMMA MatchesApart ==
  ASSUME NEW t \in Seq(STRING), NEW o \in Seq(STRING), TrimEndLines(o) # << >>,
         NEW f \in Occurrences(TrimEndLines(t), TrimEndLines(o)),
         NEW g \in Occurrences(TrimEndLines(t), TrimEndLines(o)),
         f + Len(TrimEndLines(o)) <= g,
         MapToNorm(TrimEndIndex(t), g) < MapEndToNorm(TrimEndIndex(t), f + Len(TrimEndLines(o)))
  PROVE  g = f + Len(TrimEndLines(o)) /\ TrimEndLines(o)[1] = "nl"
<1> DEFINE K == Solid(t)
           T == TrimEndLines(t)
           n == Len(t)
           pat == TrimEndLines(o)
           l == Len(pat)
           q == f + l
           h == MapToNorm(TrimEndIndex(t), g)
           v == MapEndToNorm(TrimEndIndex(t), q)
<1>1. f \in Nat /\ g \in Nat /\ v \in 0..n /\ EndsAs(t, T, q, v)
      /\ h \in 0..n /\ Count(K, h) = g
  <2>1. f \in Nat /\ v \in 0..n /\ EndsAs(t, T, q, v)
    BY TrimmedMatch
  <2> DEFINE u == MapEndToNorm(TrimEndIndex(t), g + l)
  <2>2. g \in Nat /\ h \in 0..u /\ u \in 0..n /\ Count(K, h) = g
    BY TrimmedMatch
  <2>3. h \in 0..n
    <3> HIDE DEF h, u, n
    <3>1. n \in Nat
      BY DEF n
    <3>2. QED
      BY <2>2, <3>1
  <2>4. QED
    BY <2>1, <2>2, <2>3
<1>2. g \in 0..(Len(T) - l) /\ SubSeq(T, g + 1, g + l) = pat
  BY DEF Occurrences
<1>3. T \in Seq(STRING) /\ Len(T) \in Nat /\ Len(T) = Count(K, n)
  BY TrimmedType
<1>4. l \in Nat /\ l # 0 /\ pat \in Seq(STRING)
  <2>1. pat \in Seq(STRING) /\ pat # << >>
    BY TrimmedType
  <2> HIDE DEF pat
  <2>2. QED
    BY <2>1
<1>5. n \in Nat
  OBVIOUS
<1>6. q <= g /\ h < v
  OBVIOUS
<1> HIDE DEF K, T, n, pat, l, h, v
<1>7. q \in Nat /\ g < Len(T) /\ h \in Nat /\ v \in Nat
  BY <1>1, <1>2, <1>3, <1>4, <1>5
<1> HIDE DEF q
<1>8. ASSUME Count(K, v) = q, v = n \/ v \in K PROVE FALSE
  <2>1. CASE v \in K
    <3>1. Count(K, h) < Count(K, v)
      BY <1>6, <1>7, <2>1, CountAt
    <3>2. QED
      BY <1>1, <1>6, <1>7, <1>8, <3>1
  <2>2. CASE v = n
    BY <1>1, <1>3, <1>6, <1>7, <1>8, <2>2
  <2>3. QED
    BY <1>8, <2>1, <2>2
<1>9. Count(K, v) = q + 1 /\ v \in K /\ T[q + 1] = "nl"
  BY <1>1, <1>8 DEF EndsAs, K, n
<1>10. g = q
  <2>1. Count(K, h) < Count(K, v)
    BY <1>6, <1>7, <1>9, CountAt
  <2>2. QED
    BY <1>1, <1>6, <1>7, <1>9, <2>1
<1>11. pat[1] = T[g + 1]
  <2>1. g + 1 \in Nat /\ g + l \in Nat /\ g + 1 >= 1 /\ g + l <= Len(T) /\ g + l - (g + 1) + 1 = l /\ 1 \in 1..l
    BY <1>1, <1>2, <1>3, <1>4
  <2>2. SubSeq(T, g + 1, g + l)[1] = T[(g + 1) + 1 - 1]
    BY <1>1, <1>3, <1>4, <2>1
  <2>3. (g + 1) + 1 - 1 = g + 1
    BY <1>1
  <2>4. QED
    BY <1>2, <2>2, <2>3
<1>12. QED
  BY <1>9, <1>10, <1>11 DEF q, l, pat

-----------------------------------------------------------------------------
(* Edits.                                                                  *)

(* What the property says of a span an old_text is found at.                *)
TakesOld(s, old, span) ==
  LET removed == SubSeq(s, span[1] + 1, span[2])
  IN  /\ TrimEndLines(Normalized(removed)) \in {old, old \o <<"nl">>}
      /\ span[1] \notin CRLF(s) /\ span[2] \notin CRLF(s)

LEMMA ExactTakes ==
  ASSUME NEW s \in Seq(STRING), NEW old \in Seq(STRING), NEW n \in 1..Len(ExactSpans(s, old))
  PROVE  TakesOld(s, TrimEndLines(old), ExactSpans(s, old)[n])
<1> DEFINE N == Normalized(s)
           found == MatchIndices(N, old)
           l == Len(old)
           P == CrlfPositions(s)
           f == found[n]
           q == f + l
           a == ToOriginal(f, P)
           b == ToOriginal(q, P)
<1>1. N \in Seq(STRING) /\ Len(N) \in Nat /\ l \in Nat
  BY NormalizedType
<1>2. Clear(N, old, found)
  <2> HIDE DEF N
  <2>1. QED
    BY <1>1, MatchesClear
<1>3. found \in Seq(Nat) /\ \A m \in 1..Len(found) : found[m] \in Occurrences(N, old)
  BY <1>2 DEF Clear
<1>4. ExactSpans(s, old) = [m \in 1..Len(found) |-> <<ToOriginal(found[m], P), ToOriginal(found[m] + l, P)>>]
  BY DEF ExactSpans
<1> HIDE DEF found, P
<1>5. n \in 1..Len(found) /\ ExactSpans(s, old)[n] = <<a, b>>
  <2>1. Len(found) \in Nat
    BY <1>3
  <2>2. Len(ExactSpans(s, old)) = Len(found)
    BY <1>4, <2>1
  <2>3. QED
    BY <1>4, <2>2
<1>6. f \in 0..(Len(N) - l) /\ SubSeq(N, f + 1, q) = old
  BY <1>3, <1>5 DEF Occurrences
<1>7. f \in 0..Len(N) /\ q \in f..Len(N)
  <2> HIDE DEF N, l, f
  <2>1. QED
    BY <1>1, <1>6
<1>8. a \notin CRLF(s) /\ b \notin CRLF(s) /\ Normalized(SubSeq(s, a + 1, b)) = SubSeq(N, f + 1, q)
  <2> HIDE DEF f, q
  <2>1. QED
    BY <1>7, OriginalSpan DEF P
<1> HIDE DEF a, b
<1>9. TakesOld(s, TrimEndLines(old), <<a, b>>)
  <2>1. TrimEndLines(Normalized(SubSeq(s, a + 1, b))) = TrimEndLines(old)
    BY <1>6, <1>8
  <2>2. QED
    BY <1>8, <2>1 DEF TakesOld
<1>10. QED
  BY <1>5, <1>9

LEMMA ExactApart ==
  ASSUME NEW s \in Seq(STRING), NEW old \in Seq(STRING),
         NEW m \in 1..Len(ExactSpans(s, old)), NEW n \in 1..Len(ExactSpans(s, old)), m < n
  PROVE  ~ (ExactSpans(s, old)[n][1] < ExactSpans(s, old)[m][2])
<1> DEFINE N == Normalized(s)
           found == MatchIndices(N, old)
           l == Len(old)
           P == CrlfPositions(s)
           f == found[m]
           g == found[n]
           q == f + l
<1>1. N \in Seq(STRING) /\ Len(N) \in Nat /\ l \in Nat
  BY NormalizedType
<1>2. Clear(N, old, found)
  <2> HIDE DEF N
  <2>1. QED
    BY <1>1, MatchesClear
<1>3. /\ found \in Seq(Nat) /\ \A k \in 1..Len(found) : found[k] \in Occurrences(N, old)
      /\ \A j, k \in 1..Len(found) : j < k => found[j] + l <= found[k]
  BY <1>2 DEF Clear
<1>4. ExactSpans(s, old) = [k \in 1..Len(found) |-> <<ToOriginal(found[k], P), ToOriginal(found[k] + l, P)>>]
  BY DEF ExactSpans
<1> HIDE DEF found, P
<1>5. m \in 1..Len(found) /\ n \in 1..Len(found)
      /\ ExactSpans(s, old)[n][1] = ToOriginal(g, P) /\ ExactSpans(s, old)[m][2] = ToOriginal(q, P)
  <2>1. Len(found) \in Nat
    BY <1>3
  <2>2. Len(ExactSpans(s, old)) = Len(found)
    BY <1>4, <2>1
  <2>3. QED
    BY <1>4, <2>2
<1>6. f \in 0..(Len(N) - l) /\ g \in 0..(Len(N) - l) /\ q <= g
  BY <1>3, <1>5 DEF Occurrences
<1> HIDE DEF N, l, f, g
<1>7. g \in 0..Len(N) /\ q \in 0..Len(N)
  BY <1>1, <1>6
<1> HIDE DEF q
<1>8. ASSUME ToOriginal(g, P) < ToOriginal(q, P) PROVE FALSE
  <2>1. g < q
    BY <1>7, <1>8, OriginalOrder DEF P, N
  <2>2. g \in Int /\ q \in Int
    BY <1>1, <1>7
  <2>3. QED
    BY <1>6, <2>1, <2>2
<1>9. QED
  BY <1>5, <1>8

(* The spans of the lines without their ends.                               *)
LEMMA TrimSpansAre ==
  ASSUME NEW s \in Seq(STRING), NEW old \in Seq(STRING), TrimEndSpans(s, old) # << >>
  PROVE  LET t == Normalized(s)
             T == TrimEndLines(t)
             pat == TrimEndLines(old)
             found == MatchIndices(T, pat)
             P == CrlfPositions(s)
             index == TrimEndIndex(t)
         IN  /\ pat # << >> /\ t \in Seq(STRING) /\ Clear(T, pat, found)
             /\ Len(TrimEndSpans(s, old)) = Len(found) /\ Len(found) \in Nat
             /\ \A k \in 1..Len(found) :
                  /\ found[k] \in Occurrences(T, pat)
                  /\ TrimEndSpans(s, old)[k][1] = ToOriginal(MapToNorm(index, found[k]), P)
                  /\ TrimEndSpans(s, old)[k][2] = ToOriginal(MapEndToNorm(index, found[k] + Len(pat)), P)
<1> DEFINE t == Normalized(s)
           T == TrimEndLines(t)
           pat == TrimEndLines(old)
           found == MatchIndices(T, pat)
           P == CrlfPositions(s)
           index == TrimEndIndex(t)
<1>1. t \in Seq(STRING)
  BY NormalizedType
<1>2. index.trimmed = T
  BY DEF TrimEndIndex
<1>3. TrimEndSpans(s, old) = TrimEndMatches(index, pat, P)
  BY DEF TrimEndSpans
<1> HIDE DEF t, T, P, index
<1>4. T \in Seq(STRING) /\ pat \in Seq(STRING)
  BY <1>1, TrimmedType DEF T
<1> HIDE DEF pat
<1>5. pat # << >> /\ TrimEndSpans(s, old) = MappedBack(index, found, Len(pat), P)
  BY <1>2, <1>3 DEF TrimEndMatches
<1>6. Clear(T, pat, found)
  BY <1>4, MatchesClear
<1> HIDE DEF found
<1>7. Len(found) \in Nat /\ \A k \in 1..Len(found) : found[k] \in Occurrences(T, pat)
  BY <1>6 DEF Clear
<1>8. TrimEndSpans(s, old) =
        [k \in 1..Len(found) |-> <<ToOriginal(MapToNorm(index, found[k]), P),
                                   ToOriginal(MapEndToNorm(index, found[k] + Len(pat)), P)>>]
  BY <1>5 DEF MappedBack
<1>9. Len(TrimEndSpans(s, old)) = Len(found)
  BY <1>7, <1>8
<1>10. ASSUME NEW k \in 1..Len(found)
       PROVE  /\ TrimEndSpans(s, old)[k][1] = ToOriginal(MapToNorm(index, found[k]), P)
              /\ TrimEndSpans(s, old)[k][2] = ToOriginal(MapEndToNorm(index, found[k] + Len(pat)), P)
  BY <1>8
<1>11. QED
  BY <1>1, <1>5, <1>6, <1>7, <1>9, <1>10 DEF found, pat, T, t, P, index

LEMMA TrimTakes ==
  ASSUME NEW s \in Seq(STRING), NEW old \in Seq(STRING), TrimEndSpans(s, old) # << >>,
         NEW n \in 1..Len(TrimEndSpans(s, old))
  PROVE  TakesOld(s, TrimEndLines(old), TrimEndSpans(s, old)[n])
<1> DEFINE t == Normalized(s)
           T == TrimEndLines(t)
           pat == TrimEndLines(old)
           found == MatchIndices(T, pat)
           P == CrlfPositions(s)
           index == TrimEndIndex(t)
           f == found[n]
           h == MapToNorm(index, f)
           v == MapEndToNorm(index, f + Len(pat))
           a == ToOriginal(h, P)
           b == ToOriginal(v, P)
           span == TrimEndSpans(s, old)[n]
<1>1. /\ pat # << >> /\ t \in Seq(STRING)
      /\ f \in Occurrences(T, pat) /\ span[1] = a /\ span[2] = b
  BY TrimSpansAre
<1>2. h \in 0..v /\ v \in 0..Len(t) /\ TrimEndLines(SubSeq(t, h + 1, v)) \in {pat, pat \o <<"nl">>}
  <2> HIDE DEF f, t
  <2>1. QED
    BY <1>1, TrimmedMatch
<1> HIDE DEF h, v, pat, span, P
<1>3. h \in 0..Len(t) /\ v \in h..Len(t)
  <2>1. Len(t) \in Nat
    BY <1>1
  <2>2. QED
    BY <1>2, <2>1
<1>4. a \notin CRLF(s) /\ b \notin CRLF(s) /\ Normalized(SubSeq(s, a + 1, b)) = SubSeq(t, h + 1, v)
  BY <1>3, OriginalSpan DEF P
<1> HIDE DEF a, b, t
<1>5. QED
  BY <1>1, <1>2, <1>4 DEF TakesOld, pat, span

(* Two of them only overlap as the property has it.                         *)
LEMMA TrimApart ==
  ASSUME NEW s \in Seq(STRING), NEW old \in Seq(STRING), TrimEndSpans(s, old) # << >>,
         NEW m \in 1..Len(TrimEndSpans(s, old)), NEW n \in 1..Len(TrimEndSpans(s, old)), m < n,
         TrimEndSpans(s, old)[n][1] < TrimEndSpans(s, old)[m][2]
  PROVE  LET pat == TrimEndLines(old)
             found == MatchIndices(TrimEndLines(Normalized(s)), pat)
         IN  \E k \in 2..Len(found) : found[k] = found[k - 1] + Len(pat) /\ pat[1] = "nl"
<1> DEFINE t == Normalized(s)
           T == TrimEndLines(t)
           pat == TrimEndLines(old)
           found == MatchIndices(T, pat)
           P == CrlfPositions(s)
           index == TrimEndIndex(t)
           f == found[m]
           g == found[n]
           l == Len(pat)
           q == f + l
           h == MapToNorm(index, g)
           v == MapEndToNorm(index, q)
<1>1. /\ pat # << >> /\ t \in Seq(STRING) /\ Clear(T, pat, found)
      /\ Len(found) \in Nat /\ m \in 1..Len(found) /\ n \in 1..Len(found)
      /\ f \in Occurrences(T, pat) /\ g \in Occurrences(T, pat)
      /\ TrimEndSpans(s, old)[n][1] = ToOriginal(h, P) /\ TrimEndSpans(s, old)[m][2] = ToOriginal(v, P)
  BY TrimSpansAre
<1>2. /\ found \in Seq(Nat) /\ l \in Nat
      /\ \A j, k \in 1..Len(found) : j < k => found[j] + l <= found[k]
  <2>1. pat \in Seq(STRING)
    BY TrimmedType
  <2> HIDE DEF pat, found, T
  <2>2. QED
    BY <1>1, <2>1 DEF Clear
<1> HIDE DEF found, T
<1>3. q <= g
  BY <1>1, <1>2
<1>4. v \in 0..Len(t) /\ h \in 0..Len(t)
  <2> DEFINE u == MapEndToNorm(index, g + l)
  <2>1. v \in 0..Len(t)
    BY <1>1, TrimmedMatch DEF T
  <2>2. h \in 0..u /\ u \in 0..Len(t)
    BY <1>1, TrimmedMatch DEF T
  <2>3. Len(t) \in Nat
    BY <1>1
  <2> HIDE DEF h, u, t
  <2>4. QED
    BY <2>1, <2>2, <2>3
<1>5. h < v
  <2>1. ToOriginal(h, P) < ToOriginal(v, P)
    BY <1>1
  <2> HIDE DEF h, v
  <2>2. QED
    BY <1>4, <2>1, OriginalOrder
<1>6. g = q /\ pat[1] = "nl"
  <2> HIDE DEF f, g, t
  <2>1. QED
    BY <1>1, <1>3, <1>5, MatchesApart DEF T
<1> HIDE DEF h, v, t, index, P
<1>7. l # 0
  <2>1. pat \in Seq(STRING)
    BY TrimmedType
  <2> HIDE DEF pat
  <2>2. QED
    BY <1>1, <2>1
<1> HIDE DEF pat, l
<1>8. n = m + 1
  <2> DEFINE k == n - 1
  <2>1. k \in 1..Len(found) /\ (m = k \/ m < k) /\ k < n
    BY <1>1
  <2>2. found[k] \in Nat /\ found[m] \in Nat /\ found[n] \in Nat
    <3>1. found \in Seq(Nat) /\ k \in 1..Len(found) /\ m \in 1..Len(found) /\ n \in 1..Len(found)
      BY <1>1, <1>2, <2>1
    <3> HIDE DEF k
    <3>2. QED
      BY <3>1, ElementOfSeq
  <2>3. found[k] + l <= found[n]
    BY <1>1, <1>2, <2>1
  <2>4. m < k => found[m] + l <= found[k]
    BY <1>1, <1>2, <2>1
  <2>5. found[n] = found[m] + l
    BY <1>6
  <2> HIDE DEF k
  <2>6. ~ (m < k)
    BY <1>2, <1>7, <2>2, <2>3, <2>4, <2>5
  <2>7. QED
    BY <1>1, <2>1, <2>6 DEF k
<1>9. n \in 2..Len(found) /\ n - 1 = m
  BY <1>1, <1>8
<1>10. found[n] = found[n - 1] + l
  BY <1>6, <1>9
<1>11. QED
  BY <1>6, <1>9, <1>10 DEF found, T, t, pat, l

LEMMA SpansLength ==
  ASSUME NEW s \in Seq(STRING), NEW old \in Seq(STRING)
  PROVE  Len(Spans(s, old)) \in Nat /\ DOMAIN Spans(s, old) = 1..Len(Spans(s, old))
<1>1. CASE ExactSpans(s, old) # << >>
  <2> DEFINE found == MatchIndices(Normalized(s), old)
  <2>1. Normalized(s) \in Seq(STRING)
    BY NormalizedType
  <2>2. Len(found) \in Nat
    <3>1. found \in Seq(Nat)
      BY <2>1, MatchesClear DEF Clear
    <3> HIDE DEF found
    <3>2. QED
      BY <3>1
  <2>3. DOMAIN ExactSpans(s, old) = 1..Len(found)
    BY DEF ExactSpans
  <2> HIDE DEF found
  <2>4. ExactSpans(s, old) = [n \in 1..Len(found) |-> ExactSpans(s, old)[n]]
    BY <2>3 DEF ExactSpans, found
  <2>5. Len(ExactSpans(s, old)) = Len(found)
    BY <2>2, <2>4
  <2>6. Spans(s, old) = ExactSpans(s, old)
    BY <1>1 DEF Spans, OrElse
  <2>7. QED
    BY <2>2, <2>3, <2>5, <2>6
<1>2. CASE ExactSpans(s, old) = << >>
  <2>1. Spans(s, old) = TrimEndSpans(s, old)
    BY <1>2 DEF Spans, OrElse
  <2>2. CASE TrimEndSpans(s, old) = << >>
    <3>1. Spans(s, old) = << >>
      BY <2>1, <2>2
    <3>2. Len(<< >>) = 0 /\ DOMAIN << >> = 1..0
      OBVIOUS
    <3>3. QED
      BY <3>1, <3>2
  <2>3. CASE TrimEndSpans(s, old) # << >>
    <3> DEFINE r == TrimEndSpans(s, old)
    <3>1. Len(r) \in Nat
      BY <2>3, TrimSpansAre
    <3>2. \E m \in Nat : \E g : r = [n \in 1..m |-> g[n]]
      <4> DEFINE t == Normalized(s)
                 pat == TrimEndLines(old)
                 found == MatchIndices(TrimEndLines(t), pat)
      <4>1. Len(found) \in Nat
        BY <2>3, TrimSpansAre
      <4>2. pat # << >>
        BY <2>3, TrimSpansAre
      <4>3. r = MappedBack(TrimEndIndex(t), found, Len(pat), CrlfPositions(s))
        BY <4>2 DEF TrimEndSpans, TrimEndMatches, TrimEndIndex
      <4> HIDE DEF found, pat, t, r
      <4>4. r = [n \in 1..Len(found) |-> r[n]]
        BY <4>3 DEF MappedBack
      <4>5. QED
        BY <4>1, <4>4
    <3> HIDE DEF r
    <3>3. PICK m \in Nat : \E g : r = [n \in 1..m |-> g[n]]
      BY <3>2
    <3>4. Len(r) = m /\ DOMAIN r = 1..m
      BY <3>3
    <3>5. QED
      BY <2>1, <3>1, <3>4 DEF r
  <2>4. QED
    BY <2>2, <2>3
<1>3. QED
  BY <1>1, <1>2

(* What a block is answered for the spans of its old_text.                  *)
LEMMA BlockAnswered ==
  ASSUME AnswerInv, Answered("edit_block"), NEW kind \in {"ok", "panic"}, answer.kind = kind
  PROVE  LET s == request.content
             old == Normalized(request.old)
         IN  /\ s \in Seq(STRING) /\ old \in Seq(STRING)
             /\ kind = "panic" => request.all /\ Overlapping(Spans(s, old)) # {}
<1> DEFINE s == request.content
           old == Normalized(request.old)
           spans == Spans(s, old)
<1>1. request \in Requests /\ request.tool = "edit_block" /\ answer = BlockWith(request, old, spans)
  BY DEF AnswerInv, Answered, Block
<1>2. s \in Seq(STRING) /\ request.old \in Seq(STRING) /\ request.all \in BOOLEAN
  BY <1>1, EditAssumption
<1>3. old \in Seq(STRING)
  BY <1>2, NormalizedType
<1> HIDE DEF old, spans
<1>4. ASSUME kind = "panic" PROVE request.all /\ Overlapping(spans) # {}
  <2>1. answer.kind = "panic"
    BY <1>4
  <2>2. Overlapping(spans) # {} /\ ~(Len(spans) > 1 /\ ~request.all) /\ spans # << >>
    BY <1>1, <2>1 DEF BlockWith
  <2>3. request.all
    <3>1. PICK n \in 2..Len(spans) : TRUE
      BY <2>2 DEF Overlapping
    <3>2. Len(spans) > 1
      <4>1. Len(spans) \in Nat
        BY <1>2, <1>3, SpansLength DEF spans, old
      <4>2. QED
        BY <3>1, <4>1
    <3>3. QED
      BY <1>2, <2>2, <3>2
  <2>4. QED
    BY <2>2, <2>3
<1>5. QED
  BY <1>2, <1>3, <1>4 DEF old, spans

LEMMA RemovedHolds == AnswerInv => RemovedIsOldText
<1> SUFFICES ASSUME AnswerInv, Answered("edit_block"), answer.kind = "ok" PROVE RemovedIsOldText
  BY DEF RemovedIsOldText
<1> DEFINE s == request.content
           old == Normalized(request.old)
           spans == Spans(s, old)
<1>1. s \in Seq(STRING) /\ old \in Seq(STRING)
  BY BlockAnswered
<1> HIDE DEF old
<1>2. ASSUME NEW n \in 1..Len(spans) PROVE TakesOld(s, TrimEndLines(old), spans[n])
  <2>1. CASE ExactSpans(s, old) # << >>
    <3>1. spans = ExactSpans(s, old)
      BY <2>1 DEF Spans, OrElse
    <3> HIDE DEF spans
    <3>2. QED
      BY <1>1, <3>1, ExactTakes
  <2>2. CASE ExactSpans(s, old) = << >>
    <3>1. spans = TrimEndSpans(s, old)
      BY <2>2 DEF Spans, OrElse
    <3>2. Len(<< >>) = 0
      OBVIOUS
    <3> HIDE DEF spans
    <3>3. spans # << >>
      BY <3>2
    <3>4. QED
      BY <1>1, <3>1, <3>3, TrimTakes
  <2>3. QED
    BY <2>1, <2>2
<1>3. ASSUME NEW span \in ToSet(spans) PROVE TakesOld(s, TrimEndLines(old), span)
  <2>1. DOMAIN spans = 1..Len(spans)
    BY <1>1, SpansLength
  <2> HIDE DEF spans
  <2>2. PICK n \in DOMAIN spans : spans[n] = span
    BY DEF ToSet
  <2>3. QED
    BY <1>2, <2>1, <2>2
<1>4. QED
  BY <1>3 DEF RemovedIsOldText, TakesOld, old

(* What a single edit takes out of a file is its old_text, but for white    *)
(* space at line ends and one newline, and no \r\n is taken in half         *)
(* (edit_replace_block_inner, TrimEndIndex, norm_to_original_offset).       *)
THEOREM ToolRemovedIsOldText == TextSpec => []RemovedIsOldText
BY AnswersHold, RemovedHolds, PTL

LEMMA PanicsHold == AnswerInv => PanicsOnlyWhereMatchesAbut
<1> SUFFICES ASSUME AnswerInv, Answered("edit_block"), answer.kind = "panic" PROVE PanicsOnlyWhereMatchesAbut
  BY DEF PanicsOnlyWhereMatchesAbut
<1> DEFINE s == request.content
           old == Normalized(request.old)
           spans == Spans(s, old)
           pat == TrimEndLines(old)
           found == MatchIndices(TrimEndLines(Normalized(s)), pat)
<1>1. s \in Seq(STRING) /\ old \in Seq(STRING) /\ request.all /\ Overlapping(spans) # {}
  BY BlockAnswered
<1> HIDE DEF old
<1>2. Len(spans) \in Nat
  BY <1>1, SpansLength
<1>3. PICK n \in 2..Len(spans) : \E m \in 1..(n - 1) : spans[n][1] < spans[m][2]
  <2> HIDE DEF spans
  <2>1. QED
    BY <1>1 DEF Overlapping
<1>4. PICK m \in 1..(n - 1) : spans[n][1] < spans[m][2]
  BY <1>3
<1>5. n \in 1..Len(spans) /\ m \in 1..Len(spans) /\ m < n
  <2> HIDE DEF spans
  <2>1. QED
    BY <1>2
<1>6. CASE ExactSpans(s, old) # << >>
  <2>1. spans = ExactSpans(s, old)
    BY <1>6 DEF Spans, OrElse
  <2> HIDE DEF spans
  <2>2. ~ (spans[n][1] < spans[m][2])
    BY <1>1, <1>5, <2>1, ExactApart
  <2>3. QED
    BY <1>4, <2>2
<1>7. CASE ExactSpans(s, old) = << >>
  <2>1. spans = TrimEndSpans(s, old)
    BY <1>7 DEF Spans, OrElse
  <2>2. Len(<< >>) = 0
    OBVIOUS
  <2> HIDE DEF spans
  <2>3. spans # << >>
    BY <1>5, <2>2
  <2>4. \E k \in 2..Len(found) : found[k] = found[k - 1] + Len(pat) /\ pat[1] = "nl"
    BY <1>1, <1>4, <1>5, <2>1, <2>3, TrimApart
  <2>5. QED
    BY <1>1, <1>7, <2>4 DEF PanicsOnlyWhereMatchesAbut, old
<1>8. QED
  BY <1>6, <1>7

(* A replace_all only panics where one match takes in the newline that the  *)
(* next one begins with (the slices of edit_replace_block_inner,            *)
(* map_end_to_norm).                                                        *)
THEOREM ToolPanicsOnlyWhereMatchesAbut == TextSpec => []PanicsOnlyWhereMatchesAbut
BY AnswersHold, PanicsHold, PTL
=============================================================================
