------------------------------ MODULE ExecProofs ------------------------------
(***************************************************************************)
(* What exec_command guarantees.  Running a command (ExecCommand): for     *)
(* every amount of input and output, every pipe capacity and every drain   *)
(* budget.  Its output and the slot files (ExecOutput): for any servers,   *)
(* commands, limits and rules, wherever processes stop and writes fail.    *)
(***************************************************************************)
EXTENDS ExecCommand, ExecOutput, FiniteSetTheorems, FunctionTheorems, TLAPS

(* Where the child is, by where the handler is.                             *)
ChildInv ==
  /\ pc = "new" => child = "none"
  /\ pc \in {"feeding", "waiting"} => child \in {"running", "zombie"}
  /\ pc = "reaping" => child = "zombie"
  /\ pc = "draining" => child = "reaped"
  /\ pc = "answered" => child \in {"none", "reaped"}
  /\ child = "none" => ~background /\ \A st \in Stream : pipe[st] = << >>

(* Adding a line to a pipe, or taking one, leaves a sequence of lines.      *)
LEMMA PipeStep ==
  ASSUME NEW s \in Seq(Line)
  PROVE  /\ Len(s) \in Nat
         /\ \A l \in Line : Append(s, l) \in Seq(Line) /\ Len(Append(s, l)) = Len(s) + 1
         /\ s # << >> => /\ Tail(s) \in Seq(Line) /\ Len(Tail(s)) = Len(s) - 1
                         /\ Head(s) \in Line
OBVIOUS

LEMMA InitChild == Init => TypeOK /\ ChildInv
<1> SUFFICES ASSUME Init PROVE TypeOK /\ ChildInv
  OBVIOUS
<1>1. pipe \in [Stream -> Seq(Line)] /\ \A st \in Stream : Len(pipe[st]) <= PipeCap
  BY ExecAssumption DEF Init
<1>2. wrote \in [Stream -> 0..MaxOutput] /\ kept \in [Stream -> Nat]
  BY ExecAssumption DEF Init
<1>3. ChildInv
  BY DEF Init, ChildInv
<1>4. 0 \in 0..MaxStdin /\ 0 \in 0..StdinCap
  BY ExecAssumption
<1>5. result \in [exit_code : {"zero", "nonzero", "null"}, output_truncated : BOOLEAN,
                  output_collection_error : BOOLEAN, timed_out : BOOLEAN]
  BY DEF Init, NoResult
<1>6. background \in BOOLEAN /\ budgetHit \in BOOLEAN /\ cancelled \in BOOLEAN
  BY DEF Init
<1>7. TypeOK
  BY <1>1, <1>2, <1>4, <1>5, <1>6 DEF Init, TypeOK
<1>8. QED
  BY <1>3, <1>7

LEMMA DrainLineType ==
  ASSUME TypeOK, NEW st \in Stream, DrainLine(st)
  PROVE  TypeOK'
<1>1. pipe[st] \in Seq(Line) /\ pipe[st] # << >> /\ Len(pipe[st]) <= PipeCap
  BY DEF DrainLine, TypeOK
<1>2. Tail(pipe[st]) \in Seq(Line) /\ Len(Tail(pipe[st])) <= PipeCap
  BY <1>1, PipeStep, ExecAssumption
<1>3. pipe' = [pipe EXCEPT ![st] = Tail(pipe[st])]
  BY DEF DrainLine
<1>4. pipe' \in [Stream -> Seq(Line)] /\ \A r \in Stream : Len(pipe'[r]) <= PipeCap
  BY <1>2, <1>3 DEF TypeOK
<1>5. kept' \in [Stream -> Nat]
  BY DEF DrainLine, TypeOK
<1>6. budgetHit' \in BOOLEAN
  <2>1. budgetHit' = TRUE \/ budgetHit' = budgetHit
    BY DEF DrainLine
  <2>2. QED
    BY <2>1 DEF TypeOK
<1>7. drain' \in {"reading", "failed"}
  BY DEF DrainLine
<1>8. UNCHANGED <<pc, stdinLeft, stdinPipe, child, status, background, wrote, cancelled, result>>
  BY DEF DrainLine, procVars
<1>9. QED
  BY <1>4, <1>5, <1>6, <1>7, <1>8 DEF TypeOK

LEMMA WriteType ==
  ASSUME TypeOK, NEW st \in Stream, NEW l \in Line, Write(st, l)
  PROVE  TypeOK'
<1>1. pipe[st] \in Seq(Line) /\ Len(pipe[st]) < PipeCap
  BY DEF Write, TypeOK
<1>2. Append(pipe[st], l) \in Seq(Line) /\ Len(Append(pipe[st], l)) <= PipeCap
  BY <1>1, PipeStep, ExecAssumption
<1>3. pipe' = [pipe EXCEPT ![st] = Append(pipe[st], l)]
  BY DEF Write
<1>4. pipe' \in [Stream -> Seq(Line)] /\ \A r \in Stream : Len(pipe'[r]) <= PipeCap
  BY <1>2, <1>3 DEF TypeOK
<1>5. wrote' \in [Stream -> 0..MaxOutput]
  BY ExecAssumption DEF Write, TypeOK
<1>6. QED
  BY <1>4, <1>5 DEF Write, TypeOK, drainVars

LEMMA StepChild ==
  ASSUME TypeOK, ChildInv, [Next]_vars
  PROVE  TypeOK' /\ ChildInv'
<1> USE DEF procVars, drainVars
<1>1. CASE Start
  BY <1>1, ExecAssumption DEF Start, SpawnFails, Spawn, TypeOK, ChildInv
<1>2. CASE FeedStdin \/ FeedEnds
  BY <1>2, ExecAssumption DEF FeedStdin, FeedEnds, TypeOK, ChildInv
<1>3. CASE ChildExited \/ Reap \/ DrainCollected
  <2>1. CASE ChildExited
    BY <2>1 DEF ChildExited, TypeOK, ChildInv, Code
  <2>2. CASE Reap
    BY <2>2 DEF Reap, TypeOK, ChildInv
  <2>3. CASE DrainCollected
    BY <2>3 DEF DrainCollected, TypeOK, ChildInv
  <2>4. QED
    BY <1>3, <2>1, <2>2, <2>3
<1>4. CASE ExecTimeout \/ CancelSeen
  BY <1>4 DEF ExecTimeout, CancelSeen, Kill, TypeOK, ChildInv
<1>5. CASE DrainExpired
  BY <1>5 DEF DrainExpired, TypeOK, ChildInv
<1>6. CASE DrainEof
  BY <1>6 DEF DrainEof, TypeOK, ChildInv
<1>7. ASSUME NEW st \in Stream, DrainLine(st) PROVE TypeOK' /\ ChildInv'
  <2>1. ChildInv'
    BY <1>7 DEF DrainLine, ChildInv
  <2>2. QED
    BY <1>7, <2>1, DrainLineType
<1>8. CASE Cancel \/ ChildReads \/ BrokenPipe
  <2>1. CASE ChildReads
    <3>1. stdinPipe' \in 0..StdinCap
      BY <2>1, ExecAssumption DEF ChildReads, TypeOK
    <3>2. QED
      BY <2>1, <3>1 DEF ChildReads, TypeOK, ChildInv
  <2>2. CASE Cancel
    BY <2>2 DEF Cancel, TypeOK, ChildInv
  <2>3. CASE BrokenPipe
    BY <2>3 DEF BrokenPipe, TypeOK, ChildInv
  <2>4. QED
    BY <1>8, <2>1, <2>2, <2>3
<1>9. CASE Fork \/ BackgroundEnds \/ ChildExits
  <2>1. CASE Fork
    BY <2>1 DEF Fork, TypeOK, ChildInv
  <2>2. CASE BackgroundEnds
    <3>1. background' \in BOOLEAN
      BY <2>2 DEF BackgroundEnds
    <3>2. UNCHANGED <<pc, stdinLeft, stdinPipe, child, status, wrote, pipe, drain, kept,
                      budgetHit, cancelled, result>>
      BY <2>2 DEF BackgroundEnds
    <3>3. TypeOK'
      BY <3>1, <3>2 DEF TypeOK
    <3>4. ChildInv'
      BY <2>2, <3>2 DEF BackgroundEnds, ChildInv
    <3>5. QED
      BY <3>3, <3>4
  <2>3. CASE ChildExits
    BY <2>3 DEF ChildExits, TypeOK, ChildInv
  <2>4. QED
    BY <1>9, <2>1, <2>2, <2>3
<1>10. ASSUME NEW st \in Stream, NEW l \in Line, Write(st, l) PROVE TypeOK' /\ ChildInv'
  <2>1. ChildInv'
    BY <1>10 DEF Write, ChildInv
  <2>2. QED
    BY <1>10, <2>1, WriteType
<1>11. CASE UNCHANGED vars
  BY <1>11 DEF vars, TypeOK, ChildInv
<1>12. QED
  BY <1>1, <1>2, <1>3, <1>4, <1>5, <1>6, <1>7, <1>8, <1>9, <1>10, <1>11
    DEF Next, Handler, Timers, Drain, Environment

(* Of an exec_command call every variable keeps its type.                   *)
THEOREM TypeCorrect == Spec => []TypeOK
BY InitChild, StepChild, PTL DEF Spec

(* However a call ends, its child has been reaped.                          *)
THEOREM ChildReaped == Spec => []NoChildLeft
<1>1. ChildInv => NoChildLeft
  BY DEF ChildInv, NoChildLeft
<1>2. QED
  BY InitChild, StepChild, <1>1, PTL DEF Spec

-----------------------------------------------------------------------------
(* The drain task ends by itself at the end of both pipes, or at a line it  *)
(* cannot decode.                                                           *)
DrainInv ==
  /\ pc \in {"new", "feeding"} => drain = "none"
  /\ pc \in {"waiting", "reaping", "draining"} => drain \in {"reading", "done", "failed"}
  /\ drain = "done" =>
       /\ child # "running" /\ ~background
       /\ \A st \in Stream : pipe[st] = << >>

(* A line is in its pipe or was sent, until one was dropped on purpose.     *)
Conserved ==
  ~budgetHit /\ drain # "failed" => \A st \in Stream : wrote[st] = kept[st] + Len(pipe[st])

AnswerInv ==
  pc = "answered" /\ ~result.output_truncated /\ ~result.timed_out /\ drain # "failed" =>
    ~budgetHit /\ (drain = "done" \/ child = "none")

FreshInv == child = "none" => ~budgetHit

OutputInv == DrainInv /\ Conserved /\ AnswerInv /\ FreshInv

LEMMA InitOutput == Init => OutputInv
<1> SUFFICES ASSUME Init PROVE OutputInv
  OBVIOUS
<1>1. \A st \in Stream : Len(pipe[st]) = 0 /\ wrote[st] = 0 /\ kept[st] = 0
  BY DEF Init
<1>2. QED
  BY <1>1 DEF Init, OutputInv, DrainInv, Conserved, AnswerInv, FreshInv

LEMMA StepOutput ==
  ASSUME TypeOK, ChildInv, OutputInv, [Next]_vars
  PROVE  OutputInv'
<1> USE DEF procVars, drainVars, OutputInv
<1>1. CASE Start
  BY <1>1 DEF Start, SpawnFails, Spawn, ChildInv, DrainInv, Conserved, AnswerInv, FreshInv
<1>2. CASE FeedStdin \/ FeedEnds
  BY <1>2 DEF FeedStdin, FeedEnds, DrainInv, Conserved, AnswerInv, FreshInv
<1>3. CASE ChildExited \/ Reap \/ DrainCollected
  BY <1>3 DEF ChildExited, Reap, DrainCollected, TypeOK, DrainInv, Conserved, AnswerInv, FreshInv
<1>4. CASE ExecTimeout \/ CancelSeen
  BY <1>4 DEF ExecTimeout, CancelSeen, Kill, DrainInv, Conserved, AnswerInv, FreshInv
<1>5. CASE DrainExpired
  BY <1>5 DEF DrainExpired, TypeOK, DrainInv, Conserved, AnswerInv, FreshInv
<1>6. CASE DrainEof
  BY <1>6 DEF DrainEof, DrainInv, Conserved, AnswerInv, FreshInv
<1>7. ASSUME NEW st \in Stream, DrainLine(st) PROVE OutputInv'
  <2>1. /\ pipe[st] \in Seq(Line) /\ pipe[st] # << >>
        /\ pipe' = [pipe EXCEPT ![st] = Tail(pipe[st])]
    BY <1>7 DEF DrainLine, TypeOK
  <2>2. Len(Tail(pipe[st])) = Len(pipe[st]) - 1 /\ Len(pipe[st]) \in Nat
    BY <2>1, PipeStep
  <2>3. drain = "reading" /\ drain' \in {"reading", "failed"}
    BY <1>7 DEF DrainLine
  <2>4. DrainInv' /\ AnswerInv' /\ FreshInv'
    BY <1>7, <2>1, <2>3 DEF DrainLine, TypeOK, ChildInv, DrainInv, AnswerInv, FreshInv
  <2>5. ASSUME ~budgetHit', drain' # "failed", NEW r \in Stream
        PROVE  wrote'[r] = kept'[r] + Len(pipe'[r])
    <3>1. wrote[r] = kept[r] + Len(pipe[r]) /\ ~budgetHit /\ kept[r] \in Nat
      BY <1>7, <2>3, <2>5 DEF DrainLine, Conserved, TypeOK
    <3>2. kept' = [kept EXCEPT ![st] = kept[st] + 1] /\ wrote' = wrote
      BY <1>7, <2>5 DEF DrainLine
    <3>3. QED
      BY <2>1, <2>2, <3>1, <3>2 DEF TypeOK
  <2>6. QED
    BY <2>4, <2>5 DEF Conserved
<1>8. CASE Cancel \/ ChildReads \/ BrokenPipe
  BY <1>8 DEF Cancel, ChildReads, BrokenPipe, DrainInv, Conserved, AnswerInv, FreshInv
<1>9. CASE Fork \/ BackgroundEnds \/ ChildExits
  BY <1>9 DEF Fork, BackgroundEnds, ChildExits, DrainInv, Conserved, AnswerInv, FreshInv
<1>10. ASSUME NEW st \in Stream, NEW l \in Line, Write(st, l) PROVE OutputInv'
  <2>1. /\ Len(pipe[st]) \in Nat
        /\ Len(Append(pipe[st], l)) = Len(pipe[st]) + 1
    BY PipeStep DEF TypeOK
  <2>2. DrainInv' /\ AnswerInv' /\ FreshInv'
    BY <1>10 DEF Write, ReadEndOpen, DrainInv, AnswerInv, FreshInv
  <2>3. ASSUME ~budgetHit', drain' # "failed", NEW r \in Stream
        PROVE  wrote'[r] = kept'[r] + Len(pipe'[r])
    <3>1. wrote[r] = kept[r] + Len(pipe[r]) /\ kept[r] \in Nat
      BY <1>10, <2>3 DEF Write, Conserved, TypeOK
    <3>2. QED
      BY <1>10, <2>1, <3>1 DEF Write, TypeOK
  <2>4. QED
    BY <2>2, <2>3 DEF Conserved
<1>11. CASE UNCHANGED vars
  BY <1>11 DEF vars, DrainInv, Conserved, AnswerInv, FreshInv
<1>12. QED
  BY <1>1, <1>2, <1>3, <1>4, <1>5, <1>6, <1>7, <1>8, <1>9, <1>10, <1>11
    DEF Next, Handler, Timers, Drain, Environment

(* An answer that claims completeness, of a call whose output could be      *)
(* decoded, is complete: no line is lost between the pipes, the drain task  *)
(* and the handler (exec_runtime.rs:99-232).                                *)
THEOREM CompleteOutput == Spec => []DecodedIsComplete
<1>1. TypeOK /\ ChildInv /\ OutputInv => DecodedIsComplete
  <2> SUFFICES ASSUME TypeOK, ChildInv, OutputInv, pc = "answered", drain # "failed",
                      ~result.output_truncated, ~result.timed_out
               PROVE  kept = wrote
    BY DEF DecodedIsComplete
  <2>1. \A st \in Stream : pipe[st] = << >> /\ wrote[st] = kept[st] + Len(pipe[st])
    BY DEF OutputInv, AnswerInv, DrainInv, ChildInv, Conserved
  <2>2. \A st \in Stream : wrote[st] = kept[st]
    BY <2>1 DEF TypeOK
  <2>3. QED
    BY <2>2 DEF TypeOK
<1>2. QED
  BY InitChild, StepChild, InitOutput, StepOutput, <1>1, PTL DEF Spec

(* Unless it met an undecodable line, the server does not break the pipes   *)
(* of a command that still writes (exec_runtime.rs:124-128).                *)
THEOREM PipesKept == Spec => []NoBrokenPipe
<1>1. Init => NoBrokenPipe
  BY DEF Init, NoBrokenPipe
<1>2. TypeOK /\ ChildInv /\ OutputInv /\ NoBrokenPipe /\ [Next]_vars => NoBrokenPipe'
  <2> SUFFICES ASSUME TypeOK, ChildInv, OutputInv, NoBrokenPipe, [Next]_vars,
                      drain' # "failed"
               PROVE  status' # "sigpipe"
    BY DEF NoBrokenPipe
  <2> USE DEF NoBrokenPipe, procVars, drainVars
  <2>1. drain # "failed"
    BY DEF Next, Start, SpawnFails, Spawn, Handler, FeedStdin, FeedEnds, ChildExited,
      Reap, DrainCollected, Timers, ExecTimeout, CancelSeen, Kill, DrainExpired, Drain,
      DrainEof, DrainLine, Environment, Cancel, ChildReads, BrokenPipe, Fork,
      BackgroundEnds, ChildExits, Write, vars, OutputInv, DrainInv
  <2>2. ~BrokenPipe
    BY <2>1 DEF OutputInv, TypeOK, ChildInv, DrainInv, BrokenPipe, ReadEndOpen
  <2>3. QED
    BY <2>1, <2>2 DEF Next, Start, SpawnFails, Spawn, Handler, FeedStdin, FeedEnds,
      ChildExited, Reap, DrainCollected, Timers, ExecTimeout, CancelSeen, Kill,
      DrainExpired, Drain, DrainEof, DrainLine, Environment, Cancel, ChildReads, Fork,
      BackgroundEnds, ChildExits, Write, vars
<1>3. QED
  BY InitChild, StepChild, InitOutput, StepOutput, <1>1, <1>2, PTL DEF Spec

-----------------------------------------------------------------------------
(* The slot files.                                                         *)

TmpName == (Nat \X Streams) \X Nat \X Nat

Answer == {NoFile} \cup {AnswerWith(asked[c], Shell(asked[c]), Filtering(asked[c]), paths) :
                           c \in DOMAIN asked, paths \in SUBSET Streams}

CallState ==
  [at : {"asked", "running", "writing", "answered", "gone"}, by : Servers \cup {"none"},
   slot : Nat, todo : Seq(Streams), tmp : TmpName \cup {<<>>}, filled : BOOLEAN,
   kept : SUBSET Streams, lost : SUBSET Streams, answer : Answer]

TempFile == [call : DOMAIN asked, whole : BOOLEAN]

SlotFile ==
  [call : DOMAIN asked, whole : BOOLEAN, over : SUBSET DOMAIN asked,
   text : {Captured(asked[c], s) : c \in DOMAIN asked, s \in Streams}]

OutputTypeOK ==
  /\ calls \in [DOMAIN asked -> CallState]
  /\ callSeq \in [Servers -> Nat] /\ pid \in [Servers -> Nat] /\ tmpCounter \in [Servers -> Nat]
  /\ temps \in [DOMAIN temps -> TempFile] /\ DOMAIN temps \subseteq TmpName
  /\ slots \in [DOMAIN slots -> SlotFile] /\ DOMAIN slots \subseteq Nat \X Streams

(* Processes that run have process ids of their own, none of which was that *)
(* of an older temporary file beyond what its process has counted.          *)
NamesInv ==
  /\ \A p, q \in Servers : pid[p] = pid[q] => p = q
  /\ \A name \in DOMAIN temps :
       /\ \E q \in Servers : name[2] <= pid[q]
       /\ \A p \in Servers : name[2] = pid[p] => name[3] < tmpCounter[p]

(* A file that a call has still to write is either kept, lost or to do.     *)
CallInv(c) ==
  /\ calls[c].at \in {"asked", "running"} =>
       calls[c].tmp = <<>> /\ calls[c].kept = {} /\ calls[c].lost = {}
  /\ calls[c].at # "asked" => calls[c].by \in Servers
  /\ calls[c].tmp = <<>> => ~ calls[c].filled
  /\ calls[c].at \in {"writing", "answered"} =>
       calls[c].kept \cup calls[c].lost \cup ToSet(calls[c].todo) = ToSet(Writes(asked[c]))
  /\ calls[c].at = "answered" => calls[c].todo = <<>> /\ calls[c].answer = AnswerOf(c)

CallsInv == \A c \in DOMAIN asked : CallInv(c)

(* A call's temporary file is its own, and whole once it is filled.         *)
OwnTmp(c) ==
  LET call == calls[c]
  IN  call.at = "writing" /\ call.tmp # <<>> =>
        /\ call.todo # <<>>
        /\ call.tmp[2] = pid[call.by] /\ call.tmp \in DOMAIN temps
        /\ temps[call.tmp].call = c
        /\ call.filled => temps[call.tmp].whole

TmpInv == \A c \in DOMAIN asked : OwnTmp(c)

SlotsInv == \A path \in DOMAIN slots : slots[path].whole /\ slots[path].text # {}

(* What a call kept is in its slot or was there.                            *)
Held(c, path) == path \in DOMAIN slots /\ (slots[path].call = c \/ c \in slots[path].over)

KeptInv == \A c \in DOMAIN asked : \A s \in calls[c].kept : Held(c, SlotBase(calls[c].slot, s))

OInv == OutputTypeOK /\ NamesInv /\ CallsInv /\ TmpInv /\ SlotsInv /\ KeptInv

-----------------------------------------------------------------------------
(* Numbers.                                                                *)

LEMMA LeastNat ==
  ASSUME NEW S \in SUBSET Nat, S # {}
  PROVE  \E m \in S : \A n \in S : m <= n
<1>1. PICK x \in S : \A y \in S : ~ (<<y, x>> \in OpToRel(<,Nat))
  BY NatLessThanWellFounded, WFMin
<1>2. OpToRel(<, Nat) = {ss \in Nat \X Nat : ss[1] < ss[2]}
  BY DEF OpToRel
<1> HIDE DEF OpToRel
<1>3. \A y \in S : ~ (<<y, x>> \in {ss \in Nat \X Nat : ss[1] < ss[2]})
  BY <1>1, <1>2, Zenon
<1>4. ASSUME NEW y \in S, y < x PROVE FALSE
  <2>1. <<y, x>> \in Nat \X Nat /\ <<y, x>>[1] < <<y, x>>[2]
    BY <1>4
  <2>2. QED
    BY <2>1, <1>3
<1>5. QED
  BY <1>4

LEMMA GreatestNat ==
  ASSUME NEW S \in SUBSET Nat, S # {}, NEW b \in Nat, \A x \in S : x <= b
  PROVE  Max(S) \in S /\ \A x \in S : x <= Max(S)
<1> DEFINE U == {n \in Nat : \A x \in S : x <= n}
<1>1. PICK m \in U : \A n \in U : m <= n
  BY LeastNat
<1>2. m \in S
  <2> SUFFICES ASSUME m \notin S PROVE FALSE
    OBVIOUS
  <2>1. PICK s \in S : TRUE
    OBVIOUS
  <2>2. m - 1 \in U
    BY <2>1
  <2>3. QED
    BY <1>1, <2>2
<1>3. m \in S /\ \A y \in S : m >= y
  BY <1>1, <1>2
<1>4. QED
  BY <1>3 DEF Max

(* Servers can be numbered, so the processes start with ids of their own.   *)
LEMMA FirstPids ==
  LET first == CHOOSE f \in [Servers -> 1..Cardinality(Servers)] : IsInjective(f)
  IN  first \in [Servers -> Nat] /\ \A p, q \in Servers : first[p] = first[q] => p = q
<1> DEFINE n == Cardinality(Servers)
<1>1. n \in Nat /\ ExistsBijection(1..n, Servers)
  BY OutputAssumption, FS_CardinalityType
<1>2. ExistsBijection(Servers, 1..n)
  BY <1>1, Fun_ExistsBijSymmetric
<1>3. \E f \in [Servers -> 1..n] : IsInjective(f)
  BY <1>2 DEF ExistsBijection, Bijection, Injection
<1> DEFINE first == CHOOSE f \in [Servers -> 1..n] : IsInjective(f)
<1>4. first \in [Servers -> 1..n] /\ IsInjective(first)
  BY <1>3
<1> HIDE DEF first
<1>5. first \in [Servers -> Nat] /\ \A p, q \in Servers : first[p] = first[q] => p = q
  BY <1>1, <1>4 DEF IsInjective
<1>6. QED
  BY <1>5 DEF first

-----------------------------------------------------------------------------
(* Texts and files.                                                        *)

LEMMA ToSetConcat ==
  ASSUME NEW S, NEW s \in Seq(S), NEW t \in Seq(S)
  PROVE  ToSet(s \o t) = ToSet(s) \cup ToSet(t) /\ s \o t \in Seq(S)
<1>1. s \o t \in Seq(S) /\ Len(s \o t) = Len(s) + Len(t) /\ Len(s) \in Nat /\ Len(t) \in Nat
  OBVIOUS
<1>2. \A i \in 1..Len(s) : (s \o t)[i] = s[i]
  OBVIOUS
<1>3. \A i \in 1..Len(t) : (s \o t)[Len(s) + i] = t[i] /\ Len(s) + i \in 1..Len(s \o t)
  OBVIOUS
<1>4. ASSUME NEW i \in 1..Len(s \o t) PROVE (s \o t)[i] \in ToSet(s) \cup ToSet(t)
  <2>1. CASE i <= Len(s)
    BY <2>1, <1>1, <1>2 DEF ToSet
  <2>2. CASE i > Len(s)
    <3>1. i - Len(s) \in 1..Len(t)
      BY <2>2, <1>1
    <3>2. (s \o t)[i] = t[i - Len(s)]
      BY <3>1, <1>1, <1>3
    <3>3. QED
      BY <3>1, <3>2 DEF ToSet
  <2>3. QED
    BY <2>1, <2>2, <1>1
<1>5. /\ ToSet(s) = {s[i] : i \in 1..Len(s)} /\ ToSet(t) = {t[i] : i \in 1..Len(t)}
      /\ ToSet(s \o t) = {(s \o t)[i] : i \in 1..Len(s \o t)}
  BY <1>1 DEF ToSet
<1>6. \A i \in 1..Len(s) : s[i] \in ToSet(s \o t)
  <2>1. \A i \in 1..Len(s) : i \in 1..Len(s \o t)
    BY <1>1
  <2>2. QED
    BY <2>1, <1>2, <1>5
<1>7. \A i \in 1..Len(t) : t[i] \in ToSet(s \o t)
  BY <1>3, <1>5
<1>8. QED
  BY <1>1, <1>4, <1>5, <1>6, <1>7

LEMMA ToSetHead ==
  ASSUME NEW S, NEW s \in Seq(S), s # <<>>
  PROVE  /\ Head(s) \in S /\ Tail(s) \in Seq(S)
         /\ ToSet(s) = {Head(s)} \cup ToSet(Tail(s))
<1>1. Head(s) \in S /\ Tail(s) \in Seq(S) /\ Head(s) = s[1] /\ Len(s) \in Nat /\ Len(s) > 0
  OBVIOUS
<1>2. Len(Tail(s)) = Len(s) - 1 /\ \A i \in 1..(Len(s) - 1) : Tail(s)[i] = s[i + 1]
  OBVIOUS
<1>3. ASSUME NEW i \in 1..Len(s) PROVE s[i] \in {Head(s)} \cup ToSet(Tail(s))
  <2>1. CASE i = 1
    BY <2>1, <1>1
  <2>2. CASE i # 1
    <3>1. i - 1 \in 1..(Len(s) - 1) /\ Tail(s)[i - 1] = s[i]
      BY <2>2, <1>1, <1>2
    <3>2. i - 1 \in DOMAIN Tail(s)
      BY <3>1, <1>1, <1>2
    <3>3. QED
      BY <3>1, <3>2 DEF ToSet
  <2>3. QED
    BY <2>1, <2>2
<1>4. ASSUME NEW i \in 1..(Len(s) - 1) PROVE Tail(s)[i] \in ToSet(s)
  BY <1>1, <1>2 DEF ToSet
<1>5. QED
  BY <1>1, <1>2, <1>3, <1>4 DEF ToSet

LEMMA PutFile ==
  ASSUME NEW store, NEW name, NEW file
  PROVE  /\ DOMAIN Put(store, name, file) = DOMAIN store \cup {name}
         /\ Put(store, name, file)[name] = file
         /\ \A n \in DOMAIN store : n # name => Put(store, name, file)[n] = store[n]
         /\ Put(store, name, file) = [n \in DOMAIN Put(store, name, file) |-> Put(store, name, file)[n]]
BY DEF Put

LEMMA TmpIsNamed == <<>> \notin TmpName
<1>1. SUFFICES ASSUME NEW a \in Nat \X Streams, NEW b \in Nat, NEW d \in Nat, <<>> = <<a, b, d>>
               PROVE  FALSE
  BY DEF TmpName
<1>2. Len(<<>>) = 0 /\ Len(<<a, b, d>>) = 3
  OBVIOUS
<1>3. QED
  BY <1>1, <1>2

LEMMA NoBytes == Bytes({}) = 0
BY FS_EmptySet DEF Bytes

LEMMA OverflowingText ==
  ASSUME NEW run
  PROVE  /\ Overflowing(run) \subseteq Streams
         /\ \A s \in Overflowing(run) : StreamText(run, s) # {}
<1>1. \A s \in Persisted(run) : s \in Streams /\ StreamText(run, s) # {}
  BY DEF Persisted, Streams
<1>2. InterleavedBytes \in Nat /\ ~ (0 > InterleavedBytes)
  BY OutputAssumption
<1>3. Bytes(StreamText(run, "interleaved")) > InterleavedBytes => StreamText(run, "interleaved") # {}
  BY <1>2, NoBytes, Zenon
<1>4. QED
  BY <1>1, <1>3 DEF Overflowing, Streams

LEMMA PreFilterText ==
  ASSUME NEW run
  PROVE  /\ PreFilter(run) \subseteq Streams
         /\ \A s \in PreFilter(run) : s \notin Overflowing(run) /\ Shell(run)[s] # {}
BY DEF PreFilter, Unkept, Streams

(* Every file that is written has a text; those of the overflow and those   *)
(* the filter wants are all written.                                        *)
LEMMA WrittenText ==
  ASSUME NEW run
  PROVE  /\ Writes(run) \in Seq(Streams)
         /\ run.ends # "no_shell" => ToSet(Writes(run)) = Overflowing(run) \cup PreFilter(run)
         /\ \A s \in ToSet(Writes(run)) : Captured(run, s) # {}
<1> DEFINE out == Overflowing(run)
           pre == PreFilter(run)
           a == Included("stdout", out)
           b == Included("stderr", out)
           i == Included("interleaved", out)
           x == Included("stdout", pre)
           y == Included("interleaved", pre)
<1>1. out \subseteq Streams /\ pre \subseteq {"stdout", "interleaved"}
  BY OverflowingText DEF PreFilter, Unkept
<1>2. \A s \in Streams : \A fs : Included(s, fs) \in Seq(Streams) /\ ToSet(Included(s, fs)) = {s} \cap fs
  BY DEF Included, ToSet
<1>3. /\ a \in Seq(Streams) /\ b \in Seq(Streams) /\ i \in Seq(Streams) /\ x \in Seq(Streams) /\ y \in Seq(Streams)
      /\ ToSet(a) = {"stdout"} \cap out /\ ToSet(b) = {"stderr"} \cap out /\ ToSet(i) = {"interleaved"} \cap out
      /\ ToSet(x) = {"stdout"} \cap pre /\ ToSet(y) = {"interleaved"} \cap pre
  BY <1>2 DEF Streams
<1> HIDE DEF out, pre, a, b, i, x, y
<1>4. /\ a \o b \o i \o x \o y \in Seq(Streams)
      /\ ToSet(a \o b \o i \o x \o y) = ToSet(a) \cup ToSet(b) \cup ToSet(i) \cup ToSet(x) \cup ToSet(y)
  <2> DEFINE ab == a \o b
             abi == ab \o i
             abix == abi \o x
  <2>1. ab \in Seq(Streams) /\ ToSet(ab) = ToSet(a) \cup ToSet(b)
    BY <1>3, ToSetConcat
  <2> HIDE DEF ab
  <2>2. abi \in Seq(Streams) /\ ToSet(abi) = ToSet(ab) \cup ToSet(i)
    BY <1>3, <2>1, ToSetConcat
  <2> HIDE DEF abi
  <2>3. abix \in Seq(Streams) /\ ToSet(abix) = ToSet(abi) \cup ToSet(x)
    BY <1>3, <2>2, ToSetConcat
  <2> HIDE DEF abix
  <2>4. abix \o y \in Seq(Streams) /\ ToSet(abix \o y) = ToSet(abix) \cup ToSet(y)
    BY <1>3, <2>3, ToSetConcat
  <2>5. QED
    BY <2>1, <2>2, <2>3, <2>4 DEF ab, abi, abix
<1>5. ToSet(a \o b \o i \o x \o y) = out \cup pre
  BY <1>1, <1>3, <1>4 DEF Streams
<1>6. Writes(run) = IF run.ends = "no_shell" THEN <<>> ELSE a \o b \o i \o x \o y
  BY DEF Writes, a, b, i, x, y, out, pre
<1>7. \A s \in out \cup pre : Captured(run, s) # {}
  BY OverflowingText, PreFilterText DEF Captured, out, pre
<1>8. ToSet(<<>>) = {} /\ <<>> \in Seq(Streams)
  BY DEF ToSet
<1>9. QED
  BY <1>4, <1>5, <1>6, <1>7, <1>8 DEF out, pre

(* What a call writes depends on its command and the rules.                 *)
LEMMA SameWrites ==
  ASSUME UNCHANGED <<asked, table>>
  PROVE  \A c : /\ Filtering(asked[c])' = Filtering(asked[c])
                /\ PreFilter(asked[c])' = PreFilter(asked[c])
                /\ Writes(asked[c])' = Writes(asked[c])
<1>1. asked' = asked /\ table' = table
  OBVIOUS
<1>2. \A c : Filtering(asked[c])' = Filtering(asked[c])
  BY <1>1 DEF Filtering, FirstMatch
<1>3. \A c : PreFilter(asked[c])' = PreFilter(asked[c])
  BY <1>1, <1>2 DEF PreFilter
<1>4. \A c : Writes(asked[c])' = Writes(asked[c])
  BY <1>1, <1>3 DEF Writes
<1>5. QED
  BY <1>2, <1>3, <1>4

(* What a call answers depends on its command, the rules and what it kept.  *)
LEMMA SameAnswer ==
  ASSUME UNCHANGED <<asked, table>>, NEW c, UNCHANGED calls[c]
  PROVE  AnswerOf(c)' = AnswerOf(c)
<1>1. asked' = asked /\ table' = table /\ calls'[c] = calls[c]
  OBVIOUS
<1>2. Paths(c)' = Paths(c)
  BY <1>1, SameWrites DEF Paths
<1>3. QED
  BY <1>1, <1>2, SameWrites DEF AnswerOf

-----------------------------------------------------------------------------
LEMMA AnswerType ==
  ASSUME NEW c \in DOMAIN asked
  PROVE  NoFile \in Answer /\ (calls[c].kept \subseteq Streams => AnswerOf(c) \in Answer)
<1>1. Paths(c) \subseteq Streams
  BY OverflowingText, PreFilterText DEF Paths
<1>2. QED
  BY <1>1 DEF Answer, AnswerOf

LEMMA SameTypes ==
  ASSUME UNCHANGED <<asked, table>>
  PROVE  CallState' = CallState /\ TempFile' = TempFile /\ SlotFile' = SlotFile
<1>1. asked' = asked /\ table' = table
  OBVIOUS
<1>2. Answer' = Answer
  BY <1>1, SameWrites DEF Answer
<1>3. QED
  BY <1>1, <1>2 DEF CallState, TempFile, SlotFile

LEMMA OutputInitOInv == OutputInit => OInv
<1> SUFFICES ASSUME OutputInit PROVE OInv
  OBVIOUS
<1> USE DEF OutputInit
<1>1. FreshCall \in CallState
  BY DEF FreshCall, CallState, Answer
<1>2. OutputTypeOK
  BY <1>1, FirstPids DEF OutputTypeOK
<1>3. NamesInv
  BY FirstPids DEF NamesInv
<1>4. CallsInv /\ TmpInv /\ KeptInv
  BY DEF CallsInv, CallInv, TmpInv, OwnTmp, KeptInv, FreshCall
<1>5. SlotsInv
  BY DEF SlotsInv
<1>6. QED
  BY <1>2, <1>3, <1>4, <1>5 DEF OInv

LEMMA SameCall ==
  ASSUME UNCHANGED <<asked, table>>, NEW c, CallInv(c), UNCHANGED calls[c]
  PROVE  CallInv(c)'
<1>1. AnswerOf(c)' = AnswerOf(c) /\ Writes(asked[c])' = Writes(asked[c])
  BY SameAnswer, SameWrites
<1>2. asked' = asked /\ calls'[c] = calls[c]
  OBVIOUS
<1>3. QED
  BY <1>1, <1>2 DEF CallInv

(* A step that leaves the files alone and changes one call.                 *)
LEMMA CallStep ==
  ASSUME OInv, NEW c \in DOMAIN asked, NEW call \in CallState,
         calls' = [calls EXCEPT ![c] = call], UNCHANGED <<asked, table, pid, tmpCounter, temps, slots>>,
         callSeq' \in [Servers -> Nat], CallInv(c)',
         call.at = "writing" /\ call.tmp # <<>> => call = calls[c],
         call.kept = calls[c].kept /\ (call.slot = calls[c].slot \/ call.kept = {})
  PROVE  OInv'
<1>1. /\ calls' \in [DOMAIN asked -> CallState] /\ calls'[c] = call
      /\ \A d \in DOMAIN asked : d # c => calls'[d] = calls[d]
  BY DEF OInv, OutputTypeOK
<1>2. OutputTypeOK'
  BY <1>1, SameTypes DEF OInv, OutputTypeOK
<1>3. NamesInv'
  BY DEF OInv, NamesInv
<1>4. CallsInv'
  <2>1. ASSUME NEW d \in DOMAIN asked, d # c PROVE CallInv(d)'
    BY <1>1, <2>1, SameCall DEF OInv, CallsInv
  <2>2. QED
    BY <2>1 DEF CallsInv
<1>5. TmpInv'
  BY <1>1 DEF OInv, TmpInv, OwnTmp
<1>6. SlotsInv' /\ KeptInv'
  BY <1>1 DEF OInv, SlotsInv, KeptInv, Held
<1>7. QED
  BY <1>2, <1>3, <1>4, <1>5, <1>6 DEF OInv

LEMMA ReceiveStep ==
  ASSUME OInv, NEW c \in DOMAIN calls, NEW p \in Servers, Receive(c, p)
  PROVE  OInv'
<1> DEFINE call == [calls[c] EXCEPT !.at = "running", !.by = p, !.slot = callSeq[p]]
<1>1. c \in DOMAIN asked /\ calls[c] \in CallState /\ calls[c].at = "asked"
  BY DEF Receive, OInv, OutputTypeOK
<1>2. calls[c].tmp = <<>> /\ ~ calls[c].filled /\ calls[c].kept = {} /\ calls[c].lost = {}
  BY <1>1 DEF OInv, CallsInv, CallInv
<1>3. /\ call \in CallState /\ call.at = "running" /\ call.by = p /\ call.tmp = <<>>
      /\ ~ call.filled /\ call.kept = {} /\ call.lost = {}
  BY <1>1, <1>2 DEF CallState, OInv, OutputTypeOK
<1>4. calls' = [calls EXCEPT ![c] = call]
  BY DEF Receive
<1> HIDE DEF call
<1>5. calls'[c] = call
  BY <1>1, <1>4 DEF OInv, OutputTypeOK
<1>6. callSeq' \in [Servers -> Nat]
  BY DEF Receive, OInv, OutputTypeOK
<1>7. CallInv(c)'
  BY <1>3, <1>5 DEF CallInv
<1>8. QED
  BY <1>1, <1>2, <1>3, <1>4, <1>6, <1>7, CallStep DEF Receive

LEMMA CollectStep ==
  ASSUME OInv, NEW c \in DOMAIN calls, Collect(c)
  PROVE  OInv'
<1> DEFINE call == [calls[c] EXCEPT !.at = "writing", !.todo = Writes(asked[c])]
<1>1. c \in DOMAIN asked /\ calls[c] \in CallState /\ calls[c].at = "running"
  BY DEF Collect, OInv, OutputTypeOK
<1>2. calls[c].tmp = <<>> /\ ~ calls[c].filled /\ calls[c].kept = {} /\ calls[c].lost = {} /\ calls[c].by \in Servers
  BY <1>1 DEF OInv, CallsInv, CallInv
<1>3. /\ call \in CallState /\ call.at = "writing" /\ call.by = calls[c].by /\ call.tmp = <<>>
      /\ ~ call.filled /\ call.kept = {} /\ call.lost = {} /\ call.todo = Writes(asked[c]) /\ call.slot = calls[c].slot
  BY <1>1, <1>2, WrittenText DEF CallState
<1>4. calls' = [calls EXCEPT ![c] = call]
  BY DEF Collect
<1> HIDE DEF call
<1>5. calls'[c] = call
  BY <1>1, <1>4 DEF OInv, OutputTypeOK
<1>6. callSeq' \in [Servers -> Nat] /\ UNCHANGED <<asked, table>>
  BY DEF Collect, OInv, OutputTypeOK
<1>7. CallInv(c)'
  <2>1. call.kept \cup call.lost \cup ToSet(call.todo) = ToSet(Writes(asked[c]))
    BY <1>3
  <2>2. QED
    BY <1>2, <1>3, <1>5, <1>6, <2>1, SameWrites DEF CallInv
<1>8. QED
  BY <1>1, <1>2, <1>3, <1>4, <1>6, <1>7, CallStep DEF Collect

LEMMA WriteFailsStep ==
  ASSUME OInv, NEW c \in DOMAIN calls, WriteFails(c)
  PROVE  OInv'
<1> DEFINE stream == Head(calls[c].todo)
           call == Written(calls[c], {}, {stream})
<1>1. c \in DOMAIN asked /\ calls[c] \in CallState /\ calls[c].at = "writing" /\ calls[c].todo # <<>>
  BY DEF WriteFails, OInv, OutputTypeOK
<1>2. /\ calls[c].todo \in Seq(Streams) /\ stream \in Streams /\ Tail(calls[c].todo) \in Seq(Streams)
      /\ ToSet(calls[c].todo) = {stream} \cup ToSet(Tail(calls[c].todo))
  <2>1. calls[c].todo \in Seq(Streams)
    BY <1>1 DEF CallState
  <2>2. QED
    BY <1>1, <2>1, ToSetHead
<1>3. /\ call \in CallState /\ call.at = "writing" /\ call.by = calls[c].by /\ call.tmp = <<>> /\ ~ call.filled
      /\ call.kept = calls[c].kept /\ call.lost = calls[c].lost \cup {stream}
      /\ call.todo = Tail(calls[c].todo) /\ call.slot = calls[c].slot
  BY <1>1, <1>2 DEF CallState, Written
<1>4. calls' = [calls EXCEPT ![c] = call]
  BY DEF WriteFails
<1> HIDE DEF call
<1>5. calls'[c] = call
  BY <1>1, <1>4 DEF OInv, OutputTypeOK
<1>6. callSeq' \in [Servers -> Nat] /\ UNCHANGED <<asked, table>>
  BY DEF WriteFails, OInv, OutputTypeOK
<1>7. CallInv(c)'
  <2>1. calls[c].by \in Servers /\
        calls[c].kept \cup calls[c].lost \cup ToSet(calls[c].todo) = ToSet(Writes(asked[c]))
    BY <1>1 DEF CallInv, OInv, CallsInv
  <2>2. call.kept \cup call.lost \cup ToSet(call.todo) = ToSet(Writes(asked[c]))
    BY <1>2, <1>3, <2>1
  <2>3. QED
    BY <1>1, <1>3, <1>5, <1>6, <2>1, <2>2, SameWrites DEF CallInv
<1>8. QED
  BY <1>1, <1>3, <1>4, <1>6, <1>7, CallStep DEF WriteFails

LEMMA ReplyStep ==
  ASSUME OInv, NEW c \in DOMAIN calls, Reply(c)
  PROVE  OInv'
<1> DEFINE call == [calls[c] EXCEPT !.at = "answered", !.answer = AnswerOf(c)]
<1>1. c \in DOMAIN asked /\ calls[c] \in CallState /\ calls[c].at = "writing" /\ calls[c].todo = <<>>
  BY DEF Reply, OInv, OutputTypeOK
<1>2. calls[c].kept \subseteq Streams
  BY <1>1 DEF CallState
<1>3. /\ call \in CallState /\ call.at = "answered" /\ call.by = calls[c].by
      /\ call.kept = calls[c].kept /\ call.lost = calls[c].lost /\ call.answer = AnswerOf(c)
      /\ call.todo = <<>> /\ call.slot = calls[c].slot /\ call.tmp = calls[c].tmp /\ call.filled = calls[c].filled
  BY <1>1, <1>2, AnswerType DEF CallState
<1>4. calls' = [calls EXCEPT ![c] = call]
  BY DEF Reply
<1> HIDE DEF call
<1>5. calls'[c] = call
  BY <1>1, <1>4 DEF OInv, OutputTypeOK
<1>6. callSeq' \in [Servers -> Nat] /\ UNCHANGED <<asked, table>>
  BY DEF Reply, OInv, OutputTypeOK
<1>7. AnswerOf(c)' = AnswerOf(c)
  <2>1. Paths(c)' = Paths(c)
    BY <1>3, <1>5, <1>6, SameWrites DEF Paths
  <2>2. QED
    BY <1>6, <2>1, SameWrites DEF AnswerOf
<1>8. CallInv(c)'
  <2>1. calls[c].by \in Servers /\
        calls[c].kept \cup calls[c].lost \cup ToSet(calls[c].todo) = ToSet(Writes(asked[c]))
        /\ (calls[c].tmp = <<>> => ~ calls[c].filled)
    BY <1>1 DEF CallInv, OInv, CallsInv
  <2>2. call.kept \cup call.lost \cup ToSet(call.todo) = ToSet(Writes(asked[c]))
    BY <1>1, <1>3, <2>1
  <2>3. QED
    BY <1>1, <1>3, <1>5, <1>6, <1>7, <2>1, <2>2, SameWrites DEF CallInv
<1>9. QED
  BY <1>1, <1>3, <1>4, <1>6, <1>8, CallStep DEF Reply

LEMMA OpenTmpStep ==
  ASSUME OInv, NEW c \in DOMAIN calls, OpenTmp(c)
  PROVE  OInv'
<1> DEFINE path == SlotBase(calls[c].slot, Head(calls[c].todo))
           p == calls[c].by
           name == TmpPath(p, path)
           call == [calls[c] EXCEPT !.tmp = name]
           file == [call |-> c, whole |-> FALSE]
<1>1. /\ c \in DOMAIN asked /\ calls[c] \in CallState /\ calls[c].at = "writing"
      /\ calls[c].todo # <<>> /\ calls[c].tmp = <<>>
  BY DEF OpenTmp, OInv, OutputTypeOK
<1>2. p \in Servers /\ ~ calls[c].filled
  BY <1>1 DEF OInv, CallsInv, CallInv
<1>3. path \in Nat \X Streams
  <2>1. calls[c].todo \in Seq(Streams) /\ calls[c].slot \in Nat
    BY <1>1 DEF CallState
  <2>2. Head(calls[c].todo) \in Streams
    BY <1>1, <2>1, ToSetHead
  <2>3. QED
    BY <2>1, <2>2 DEF SlotBase
<1>4. name \in TmpName /\ name[2] = pid[p] /\ name[3] = tmpCounter[p] /\ pid[p] \in Nat /\ tmpCounter[p] \in Nat
  BY <1>2, <1>3 DEF TmpPath, TmpName, OInv, OutputTypeOK
<1>5. name \notin DOMAIN temps
  BY <1>2, <1>4 DEF OInv, NamesInv
<1>6. /\ call \in CallState /\ call.tmp = name /\ call.at = "writing" /\ call.by = p
      /\ call.slot = calls[c].slot /\ call.todo = calls[c].todo /\ call.filled = FALSE
      /\ call.kept = calls[c].kept /\ call.lost = calls[c].lost /\ call.answer = calls[c].answer
  BY <1>1, <1>2, <1>4 DEF CallState
<1>7. /\ temps' = Put(temps, name, file) /\ calls' = [calls EXCEPT ![c] = call]
      /\ tmpCounter' = [tmpCounter EXCEPT ![p] = @ + 1]
      /\ asked' = asked /\ table' = table /\ callSeq' = callSeq /\ pid' = pid /\ slots' = slots
  BY DEF OpenTmp
<1>8. file \in TempFile /\ file.call = c /\ ~ file.whole
  BY <1>1 DEF TempFile
<1>9. name # <<>>
  BY <1>4 DEF TmpName
<1> HIDE DEF path, p, name, call, file
<1>10. /\ calls' \in [DOMAIN asked -> CallState] /\ calls'[c] = call
       /\ \A d \in DOMAIN asked : d # c => calls'[d] = calls[d]
  BY <1>1, <1>6, <1>7 DEF OInv, OutputTypeOK
<1>11. /\ DOMAIN temps' = DOMAIN temps \cup {name} /\ temps'[name] = file
       /\ \A n \in DOMAIN temps : temps'[n] = temps[n]
       /\ temps' = [n \in DOMAIN temps' |-> temps'[n]]
  <2> DEFINE new == Put(temps, name, file)
  <2>1. /\ DOMAIN new = DOMAIN temps \cup {name} /\ new[name] = file
        /\ \A n \in DOMAIN temps : n # name => new[n] = temps[n]
        /\ new = [n \in DOMAIN new |-> new[n]]
    BY DEF Put
  <2>2. temps' = new
    BY <1>7
  <2> HIDE DEF new
  <2>3. QED
    BY <1>5, <2>1, <2>2
<1>12. /\ tmpCounter' \in [Servers -> Nat] /\ tmpCounter'[p] = tmpCounter[p] + 1
       /\ \A q \in Servers : tmpCounter'[q] >= tmpCounter[q]
  BY <1>2, <1>4, <1>7 DEF OInv, OutputTypeOK
<1>13. OutputTypeOK'
  <2>1. temps' \in [DOMAIN temps' -> TempFile] /\ DOMAIN temps' \subseteq TmpName
    BY <1>4, <1>8, <1>11 DEF OInv, OutputTypeOK
  <2>2. QED
    BY <1>7, <1>10, <1>12, <2>1, SameTypes DEF OInv, OutputTypeOK
<1>14. NamesInv'
  <2>1. ASSUME NEW n \in DOMAIN temps' PROVE \E q \in Servers : n[2] <= pid'[q]
    BY <1>2, <1>4, <1>7, <1>11 DEF OInv, NamesInv
  <2>2. ASSUME NEW n \in DOMAIN temps', NEW q \in Servers, n[2] = pid'[q] PROVE n[3] < tmpCounter'[q]
    <3>1. CASE n = name
      <4>1. q = p
        BY <1>2, <1>4, <1>7, <2>2, <3>1 DEF OInv, NamesInv
      <4>2. QED
        BY <1>4, <1>12, <3>1, <4>1
    <3>2. CASE n # name
      <4>1. n \in TmpName /\ n[3] < tmpCounter[q]
        BY <1>7, <1>11, <2>2, <3>2 DEF OInv, NamesInv, OutputTypeOK
      <4>2. n[3] \in Nat /\ tmpCounter[q] \in Nat /\ tmpCounter'[q] \in Nat
        BY <4>1, <1>12 DEF TmpName, OInv, OutputTypeOK
      <4>3. QED
        BY <1>12, <4>1, <4>2
    <3>3. QED
      BY <3>1, <3>2
  <2>3. QED
    BY <1>7, <2>1, <2>2 DEF OInv, NamesInv
<1>15. CallsInv'
  <2>1. ASSUME NEW d \in DOMAIN asked, d # c PROVE CallInv(d)'
    BY <1>7, <1>10, <2>1, SameCall DEF OInv, CallsInv
  <2>2. CallInv(c)'
    BY <1>1, <1>2, <1>6, <1>7, <1>9, <1>10, SameWrites DEF OInv, CallsInv, CallInv
  <2>3. QED
    BY <1>7, <2>1, <2>2 DEF CallsInv
<1>16. TmpInv'
  <2>1. ASSUME NEW d \in DOMAIN asked, d # c PROVE OwnTmp(d)'
    <3>1. calls'[d] = calls[d] /\ OwnTmp(d)
      BY <1>10, <2>1 DEF OInv, TmpInv
    <3>2. QED
      BY <1>7, <1>11, <3>1 DEF OwnTmp
  <2>2. OwnTmp(c)'
    BY <1>1, <1>4, <1>6, <1>7, <1>8, <1>10, <1>11 DEF OwnTmp
  <2>3. QED
    BY <1>7, <2>1, <2>2 DEF TmpInv
<1>17. SlotsInv' /\ KeptInv'
  <2>1. \A d \in DOMAIN asked : calls'[d].kept = calls[d].kept /\ calls'[d].slot = calls[d].slot
    BY <1>6, <1>10
  <2>2. QED
    BY <1>7, <2>1 DEF OInv, SlotsInv, KeptInv, Held
<1>18. QED
  BY <1>13, <1>14, <1>15, <1>16, <1>17 DEF OInv

LEMMA FillTmpStep ==
  ASSUME OInv, NEW c \in DOMAIN calls, FillTmp(c)
  PROVE  OInv'
<1> DEFINE name == calls[c].tmp
           call == [calls[c] EXCEPT !.filled = TRUE]
           file == [call |-> c, whole |-> TRUE]
<1>1. c \in DOMAIN asked /\ calls[c] \in CallState /\ calls[c].at = "writing" /\ name \in DOMAIN temps
  BY DEF FillTmp, OInv, OutputTypeOK
<1>2. name # <<>>
  <2>1. name \in TmpName
    BY <1>1 DEF OInv, OutputTypeOK
  <2>2. QED
    BY <2>1, TmpIsNamed
<1>3. OwnTmp(c)
  BY <1>1 DEF OInv, TmpInv
<1>4. /\ call \in CallState /\ call.tmp = name /\ call.at = "writing" /\ call.by = calls[c].by
      /\ call.slot = calls[c].slot /\ call.todo = calls[c].todo /\ call.filled = TRUE
      /\ call.kept = calls[c].kept /\ call.lost = calls[c].lost /\ call.answer = calls[c].answer
  BY <1>1 DEF CallState
<1>5. /\ temps' = [temps EXCEPT ![name] = file] /\ calls' = [calls EXCEPT ![c] = call]
      /\ asked' = asked /\ table' = table /\ callSeq' = callSeq /\ pid' = pid /\ slots' = slots
      /\ tmpCounter' = tmpCounter
  BY DEF FillTmp
<1>6. file \in TempFile /\ file.call = c /\ file.whole
  BY <1>1 DEF TempFile
<1>7. temps[name].call = c /\ \A d \in DOMAIN asked : d # c /\ OwnTmp(d) /\ calls[d].at = "writing" => calls[d].tmp # name
  BY <1>1, <1>2, <1>3 DEF OwnTmp
<1> HIDE DEF name, call, file
<1>8. /\ calls' \in [DOMAIN asked -> CallState] /\ calls'[c] = call
      /\ \A d \in DOMAIN asked : d # c => calls'[d] = calls[d]
  BY <1>1, <1>4, <1>5 DEF OInv, OutputTypeOK
<1>9. /\ DOMAIN temps' = DOMAIN temps /\ temps'[name] = file
      /\ \A n \in DOMAIN temps : n # name => temps'[n] = temps[n]
      /\ temps' \in [DOMAIN temps -> TempFile]
  BY <1>1, <1>5, <1>6 DEF OInv, OutputTypeOK
<1>10. OutputTypeOK'
  BY <1>5, <1>8, <1>9, SameTypes DEF OInv, OutputTypeOK
<1>11. NamesInv'
  BY <1>5, <1>9 DEF OInv, NamesInv
<1>12. CallsInv'
  <2>1. ASSUME NEW d \in DOMAIN asked, d # c PROVE CallInv(d)'
    BY <1>5, <1>8, <2>1, SameCall DEF OInv, CallsInv
  <2>2. CallInv(c)'
    BY <1>1, <1>2, <1>4, <1>5, <1>8, SameWrites DEF OInv, CallsInv, CallInv
  <2>3. QED
    BY <1>5, <2>1, <2>2 DEF CallsInv
<1>13. TmpInv'
  <2>1. ASSUME NEW d \in DOMAIN asked, d # c PROVE OwnTmp(d)'
    <3>1. calls'[d] = calls[d] /\ OwnTmp(d)
      BY <1>8, <2>1 DEF OInv, TmpInv
    <3>2. QED
      BY <1>5, <1>7, <1>9, <2>1, <3>1 DEF OwnTmp
  <2>2. OwnTmp(c)'
    <3>1. calls[c].todo # <<>> /\ name[2] = pid[calls[c].by]
      BY <1>1, <1>2, <1>3 DEF OwnTmp, name
    <3>2. QED
      BY <1>1, <1>4, <1>5, <1>6, <1>8, <1>9, <3>1 DEF OwnTmp
  <2>3. QED
    BY <1>5, <2>1, <2>2 DEF TmpInv
<1>14. SlotsInv' /\ KeptInv'
  <2>1. \A d \in DOMAIN asked : calls'[d].kept = calls[d].kept /\ calls'[d].slot = calls[d].slot
    BY <1>4, <1>8
  <2>2. QED
    BY <1>5, <2>1 DEF OInv, SlotsInv, KeptInv, Held
<1>15. QED
  BY <1>10, <1>11, <1>12, <1>13, <1>14 DEF OInv

LEMMA RenameTmpStep ==
  ASSUME OInv, NEW c \in DOMAIN calls, RenameTmp(c)
  PROVE  OInv'
<1> DEFINE name == calls[c].tmp
           stream == Head(calls[c].todo)
           path == SlotBase(calls[c].slot, stream)
           old == Capture(path)
           over == IF old = NoFile THEN {} ELSE old.over \cup {old.call}
           file == [call |-> temps[name].call, whole |-> temps[name].whole, over |-> over,
                    text |-> Captured(asked[temps[name].call], stream)]
           call == Written(calls[c], {stream}, {})
<1>1. /\ c \in DOMAIN asked /\ calls[c] \in CallState /\ calls[c].at = "writing" /\ calls[c].filled
      /\ name \in DOMAIN temps /\ name # <<>>
  BY TmpIsNamed DEF RenameTmp, OInv, OutputTypeOK
<1>2. calls[c].todo # <<>> /\ temps[name].call = c /\ temps[name].whole
  BY <1>1 DEF OInv, TmpInv, OwnTmp
<1>3. /\ stream \in Streams /\ Tail(calls[c].todo) \in Seq(Streams)
      /\ ToSet(calls[c].todo) = {stream} \cup ToSet(Tail(calls[c].todo))
  <2>1. calls[c].todo \in Seq(Streams)
    BY <1>1 DEF CallState
  <2>2. QED
    BY <1>2, <2>1, ToSetHead
<1>4. /\ calls[c].by \in Servers
      /\ calls[c].kept \cup calls[c].lost \cup ToSet(calls[c].todo) = ToSet(Writes(asked[c]))
  BY <1>1 DEF CallInv, OInv, CallsInv
<1>5. /\ call \in CallState /\ call.at = "writing" /\ call.by = calls[c].by /\ call.tmp = <<>>
      /\ ~ call.filled /\ call.kept = calls[c].kept \cup {stream} /\ call.lost = calls[c].lost
      /\ call.todo = Tail(calls[c].todo) /\ call.slot = calls[c].slot
  BY <1>1, <1>3 DEF CallState, Written
<1>6. path \in Nat \X Streams
  BY <1>1, <1>3 DEF SlotBase, CallState
<1>7. over \subseteq DOMAIN asked /\ (path \in DOMAIN slots => over = slots[path].over \cup {slots[path].call})
  <2>1. CASE path \in DOMAIN slots
    <3>1. old = slots[path] /\ slots[path] \in SlotFile
      BY <2>1 DEF Capture, OInv, OutputTypeOK
    <3>2. slots[path] # NoFile
      BY <3>1 DEF SlotFile, NoFile
    <3>3. QED
      BY <3>1, <3>2 DEF SlotFile
  <2>2. CASE path \notin DOMAIN slots
    BY <2>2 DEF Capture
  <2>3. QED
    BY <2>1, <2>2
<1>8. /\ file \in SlotFile /\ file.call = c /\ file.whole /\ file.text # {} /\ file.over = over
  <2>1. Captured(asked[c], stream) # {}
    BY <1>3, <1>4, WrittenText
  <2>2. QED
    BY <1>1, <1>2, <1>3, <1>7, <2>1 DEF SlotFile
<1>9. /\ slots' = Put(slots, path, file) /\ calls' = [calls EXCEPT ![c] = call]
      /\ temps' = Restrict(temps, DOMAIN temps \ {name})
      /\ asked' = asked /\ table' = table /\ callSeq' = callSeq /\ pid' = pid /\ tmpCounter' = tmpCounter
  BY DEF RenameTmp
<1>10. \A d \in DOMAIN asked : d # c /\ OwnTmp(d) /\ calls[d].at = "writing" => calls[d].tmp # name
  BY <1>1, <1>2 DEF OwnTmp
<1> HIDE DEF name, stream, path, over, file, call
<1>11. /\ calls' \in [DOMAIN asked -> CallState] /\ calls'[c] = call
       /\ \A d \in DOMAIN asked : d # c => calls'[d] = calls[d]
  BY <1>1, <1>5, <1>9 DEF OInv, OutputTypeOK
<1>12. /\ DOMAIN temps' = DOMAIN temps \ {name}
       /\ \A n \in DOMAIN temps' : temps'[n] = temps[n]
       /\ temps' = [n \in DOMAIN temps' |-> temps'[n]]
  BY <1>9 DEF Restrict
<1>13. /\ DOMAIN slots' = DOMAIN slots \cup {path} /\ slots'[path] = file
       /\ \A n \in DOMAIN slots : n # path => slots'[n] = slots[n]
       /\ slots' = [n \in DOMAIN slots' |-> slots'[n]]
  <2> DEFINE new == Put(slots, path, file)
  <2>1. /\ DOMAIN new = DOMAIN slots \cup {path} /\ new[path] = file
        /\ \A n \in DOMAIN slots : n # path => new[n] = slots[n]
        /\ new = [n \in DOMAIN new |-> new[n]]
    BY DEF Put
  <2>2. slots' = new
    BY <1>9
  <2> HIDE DEF new
  <2>3. QED
    BY <2>1, <2>2
<1>14. OutputTypeOK'
  <2>1. temps' \in [DOMAIN temps' -> TempFile] /\ DOMAIN temps' \subseteq TmpName
    BY <1>12 DEF OInv, OutputTypeOK
  <2>2. slots' \in [DOMAIN slots' -> SlotFile] /\ DOMAIN slots' \subseteq Nat \X Streams
    BY <1>6, <1>8, <1>13 DEF OInv, OutputTypeOK
  <2>3. QED
    BY <1>9, <1>11, <2>1, <2>2, SameTypes DEF OInv, OutputTypeOK
<1>15. NamesInv'
  BY <1>9, <1>12 DEF OInv, NamesInv
<1>16. CallsInv'
  <2>1. ASSUME NEW d \in DOMAIN asked, d # c PROVE CallInv(d)'
    BY <1>9, <1>11, <2>1, SameCall DEF OInv, CallsInv
  <2>2. call.kept \cup call.lost \cup ToSet(call.todo) = ToSet(Writes(asked[c]))
    BY <1>3, <1>4, <1>5
  <2>3. CallInv(c)'
    BY <1>4, <1>5, <1>9, <1>11, <2>2, SameWrites DEF CallInv
  <2>4. QED
    BY <1>9, <2>1, <2>3 DEF CallsInv
<1>17. TmpInv'
  <2>1. ASSUME NEW d \in DOMAIN asked, d # c PROVE OwnTmp(d)'
    <3>1. calls'[d] = calls[d] /\ OwnTmp(d)
      BY <1>11, <2>1 DEF OInv, TmpInv
    <3>2. SUFFICES ASSUME calls[d].at = "writing", calls[d].tmp # <<>>
                   PROVE  OwnTmp(d)'
      BY <3>1 DEF OwnTmp
    <3>3. /\ calls[d].tmp # name /\ calls[d].tmp \in DOMAIN temps /\ calls[d].todo # <<>>
          /\ calls[d].tmp[2] = pid[calls[d].by] /\ temps[calls[d].tmp].call = d
          /\ calls[d].filled => temps[calls[d].tmp].whole
      BY <1>10, <2>1, <3>1, <3>2 DEF OwnTmp
    <3>4. calls[d].tmp \in DOMAIN temps' /\ temps'[calls[d].tmp] = temps[calls[d].tmp]
      BY <1>12, <3>3
    <3>5. QED
      BY <1>9, <3>1, <3>3, <3>4 DEF OwnTmp
  <2>2. OwnTmp(c)'
    BY <1>5, <1>11 DEF OwnTmp
  <2>3. QED
    BY <1>9, <2>1, <2>2 DEF TmpInv
<1>18. SlotsInv'
  BY <1>8, <1>13 DEF OInv, SlotsInv
<1>19. KeptInv'
  <2>1. ASSUME NEW d \in DOMAIN asked, NEW q, Held(d, q)
        PROVE  q \in DOMAIN slots' /\ (slots'[q].call = d \/ d \in slots'[q].over)
    <3>1. CASE q = path
      BY <1>7, <1>8, <1>13, <2>1, <3>1 DEF Held
    <3>2. CASE q # path
      BY <1>13, <2>1, <3>2 DEF Held
    <3>3. QED
      BY <3>1, <3>2
  <2>2. path \in DOMAIN slots' /\ slots'[path].call = c
    BY <1>8, <1>13
  <2>3. ASSUME NEW d \in DOMAIN asked, NEW s \in calls'[d].kept
        PROVE  LET q == SlotBase(calls'[d].slot, s)
               IN  q \in DOMAIN slots' /\ (slots'[q].call = d \/ d \in slots'[q].over)
    <3>1. calls'[d].slot = calls[d].slot
      BY <1>5, <1>11
    <3>2. CASE s \in calls[d].kept
      <4>1. Held(d, SlotBase(calls[d].slot, s))
        BY <3>2 DEF OInv, KeptInv
      <4>2. QED
        BY <2>1, <3>1, <4>1
    <3>3. CASE d = c /\ s = stream
      BY <2>2, <3>1, <3>3 DEF path
    <3>4. QED
      BY <1>5, <1>11, <3>2, <3>3
  <2>4. QED
    BY <1>9, <2>3 DEF KeptInv, Held, SlotBase
<1>20. QED
  BY <1>14, <1>15, <1>16, <1>17, <1>18, <1>19 DEF OInv

LEMMA StartSessionStep ==
  ASSUME OInv, NEW p \in Servers, StartSession(p)
  PROVE  OInv'
<1>1. /\ asked' = asked /\ table' = table /\ calls' = calls /\ pid' = pid
      /\ tmpCounter' = tmpCounter /\ temps' = temps /\ slots' = slots
  BY DEF StartSession
<1>2. callSeq' \in [Servers -> Nat]
  BY DEF StartSession, OInv, OutputTypeOK
<1>3. OutputTypeOK' /\ NamesInv' /\ TmpInv' /\ SlotsInv' /\ KeptInv'
  BY <1>1, <1>2, SameTypes DEF OInv, OutputTypeOK, NamesInv, TmpInv, OwnTmp, SlotsInv, KeptInv, Held
<1>4. CallsInv'
  BY <1>1, SameCall DEF OInv, CallsInv
<1>5. QED
  BY <1>3, <1>4 DEF OInv

LEMMA StutterStep ==
  ASSUME OInv, UNCHANGED outputVars
  PROVE  OInv'
<1>1. /\ asked' = asked /\ table' = table /\ calls' = calls /\ pid' = pid /\ callSeq' = callSeq
      /\ tmpCounter' = tmpCounter /\ temps' = temps /\ slots' = slots
  BY DEF outputVars
<1>2. OutputTypeOK' /\ NamesInv' /\ TmpInv' /\ SlotsInv' /\ KeptInv'
  BY <1>1, SameTypes DEF OInv, OutputTypeOK, NamesInv, TmpInv, OwnTmp, SlotsInv, KeptInv, Held
<1>3. CallsInv'
  BY <1>1, SameCall DEF OInv, CallsInv
<1>4. QED
  BY <1>2, <1>3 DEF OInv

(* A new process has an id above those of all that run, so none of the      *)
(* temporary files left behind has it.                                      *)
LEMMA ServerRestartStep ==
  ASSUME OInv, NEW p \in Servers, ServerRestart(p)
  PROVE  OInv'
<1> DEFINE pids == {pid[q] : q \in Servers}
           new == Max(pids) + 1
           stopped(c) == Busy(c) /\ calls[c].by = p
<1>1. \A q \in Servers : pid[q] \in Nat
  BY DEF OInv, OutputTypeOK
<1>2. new \in Nat /\ \A q \in Servers : pid[q] < new
  <2>1. pids \in SUBSET Nat /\ pids # {} /\ PidBound \in Nat /\ \A x \in pids : x <= PidBound
    BY <1>1, OutputAssumption DEF ServerRestart
  <2> HIDE DEF pids
  <2>2. Max(pids) \in pids /\ \A x \in pids : x <= Max(pids)
    BY <2>1, GreatestNat
  <2> DEFINE top == Max(pids)
  <2>3. new = top + 1 /\ top \in pids /\ \A q \in Servers : pid[q] <= top
    BY <2>2 DEF pids
  <2> HIDE DEF top, new
  <2>4. top \in Nat
    BY <2>1, <2>3
  <2>5. QED
    BY <1>1, <2>3, <2>4
<1>3. /\ pid' = [pid EXCEPT ![p] = new] /\ callSeq' = [callSeq EXCEPT ![p] = 0]
      /\ tmpCounter' = [tmpCounter EXCEPT ![p] = 0]
      /\ calls' = [c \in DOMAIN calls |->
                     IF stopped(c) THEN [calls[c] EXCEPT !.at = "gone"] ELSE calls[c]]
      /\ asked' = asked /\ table' = table /\ temps' = temps /\ slots' = slots
  BY DEF ServerRestart
<1> HIDE DEF new, pids
<1>4. /\ pid' \in [Servers -> Nat] /\ callSeq' \in [Servers -> Nat] /\ tmpCounter' \in [Servers -> Nat]
      /\ pid'[p] = new /\ \A q \in Servers : q # p => pid'[q] = pid[q] /\ tmpCounter'[q] = tmpCounter[q]
  BY <1>2, <1>3 DEF OInv, OutputTypeOK
<1>5. /\ calls' \in [DOMAIN asked -> CallState]
      /\ \A c \in DOMAIN asked : IF stopped(c) THEN calls'[c] = [calls[c] EXCEPT !.at = "gone"]
                                                ELSE calls'[c] = calls[c]
  <2>1. DOMAIN calls = DOMAIN asked /\ \A c \in DOMAIN asked : calls[c] \in CallState
    BY DEF OInv, OutputTypeOK
  <2>2. \A c \in DOMAIN asked : [calls[c] EXCEPT !.at = "gone"] \in CallState
    BY <2>1 DEF CallState
  <2>3. \A c \in DOMAIN asked : calls'[c] = IF stopped(c) THEN [calls[c] EXCEPT !.at = "gone"] ELSE calls[c]
    BY <1>3, <2>1
  <2>4. calls' \in [DOMAIN asked -> CallState]
    <3>1. \A c \in DOMAIN asked : calls'[c] \in CallState
      BY <2>1, <2>2, <2>3
    <3>2. calls' = [c \in DOMAIN asked |-> calls'[c]]
      BY <1>3, <2>1
    <3>3. QED
      BY <3>1, <3>2
  <2>5. QED
    BY <2>3, <2>4
<1>6. ASSUME NEW c \in DOMAIN asked, stopped(c)
      PROVE  /\ calls'[c].at = "gone" /\ calls'[c].by = calls[c].by /\ calls'[c].slot = calls[c].slot
             /\ calls'[c].tmp = calls[c].tmp /\ calls'[c].filled = calls[c].filled
             /\ calls'[c].kept = calls[c].kept
  <2>1. calls[c] \in CallState
    BY DEF OInv, OutputTypeOK
  <2>2. calls'[c] = [calls[c] EXCEPT !.at = "gone"]
    BY <1>5, <1>6
  <2>3. QED
    BY <2>1, <2>2 DEF CallState
<1>7. OutputTypeOK'
  BY <1>3, <1>4, <1>5, SameTypes DEF OInv, OutputTypeOK
<1>8. NamesInv'
  <2>1. ASSUME NEW n \in DOMAIN temps
        PROVE  \E q \in Servers : n[2] <= pid'[q]
    <3>1. PICK q \in Servers : n[2] <= pid[q]
      BY DEF OInv, NamesInv
    <3>2. n[2] \in Nat
      BY DEF OInv, OutputTypeOK, TmpName
    <3>3. CASE q = p
      BY <1>1, <1>2, <1>4, <3>1, <3>2, <3>3
    <3>4. CASE q # p
      BY <1>4, <3>1, <3>4
    <3>5. QED
      BY <3>3, <3>4
  <2>2. ASSUME NEW n \in DOMAIN temps, NEW q \in Servers, n[2] = pid'[q]
        PROVE  n[3] < tmpCounter'[q]
    <3>1. PICK r \in Servers : n[2] <= pid[r]
      BY DEF OInv, NamesInv
    <3>2. n[2] \in Nat /\ n[2] < new
      <4>1. n[2] \in Nat
        BY DEF OInv, OutputTypeOK, TmpName
      <4>2. QED
        BY <1>1, <1>2, <3>1, <4>1
    <3>3. q # p
      BY <1>2, <1>4, <2>2, <3>2
    <3>4. QED
      BY <1>4, <2>2, <3>3 DEF OInv, NamesInv
  <2>3. \A q, r \in Servers : pid'[q] = pid'[r] => q = r
    <3>1. \A q \in Servers : pid[q] # new
      BY <1>1, <1>2
    <3>2. QED
      BY <1>4, <3>1 DEF OInv, NamesInv
  <2>4. QED
    BY <1>3, <2>1, <2>2, <2>3 DEF NamesInv
<1>9. CallsInv'
  <2>1. ASSUME NEW c \in DOMAIN asked PROVE CallInv(c)'
    <3>1. CASE stopped(c)
      <4>1. calls[c].by \in Servers /\ (calls[c].tmp = <<>> => ~ calls[c].filled)
        BY <3>1 DEF OInv, CallsInv, CallInv, Busy
      <4>2. QED
        BY <1>6, <3>1, <4>1 DEF CallInv
    <3>2. CASE ~ stopped(c)
      BY <1>3, <1>5, <3>2, SameCall DEF OInv, CallsInv
    <3>3. QED
      BY <3>1, <3>2
  <2>2. QED
    BY <1>3, <2>1 DEF CallsInv
<1>10. TmpInv'
  <2>1. ASSUME NEW c \in DOMAIN asked PROVE OwnTmp(c)'
    <3>1. CASE stopped(c)
      BY <1>6, <3>1 DEF OwnTmp
    <3>2. CASE ~ stopped(c)
      <4>1. calls'[c] = calls[c] /\ OwnTmp(c)
        BY <1>5, <3>2 DEF OInv, TmpInv
      <4>2. calls[c].at = "writing" => calls[c].by \in Servers /\ calls[c].by # p
        BY <3>2 DEF Busy, OInv, CallsInv, CallInv
      <4>3. QED
        BY <1>3, <1>4, <4>1, <4>2 DEF OwnTmp
    <3>3. QED
      BY <3>1, <3>2
  <2>2. QED
    BY <1>3, <2>1 DEF TmpInv
<1>11. SlotsInv' /\ KeptInv'
  <2>1. \A c \in DOMAIN asked : calls'[c].kept = calls[c].kept /\ calls'[c].slot = calls[c].slot
    BY <1>5, <1>6
  <2>2. QED
    BY <1>3, <2>1 DEF OInv, SlotsInv, KeptInv, Held
<1>12. QED
  BY <1>7, <1>8, <1>9, <1>10, <1>11 DEF OInv

LEMMA OutputStepOInv == OInv /\ [OutputNext]_outputVars => OInv'
<1> SUFFICES ASSUME OInv, [OutputNext]_outputVars PROVE OInv'
  OBVIOUS
<1>1. ASSUME NEW c \in DOMAIN calls, NEW p \in Servers, Receive(c, p) PROVE OInv'
  BY <1>1, ReceiveStep
<1>2. ASSUME NEW c \in DOMAIN calls, Collect(c) PROVE OInv'
  BY <1>2, CollectStep
<1>3. ASSUME NEW c \in DOMAIN calls, OpenTmp(c) PROVE OInv'
  BY <1>3, OpenTmpStep
<1>4. ASSUME NEW c \in DOMAIN calls, FillTmp(c) PROVE OInv'
  BY <1>4, FillTmpStep
<1>5. ASSUME NEW c \in DOMAIN calls, RenameTmp(c) PROVE OInv'
  BY <1>5, RenameTmpStep
<1>6. ASSUME NEW c \in DOMAIN calls, WriteFails(c) PROVE OInv'
  BY <1>6, WriteFailsStep
<1>7. ASSUME NEW c \in DOMAIN calls, Reply(c) PROVE OInv'
  BY <1>7, ReplyStep
<1>8. ASSUME NEW p \in Servers, StartSession(p) PROVE OInv'
  BY <1>8, StartSessionStep
<1>9. ASSUME NEW p \in Servers, ServerRestart(p) PROVE OInv'
  BY <1>9, ServerRestartStep
<1>10. CASE UNCHANGED outputVars
  BY <1>10, StutterStep
<1>11. QED
  BY <1>1, <1>2, <1>3, <1>4, <1>5, <1>6, <1>7, <1>8, <1>9, <1>10 DEF OutputNext

-----------------------------------------------------------------------------
(* However the writes of the processes and sessions that share a slot       *)
(* interleave, and wherever a process stops or a write fails, the slot file *)
(* that is read is what one call wrote, whole (atomic_write and its names). *)
THEOREM OutputCapturesWhole == OutputSpec => []CapturesWhole
<1>1. OInv => CapturesWhole
  <2> SUFFICES ASSUME OInv, NEW path \in DOMAIN slots PROVE ReadOverflow(path[1], path[2]).whole
    BY DEF CapturesWhole
  <2>1. path = SlotBase(path[1], path[2])
    BY DEF SlotBase, OInv, OutputTypeOK
  <2>2. slots[path].whole /\ slots[path].text # {} /\ slots[path] \in SlotFile
    BY DEF OInv, OutputTypeOK, SlotsInv
  <2>3. slots[path] # NoFile
    BY <2>2 DEF SlotFile, NoFile
  <2>4. QED
    BY <2>1, <2>2, <2>3 DEF ReadOverflow, Capture
<1>2. QED
  BY <1>1, OutputInitOInv, OutputStepOInv, PTL DEF OutputSpec

(* A link of an answer leads to what the call captured or to what a later   *)
(* call put in its place: every stream that an answer links to was to be    *)
(* written, and was kept unless its write failed (handle_output_persist,    *)
(* persist_pre_filter).                                                     *)
THEOREM OutputLinksHold == OutputSpec => []LinksHold
<1>1. OInv => LinksHold
  <2> SUFFICES ASSUME OInv, NEW c \in EndedCalls,
                      NEW s \in calls[c].answer.links \ (calls[c].lost \cap Overflowing(asked[c]))
               PROVE  LET file == ReadOverflow(calls[c].slot, s)
                      IN  file # NoFile /\ (file.call = c \/ c \in file.over)
    BY DEF LinksHold
  <2>1. c \in DOMAIN asked /\ calls[c].at = "answered"
    BY DEF EndedCalls, OInv, OutputTypeOK
  <2>2. /\ calls[c].answer = AnswerOf(c) /\ calls[c].todo = <<>>
        /\ calls[c].kept \cup calls[c].lost \cup ToSet(calls[c].todo) = ToSet(Writes(asked[c]))
    BY <2>1 DEF OInv, CallsInv, CallInv
  <2>3. asked[c].ends # "no_shell" /\ s \in Paths(c)
    BY <2>2 DEF AnswerOf, AnswerWith
  <2>4. calls[c].kept \cup calls[c].lost = Overflowing(asked[c]) \cup PreFilter(asked[c])
    <3>1. ToSet(<<>>) = {}
      BY DEF ToSet
    <3>2. QED
      BY <2>2, <2>3, <3>1, WrittenText
  <2>5. s \in calls[c].kept
    BY <2>3, <2>4 DEF Paths
  <2> DEFINE path == SlotBase(calls[c].slot, s)
  <2>6. Held(c, path)
    BY <2>1, <2>5 DEF OInv, KeptInv
  <2> HIDE DEF path
  <2>7. slots[path].text # {} /\ slots[path] \in SlotFile /\ path \in DOMAIN slots
    BY <2>6 DEF Held, OInv, OutputTypeOK, SlotsInv
  <2>8. slots[path] # NoFile
    BY <2>7 DEF SlotFile, NoFile
  <2>9. ReadOverflow(calls[c].slot, s) = slots[path]
    BY <2>7, <2>8 DEF ReadOverflow, Capture, path
  <2>10. QED
    BY <2>6, <2>8, <2>9 DEF Held
<1>2. QED
  BY <1>1, OutputInitOInv, OutputStepOInv, PTL DEF OutputSpec

-----------------------------------------------------------------------------
(* The bytes of texts.                                                     *)

IsText(text) == IsFiniteSet(text) /\ \A line \in text : line.id \in Nat /\ line.len \in Nat

Cells(text) == UNION {{line.id} \X (1..line.len) : line \in text}

LEMMA TextBytes ==
  ASSUME NEW text, IsText(text)
  PROVE  IsFiniteSet(Cells(text)) /\ Bytes(text) = Cardinality(Cells(text)) /\ Bytes(text) \in Nat
<1> DEFINE f == [line \in text |-> {line.id} \X (1..line.len)]
           rows == {{line.id} \X (1..line.len) : line \in text}
<1>1. f \in Surjection(text, rows)
  BY DEF Surjection
<1>2. IsFiniteSet(rows)
  <2> HIDE DEF f, rows
  <2>1. QED
    BY <1>1, FS_Surjection DEF IsText
<1>3. \A line \in text : IsFiniteSet({line.id} \X (1..line.len))
  <2> SUFFICES ASSUME NEW line \in text PROVE IsFiniteSet({line.id} \X (1..line.len))
    OBVIOUS
  <2>1. 1 \in Int /\ line.len \in Int
    BY DEF IsText
  <2>2. IsFiniteSet(1..line.len)
    BY <2>1, FS_Interval
  <2>3. IsFiniteSet({line.id})
    BY FS_Singleton
  <2>4. QED
    BY <2>2, <2>3, FS_Product
<1>4. \A row \in rows : IsFiniteSet(row)
  BY <1>3
<1>5. IsFiniteSet(UNION rows)
  <2> HIDE DEF rows
  <2>1. QED
    BY <1>2, <1>4, FS_UNION
<1>6. QED
  BY <1>5, FS_CardinalityType DEF Cells, Bytes

LEMMA PartBytes ==
  ASSUME NEW text, IsText(text), NEW part \in SUBSET text
  PROVE  IsText(part) /\ Bytes(part) <= Bytes(text)
<1>1. IsText(part)
  BY FS_Subset DEF IsText
<1>2. Cells(part) \in SUBSET Cells(text)
  BY DEF Cells
<1>3. QED
  BY <1>1, <1>2, TextBytes, FS_Subset

LEMMA SumBytes ==
  ASSUME NEW a, NEW b, IsText(a), IsText(b), \A k \in a, l \in b : k.id # l.id
  PROVE  Bytes(a \cup b) = Bytes(a) + Bytes(b)
<1>1. Cells(a \cup b) = Cells(a) \cup Cells(b) /\ Cells(a) \cap Cells(b) = {}
  BY DEF Cells
<1>2. IsText(a \cup b)
  BY FS_Union DEF IsText
<1>3. Cardinality(Cells(a) \cup Cells(b)) = Cardinality(Cells(a)) + Cardinality(Cells(b)) - 0
  BY <1>1, TextBytes, FS_Union, FS_EmptySet
<1>4. /\ Bytes(a \cup b) = Cardinality(Cells(a \cup b)) /\ Bytes(a) = Cardinality(Cells(a))
      /\ Bytes(b) = Cardinality(Cells(b)) /\ Bytes(a) \in Nat /\ Bytes(b) \in Nat
  BY <1>2, TextBytes
<1>5. Cardinality(Cells(a \cup b)) = Cardinality(Cells(a) \cup Cells(b))
  BY <1>1
<1>6. QED
  BY <1>3, <1>4, <1>5

(* A stream of which a line was dropped is full.                            *)
LEMMA DroppedFull ==
  ASSUME NEW text, IsText(text), NEW limit \in Nat, NEW line \in text \ FirstBytes(text, limit)
  PROVE  Bytes(FirstBytes(text, limit)) >= limit
<1> DEFINE remaining == FirstBytes(text, limit)
           ids == {l.id : l \in text \ remaining}
<1>1. ids \in SUBSET Nat /\ ids # {}
  BY DEF IsText
<1>2. PICK m \in ids : \A n \in ids : m <= n
  <2> HIDE DEF ids
  <2>1. QED
    BY <1>1, LeastNat
<1>3. PICK first \in text \ remaining : first.id = m
  OBVIOUS
<1>4. \A l \in text : l.id \in Nat /\ (l.id < first.id => l \in remaining)
  BY <1>2, <1>3 DEF IsText
<1>5. Ahead(text, first) \in SUBSET remaining /\ remaining \in SUBSET text
  BY <1>4 DEF Ahead, FirstBytes
<1>6. IsText(remaining) /\ IsText(Ahead(text, first))
  BY <1>5, PartBytes DEF Ahead
<1>7. Bytes(Ahead(text, first)) <= Bytes(remaining) /\ Bytes(remaining) \in Nat /\ Bytes(Ahead(text, first)) \in Nat
  BY <1>5, <1>6, PartBytes, TextBytes
<1>8. ~ (Bytes(Ahead(text, first)) < limit)
  BY <1>3 DEF FirstBytes
<1>9. QED
  BY <1>7, <1>8

-----------------------------------------------------------------------------
(* Where the lines of a command are.                                       *)

OutputLine == [err : BOOLEAN, len : Nat, noise : BOOLEAN]

LineOf(run, i) == [id |-> i, len |-> run.lines[i].len, noise |-> run.lines[i].noise]

OfStream(run, s) == {line \in Printed(run) : run.lines[line.id].err = (s = "stderr")}

LEMMA PrintedText ==
  ASSUME NEW run, run.lines \in Seq(OutputLine)
  PROVE  /\ IsText(Printed(run)) /\ DOMAIN run.lines = 1..Len(run.lines)
         /\ \A i \in DOMAIN run.lines : LineOf(run, i) \in Printed(run) /\ run.lines[i].err \in BOOLEAN
         /\ \A line \in Printed(run) : line.id \in DOMAIN run.lines /\ line = LineOf(run, line.id)
<1> DEFINE n == Len(run.lines)
           f == [i \in 1..n |-> LineOf(run, i)]
<1>1. n \in Nat /\ DOMAIN run.lines = 1..n /\ \A i \in 1..n : run.lines[i] \in OutputLine
  OBVIOUS
<1>2. f \in Surjection(1..n, Printed(run))
  BY <1>1 DEF Surjection, Printed, LineOf
<1>3. 1 \in Int /\ n \in Int
  BY <1>1
<1> HIDE DEF f, n
<1>4. IsFiniteSet(Printed(run))
  BY <1>2, <1>3, FS_Interval, FS_Surjection
<1>5. /\ \A i \in DOMAIN run.lines : LineOf(run, i) \in Printed(run) /\ run.lines[i].err \in BOOLEAN
      /\ \A line \in Printed(run) : /\ line.id \in DOMAIN run.lines /\ line = LineOf(run, line.id)
                                     /\ line.id \in Nat /\ line.len \in Nat
  BY <1>1 DEF Printed, LineOf, OutputLine
<1>6. QED
  BY <1>1, <1>4, <1>5 DEF IsText, n

(* A stream is as it was printed, or full.                                  *)
LEMMA StreamFull ==
  ASSUME NEW run, run.lines \in Seq(OutputLine)
  PROVE  /\ \/ StreamText(run, "interleaved") = Printed(run)
            \/ Bytes(StreamText(run, "interleaved")) >= 2 * StreamBytes
         /\ \A s \in {"stdout", "stderr"} :
              /\ StreamText(run, s) \subseteq OfStream(run, s)
              /\ StreamText(run, s) = OfStream(run, s) \/ Bytes(StreamText(run, s)) >= StreamBytes
<1>1. IsText(Printed(run)) /\ StreamBytes \in Nat /\ 2 * StreamBytes \in Nat
  BY PrintedText, OutputAssumption
<1>2. \A text, limit : FirstBytes(text, limit) \subseteq text
  BY DEF FirstBytes
<1>3. ASSUME NEW text, IsText(text), NEW limit \in Nat
      PROVE  FirstBytes(text, limit) = text \/ Bytes(FirstBytes(text, limit)) >= limit
  <2>1. CASE FirstBytes(text, limit) = text
    BY <2>1
  <2>2. CASE FirstBytes(text, limit) # text
    <3>1. PICK line : line \in text \ FirstBytes(text, limit)
      BY <2>2, <1>2
    <3>2. QED
      BY <1>3, <3>1, DroppedFull
  <2>3. QED
    BY <2>1, <2>2
<1>4. \A s : IsText(OfStream(run, s))
  BY <1>1, PartBytes DEF OfStream
<1>5. /\ StreamText(run, "interleaved") = FirstBytes(Printed(run), 2 * StreamBytes)
      /\ \A s \in {"stdout", "stderr"} : StreamText(run, s) = FirstBytes(OfStream(run, s), StreamBytes)
  BY DEF StreamText, OfStream
<1>6. QED
  BY <1>1, <1>2, <1>3, <1>4, <1>5

(* A line that a stream has and the interleaved text has not is in a stream *)
(* that is kept in a file: the other one has no room.                       *)
LEMMA StreamKept ==
  ASSUME NEW run, run.lines \in Seq(OutputLine), NEW s \in {"stdout", "stderr"},
         NEW line \in StreamText(run, s), line \notin StreamText(run, "interleaved")
  PROVE  s \in Overflowing(run)
<1> DEFINE other == IF s = "stdout" THEN "stderr" ELSE "stdout"
           all == Printed(run)
           own == Ahead(OfStream(run, s), line)
           rest == Ahead(OfStream(run, other), line)
<1>1. IsText(all) /\ StreamBytes \in Nat /\ StdoutBytes \in Nat /\ StderrBytes \in Nat
      /\ StdoutBytes < StreamBytes /\ StderrBytes < StreamBytes
  BY PrintedText, OutputAssumption
<1>2. other \in {"stdout", "stderr"} /\ s # other
  OBVIOUS
<1>3. line \in all /\ Bytes(own) < StreamBytes
  BY DEF StreamText, OfStream, FirstBytes
<1>4. ~ (Bytes(Ahead(all, line)) < 2 * StreamBytes)
  BY <1>3 DEF StreamText, FirstBytes
<1>5. Ahead(all, line) = own \cup rest /\ \A k \in own, l \in rest : k.id # l.id
  BY PrintedText DEF Ahead, OfStream
<1>6. /\ own \in SUBSET all /\ rest \in SUBSET all /\ OfStream(run, other) \in SUBSET all
      /\ rest \in SUBSET OfStream(run, other)
  BY DEF Ahead, OfStream
<1>7. IsText(own) /\ IsText(rest) /\ IsText(OfStream(run, other))
  BY <1>1, <1>6, PartBytes
<1> HIDE DEF own, rest, all, other
<1>8. /\ Bytes(own) \in Nat /\ Bytes(rest) \in Nat /\ Bytes(OfStream(run, other)) \in Nat
      /\ Bytes(Ahead(all, line)) = Bytes(own) + Bytes(rest)
      /\ Bytes(rest) <= Bytes(OfStream(run, other))
  BY <1>5, <1>6, <1>7, TextBytes, SumBytes, PartBytes
<1>9. Bytes(rest) >= StreamBytes
  BY <1>1, <1>3, <1>4, <1>8
<1>10. Bytes(StreamText(run, other)) >= StreamBytes
  BY <1>1, <1>2, <1>8, <1>9, StreamFull
<1>11. Bytes(StreamText(run, other)) \in Nat
  BY <1>2, <1>7, StreamFull, PartBytes, TextBytes
<1>12. Bytes(StreamText(run, other)) > StdoutBytes /\ Bytes(StreamText(run, other)) > StderrBytes
  BY <1>1, <1>10, <1>11
<1>13. s \in Persisted(run)
  BY <1>2, <1>12 DEF Persisted
<1>14. QED
  BY <1>13 DEF Overflowing

(* A set that has 0 and with each number the next, up to n, has them all.   *)
LEMMA Upwards ==
  ASSUME NEW n \in Nat, NEW T, 0 \in T, \A i \in 1..n : i - 1 \in T => i \in T
  PROVE  \A i \in 0..n : i \in T
<1> DEFINE S == {i \in 0..n : i \notin T}
<1> SUFFICES ASSUME S # {} PROVE FALSE
  OBVIOUS
<1>1. S \in SUBSET Nat
  OBVIOUS
<1>2. PICK m \in S : \A i \in S : m <= i
  BY <1>1, LeastNat
<1>3. m # 0 /\ m \in 1..n /\ m - 1 \in 0..n /\ m - 1 < m
  OBVIOUS
<1>4. m - 1 \notin S
  BY <1>2, <1>3
<1>5. QED
  BY <1>3, <1>4

(* The least of a set of numbers.                                           *)
LEMMA MinLeast ==
  ASSUME NEW S \in SUBSET Nat, S # {}
  PROVE  Min(S) \in S /\ \A x \in S : Min(S) <= x
<1>1. \E m \in S : \A y \in S : m <= y
  BY LeastNat
<1>2. QED
  BY <1>1 DEF Min

(* The greatest of a set of numbers.                                        *)
LEMMA MaxIs ==
  ASSUME NEW S \in SUBSET Int, NEW m \in S, \A x \in S : x <= m
  PROVE  Max(S) = m
<1>1. \A x \in S : (\A y \in S : x >= y) <=> x = m
  OBVIOUS
<1>2. QED
  BY <1>1 DEF Max

(* The rules that are loaded: those of the project's file before the others.*)
LEMMA LoadedRules ==
  ASSUME NEW rules \in Seq(FilterRule) PROVE Loaded(rules) \in Seq(FilterRule)
<1> DEFINE n == Len(rules)
           Before(i, rest) == IF Valid(rules[i]) THEN <<rules[i]>> \o rest ELSE rest
           Def(k, g) == g = [i \in 0..k |-> IF i = 0 THEN BuiltinRules ELSE Before(i, g[i - 1])]
           T == {k \in 0..n : \E g : Def(k, g)}
<1>1. n \in Nat /\ BuiltinRules \in Seq(FilterRule) /\ \A i \in 1..n : rules[i] \in FilterRule
  BY OutputAssumption
<1> HIDE DEF n, Before
<1>2. 0 \in T
  <2> DEFINE g == [i \in 0..0 |-> BuiltinRules]
  <2>1. Def(0, g)
    OBVIOUS
  <2> HIDE DEF Def, g
  <2>2. QED
    BY <1>1, <2>1
<1>3. ASSUME NEW k \in 1..n, k - 1 \in T PROVE k \in T
  <2>1. PICK g : Def(k - 1, g)
    BY <1>3
  <2>2. k \in Nat /\ k # 0 /\ k - 1 \in Nat /\ k - 1 \in 0..(k - 1) /\ k - 1 # k /\ k \in 0..n
    BY <1>1
  <2> DEFINE top == Before(k, g[k - 1])
             h == [i \in 0..k |-> IF i = k THEN top ELSE g[i]]
  <2>3. ASSUME NEW i \in 0..k
        PROVE  h[i] = IF i = 0 THEN BuiltinRules ELSE Before(i, h[i - 1])
    <3>1. CASE i = k
      BY <2>2, <3>1
    <3>2. CASE i # k
      <4>1. i \in 0..(k - 1) /\ (i # 0 => i - 1 \in 0..k /\ i - 1 # k)
        BY <2>2, <3>2
      <4>2. g[i] = IF i = 0 THEN BuiltinRules ELSE Before(i, g[i - 1])
        BY <2>1, <4>1
      <4>3. h[i] = g[i] /\ (i # 0 => h[i - 1] = g[i - 1])
        BY <3>2, <4>1
      <4>4. QED
        BY <4>2, <4>3
    <3>3. QED
      BY <3>1, <3>2
  <2>4. Def(k, h)
    <3>1. h = [i \in 0..k |-> h[i]]
      OBVIOUS
    <3> HIDE DEF h
    <3>2. QED
      BY <2>3, <3>1
  <2>5. QED
    BY <2>2, <2>4
<1>4. \E g : Def(n, g)
  <2> HIDE DEF T
  <2>1. \A i \in 0..n : i \in T
    BY <1>1, <1>2, <1>3, Upwards
  <2>2. n \in T
    BY <1>1, <2>1
  <2> USE DEF T
  <2> HIDE DEF Def
  <2>3. QED
    BY <2>2
<1> DEFINE loaded == CHOOSE g : Def(n, g)
<1>5. Def(n, loaded)
  BY <1>4
<1>6. Loaded(rules) = loaded[n]
  BY Zenon DEF Loaded, Before, n
<1> HIDE DEF loaded
<1> DEFINE R == {i \in 0..n : loaded[i] \in Seq(FilterRule)}
<1>7. 0 \in R
  BY <1>1, <1>5
<1>8. ASSUME NEW i \in 1..n, i - 1 \in R PROVE i \in R
  <2>1. loaded[i] = Before(i, loaded[i - 1]) /\ i \in 0..n
    <3>1. i \in 0..n /\ i # 0
      BY <1>1
    <3>2. QED
      BY <1>5, <3>1
  <2>2. loaded[i - 1] \in Seq(FilterRule) /\ <<rules[i]>> \in Seq(FilterRule)
    BY <1>1, <1>8
  <2>3. <<rules[i]>> \o loaded[i - 1] \in Seq(FilterRule)
    BY <2>2
  <2>4. QED
    BY <2>1, <2>2, <2>3 DEF Before
<1>9. QED
  <2> HIDE DEF R
  <2>1. \A i \in 0..n : i \in R
    BY <1>1, <1>7, <1>8, Upwards
  <2>2. n \in R
    BY <1>1, <2>1
  <2> USE DEF R
  <2>3. QED
    BY <1>6, <2>2

LEMMA LoadedTables ==
  ASSUME OutputInit PROVE table \in Seq(FilterRule)
<1>1. PICK file \in ProjectFiles : table = LoadFilterTable(file)
  BY DEF OutputInit
<1>2. CASE file.kind = "rules"
  BY <1>1, <1>2, LoadedRules, OutputAssumption DEF LoadFilterTable
<1>3. CASE file.kind # "rules"
  BY <1>1, <1>3, OutputAssumption DEF LoadFilterTable
<1>4. QED
  BY <1>2, <1>3

LEMMA FoundRule ==
  ASSUME NEW rules \in Seq(FilterRule), NEW command, RuleFor(rules, command) # NoRule
  PROVE  RuleFor(rules, command) \in FilterRule
<1> DEFINE matching == {n \in DOMAIN rules : command \in rules[n].match}
<1>1. matching \in SUBSET Nat
  OBVIOUS
<1>2. matching # {} /\ RuleFor(rules, command) = rules[Min(matching)]
  BY DEF RuleFor
<1>3. Min(matching) \in matching
  <2> HIDE DEF matching
  <2>1. \E m \in matching : \A x \in matching : m <= x
    BY <1>1, <1>2, LeastNat
  <2>2. QED
    BY <2>1 DEF Min
<1>4. QED
  BY <1>2, <1>3

(* A filter never replaces the interleaved text by its own message where a  *)
(* line is left to show, unless it replaced stdout too.                     *)
LEMMA FilterKeeps ==
  ASSUME NEW rule \in FilterRule, NEW out, IsFiniteSet(out), NEW text, IsText(text), NEW line \in text,
         ~ (rule.strip /\ line.noise),
         ApplyFilter(rule, text).effect = "substituted"
  PROVE  ApplyFilter(rule, out).effect = "substituted"
<1> DEFINE left(t) == {l \in t : ~ (rule.strip /\ l.noise)}
<1>1. left(text) \in SUBSET text /\ line \in left(text)
  OBVIOUS
<1>2. PICK m \in {l.id : l \in left(text)} : \A n \in {l.id : l \in left(text)} : m <= n
  <2>1. {l.id : l \in left(text)} \in SUBSET Nat /\ {l.id : l \in left(text)} # {}
    BY <1>1 DEF IsText
  <2>2. QED
    BY <2>1, LeastNat
<1>3. PICK least \in left(text) : \A l \in left(text) : least.id <= l.id
  BY <1>2
<1>4. Ahead(left(text), least) = {}
  BY <1>1, <1>3 DEF Ahead, IsText
<1>5. Cardinality(Ahead(left(text), least)) = 0
  BY <1>4, FS_EmptySet
<1>6. rule.max # <<>> /\ rule.max[1] = 0 /\ rule.onEmpty
  <2>1. rule.max # <<>> => rule.max[1] \in Nat
    BY DEF FilterRule
  <2> DEFINE capped == rule.max # <<>> /\ Cardinality(left(text)) > rule.max[1]
             cut == IF capped THEN {l \in left(text) : Cardinality(Ahead(left(text), l)) < rule.max[1]}
                    ELSE left(text)
  <2>2. cut = {} /\ rule.onEmpty
    BY DEF ApplyFilter
  <2>3. capped
    BY <1>1, <2>2
  <2>4. ~ (Cardinality(Ahead(left(text), least)) < rule.max[1])
    BY <1>3, <2>2, <2>3
  <2>5. QED
    BY <1>5, <2>1, <2>2, <2>3, <2>4
<1>7. IsFiniteSet(left(out)) /\ Cardinality({}) = 0
  BY FS_Subset, FS_EmptySet
<1>8. left(out) # {} => Cardinality(left(out)) > 0
  <2>1. Cardinality(left(out)) \in Nat /\ (Cardinality(left(out)) = 0 <=> left(out) = {})
    BY <1>7, FS_CardinalityType, FS_EmptySet
  <2>2. QED
    BY <2>1
<1> DEFINE capped == rule.max # <<>> /\ Cardinality(left(out)) > rule.max[1]
           cut == IF capped THEN {l \in left(out) : Cardinality(Ahead(left(out), l)) < rule.max[1]}
                  ELSE left(out)
<1>9. cut = {}
  <2>1. \A l : Ahead(left(out), l) \in SUBSET left(out)
    BY DEF Ahead
  <2>2. \A l : Cardinality(Ahead(left(out), l)) \in Nat
    BY <1>7, <2>1, FS_Subset, FS_CardinalityType
  <2> HIDE DEF left
  <2>3. \A l : ~ (Cardinality(Ahead(left(out), l)) < 0)
    BY <2>2
  <2>4. QED
    BY <1>6, <1>8, <2>3
<1>10. QED
  BY <1>6, <1>9 DEF ApplyFilter

(* A text that is shown has finitely many lines.                            *)
LEMMA PreviewFinite ==
  ASSUME NEW text, IsFiniteSet(text), NEW limit
  PROVE  IsFiniteSet(Preview(text, limit))
<1>1. IsFiniteSet(LastLines(text))
  BY FS_Subset DEF LastLines
<1>2. IsFiniteSet(LastBytes(text, limit))
  <2> DEFINE whole == {line \in text : Bytes(From(text, line)) <= limit}
             left == limit - Bytes(whole)
             cut == {line \in text \ whole : left > 0 /\ From(text, line) \subseteq whole \cup {line}}
             f == [line \in cut |-> [line EXCEPT !.len = left]]
             image == {[line EXCEPT !.len = left] : line \in cut}
  <2>1. cut \in SUBSET text /\ whole \in SUBSET text
    OBVIOUS
  <2>2. IsFiniteSet(cut) /\ IsFiniteSet(whole)
    BY <2>1, FS_Subset
  <2>3. f \in Surjection(cut, image)
    BY DEF Surjection
  <2>4. LastBytes(text, limit) = image \cup whole
    BY Zenon DEF LastBytes
  <2> HIDE DEF whole, cut, f, image
  <2>5. IsFiniteSet(image)
    BY <2>2, <2>3, FS_Surjection
  <2>6. QED
    BY <2>2, <2>4, <2>5, FS_Union
<1>3. QED
  BY <1>1, <1>2 DEF Preview

LEMMA FilterEffect ==
  ASSUME NEW out, NEW all, out.effect \in {"none", "capped", "substituted"},
         all.effect \in {"none", "capped", "substituted"}, ~ Filtered(out, all).substituted
  PROVE  /\ out.effect # "substituted" /\ (out.effect = "none" => all.effect # "substituted")
         /\ all.effect = "capped" => Filtered(out, all).capped
<1>1. /\ Filtered(out, all).substituted <=>
           (out.effect = "substituted" \/ (out.effect = "none" /\ all.effect = "substituted"))
      /\ Filtered(out, all).capped <=>
           (out.effect = "capped" \/ (out.effect = "none" /\ all.effect = "capped"))
  BY DEF Filtered
<1>2. QED
  BY <1>1

(* An answer of a command that ended has every line it does not strip, or   *)
(* says that it is cut and links to the captures that have them.            *)
LEMMA AnswerComplete ==
  ASSUME OInv, table \in Seq(FilterRule), NEW c \in EndedCalls, asked[c].lines \in Seq(OutputLine),
         asked[c].ends \notin {"timed_out", "no_shell"}, ~ Filtering(asked[c]).substituted,
         NEW i \in 1..Len(asked[c].lines)
  PROVE  AccountedFor(c, i)
<1> DEFINE run == asked[c]
           answer == calls[c].answer
           shell == Shell(run)
           filtering == Filtering(run)
           all == StreamText(run, "interleaved")
           line == LineOf(run, i)
           rule == FirstMatch(run.command)
<1>1. c \in DOMAIN asked /\ calls[c].at = "answered"
  BY DEF EndedCalls, OInv, OutputTypeOK
<1>2. /\ answer = AnswerOf(c) /\ calls[c].todo = <<>>
      /\ calls[c].kept \cup calls[c].lost \cup ToSet(calls[c].todo) = ToSet(Writes(run))
  BY <1>1 DEF OInv, CallsInv, CallInv
<1>3. answer = AnswerWith(run, shell, filtering, Paths(c)) /\ run.ends # "timed_out" /\ run.ends # "no_shell"
  BY <1>2 DEF AnswerOf
<1>4. calls[c].lost = {} => calls[c].kept = Overflowing(run) \cup PreFilter(run)
  <2>1. ToSet(<<>>) = {}
    BY DEF ToSet
  <2>2. QED
    BY <1>2, <1>3, <2>1, WrittenText
<1>5. /\ answer.text = ShownText(shell, filtering) /\ answer.truncated = shell.truncated
      /\ answer.capped = filtering.capped
      /\ answer.links = IF shell.truncated \/ filtering.capped THEN Paths(c) ELSE {}
  BY <1>3 DEF AnswerWith
<1>6. line \in Printed(run) /\ line.id = i /\ line.len = run.lines[i].len /\ i > 0
  BY PrintedText DEF LineOf
<1>7. \A text : line \in text => i \in Ids(run, text)
  BY <1>6 DEF Ids
<1>8. \A s \in Streams : i \in Ids(run, StreamText(run, s)) => line \in StreamText(run, s)
  <2> SUFFICES ASSUME NEW s \in Streams, NEW l \in StreamText(run, s), l.id = i PROVE l = line
    BY DEF Ids
  <2>1. l \in Printed(run)
    BY DEF StreamText, FirstBytes
  <2>2. QED
    BY <2>1, PrintedText
<1> HIDE DEF line, answer
<1>9. CASE "interleaved" \in Overflowing(run)
  <2>1. shell.truncated
    BY <1>3, <1>9 DEF Shell
  <2>2. ASSUME i \in Kept(run) PROVE \E s \in answer.links : i \in Ids(run, Captured(run, s))
    <3>1. PICK s \in Streams : line \in StreamText(run, s)
      BY <1>8, <2>2 DEF Kept
    <3>2. PICK t \in Overflowing(run) : line \in StreamText(run, t)
      BY <1>9, <3>1, StreamKept DEF Streams
    <3>3. t \in answer.links /\ Captured(run, t) = StreamText(run, t)
      BY <1>5, <2>1, <3>2 DEF Paths, Captured
    <3>4. QED
      BY <1>7, <3>2, <3>3
  <2>3. QED
    BY <1>5, <2>1, <2>2 DEF AccountedFor, answer
<1>10. CASE "interleaved" \notin Overflowing(run)
  <2>1. ~ (Bytes(all) > InterleavedBytes)
    BY <1>10 DEF Overflowing
  <2>2. all = Printed(run)
    <3>1. IsText(all)
      BY PrintedText, PartBytes DEF StreamText, FirstBytes
    <3>2. Bytes(all) \in Nat /\ InterleavedBytes \in Nat /\ StreamBytes \in Nat /\ InterleavedBytes < 2 * StreamBytes
      BY <3>1, TextBytes, OutputAssumption
    <3>3. QED
      BY <2>1, <3>2, StreamFull
  <2>3. shell.interleaved = all /\ line \in all
    BY <1>3, <1>6, <2>1, <2>2 DEF Shell
  <2>4. CASE ~ filtering.applied
    <3>1. filtering.interleaved = shell.interleaved
      BY <2>4 DEF Filtering, ApplyRule, Filtered
    <3>2. QED
      BY <1>5, <1>7, <2>3, <3>1 DEF ShownText, AccountedFor, answer
  <2>5. CASE filtering.applied
    <3> DEFINE out == ApplyFilter(rule, shell.stdout)
               inter == ApplyFilter(rule, shell.interleaved)
               remaining == {l \in all : ~ (rule.strip /\ l.noise)}
    <3>1. filtering = Filtered(out, inter)
      BY <2>5 DEF Filtering, ApplyRule, Filtered
    <3>2. CASE StrippedLine(run, i)
      BY <3>2 DEF AccountedFor
    <3>3. CASE ~ StrippedLine(run, i)
      <4>1. line \in remaining
        BY <2>3, <2>5, <3>3 DEF StrippedLine, line, LineOf
      <4>2. {out.effect, inter.effect} \subseteq {"none", "capped", "substituted"}
        BY DEF ApplyFilter
      <4>3. CASE inter.effect = "capped"
        <5>2. filtering.capped
          BY <3>1, <4>2, <4>3, FilterEffect
        <5>3. "interleaved" \in PreFilter(run)
          BY <1>10, <2>3, <5>2 DEF PreFilter, Unkept
        <5>4. Captured(run, "interleaved") = all
          BY <1>10, <2>3 DEF Captured
        <5>5. calls[c].lost = {} => "interleaved" \in answer.links
          BY <1>4, <1>5, <5>2, <5>3 DEF Paths
        <5>6. QED
          BY <1>5, <1>7, <2>3, <5>2, <5>4, <5>5 DEF AccountedFor, answer
      <4>4. CASE inter.effect # "capped"
        <5>0. inter.effect # "substituted"
          <6>1. rule \in FilterRule
            BY <2>5, FoundRule DEF Filtering, ApplyRule, FirstMatch
          <6>2. IsText(all)
            BY <2>2, PrintedText
          <6>3. IsFiniteSet(shell.stdout)
            <7>1. IsFiniteSet(StreamText(run, "stdout"))
              BY PrintedText, FS_Subset DEF StreamText, FirstBytes, IsText
            <7>2. shell.stdout = Preview(StreamText(run, "stdout"), StdoutBytes)
              BY <1>3 DEF Shell
            <7>3. QED
              BY <7>1, <7>2, PreviewFinite
          <6>4. out.effect # "substituted"
            BY <3>1, <4>2, FilterEffect
          <6>5. QED
            BY <2>3, <4>1, <6>1, <6>2, <6>3, <6>4, FilterKeeps
        <5>1. inter.text = remaining
          BY <2>3, <4>2, <4>4, <5>0 DEF ApplyFilter
        <5>2. filtering.interleaved = remaining
          BY <3>1, <5>1 DEF Filtered
        <5>3. QED
          BY <1>5, <1>7, <4>1, <5>2 DEF ShownText, AccountedFor, answer
      <4>5. QED
        BY <4>3, <4>4
    <3>4. QED
      BY <3>2, <3>3
  <2>6. QED
    BY <2>4, <2>5
<1>11. QED
  BY <1>9, <1>10

(* No line of a command goes missing silently, for any limits, rules and    *)
(* lines: where the interleaved text is whole, a line is in the answer or   *)
(* in the capture of it that a capped answer links to; where it is cut, the *)
(* answer links to every stream that still had room for the line            *)
(* (handle_output_persist, persist_interleaved_overflow, apply_filter_rules).*)
THEOREM OutputLinesAccounted == OutputSpec => []LinesAccounted
<1> DEFINE AskedInv == asked \in Programs /\ table \in Seq(FilterRule)
<1>1. OInv /\ AskedInv => LinesAccounted
  <2> SUFFICES ASSUME OInv, AskedInv, NEW c \in EndedCalls,
                      asked[c].ends \notin {"timed_out", "no_shell"}, ~ Filtering(asked[c]).substituted
               PROVE  Complete(c)
    BY DEF LinesAccounted
  <2>1. c \in DOMAIN asked
    BY DEF EndedCalls, OInv, OutputTypeOK
  <2>2. asked[c].lines \in Seq(OutputLine)
    BY <2>1, OutputAssumption DEF OutputLine
  <2>3. QED
    BY <2>2, AnswerComplete DEF Complete
<1>2. OutputInit => AskedInv
  BY LoadedTables DEF OutputInit
<1>3. AskedInv /\ [OutputNext]_outputVars => AskedInv'
  BY DEF OutputNext, outputVars, Receive, Collect, OpenTmp, FillTmp, RenameTmp, WriteFails, Reply,
         StartSession, ServerRestart
<1>4. QED
  BY <1>1, <1>2, <1>3, OutputInitOInv, OutputStepOInv, PTL DEF OutputSpec
=============================================================================
