------------------------------ MODULE EditProofs ------------------------------
(***************************************************************************)
(* What EditTools guarantees for every number of calls, paths, sessions,   *)
(* contents and edits.                                                     *)
(***************************************************************************)
EXTENDS EditTools, FiniteSetTheorems, TLAPS

(* The lock discipline: a call past Register works on the mutex that the    *)
(* registry has for its path, and holds it while it is inside the cycle.    *)
Locking(c) == pc[c] \in {"queued", "locked", "spliced", "leaving"}

RequestInv ==
  \A c \in Call :
    /\ pc[c] # "new" => req[c] \in Request
    /\ Locking(c) => req[c] \in ReplaceRequest

LockInv ==
  \A c \in Call :
    /\ Locking(c) => lock[c] \in Call /\ registry[req[c].path] = lock[c]
    /\ Holding(c) => holder[lock[c]] = c

(* What is about to be persisted was accepted on the snapshot.              *)
SpliceInv ==
  \A c \in Call : pc[c] = "spliced" =>
    snapshot[c] \in Content /\ Verdict(req[c], snapshot[c]) = "splice"

IInv == TypeOK /\ RequestInv /\ LockInv /\ SpliceInv

LEMMA RequestPath ==
  ASSUME NEW r \in Request
  PROVE  /\ r.path \in Path /\ r.sid \in Sid
         /\ r.tool \in {"single", "batch", "overwrite", "malformed"}
         /\ r.tool = "overwrite" => r \in OverwriteRequest
         /\ r.tool \notin {"overwrite", "malformed"} => r \in ReplaceRequest
BY EditAssumption DEF ReplaceRequest, OverwriteRequest, MalformedRequest

LEMMA VerdictType ==
  ASSUME NEW r \in ReplaceRequest, NEW t \in Content \cup {Absent}
  PROVE  /\ Verdict(r, t) \in (Outcome \ {"none", "ok"}) \cup {"splice"}
         /\ Verdict(r, t) = "splice" =>
              t \in Content /\ Apply[r.edit][t] \in Content
BY EditAssumption DEF ReplaceRequest, Verdict, Matched, Outcome, MatchFailure

(* increment keeps the map a map of small counters, cleared or not.         *)
LEMMA IncrementedType ==
  ASSUME counts \in [Key -> 0..MaxCount], NEW k \in Key
  PROVE  Incremented(k) \in [Key -> 0..MaxCount]
<1> DEFINE base == IF Cardinality(Entries) >= MapCap THEN [j \in Key |-> 0] ELSE counts
<1>1. base \in [Key -> 0..MaxCount]
  BY EditAssumption
<1>2. base[k] \in 0..MaxCount
  BY <1>1
<1> DEFINE bump == IF base[k] < MaxCount THEN base[k] + 1 ELSE MaxCount
<1>3. bump \in 0..MaxCount
  BY <1>2, EditAssumption
<1>4. Incremented(k) = [base EXCEPT ![k] = bump]
  BY DEF Incremented
<1> HIDE DEF base, bump
<1>5. QED
  BY <1>1, <1>3, <1>4


-----------------------------------------------------------------------------
LEMMA InitIInv == Init => IInv
BY EditAssumption DEF Init, IInv, TypeOK, RequestInv, LockInv, SpliceInv, Locking, Holding, Outcome

(* One step per action.                                                     *)
LEMMA StepIInv ==
  ASSUME IInv, [Next]_vars
  PROVE  IInv'
<1> USE DEF IInv, Goto, Running
<1>1. ASSUME NEW c \in Call, NEW r \in Request, Arrive(c, r) PROVE IInv'
  BY <1>1 DEF Arrive, TypeOK, RequestInv, LockInv, SpliceInv, Locking, Holding
<1>2. ASSUME NEW c \in Call, Step(c) PROVE IInv'
  <2> server' = server
    BY <1>2 DEF Step
  <2> req[c] \in Request \/ pc[c] = "new"
    BY DEF RequestInv
  <2>1. CASE ResolveFails(c)
    BY <2>1 DEF ResolveFails, TypeOK, RequestInv, LockInv, SpliceInv, Locking, Holding, Outcome
  <2>2. CASE Register(c)
    <3>1. req[c] \in Request
      BY <2>2 DEF Register, RequestInv
    <3>2. req[c].path \in Path /\ (req[c].tool # "malformed" => req[c] \in ReplaceRequest)
      BY <2>2, <3>1, RequestPath DEF Register
    <3>3. TypeOK'
      BY <2>2, <3>2 DEF Register, TypeOK, Outcome, MatchFailure
    <3>4. RequestInv'
      BY <2>2, <3>1, <3>2 DEF Register, TypeOK, RequestInv, Locking
    <3>5. LockInv'
      BY <2>2, <3>2, EditAssumption DEF Register, TypeOK, LockInv, Locking, Holding
    <3>6. SpliceInv'
      BY <2>2 DEF Register, TypeOK, SpliceInv
    <3>7. QED
      BY <3>3, <3>4, <3>5, <3>6
  <2>3. CASE Acquire(c)
    BY <2>3, EditAssumption DEF Acquire, TypeOK, RequestInv, LockInv, SpliceInv, Locking, Holding
  <2>4. CASE ReadFile(c)
    <3> DEFINE t == file[req[c].path]
               v == Verdict(req[c], t)
    <3>1. req[c] \in ReplaceRequest /\ req[c].path \in Path
      BY <2>4 DEF ReadFile, RequestInv, Locking, ReplaceRequest
    <3>2. t \in Content \cup {Absent}
      BY <3>1 DEF TypeOK
    <3>3. v \in Outcome \cup {"splice"} /\ (v = "splice" => t \in Content)
      BY <3>1, <3>2, VerdictType
    <3> HIDE DEF v
    <3>5. TypeOK'
      BY <2>4, <3>3 DEF ReadFile, TypeOK, v
    <3>6. RequestInv' /\ LockInv'
      BY <2>4 DEF ReadFile, TypeOK, RequestInv, LockInv, Locking, Holding
    <3>7. SpliceInv'
      BY <2>4, <3>3 DEF ReadFile, TypeOK, SpliceInv, v
    <3>8. QED
      BY <3>5, <3>6, <3>7
  <2>5. CASE ReplaceIoError(c)
    BY <2>5 DEF ReplaceIoError, TypeOK, RequestInv, LockInv, SpliceInv, Locking, Holding, Outcome
  <2>6. CASE Persist(c)
    <3>1. req[c] \in ReplaceRequest /\ snapshot[c] \in Content
      BY <2>6 DEF Persist, RequestInv, SpliceInv, Locking
    <3>2. Apply[req[c].edit][snapshot[c]] \in Content
      BY <2>6, <3>1, VerdictType DEF Persist, SpliceInv
    <3>3. QED
      BY <2>6, <3>2 DEF Persist, TypeOK, RequestInv, LockInv, SpliceInv, Locking, Holding, Outcome
  <2>7. CASE Release(c)
    BY <2>7 DEF Release, TypeOK, RequestInv, LockInv, SpliceInv, Locking, Holding
  <2>8. CASE OverwriteFile(c)
    <3>1. req[c].content \in Content
      BY <2>8, RequestPath DEF OverwriteFile, RequestInv, OverwriteRequest
    <3>2. QED
      BY <2>8, <3>1 DEF OverwriteFile, TypeOK, RequestInv, LockInv, SpliceInv, Locking, Holding, Outcome
  <2>9. CASE OverwriteIoError(c)
    BY <2>9 DEF OverwriteIoError, TypeOK, RequestInv, LockInv, SpliceInv, Locking, Holding, Outcome
  <2>10. CASE FinishOk(c)
    <3>1. 0 \in 0..MaxCount
      BY EditAssumption
    <3>2. counts' \in [Key -> 0..MaxCount]
      BY <2>10, <3>1 DEF FinishOk, TypeOK
    <3>3. QED
      BY <2>10, <3>2 DEF FinishOk, TypeOK, RequestInv, LockInv, SpliceInv, Locking, Holding
  <2>11. CASE FinishCounted(c)
    <3>1. KeyOf(c) \in Key
      BY <2>11, RequestPath DEF FinishCounted, RequestInv, KeyOf, Key
    <3>2. Incremented(KeyOf(c)) \in [Key -> 0..MaxCount]
      BY <3>1, IncrementedType DEF TypeOK
    <3>3. QED
      BY <2>11, <3>2 DEF FinishCounted, TypeOK, RequestInv, LockInv, SpliceInv, Locking, Holding, Outcome
  <2>12. CASE FinishFailed(c)
    BY <2>12 DEF FinishFailed, TypeOK, RequestInv, LockInv, SpliceInv, Locking, Holding
  <2>13. QED
    BY <1>2, <2>1, <2>2, <2>3, <2>4, <2>5, <2>6, <2>7, <2>8, <2>9, <2>10,
       <2>11, <2>12 DEF Step
<1>3. ASSUME NEW c \in Call, Abort(c) PROVE IInv'
  BY <1>3 DEF Abort, TypeOK, RequestInv, LockInv, SpliceInv, Locking, Holding
<1>4. CASE UNCHANGED vars
  BY <1>4 DEF vars, TypeOK, RequestInv, LockInv, SpliceInv, Locking, Holding
<1>5. QED
  BY <1>1, <1>2, <1>3, <1>4 DEF Next, Terminated

(* Every variable keeps the type the code gives it; counters saturate.      *)
THEOREM TypeCorrect == Spec => []TypeOK
<1>1. Init => IInv
  BY InitIInv
<1>2. IInv /\ [Next]_vars => IInv'
  BY StepIInv
<1>3. IInv => TypeOK
  BY DEF IInv
<1>4. QED
  BY <1>1, <1>2, <1>3, PTL DEF Spec

(* The per-path mutex found through the registry does serialise the         *)
(* read-modify-write cycles of edit_replace on a path, whatever else runs.  *)
THEOREM Mutex == Spec => []MutualExclusion
<1>1. Init => IInv
  BY InitIInv
<1>2. IInv /\ [Next]_vars => IInv'
  BY StepIInv
<1>3. IInv => MutualExclusion
  BY DEF IInv, LockInv, MutualExclusion, Holding, Locking
<1>4. QED
  BY <1>1, <1>2, <1>3, PTL DEF Spec

-----------------------------------------------------------------------------
(* From here on no client sends an edit_overwrite.                          *)
ReplaceOnly == \A r \in Request : r.tool # "overwrite"

RInv == IInv /\ SnapshotCurrent

LEMMA StepRInv ==
  ASSUME ReplaceOnly, RInv, [Next]_vars
  PROVE  RInv'
<1>1. IInv'
  BY StepIInv DEF RInv
<1>2. SnapshotCurrent'
  <2> USE DEF RInv, IInv, Goto, SnapshotCurrent
  <2>1. ASSUME NEW c \in Call, NEW r \in Request, Arrive(c, r) PROVE SnapshotCurrent'
    BY <2>1 DEF Arrive, TypeOK
  <2>2. ASSUME NEW c \in Call, Step(c) PROVE SnapshotCurrent'
    <3>1. CASE ReadFile(c)
      BY <3>1 DEF ReadFile, TypeOK
    <3>2. CASE Persist(c)
      <4>1. MutualExclusion
        BY DEF LockInv, MutualExclusion, Holding, Locking
      <4>2. ASSUME NEW d \in Call, pc'[d] = "spliced"
            PROVE  snapshot'[d] = file'[req'[d].path]
        <5>1. d # c /\ pc[d] = "spliced"
          BY <3>2, <4>2 DEF Persist, TypeOK
        <5>2. req[d].path # req[c].path
          BY <3>2, <4>1, <5>1 DEF MutualExclusion, Holding, Persist
        <5>3. QED
          BY <3>2, <5>1, <5>2 DEF Persist, TypeOK
      <4>3. QED
        BY <4>2
    <3>3. CASE OverwriteFile(c)
      BY <3>3 DEF OverwriteFile, RequestInv, ReplaceOnly
    <3>4. CASE ResolveFails(c) \/ Register(c) \/ Acquire(c) \/ ReplaceIoError(c) \/ Release(c)
      BY <3>4 DEF ResolveFails, Register, Acquire, ReplaceIoError, Release, TypeOK
    <3>5. CASE OverwriteIoError(c) \/ FinishOk(c) \/ FinishCounted(c) \/ FinishFailed(c)
      BY <3>5 DEF OverwriteIoError, FinishOk, FinishCounted, FinishFailed, TypeOK
    <3>6. QED
      BY <2>2, <3>1, <3>2, <3>3, <3>4, <3>5 DEF Step
  <2>3. ASSUME NEW c \in Call, Abort(c) PROVE SnapshotCurrent'
    BY <2>3 DEF Abort
  <2>4. CASE UNCHANGED vars
    BY <2>4 DEF vars
  <2>5. QED
    BY <2>1, <2>2, <2>3, <2>4 DEF Next, Terminated
<1>3. QED
  BY <1>1, <1>2 DEF RInv

(* With edit_replace calls alone no update is lost and every hash check     *)
(* still holds when the result is written.                                  *)
THEOREM NoLostUpdate == ReplaceOnly => (Spec => []SnapshotCurrent)
<1> SUFFICES ASSUME ReplaceOnly PROVE Spec => []SnapshotCurrent
  OBVIOUS
<1>1. Init => RInv
  BY InitIInv DEF RInv, SnapshotCurrent, Init
<1>2. RInv /\ [Next]_vars => RInv'
  BY StepRInv
<1>3. RInv => SnapshotCurrent
  BY DEF RInv
<1>4. QED
  BY <1>1, <1>2, <1>3, PTL DEF Spec

-----------------------------------------------------------------------------
(* A call has a request once it was made, and an outcome once its edit has  *)
(* taken effect or was turned down.                                         *)
Undecided(c) == pc[c] \in {"new", "arrived", "queued", "locked", "spliced"}

OutcomeInv ==
  \A c \in Call :
    /\ pc[c] = "new" => req[c] = NoRequest
    /\ outcome[c] = "none" <=> Undecided(c)

AInv == RInv /\ OutcomeInv

LEMMA StepOutcomeInv ==
  ASSUME IInv, OutcomeInv, [Next]_vars
  PROVE  OutcomeInv'
<1> USE DEF OutcomeInv, Undecided, Goto, IInv
<1>1. ASSUME NEW c \in Call, NEW r \in Request, Arrive(c, r) PROVE OutcomeInv'
  BY <1>1 DEF Arrive, TypeOK
<1>2. ASSUME NEW c \in Call, Step(c) PROVE OutcomeInv'
  <2>1. CASE ReadFile(c)
    <3> DEFINE v == Verdict(req[c], file[req[c].path])
    <3>1. req[c] \in ReplaceRequest /\ file[req[c].path] \in Content \cup {Absent}
      BY <2>1 DEF ReadFile, RequestInv, Locking, ReplaceRequest, TypeOK
    <3>2. v # "none"
      BY <3>1, VerdictType
    <3>3. QED
      BY <2>1, <3>2 DEF ReadFile, TypeOK
  <2>2. CASE ResolveFails(c) \/ Register(c) \/ Acquire(c) \/ ReplaceIoError(c)
    BY <2>2 DEF ResolveFails, Register, Acquire, ReplaceIoError, TypeOK
  <2>3. CASE Persist(c) \/ Release(c) \/ OverwriteFile(c) \/ OverwriteIoError(c)
    BY <2>3 DEF Persist, Release, OverwriteFile, OverwriteIoError, TypeOK
  <2>4. CASE FinishOk(c) \/ FinishCounted(c) \/ FinishFailed(c)
    BY <2>4 DEF FinishOk, FinishCounted, FinishFailed, TypeOK
  <2>5. QED
    BY <1>2, <2>1, <2>2, <2>3, <2>4 DEF Step
<1>3. ASSUME NEW c \in Call, Abort(c) PROVE OutcomeInv'
  BY <1>3 DEF Abort
<1>4. CASE UNCHANGED vars
  BY <1>4 DEF vars
<1>5. QED
  BY <1>1, <1>2, <1>3, <1>4 DEF Next, Terminated

(* Each step of EditTools is a step of AtomicEdits, or changes nothing it   *)
(* speaks of: the rejecting read, the failing I/O call and the rename are   *)
(* the instants at which a call takes effect.                               *)
LEMMA StepAtomic ==
  ASSUME ReplaceOnly, AInv, [Next]_vars
  PROVE  [Atomic!Next]_(Atomic!vars)
<1> DEFINE result == [c \in Call |-> ResultOf(outcome[c])]
<1> USE DEF AInv, RInv, IInv, Goto
<1>1. ASSUME NEW c \in Call, NEW r \in Request, Arrive(c, r)
      PROVE  Atomic!Send(c, r)
  BY <1>1 DEF Arrive, Atomic!Send, OutcomeInv
<1>2. ASSUME NEW c \in Call, Step(c)
      PROVE  Atomic!Commit(c) \/ Atomic!Reject(c) \/ Atomic!Fail(c) \/ UNCHANGED Atomic!vars
  <2>0. /\ req[c] \in Request \cup {NoRequest}
        /\ pc[c] # "new" => req[c] \in Request /\ req[c] # NoRequest
    BY EditAssumption DEF TypeOK, RequestInv
  <2>1. CASE ResolveFails(c)
    BY <2>0, <2>1 DEF ResolveFails, OutcomeInv, Undecided, TypeOK, ResultOf,
       Atomic!Reject, Atomic!Pending, AcceptsRequest, Verdict
  <2>2. CASE Register(c)
    <3>1. CASE req[c].tool = "malformed"
      BY <2>0, <2>2, <3>1 DEF Register, OutcomeInv, Undecided, TypeOK, ResultOf,
         Atomic!Reject, Atomic!Pending, AcceptsRequest
    <3>2. CASE req[c].tool # "malformed"
      BY <2>2, <3>2 DEF Register, Atomic!vars
    <3>3. QED
      BY <3>1, <3>2
  <2>3. CASE Acquire(c) \/ Release(c) \/ FinishOk(c) \/ FinishFailed(c)
    BY <2>3 DEF Acquire, Release, FinishOk, FinishFailed, Atomic!vars
  <2>4. CASE ReadFile(c)
    <3> DEFINE t == file[req[c].path]
               v == Verdict(req[c], t)
    <3>1. req[c] \in ReplaceRequest /\ t \in Content \cup {Absent}
      BY <2>4 DEF ReadFile, RequestInv, Locking, ReplaceRequest, TypeOK
    <3>2. v \in (Outcome \ {"none", "ok"}) \cup {"splice"}
      BY <3>1, VerdictType
    <3>3. req[c].tool # "overwrite"
      BY <3>1 DEF ReplaceRequest
    <3>4. Atomic!Pending(c)
      BY <2>0, <2>4 DEF ReadFile, OutcomeInv, Undecided, Atomic!Pending, ResultOf
    <3>5. CASE v = "splice"
      BY <2>4, <3>5 DEF ReadFile, Atomic!vars
    <3>6. CASE v # "splice"
      <4>1. outcome' = [outcome EXCEPT ![c] = v] /\ UNCHANGED <<file, req>>
        BY <2>4, <3>6 DEF ReadFile
      <4>2. ~AcceptsRequest(req[c], t)
        BY <3>3, <3>6 DEF AcceptsRequest
      <4> HIDE DEF v
      <4>3. CASE v = "io"
        BY <3>4, <4>1, <4>3 DEF TypeOK, ResultOf, Atomic!Fail
      <4>4. CASE v # "io"
        BY <3>2, <3>4, <3>6, <4>1, <4>2, <4>4 DEF TypeOK, ResultOf, Atomic!Reject
      <4>5. QED
        BY <4>3, <4>4
    <3>7. QED
      BY <3>5, <3>6
  <2>5. CASE ReplaceIoError(c)
    BY <2>0, <2>5 DEF ReplaceIoError, OutcomeInv, Undecided, TypeOK, ResultOf,
       Atomic!Fail, Atomic!Pending
  <2>6. CASE Persist(c)
    <3>1. req[c] \in ReplaceRequest
      BY <2>6 DEF Persist, RequestInv, Locking
    <3>2. snapshot[c] = file[req[c].path] /\ Verdict(req[c], snapshot[c]) = "splice"
      BY <2>6 DEF Persist, SnapshotCurrent, SpliceInv
    <3>3. AcceptsRequest(req[c], file[req[c].path])
      BY <3>1, <3>2 DEF AcceptsRequest, ReplaceRequest
    <3>4. EditedContent(req[c], file[req[c].path]) = Apply[req[c].edit][snapshot[c]]
      BY <3>1, <3>2 DEF EditedContent, ReplaceRequest
    <3>5. Atomic!Pending(c)
      BY <2>0, <2>6 DEF Persist, OutcomeInv, Undecided, Atomic!Pending, ResultOf
    <3>6. QED
      BY <2>6, <3>3, <3>4, <3>5 DEF Persist, TypeOK, ResultOf, Atomic!Commit
  <2>7. CASE OverwriteFile(c) \/ OverwriteIoError(c)
    BY <2>0, <2>7 DEF OverwriteFile, OverwriteIoError, ReplaceOnly
  <2>8. CASE FinishCounted(c)
    <3>1. ResultOf(outcome[c]) = "rejected"
      BY <2>8 DEF FinishCounted, Counted, ResultOf
    <3>2. result' = result
      BY <2>8, <3>1 DEF FinishCounted, TypeOK, ResultOf
    <3>3. QED
      BY <2>8, <3>2 DEF FinishCounted, Atomic!vars
  <2>9. QED
    BY <1>2, <2>1, <2>2, <2>3, <2>4, <2>5, <2>6, <2>7, <2>8 DEF Step
<1>3. ASSUME NEW c \in Call, Abort(c) PROVE UNCHANGED Atomic!vars
  BY <1>3 DEF Abort, Atomic!vars
<1>4. CASE UNCHANGED vars
  BY <1>4 DEF vars, Atomic!vars
<1>5. QED
  BY <1>1, <1>2, <1>3, <1>4 DEF Next, Terminated, Atomic!Next

(* Among themselves, edit_replace calls behave as if each took effect on    *)
(* its file at one instant (README.md:189, "serialized per-path").          *)
THEOREM ReplacesAtomic == ReplaceOnly => (Spec => AtomicSpec)
<1> SUFFICES ASSUME ReplaceOnly PROVE Spec => AtomicSpec
  OBVIOUS
<1>1. Init => AInv
  BY InitIInv DEF AInv, RInv, SnapshotCurrent, OutcomeInv, Undecided, Init
<1>2. AInv /\ [Next]_vars => AInv'
  BY StepRInv, StepOutcomeInv DEF AInv, RInv
<1>3. Init => Atomic!Init
  BY DEF Init, Atomic!Init, ResultOf
<1>4. AInv /\ [Next]_vars => [Atomic!Next]_(Atomic!vars)
  BY StepAtomic
<1>5. QED
  BY <1>1, <1>2, <1>3, <1>4, PTL DEF Spec, AtomicSpec, Atomic!Spec

-----------------------------------------------------------------------------
(* The calls that cover an entry of the counter map.                        *)
Covering(k) ==
  {c \in Call : /\ pc[c] = "done"
                /\ KeyOf(c) = k
                /\ \/ Counted(req[c].tool, outcome[c])
                   \/ outcome[c] = "stale_context"}

(* Neither the calls, the sessions nor the paths need be finite: what is    *)
(* counted of them is.                                                      *)
CoverInv ==
  /\ IsFiniteSet(Entries) /\ Cardinality(Entries) <= MapCap
  /\ \A k \in Key : IsFiniteSet(Covering(k)) /\ counts[k] <= Cardinality(Covering(k))

(* A step of c covers more with c at most, and never less.                  *)
LEMMA CoveringGrows ==
  ASSUME NEW c \in Call, CoverInv, pc[c] # "done",
         \A d \in Call : d # c => pc'[d] = pc[d] /\ req'[d] = req[d] /\ outcome'[d] = outcome[d]
  PROVE  \A k \in Key :
           /\ IsFiniteSet(Covering(k)') /\ Cardinality(Covering(k)) \in Nat /\ Cardinality(Covering(k)') \in Nat
           /\ Cardinality(Covering(k)) <= Cardinality(Covering(k)')
           /\ c \in Covering(k)' => Cardinality(Covering(k)') = Cardinality(Covering(k)) + 1
<1> SUFFICES ASSUME NEW k \in Key
             PROVE  /\ IsFiniteSet(Covering(k)') /\ Cardinality(Covering(k)) \in Nat
                    /\ Cardinality(Covering(k)') \in Nat
                    /\ Cardinality(Covering(k)) <= Cardinality(Covering(k)')
                    /\ c \in Covering(k)' => Cardinality(Covering(k)') = Cardinality(Covering(k)) + 1
  OBVIOUS
<1>1. IsFiniteSet(Covering(k)) /\ Cardinality(Covering(k)) \in Nat
  BY FS_CardinalityType DEF CoverInv
<1>2. c \notin Covering(k)
  BY DEF Covering
<1>3. Covering(k)' = IF c \in Covering(k)' THEN Covering(k) \cup {c} ELSE Covering(k)
  <2>1. \A d \in Call : d # c => (d \in Covering(k)' <=> d \in Covering(k))
    BY DEF Covering, KeyOf
  <2>2. Covering(k) \subseteq Call /\ Covering(k)' \subseteq Call
    BY DEF Covering
  <2>3. QED
    BY <1>2, <2>1, <2>2
<1>4. /\ IsFiniteSet(Covering(k) \cup {c})
      /\ Cardinality(Covering(k) \cup {c}) = Cardinality(Covering(k)) + 1
  BY <1>1, <1>2, FS_AddElement
<1>5. CASE c \in Covering(k)'
  <2>1. Covering(k)' = Covering(k) \cup {c}
    BY <1>3, <1>5
  <2>2. IsFiniteSet(Covering(k)') /\ Cardinality(Covering(k)') = Cardinality(Covering(k)) + 1
    BY <1>4, <2>1
  <2>3. QED
    BY <1>1, <2>2
<1>6. CASE c \notin Covering(k)'
  BY <1>1, <1>3, <1>6
<1>7. QED
  BY <1>5, <1>6

(* increment keeps within the cap, and adds one to its own entry at most.   *)
LEMMA IncrementedCovered ==
  ASSUME TypeOK, CoverInv, NEW k \in Key
  PROVE  /\ \A j \in Key : j # k => Incremented(k)[j] <= counts[j]
         /\ Incremented(k)[k] <= counts[k] + 1
         /\ IsFiniteSet({j \in Key : Incremented(k)[j] > 0})
         /\ Cardinality({j \in Key : Incremented(k)[j] > 0}) <= MapCap
<1> DEFINE full == Cardinality(Entries) >= MapCap
           base == IF full THEN [j \in Key |-> 0] ELSE counts
           bump == IF base[k] < MaxCount THEN base[k] + 1 ELSE MaxCount
           next == [base EXCEPT ![k] = bump]
           kept == {j \in Key : base[j] > 0}
           entries == {j \in Key : next[j] > 0}
<1>1. counts \in [Key -> Nat] /\ MaxCount \in Nat \ {0} /\ MapCap \in Nat \ {0}
  BY EditAssumption DEF TypeOK
<1>2. base \in [Key -> Nat] /\ \A j \in Key : base[j] <= counts[j]
  BY <1>1
<1>3. IsFiniteSet(kept) /\ Cardinality(kept) \in Nat /\ Cardinality(kept) < MapCap
  <2>1. IsFiniteSet(Entries) /\ Cardinality(Entries) \in Nat
    BY FS_CardinalityType DEF CoverInv
  <2>2. CASE full
    <3>1. kept = {}
      BY <1>1, <2>2
    <3>2. QED
      BY <1>1, <3>1, FS_EmptySet
  <2>3. CASE ~full
    <3>1. kept = Entries
      BY <2>3 DEF Entries
    <3>2. QED
      BY <1>1, <2>1, <2>3, <3>1
  <2>4. QED
    BY <2>2, <2>3
<1>4. Incremented(k) = next
  BY DEF Incremented
<1> HIDE DEF base
<1>5. next \in [Key -> Nat] /\ next[k] = bump /\ bump <= base[k] + 1
      /\ \A j \in Key : j # k => next[j] = base[j]
  BY <1>1, <1>2
<1> HIDE DEF next, bump
<1>6. entries \subseteq kept \cup {k}
  BY <1>5
<1>7. IsFiniteSet(kept \cup {k}) /\ Cardinality(kept \cup {k}) <= Cardinality(kept) + 1
      /\ Cardinality(kept \cup {k}) \in Nat
  BY <1>3, FS_AddElement, FS_CardinalityType
<1> HIDE DEF kept, entries
<1>8. IsFiniteSet(entries) /\ Cardinality(entries) <= Cardinality(kept \cup {k}) /\ Cardinality(entries) \in Nat
  BY <1>6, <1>7, FS_Subset, FS_CardinalityType
<1>9. Cardinality(entries) <= MapCap
  BY <1>1, <1>3, <1>7, <1>8
<1>10. (\A j \in Key : j # k => next[j] <= counts[j]) /\ next[k] <= counts[k] + 1
  BY <1>1, <1>2, <1>5
<1>11. QED
  BY <1>4, <1>8, <1>9, <1>10 DEF entries

LEMMA StepCoverInv ==
  ASSUME IInv, CoverInv, [Next]_vars
  PROVE  CoverInv'
<1>1. TypeOK /\ RequestInv
  BY DEF IInv
<1>2. counts \in [Key -> Nat]
  BY <1>1, EditAssumption DEF TypeOK
<1>3. ASSUME NEW c \in Call, NEW r \in Request, Arrive(c, r) PROVE CoverInv'
  <2>1. counts' = counts /\ pc[c] # "done"
    BY <1>3 DEF Arrive, Goto
  <2>2. \A d \in Call : d # c => pc'[d] = pc[d] /\ req'[d] = req[d] /\ outcome'[d] = outcome[d]
    BY <1>1, <1>3 DEF Arrive, Goto, TypeOK
  <2>3. QED
    BY <1>2, <2>1, <2>2, CoveringGrows DEF CoverInv, Entries
<1>4. ASSUME NEW c \in Call, Step(c) PROVE CoverInv'
  <2>1. /\ pc[c] # "done"
        /\ \A d \in Call : d # c => pc'[d] = pc[d] /\ req'[d] = req[d] /\ outcome'[d] = outcome[d]
    BY <1>1, <1>4 DEF Step, TypeOK, Goto, ResolveFails, Register, Acquire, ReadFile, ReplaceIoError,
       Persist, Release, OverwriteFile, OverwriteIoError, FinishOk, FinishCounted, FinishFailed
  <2>2. \A k \in Key :
          /\ IsFiniteSet(Covering(k)') /\ Cardinality(Covering(k)) \in Nat /\ Cardinality(Covering(k)') \in Nat
          /\ Cardinality(Covering(k)) <= Cardinality(Covering(k)')
          /\ c \in Covering(k)' => Cardinality(Covering(k)') = Cardinality(Covering(k)) + 1
    BY <2>1, CoveringGrows
  <2>3. CASE FinishOk(c)
    <3>1. counts' = [counts EXCEPT ![KeyOf(c)] = 0]
      BY <2>3 DEF FinishOk
    <3>2. \A k \in Key : counts'[k] <= counts[k]
      BY <1>2, <3>1
    <3>3. counts' \in [Key -> Nat]
      BY <1>2, <3>1
    <3>4. Entries' \subseteq Entries
      BY <1>2, <3>2, <3>3 DEF Entries
    <3>5. IsFiniteSet(Entries') /\ Cardinality(Entries') <= MapCap
      <4>1. IsFiniteSet(Entries') /\ Cardinality(Entries') <= Cardinality(Entries)
        BY <3>4, FS_Subset DEF CoverInv
      <4>2. Cardinality(Entries) \in Nat /\ Cardinality(Entries') \in Nat /\ MapCap \in Nat
        BY <4>1, FS_CardinalityType, EditAssumption DEF CoverInv
      <4>3. QED
        BY <4>1, <4>2 DEF CoverInv
    <3>6. ASSUME NEW k \in Key PROVE counts'[k] <= Cardinality(Covering(k)')
      <4>1. counts[k] \in Nat /\ counts'[k] \in Nat /\ counts[k] <= Cardinality(Covering(k))
        BY <1>2, <3>3 DEF CoverInv
      <4>2. QED
        BY <2>2, <3>2, <4>1
    <3>7. QED
      BY <2>2, <3>5, <3>6 DEF CoverInv
  <2>4. CASE FinishCounted(c)
    <3> DEFINE key == KeyOf(c)
    <3>1. req[c] \in Request /\ key \in Key /\ key = <<req[c].sid, req[c].path>>
      BY <1>1, <2>4, RequestPath DEF FinishCounted, Goto, RequestInv, KeyOf, Key
    <3>2. counts' = Incremented(key) /\ req' = req /\ pc' = [pc EXCEPT ![c] = "done"]
      BY <2>4 DEF FinishCounted, Goto
    <3>3. outcome'[c] = "stale_context" \/ outcome'[c] = outcome[c]
      BY <1>1, <2>4 DEF FinishCounted, TypeOK
    <3>4. Counted(req[c].tool, outcome[c])
      BY <2>4 DEF FinishCounted
    <3>5. ASSUME NEW k \in Key, k = key PROVE c \in Covering(k)'
      BY <1>1, <3>1, <3>2, <3>3, <3>4, <3>5 DEF Covering, KeyOf, TypeOK, Counted
    <3> HIDE DEF key
    <3>6. counts' \in [Key -> Nat]
      <4>1. Incremented(key) \in [Key -> 0..MaxCount]
        BY <1>1, <3>1, IncrementedType DEF TypeOK
      <4>2. QED
        BY <3>2, <4>1, EditAssumption
    <3>7. /\ \A j \in Key : j # key => counts'[j] <= counts[j]
          /\ counts'[key] <= counts[key] + 1
          /\ IsFiniteSet({j \in Key : counts'[j] > 0})
          /\ Cardinality({j \in Key : counts'[j] > 0}) <= MapCap
      BY <1>1, <3>1, <3>2, IncrementedCovered
    <3>8. ASSUME NEW k \in Key PROVE counts'[k] <= Cardinality(Covering(k)')
      <4>1. counts[k] \in Nat /\ counts'[k] \in Nat /\ counts[k] <= Cardinality(Covering(k))
        BY <1>2, <3>6 DEF CoverInv
      <4>2. CASE k = key
        <5>1. Cardinality(Covering(k)') = Cardinality(Covering(k)) + 1 /\ counts'[k] <= counts[k] + 1
          BY <2>2, <3>5, <3>7, <4>2
        <5>2. QED
          BY <2>2, <4>1, <5>1
      <4>3. CASE k # key
        <5>1. counts'[k] <= counts[k]
          BY <3>7, <4>3
        <5>2. QED
          BY <2>2, <4>1, <5>1
      <4>4. QED
        BY <4>2, <4>3
    <3>9. QED
      BY <2>2, <3>7, <3>8 DEF CoverInv, Entries
  <2>5. CASE counts' = counts
    BY <1>2, <2>2, <2>5 DEF CoverInv, Entries
  <2>6. FinishOk(c) \/ FinishCounted(c) \/ counts' = counts
    BY <1>4 DEF Step, ResolveFails, Register, Acquire, ReadFile, ReplaceIoError,
       Persist, Release, OverwriteFile, OverwriteIoError, FinishFailed
  <2>7. QED
    BY <2>3, <2>4, <2>5, <2>6
<1>5. ASSUME NEW c \in Call, Abort(c) PROVE CoverInv'
  BY <1>5 DEF Abort, CoverInv, Covering, Entries, KeyOf
<1>6. CASE UNCHANGED vars
  BY <1>6 DEF vars, CoverInv, Covering, Entries, KeyOf
<1>7. QED
  BY <1>3, <1>4, <1>5, <1>6 DEF Next, Terminated

(* An entry of the failure map counts no more than the calls of its session *)
(* on its path that failed, however many calls, sessions and paths there    *)
(* are and whenever the map was cleared, and the map keeps within its cap   *)
(* (edit_failure_counts, edit_replace.rs:619-640).                          *)
THEOREM FailuresCovered == Spec => []CounterCovered
<1>1. Init => CoverInv
  <2> SUFFICES ASSUME Init PROVE CoverInv
    OBVIOUS
  <2>1. Entries = {} /\ \A k \in Key : Covering(k) = {} /\ counts[k] = 0
    BY DEF Init, Entries, Covering
  <2>2. IsFiniteSet({}) /\ Cardinality({}) = 0
    BY FS_EmptySet
  <2>3. MapCap \in Nat
    BY EditAssumption
  <2>4. IsFiniteSet(Entries) /\ Cardinality(Entries) <= MapCap
    BY <2>1, <2>2, <2>3
  <2>5. \A k \in Key : IsFiniteSet(Covering(k)) /\ counts[k] <= Cardinality(Covering(k))
    BY <2>1, <2>2
  <2>6. QED
    BY <2>4, <2>5 DEF CoverInv
<1>2. IInv /\ CoverInv => CounterCovered
  BY DEF CoverInv, CounterCovered, Covering
<1>3. IInv /\ CoverInv /\ [Next]_vars => IInv' /\ CoverInv'
  BY StepIInv, StepCoverInv
<1>4. QED
  BY <1>1, <1>2, <1>3, InitIInv, PTL DEF Spec
==============================================================================
