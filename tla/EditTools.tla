------------------------------ MODULE EditTools ------------------------------
(***************************************************************************)
(* The concurrent part of edit_replace and edit_overwrite: the per-path    *)
(* mutex registry, the read-check-splice-persist cycle that runs on a      *)
(* blocking thread, and the stale-context circuit breaker that the         *)
(* coordinator updates after the blocking thread has returned.             *)
(*                                                                         *)
(* Matching old_text against the file is abstract here: Apply[e][s] is     *)
(* what edit e makes of contents s, or the class of its failure.  A        *)
(* content hash stands for the contents it is the blake3 hash of.  A path  *)
(* is already canonical.  The call to AnalysisCache::invalidate_file is    *)
(* modelled in FileCache.                                                  *)
(***************************************************************************)
EXTENDS Integers, FiniteSets

CONSTANTS
  Call,      \* tool calls; each is one request and is made at most once
  Sid,       \* session ids
  Path,      \* canonical file paths
  Content,   \* contents of a file
  Edit,      \* replacements (one block, or the edits[] of a batch)
  Apply,     \* [Edit -> [Content -> Content \cup MatchFailure]]
  Request,   \* the requests the clients may send
  Absent, NoHash, NoLock, NoCall, NoRequest, NoSnapshot,
  Threshold, \* EDIT_STALE_THRESHOLD
  MapCap,    \* EDIT_FAILURE_MAP_CAP
  MaxCount,  \* u8::MAX, where saturating_add stops
  PanicStrategy \* what a panic may do: "abort" in the release profile,
                \* "unwind" in the dev and ci profiles (Cargo.toml:74-84)

MatchFailure == {"not_found", "ambiguous", "invalid_params", "panic"}

ReplaceRequest ==
  [tool : {"single", "batch"}, sid : Sid, path : Path, edit : Edit,
   hash : Content \cup {NoHash}]
OverwriteRequest ==
  [tool : {"overwrite"}, sid : Sid, path : Path, content : Content]
MalformedRequest ==
  [tool : {"malformed"}, sid : Sid, path : Path]

ASSUME EditAssumption ==
  /\ Content \cap MatchFailure = {}
  /\ Absent \notin Content
  /\ NoHash \notin Content
  /\ NoSnapshot \notin Content
  /\ NoCall \notin Call
  /\ NoLock \notin Call
  /\ Apply \in [Edit -> [Content -> Content \cup MatchFailure]]
  /\ Request \subseteq ReplaceRequest \cup OverwriteRequest \cup MalformedRequest
  /\ NoRequest \notin Request
  /\ Threshold \in Nat \ {0}
  /\ MapCap \in Nat \ {0}
  /\ MaxCount \in Nat \ {0}
  /\ Threshold <= MaxCount
  /\ PanicStrategy \subseteq {"abort", "unwind"}

VARIABLES
  server,    \* "running", or "aborted" by a panic
  file,      \* contents on disk of each path
  registry,  \* file_edit_locks: path -> its mutex, named by the call that made it
  holder,    \* the call holding each mutex, or NoCall
  counts,    \* edit_failure_counts; 0 where the map has no entry
  req,       \* the request of each call
  pc,        \* where each call is
  lock,      \* the Arc<Mutex> a call cloned out of the registry
  snapshot,  \* what the blocking thread read
  outcome    \* how a call's edit ended; "none" until it did

vars == <<server, file, registry, holder, counts, req, pc, lock, snapshot, outcome>>

Key == Sid \X Path

Outcome ==
  MatchFailure \cup {"none", "ok", "stale_hash", "batch_failed", "io",
                     "path_not_found", "stale_context"}

Init ==
  /\ server = "running"
  /\ file \in [Path -> Content \cup {Absent}]
  /\ registry = [p \in Path |-> NoLock]
  /\ holder = [c \in Call |-> NoCall]
  /\ counts = [k \in Key |-> 0]
  /\ req = [c \in Call |-> NoRequest]
  /\ pc = [c \in Call |-> "new"]
  /\ lock = [c \in Call |-> NoLock]
  /\ snapshot = [c \in Call |-> NoSnapshot]
  /\ outcome = [c \in Call |-> "none"]

-----------------------------------------------------------------------------
(* Fault: a second match does not stop a single edit.                       *)
MatchedFirst(r, s) ==
  IF Apply[r.edit][s] \notin (MatchFailure \ {"ambiguous"}) THEN "splice"
  ELSE IF r.tool = "batch" THEN "batch_failed"
  ELSE Apply[r.edit][s]

(* What a replace makes of the contents s it read: "splice" when there is   *)
(* something to write, else the error of edit_replace_block_inner or of     *)
(* edit_replace_batch.  The hash is checked before old_text is looked for.  *)
Matched(r, s) ==
  IF Apply[r.edit][s] \notin MatchFailure THEN "splice"
  ELSE IF r.tool = "batch" THEN "batch_failed"
  ELSE Apply[r.edit][s]

Verdict(r, s) ==
  IF s = Absent THEN "io"
  ELSE IF r.hash \notin {NoHash, s} THEN "stale_hash"
  ELSE Matched(r, s)

(* The failures that count toward the circuit breaker.                      *)
Counted(tool, o) ==
  \/ o \in {"not_found", "ambiguous"}
  \/ tool = "batch" /\ o \in {"batch_failed", "stale_hash"}

Entries == {k \in Key : counts[k] > 0}

(* Fault: the coordinator and handle_edit_error both count the failure.     *)
IncrementedTwice(k) ==
  LET base == IF Cardinality(Entries) >= MapCap THEN [j \in Key |-> 0] ELSE counts
  IN  [base EXCEPT ![k] = IF base[k] + 1 < MaxCount THEN base[k] + 2 ELSE MaxCount]

(* StaleContextGuard::increment: a full map is cleared before the entry is  *)
(* made or bumped.                                                          *)
Incremented(k) ==
  LET base == IF Cardinality(Entries) >= MapCap THEN [j \in Key |-> 0] ELSE counts
      bump == IF base[k] < MaxCount THEN base[k] + 1 ELSE MaxCount
  IN  [base EXCEPT ![k] = bump]

(* Nothing of an aborted server moves.                                      *)
Running == server = "running" /\ UNCHANGED server

Goto(c, from, to) == pc[c] = from /\ pc' = [pc EXCEPT ![c] = to]

KeyOf(c) == <<req[c].sid, req[c].path>>

-----------------------------------------------------------------------------
(* A client sends a tools/call; the shim hands it to the tool's handler.    *)
Arrive(c, r) ==
  /\ Running
  /\ Goto(c, "new", "arrived")
  /\ req' = [req EXCEPT ![c] = r]
  /\ UNCHANGED <<file, registry, holder, counts, lock, snapshot, outcome>>

(* resolve_edit_path requires the file to exist.                            *)
ResolveFails(c) ==
  /\ Goto(c, "arrived", "done")
  /\ req[c].tool # "overwrite"
  /\ file[req[c].path] = Absent
  /\ outcome' = [outcome EXCEPT ![c] = "path_not_found"]
  /\ UNCHANGED <<file, registry, holder, counts, req, lock, snapshot>>

(* Fault: the entry is inserted without looking for one.                    *)
RegisterAnew(c) ==
  LET p == req[c].path IN
  /\ Goto(c, "arrived", "queued")
  /\ req[c].tool \notin {"overwrite", "malformed"}
  /\ file[p] # Absent
  /\ registry' = [registry EXCEPT ![p] = c]
  /\ lock' = [lock EXCEPT ![c] = c]
  /\ UNCHANGED <<file, holder, counts, req, snapshot, outcome>>

(* The registry entry is looked up or made before the parameters are        *)
(* validated, so that a malformed request makes one too.                    *)
Register(c) ==
  LET p == req[c].path
      mutex == IF registry[p] = NoLock THEN c ELSE registry[p]
  IN
  /\ pc[c] = "arrived"
  /\ req[c].tool # "overwrite"
  /\ file[p] # Absent
  /\ registry' = [registry EXCEPT ![p] = mutex]
  /\ lock' = [lock EXCEPT ![c] = mutex]
  /\ \/ /\ req[c].tool = "malformed"
        /\ pc' = [pc EXCEPT ![c] = "done"]
        /\ outcome' = [outcome EXCEPT ![c] = "invalid_params"]
     \/ /\ req[c].tool # "malformed"
        /\ pc' = [pc EXCEPT ![c] = "queued"]
        /\ UNCHANGED outcome
  /\ UNCHANGED <<file, holder, counts, req, snapshot>>

(* Fault: the closure does not wait for the mutex.                          *)
AcquireAtOnce(c) ==
  /\ Goto(c, "queued", "locked")
  /\ holder' = [holder EXCEPT ![lock[c]] = c]
  /\ UNCHANGED <<file, registry, counts, req, lock, snapshot, outcome>>

(* The first line of the blocking closure.  A mutex poisoned by an earlier  *)
(* panic is recovered, hence acquired like any other.                       *)
Acquire(c) ==
  /\ Goto(c, "queued", "locked")
  /\ holder[lock[c]] = NoCall
  /\ holder' = [holder EXCEPT ![lock[c]] = c]
  /\ UNCHANGED <<file, registry, counts, req, lock, snapshot, outcome>>

(* read_to_string, then the hash check and the search for old_text in what  *)
(* was read.                                                                *)
ReadFile(c) ==
  LET s == file[req[c].path]
      v == Verdict(req[c], s)
  IN
  /\ pc[c] = "locked"
  /\ \/ /\ v = "splice"
        /\ pc' = [pc EXCEPT ![c] = "spliced"]
        /\ snapshot' = [snapshot EXCEPT ![c] = s]
        /\ UNCHANGED outcome
     \/ /\ v # "splice"
        /\ pc' = [pc EXCEPT ![c] = "leaving"]
        /\ outcome' = [outcome EXCEPT ![c] = v]
        /\ UNCHANGED snapshot
  /\ UNCHANGED <<file, registry, holder, counts, req, lock>>

(* Fault: the file is written in place, so that an error may leave it torn. *)
ReplaceIoErrorTorn(c) ==
  /\ Goto(c, "spliced", "leaving")
  /\ file' = [file EXCEPT ![req[c].path] = Absent]
  /\ outcome' = [outcome EXCEPT ![c] = "io"]
  /\ UNCHANGED <<registry, holder, counts, req, lock, snapshot>>

(* read_to_string or write_file_atomic fails.                               *)
ReplaceIoError(c) ==
  /\ pc[c] \in {"locked", "spliced"}
  /\ pc' = [pc EXCEPT ![c] = "leaving"]
  /\ outcome' = [outcome EXCEPT ![c] = "io"]
  /\ UNCHANGED <<file, registry, holder, counts, req, lock, snapshot>>

(* The rename of write_file_atomic: the whole file is replaced at once by   *)
(* what was computed from the snapshot.                                     *)
Persist(c) ==
  /\ Goto(c, "spliced", "leaving")
  /\ file' = [file EXCEPT ![req[c].path] = Apply[req[c].edit][snapshot[c]]]
  /\ outcome' = [outcome EXCEPT ![c] = "ok"]
  /\ UNCHANGED <<registry, holder, counts, req, lock, snapshot>>

(* The splice panics in a build whose panics abort: the process is gone,    *)
(* with every call under way, and what it had renamed into place stays.     *)
Abort(c) ==
  /\ "abort" \in PanicStrategy
  /\ server = "running"
  /\ pc[c] = "leaving" /\ outcome[c] = "panic"
  /\ server' = "aborted"
  /\ UNCHANGED <<file, registry, holder, counts, req, pc, lock, snapshot, outcome>>

(* Fault: a panic leaves the mutex unusable.                                *)
ReleaseUnlessPanicked(c) ==
  /\ Goto(c, "leaving", "returned")
  /\ outcome[c] = "panic" => "unwind" \in PanicStrategy
  /\ holder' = IF outcome[c] = "panic" THEN holder ELSE [holder EXCEPT ![lock[c]] = NoCall]
  /\ UNCHANGED <<file, registry, counts, req, lock, snapshot, outcome>>

(* The closure ends, by returning or, in a build whose panics unwind, by    *)
(* unwinding, and drops its guard.                                          *)
Release(c) ==
  /\ Goto(c, "leaving", "returned")
  /\ outcome[c] = "panic" => "unwind" \in PanicStrategy
  /\ holder' = [holder EXCEPT ![lock[c]] = NoCall]
  /\ UNCHANGED <<file, registry, counts, req, lock, snapshot, outcome>>

(* edit_overwrite takes no per-path lock.                                   *)
OverwriteFile(c) ==
  /\ Goto(c, "arrived", "returned")
  /\ req[c].tool = "overwrite"
  /\ file' = [file EXCEPT ![req[c].path] = req[c].content]
  /\ outcome' = [outcome EXCEPT ![c] = "ok"]
  /\ UNCHANGED <<registry, holder, counts, req, lock, snapshot>>

OverwriteIoError(c) ==
  /\ Goto(c, "arrived", "returned")
  /\ req[c].tool = "overwrite"
  /\ outcome' = [outcome EXCEPT ![c] = "io"]
  /\ UNCHANGED <<file, registry, holder, counts, req, lock, snapshot>>

(* The coordinator resumes after the join handle: success removes the       *)
(* failure counter of this session and path.                                *)
FinishOk(c) ==
  /\ Goto(c, "returned", "done")
  /\ outcome[c] = "ok"
  /\ counts' = [counts EXCEPT ![KeyOf(c)] = 0]
  /\ UNCHANGED <<file, registry, holder, req, lock, snapshot, outcome>>

(* A counted failure increments, and is reported as EDIT_STALE_CONTEXT once *)
(* the counter has reached the threshold.                                   *)
FinishCounted(c) ==
  LET next == Incremented(KeyOf(c)) IN
  /\ Goto(c, "returned", "done")
  /\ Counted(req[c].tool, outcome[c])
  /\ counts' = next
  /\ outcome' = IF next[KeyOf(c)] >= Threshold
                THEN [outcome EXCEPT ![c] = "stale_context"] ELSE outcome
  /\ UNCHANGED <<file, registry, holder, req, lock, snapshot>>

FinishFailed(c) ==
  /\ Goto(c, "returned", "done")
  /\ outcome[c] # "ok"
  /\ ~Counted(req[c].tool, outcome[c])
  /\ UNCHANGED <<file, registry, holder, counts, req, lock, snapshot, outcome>>

Step(c) ==
  /\ Running
  /\ \/ ResolveFails(c) \/ Register(c) \/ Acquire(c) \/ ReadFile(c)
     \/ ReplaceIoError(c) \/ Persist(c) \/ Release(c)
     \/ OverwriteFile(c) \/ OverwriteIoError(c)
     \/ FinishOk(c) \/ FinishCounted(c) \/ FinishFailed(c)

Terminated ==
  /\ server = "aborted" \/ \A c \in Call : pc[c] = "done"
  /\ UNCHANGED vars

Next ==
  \/ \E c \in Call : (\E r \in Request : Arrive(c, r)) \/ Step(c) \/ Abort(c)
  \/ Terminated

Spec == Init /\ [][Next]_vars

(* A blocking thread runs, or panics, and a woken task is polled, when it   *)
(* can be.                                                                  *)
FairSpec == Spec /\ \A c \in Call : WF_vars(Step(c) \/ Abort(c))
-----------------------------------------------------------------------------
TypeOK ==
  /\ server \in {"running", "aborted"}
  /\ file \in [Path -> Content \cup {Absent}]
  /\ registry \in [Path -> Call \cup {NoLock}]
  /\ holder \in [Call -> Call \cup {NoCall}]
  /\ counts \in [Key -> 0..MaxCount]
  /\ req \in [Call -> Request \cup {NoRequest}]
  /\ pc \in [Call -> {"new", "arrived", "queued", "locked", "spliced",
                      "leaving", "returned", "done"}]
  /\ lock \in [Call -> Call \cup {NoLock}]
  /\ snapshot \in [Call -> Content \cup {NoSnapshot}]
  /\ outcome \in [Call -> Outcome]

Holding(c) == pc[c] \in {"locked", "spliced", "leaving"}

(* Two edit_replace calls are never inside the read-modify-write cycle of   *)
(* the same path: the point of locking in spawn_blocking on a mutex found   *)
(* through the registry (edit_replace.rs:543-599).                          *)
MutualExclusion ==
  \A c, d \in Call :
    Holding(c) /\ Holding(d) /\ req[c].path = req[d].path => c = d

(* When a replace is about to persist, the file still has the contents its  *)
(* hash check and its matching were made on: no update is lost.             *)
SnapshotCurrent ==
  \A c \in Call : pc[c] = "spliced" => snapshot[c] = file[req[c].path]

(* Every call that was made is answered, unless a panic of an edit of that  *)
(* server aborted it, which only a build of the abort strategy does: no     *)
(* other failure, and in an unwinding build no panic either, leaves a       *)
(* per-path mutex held or a coordinator waiting (lock_or_recover,           *)
(* edit_replace.rs:599).                                                    *)
EveryCallAnswered ==
  \A c \in Call : pc[c] = "arrived" ~>
    \/ pc[c] = "done"
    \/ /\ server = "aborted" /\ "abort" \in PanicStrategy
       /\ \E d \in Call : pc[d] = "leaving" /\ outcome[d] = "panic"

(* EDIT_STALE_CONTEXT is never reported of fewer than Threshold calls: each *)
(* entry of the map is covered by that many distinct calls of the same      *)
(* session on the same path which ended in a counted failure, however often *)
(* the map was cleared to stay within its cap.                              *)
CounterCovered ==
  /\ Cardinality(Entries) <= MapCap
  /\ \A k \in Key :
       counts[k] <= Cardinality({c \in Call :
          /\ pc[c] = "done"
          /\ KeyOf(c) = k
          /\ \/ Counted(req[c].tool, outcome[c])
             \/ outcome[c] = "stale_context"})
-----------------------------------------------------------------------------
(* The promise of AtomicEdits, through a mapping of outcomes.               *)
ResultOf(o) ==
  IF o \in {"none", "ok"} THEN o
  ELSE IF o = "io" THEN "failed" ELSE "rejected"

AcceptsRequest(r, s) ==
  \/ r.tool = "overwrite"
  \/ r.tool \in {"single", "batch"} /\ Verdict(r, s) = "splice"

EditedContent(r, s) ==
  IF r.tool = "overwrite" THEN r.content ELSE Apply[r.edit][s]

Atomic == INSTANCE AtomicEdits WITH
  Accepts <- AcceptsRequest, Edited <- EditedContent,
  result <- [c \in Call |-> ResultOf(outcome[c])]

AtomicSpec == Atomic!Spec
==============================================================================
