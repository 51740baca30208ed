----------------------------- MODULE ExecCommand -----------------------------
(***************************************************************************)
(* One exec_command call from spawn to answer: the handler feeds stdin,    *)
(* waits for the child under the execution timeout and the request's       *)
(* cancellation token, and gives the drain task a grace period; the drain  *)
(* task reads both pipes to their end.  The child, and a process it leaves *)
(* in the background, do what they please.                                 *)
(*                                                                         *)
(* A unit of stdin or a line of output stands for a pipe buffer's share;   *)
(* the two timers may run out at any moment they are armed.  What becomes  *)
(* of the collected lines afterwards (tails, slot files, filters) is left  *)
(* out.                                                                    *)
(***************************************************************************)
EXTENDS Integers, Sequences

CONSTANTS
  MaxStdin,   \* units of stdin a request may carry
  StdinCap,   \* units the stdin pipe holds
  PipeCap,    \* lines an output pipe holds
  MaxOutput,  \* bound: lines written to each stream
  Budget,     \* MAX_DRAIN_STDOUT_BYTES and MAX_DRAIN_STDERR_BYTES, in lines
  Line        \* kinds of lines written: "text", or "binary" (not UTF-8)

Stream == {"stdout", "stderr"}

ASSUME ExecAssumption ==
  /\ MaxStdin \in Nat
  /\ StdinCap \in Nat \ {0}
  /\ PipeCap \in Nat \ {0}
  /\ MaxOutput \in Nat
  /\ Budget \in [Stream -> Nat]
  /\ Line \subseteq {"text", "binary"}

VARIABLES
  pc,         \* where the handler is
  stdinLeft,  \* units write_all has not written yet
  stdinPipe,  \* units in the stdin pipe
  child,      \* "none", "running", "zombie" or "reaped"
  status,     \* how the child ended
  background, \* a process the child left holds the output pipes open
  pipe,       \* lines in each output pipe
  wrote,      \* lines written to each stream
  drain,      \* the drain task; its end closes the read ends of the pipes
  kept,       \* lines of each stream sent to the handler
  budgetHit,  \* a line was read and not sent
  cancelled,  \* the request's cancellation token
  result      \* the ExecutionResult

procVars == <<child, status, background, wrote>>
drainVars == <<drain, kept, budgetHit>>
vars == <<pc, stdinLeft, stdinPipe, procVars, pipe, drainVars, cancelled, result>>

NoResult == [exit_code |-> "null", output_truncated |-> FALSE,
             output_collection_error |-> FALSE, timed_out |-> FALSE]

(* ExitStatus::code() is None when a signal ended the process.              *)
Code(s) == IF s \in {"zero", "nonzero"} THEN s ELSE "null"

Init ==
  /\ pc = "new" /\ stdinLeft = 0 /\ stdinPipe = 0
  /\ child = "none" /\ status = "none" /\ background = FALSE
  /\ wrote = [st \in Stream |-> 0]
  /\ pipe = [st \in Stream |-> << >>]
  /\ drain = "none" /\ kept = [st \in Stream |-> 0] /\ budgetHit = FALSE
  /\ cancelled = FALSE
  /\ result = NoResult

-----------------------------------------------------------------------------
(* The handler.                                                             *)
Spawn(n) ==
  /\ pc = "new" /\ pc' = "feeding"
  /\ stdinLeft' = n
  /\ child' = "running"
  /\ UNCHANGED <<stdinPipe, status, background, wrote, pipe, drainVars, cancelled, result>>

SpawnFails ==
  /\ pc = "new" /\ pc' = "answered"
  /\ UNCHANGED <<stdinLeft, stdinPipe, procVars, pipe, drainVars, cancelled, result>>

(* write_all waits for room in the pipe.  Nothing else of the call runs.    *)
FeedStdin ==
  /\ pc = "feeding" /\ stdinLeft > 0
  /\ child = "running" /\ stdinPipe < StdinCap
  /\ stdinLeft' = stdinLeft - 1
  /\ stdinPipe' = stdinPipe + 1
  /\ UNCHANGED <<pc, procVars, pipe, drainVars, cancelled, result>>

(* All is written, or the child is gone (BrokenPipe).  The stdin handle is  *)
(* dropped, and run_with_timeout spawns the drain task.                     *)
FeedEnds ==
  /\ pc = "feeding" /\ (stdinLeft = 0 \/ child # "running")
  /\ pc' = "waiting"
  /\ drain' = "reading"
  /\ UNCHANGED <<stdinLeft, stdinPipe, procVars, pipe, kept, budgetHit, cancelled, result>>

(* Fault: the raw wait status is taken for the exit code.                   *)
ChildExitedRaw ==
  /\ pc = "waiting" /\ child = "zombie"
  /\ pc' = "draining"
  /\ child' = "reaped"
  /\ result' = [result EXCEPT !.exit_code = status]
  /\ UNCHANGED <<stdinLeft, stdinPipe, status, background, wrote, pipe, drainVars, cancelled>>

(* child.wait() yields the exit status, and reaps; or it fails, because the *)
(* child was reaped by somebody else, and there is no exit code.            *)
ChildExited ==
  /\ pc = "waiting" /\ child = "zombie"
  /\ pc' = "draining"
  /\ child' = "reaped"
  /\ \E code \in {Code(status), "null"} : result' = [result EXCEPT !.exit_code = code]
  /\ UNCHANGED <<stdinLeft, stdinPipe, status, background, wrote, pipe, drainVars, cancelled>>

(* Fault: the child is left to itself.                                      *)
KillForgotten ==
  /\ pc = "waiting" /\ pc' = "answered"
  /\ drain' = IF drain = "reading" THEN "aborted" ELSE drain
  /\ result' = [result EXCEPT !.timed_out = TRUE]
  /\ UNCHANGED <<stdinLeft, stdinPipe, procVars, pipe, kept, budgetHit, cancelled>>

(* start_kill; the child may have ended by itself in the meantime.          *)
Kill ==
  /\ pc = "waiting" /\ pc' = "reaping"
  /\ child' = "zombie"
  /\ status' = IF child = "running" THEN "killed" ELSE status
  /\ UNCHANGED <<stdinLeft, stdinPipe, background, wrote, pipe, drainVars, cancelled, result>>

ExecTimeout == Kill

(* Fault: a cancelled call waits for the child without killing it.          *)
CancelKillForgotten ==
  /\ cancelled /\ pc = "waiting" /\ pc' = "reaping"
  /\ UNCHANGED <<stdinLeft, stdinPipe, procVars, pipe, drainVars, cancelled, result>>
CancelSeen == cancelled /\ Kill

(* The second child.wait(), then the drain task is aborted.                 *)
Reap ==
  /\ pc = "reaping" /\ child = "zombie"
  /\ pc' = "answered"
  /\ child' = "reaped"
  /\ drain' = IF drain = "reading" THEN "aborted" ELSE drain
  /\ result' = [result EXCEPT !.timed_out = TRUE]
  /\ UNCHANGED <<stdinLeft, stdinPipe, status, background, wrote, pipe, kept, budgetHit, cancelled>>

(* The drain task ended within its grace period.                            *)
DrainCollected ==
  /\ pc = "draining" /\ drain \in {"done", "failed"}
  /\ pc' = "answered"
  /\ result' = [result EXCEPT !.output_truncated = budgetHit]
  /\ UNCHANGED <<stdinLeft, stdinPipe, procVars, pipe, drainVars, cancelled>>

(* Fault: the drain task is awaited without a limit.                        *)
DrainAwaited == DrainCollected

(* Fault: an expired drain is not reported.                                 *)
DrainExpiredSilently ==
  /\ pc = "draining" /\ drain = "reading"
  /\ pc' = "answered"
  /\ drain' = "aborted"
  /\ UNCHANGED <<stdinLeft, stdinPipe, procVars, pipe, kept, budgetHit, cancelled, result>>

(* The grace period is over: the task is aborted.  The exit code stays.     *)
DrainExpired ==
  /\ pc = "draining" /\ drain = "reading"
  /\ pc' = "answered"
  /\ drain' = "aborted"
  /\ result' = [result EXCEPT !.output_truncated = TRUE, !.output_collection_error = TRUE]
  /\ UNCHANGED <<stdinLeft, stdinPipe, procVars, pipe, kept, budgetHit, cancelled>>

Handler ==
  \/ FeedStdin \/ FeedEnds
  \/ ChildExited \/ Reap \/ DrainCollected

-----------------------------------------------------------------------------
(* Fault: the task stops reading a stream that is over its budget.          *)
DrainLineOrBreak(st) ==
  /\ drain = "reading" /\ pipe[st] # << >>
  /\ pipe' = [pipe EXCEPT ![st] = Tail(@)]
  /\ \/ /\ kept[st] < Budget[st]
        /\ kept' = [kept EXCEPT ![st] = @ + 1]
        /\ UNCHANGED <<drain, budgetHit>>
     \/ /\ kept[st] >= Budget[st]
        /\ budgetHit' = TRUE
        /\ drain' = "done"
        /\ UNCHANGED kept
  /\ UNCHANGED <<pc, stdinLeft, stdinPipe, procVars, cancelled, result>>

(* One turn of the merged stream.  A line over the budget is read but not   *)
(* sent; a line that is not UTF-8 ends the loop ("failed").                 *)
DrainLine(st) ==
  /\ drain = "reading" /\ pipe[st] # << >>
  /\ pipe' = [pipe EXCEPT ![st] = Tail(@)]
  /\ \/ /\ Head(pipe[st]) = "binary"
        /\ drain' = "failed"
        /\ UNCHANGED <<kept, budgetHit>>
     \/ /\ Head(pipe[st]) = "text" /\ kept[st] < Budget[st]
        /\ kept' = [kept EXCEPT ![st] = @ + 1]
        /\ UNCHANGED <<drain, budgetHit>>
     \/ /\ Head(pipe[st]) = "text" /\ kept[st] >= Budget[st]
        /\ budgetHit' = TRUE
        /\ UNCHANGED <<drain, kept>>
  /\ UNCHANGED <<pc, stdinLeft, stdinPipe, procVars, cancelled, result>>

(* Both pipes are empty and nobody holds their write ends.                  *)
DrainEof ==
  /\ drain = "reading"
  /\ \A st \in Stream : pipe[st] = << >>
  /\ child # "running" /\ ~background
  /\ drain' = "done"
  /\ UNCHANGED <<pc, stdinLeft, stdinPipe, procVars, pipe, kept, budgetHit, cancelled, result>>

-----------------------------------------------------------------------------
(* The client, the child and what it leaves behind.                         *)
Cancel ==
  /\ pc # "answered" /\ ~cancelled
  /\ cancelled' = TRUE
  /\ UNCHANGED <<pc, stdinLeft, stdinPipe, procVars, pipe, drainVars, result>>

ChildReads ==
  /\ child = "running" /\ stdinPipe > 0
  /\ stdinPipe' = stdinPipe - 1
  /\ UNCHANGED <<pc, stdinLeft, procVars, pipe, drainVars, cancelled, result>>

ReadEndOpen == drain \in {"none", "reading"}

Write(st, l) ==
  /\ child = "running" \/ background
  /\ ReadEndOpen /\ Len(pipe[st]) < PipeCap /\ wrote[st] < MaxOutput
  /\ pipe' = [pipe EXCEPT ![st] = Append(@, l)]
  /\ wrote' = [wrote EXCEPT ![st] = @ + 1]
  /\ UNCHANGED <<pc, stdinLeft, stdinPipe, child, status, background, drainVars, cancelled, result>>

(* A write to a pipe whose read end is closed.                              *)
BrokenPipe ==
  /\ child = "running" /\ ~ReadEndOpen
  /\ child' = "zombie" /\ status' = "sigpipe"
  /\ UNCHANGED <<pc, stdinLeft, stdinPipe, background, wrote, pipe, drainVars, cancelled, result>>

Fork ==
  /\ child = "running" /\ ~background
  /\ background' = TRUE
  /\ UNCHANGED <<pc, stdinLeft, stdinPipe, child, status, wrote, pipe, drainVars, cancelled, result>>

BackgroundEnds ==
  /\ background
  /\ background' = FALSE
  /\ UNCHANGED <<pc, stdinLeft, stdinPipe, child, status, wrote, pipe, drainVars, cancelled, result>>

ChildExits ==
  /\ child = "running"
  /\ child' = "zombie"
  /\ status' \in {"zero", "nonzero", "killed"}
  /\ UNCHANGED <<pc, stdinLeft, stdinPipe, background, wrote, pipe, drainVars, cancelled, result>>

Environment ==
  \/ Cancel \/ ChildReads \/ BrokenPipe \/ Fork \/ BackgroundEnds \/ ChildExits
  \/ \E st \in Stream, l \in Line : Write(st, l)

Drain == DrainEof \/ \E st \in Stream : DrainLine(st)
Timers == ExecTimeout \/ CancelSeen \/ DrainExpired
Start == SpawnFails \/ \E n \in 0..MaxStdin : Spawn(n)

Next ==
  \/ Start \/ Handler \/ Timers \/ Drain \/ Environment
  \/ pc = "answered" /\ UNCHANGED vars

Spec == Init /\ [][Next]_vars

(* Woken tasks are polled, the token is heard and the drain window closes.  *)
(* Nothing is assumed of the child; of the execution timeout, which is five *)
(* minutes away, a property says itself when it needs it.                   *)
FairSpec ==
  /\ Spec
  /\ WF_vars(Handler) /\ WF_vars(Drain)
  /\ WF_vars(CancelSeen) /\ WF_vars(DrainExpired)
-----------------------------------------------------------------------------
TypeOK ==
  /\ pc \in {"new", "feeding", "waiting", "reaping", "draining", "answered"}
  /\ stdinLeft \in 0..MaxStdin
  /\ stdinPipe \in 0..StdinCap
  /\ child \in {"none", "running", "zombie", "reaped"}
  /\ status \in {"none", "zero", "nonzero", "killed", "sigpipe"}
  /\ background \in BOOLEAN
  /\ pipe \in [Stream -> Seq(Line)]
  /\ \A st \in Stream : Len(pipe[st]) <= PipeCap
  /\ wrote \in [Stream -> 0..MaxOutput]
  /\ drain \in {"none", "reading", "done", "failed", "aborted"}
  /\ kept \in [Stream -> Nat]
  /\ budgetHit \in BOOLEAN
  /\ cancelled \in BOOLEAN
  /\ result \in [exit_code : {"zero", "nonzero", "null"}, output_truncated : BOOLEAN,
                 output_collection_error : BOOLEAN, timed_out : BOOLEAN]

(* An answered call leaves neither a child running nor a zombie, whichever  *)
(* way it ended (exec_runtime.rs:183-205).                                  *)
NoChildLeft == pc = "answered" => child \in {"none", "reaped"}

(* An answer that does not say otherwise carries every line the command     *)
(* and its background processes wrote (docs/METRICS.md:51).                 *)
UntruncatedIsComplete ==
  pc = "answered" /\ ~result.output_truncated /\ ~result.timed_out => kept = wrote

(* The same of an answer whose drain task met no undecodable line: nothing  *)
(* is lost between the pipes, the drain task and the handler, by the budget *)
(* or by a background process, without a flag (exec_runtime.rs:110-232).    *)
DecodedIsComplete ==
  pc = "answered" /\ ~result.output_truncated /\ ~result.timed_out /\ drain # "failed"
    => kept = wrote

(* The server never makes the command fail by closing its output pipes      *)
(* early, but for an undecodable line: a stream over its budget is read on  *)
(* (exec_runtime.rs:124-128).                                               *)
NoBrokenPipe == drain # "failed" => status # "sigpipe"

(* A call that does not wait for the command to read any more: its stdin    *)
(* has been written, or what is left of it fits into the pipe.              *)
Fitting == pc = "waiting" \/ (pc = "feeding" /\ stdinLeft + stdinPipe <= StdinCap)

(* Such a call is answered, whatever the command and what it leaves behind  *)
(* do, because of the execution timeout, the drain window and the kill      *)
(* (lib.rs:799).                                                            *)
FittingCallAnswered == WF_vars(ExecTimeout) => (Fitting ~> pc = "answered")

(* Once it is cancelled it is answered without the execution timeout, even  *)
(* when the command never ends by itself and the cancellation came while    *)
(* stdin was written, or comes as the child exits (exec_runtime.rs:19-20).  *)
CancelledCallAnswered == cancelled /\ Fitting ~> pc = "answered"
==============================================================================
