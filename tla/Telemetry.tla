------------------------------- MODULE Telemetry -------------------------------
(***************************************************************************)
(* The server around its tools: a call enters through the tool router's    *)
(* read lock (lib.rs), takes its (session, sequence) pair and emits its    *)
(* metric events (tools/server.rs) into a bounded channel (metrics.rs),    *)
(* which one writer task empties into the JSONL file and into the summary  *)
(* it exports at shutdown (metrics_export.rs).  notifications/initialized  *)
(* starts a new session and rebinds the router under its write lock.       *)
(*                                                                         *)
(* What a tool does between its receipt and its end is in the other        *)
(* modules.  "analyze_file" stands for the tools with a write-behind to    *)
(* the disk cache, "edit_overwrite" for the one that may end without a     *)
(* terminal event, "read_resource" for the request without a receipt.      *)
(***************************************************************************)
EXTENDS Integers, Sequences, FiniteSets

CONSTANTS
  Calls,     \* requests: tools/call and resources/read
  ToolsOf,   \* call -> the tools it may be sent to
  Capacity,  \* METRICS_CHANNEL_CAPACITY
  BatchMax,  \* events of one batch (100)
  MaxInits   \* bound: notifications/initialized

CONSTANTS Binder, NoTool

Tool == {"analyze_file", "edit_overwrite", "read_resource"}

ASSUME TelemetryAssumption ==
  /\ IsFiniteSet(Calls)
  /\ ToolsOf \in [Calls -> SUBSET Tool]
  /\ Capacity \in Nat \ {0}
  /\ BatchMax \in Nat \ {0}
  /\ MaxInits \in Nat
  /\ Binder \notin Calls

VARIABLES
  call,      \* the requests
  queue,     \* who waits for the router's lock, in order of arrival
  init,      \* where on_initialized is
  sid,       \* session_id, a number for MILLIS-N; 0 is None
  seq,       \* session_call_seq
  failures,  \* DiskCache::write_failures
  channel,   \* the metrics channel
  dropped,   \* DROPPED_EVENTS
  batch,     \* the writer's batch
  counts,    \* tool_counts: calls per tool
  meter,     \* mcp.server.tool.calls, and cache_write_failures_total
  lost,      \* calls in batches whose file could not be opened
  server,    \* "serving", "closed" (its transport) or "exited"
  exported   \* the summary has been written

pipeline == <<channel, dropped>>
metering == <<meter, lost>>
lifecycle == <<server, exported>>
vars == <<call, queue, init, sid, seq, failures, pipeline, batch, counts, metering, lifecycle>>

Event == [tool : Tool \cup {"schema_surface"},
          kind : {"received", "ended", "write_failure", "startup"}]

\* MetricEventBuilder: of an event's fields, those that say what is counted.
MetricEvent(t, k) == [tool |-> t, kind |-> k]

\* emit_schema_surface: one event for the schemas of all tools.
StartupEvent == MetricEvent("schema_surface", "startup")

NewCall ==
  [pc |-> "new", tool |-> NoTool, seq |-> 0, sid |-> 0,
   store |-> "none",   \* the write-behind
   silent |-> FALSE,   \* ended without a terminal event
   raced |-> FALSE]    \* took its pair while on_initialized was replacing it

\* emit_schema_surface runs before the server accepts a request.
Init ==
  /\ call = [c \in Calls |-> NewCall]
  /\ queue = << >>
  /\ init = "idle" /\ sid = 0 /\ seq = 0
  /\ failures = 0
  /\ channel = <<StartupEvent>>
  /\ dropped = 0
  /\ batch = << >>
  /\ counts = [t \in Tool |-> 0]
  /\ meter = [calls |-> 0, failures |-> 0] /\ lost = 0
  /\ server = "serving" /\ exported = FALSE

Running == server # "exited"

-----------------------------------------------------------------------------
(* MetricsSender.                                                          *)

\* Bug: the sender waits for room.
SendAwaits(t, k) ==
  /\ Len(channel) < Capacity
  /\ channel' = Append(channel, MetricEvent(t, k))
  /\ UNCHANGED dropped

\* try_send: an event that finds the channel full is dropped and counted.
Send(t, k) ==
  \/ /\ Len(channel) < Capacity
     /\ channel' = Append(channel, MetricEvent(t, k))
     /\ UNCHANGED dropped
  \/ /\ Len(channel) >= Capacity
     /\ dropped' = dropped + 1
     /\ UNCHANGED channel

-----------------------------------------------------------------------------
(* A request.                                                              *)

\* resources/read takes neither the router's lock nor a receipt: its work is
\* done before it is numbered.
Arrive(c, t) ==
  /\ server = "serving" /\ t \in ToolsOf[c]
  /\ call[c].pc = "new"
  /\ call' = [call EXCEPT ![c].tool = t,
                          ![c].pc = IF t = "read_resource" THEN "entered"
                                                           ELSE "queued"]
  /\ queue' = IF t = "read_resource" THEN queue ELSE Append(queue, c)
  /\ UNCHANGED <<init, sid, seq, failures, pipeline, batch, counts, metering, lifecycle>>

\* The lock is fair: a reader gets it at its turn in the queue.
Enter(c) ==
  /\ Running
  /\ queue # << >> /\ Head(queue) = c
  /\ queue' = Tail(queue)
  /\ call' = [call EXCEPT ![c].pc = "entered"]
  /\ UNCHANGED <<init, sid, seq, failures, pipeline, batch, counts, metering, lifecycle>>

\* Bug: a load in the place of the fetch_add.
NumberLoaded(c) ==
  /\ Running
  /\ call[c].pc = "entered"
  /\ call' = [call EXCEPT ![c].pc = "numbered", ![c].seq = seq,
                          ![c].raced = init = "named"]
  /\ UNCHANGED <<queue, init, sid, seq, failures, pipeline, batch, counts, metering, lifecycle>>

\* fetch_add.
Number(c) ==
  /\ Running
  /\ call[c].pc = "entered"
  /\ seq' = seq + 1
  /\ call' = [call EXCEPT ![c].pc = "numbered", ![c].seq = seq,
                          ![c].raced = init = "named"]
  /\ UNCHANGED <<queue, init, sid, failures, pipeline, batch, counts, metering, lifecycle>>

\* Then the session's lock is taken, and the receipt is sent; of a resource,
\* the only event.
Identify(c) ==
  /\ Running
  /\ call[c].pc = "numbered"
  /\ LET resource == call[c].tool = "read_resource"
     IN  /\ call' = [call EXCEPT ![c].pc = IF resource THEN "ended" ELSE "running",
                                 ![c].sid = sid,
                                 ![c].raced = @ \/ init = "named"]
         /\ Send(call[c].tool, IF resource THEN "ended" ELSE "received")
  /\ UNCHANGED <<queue, init, sid, seq, failures, batch, counts, metering, lifecycle>>

\* An analysis that missed both caches queues its write to the disk.
QueueStore(c) ==
  /\ Running
  /\ call[c].pc = "running" /\ call[c].tool = "analyze_file"
  /\ call[c].store = "none"
  /\ call' = [call EXCEPT ![c].store = "queued"]
  /\ UNCHANGED <<queue, init, sid, seq, failures, pipeline, batch, counts, metering, lifecycle>>

\* DiskCache::put on the blocking pool.
Store(c) ==
  /\ Running
  /\ call[c].store = "queued"
  /\ call' = [call EXCEPT ![c].store = "stored"]
  /\ failures' \in {failures, failures + 1}
  /\ UNCHANGED <<queue, init, sid, seq, pipeline, batch, counts, metering, lifecycle>>

\* drain_write_failures: swap(0) of a counter all calls share.
DrainFailures(c) ==
  /\ Running
  /\ call[c].store = "stored"
  /\ call' = [call EXCEPT ![c].store = IF failures > 0 THEN "failed" ELSE "done"]
  /\ failures' = 0
  /\ UNCHANGED <<queue, init, sid, seq, pipeline, batch, counts, metering, lifecycle>>

ReportFailure(c) ==
  /\ Running
  /\ call[c].store = "failed"
  /\ call' = [call EXCEPT ![c].store = "done"]
  /\ Send(call[c].tool, "write_failure")
  /\ UNCHANGED <<queue, init, sid, seq, failures, batch, counts, metering, lifecycle>>

\* The handler ends with a terminal event and releases the router's lock.
Finish(c) ==
  /\ Running
  /\ call[c].pc = "running"
  /\ call' = [call EXCEPT ![c].pc = "ended"]
  /\ Send(call[c].tool, "ended")
  /\ UNCHANGED <<queue, init, sid, seq, failures, batch, counts, metering, lifecycle>>

\* edit_overwrite refuses a path without a terminal event.
FinishSilently(c) ==
  /\ Running
  /\ call[c].pc = "running" /\ call[c].tool = "edit_overwrite"
  /\ call' = [call EXCEPT ![c].pc = "ended", ![c].silent = TRUE]
  /\ UNCHANGED <<queue, init, sid, seq, failures, pipeline, batch, counts, metering, lifecycle>>

Readers == {c \in Calls : /\ call[c].pc \in {"entered", "numbered", "running"}
                          /\ call[c].tool # "read_resource"}

-----------------------------------------------------------------------------
(* on_initialized.                                                         *)

Race == [c \in Calls |-> IF call[c].pc = "numbered"
                         THEN [call[c] EXCEPT !.raced = TRUE] ELSE call[c]]

\* The clock and GLOBAL_SESSION_COUNTER name the session.
InitNamed ==
  /\ server = "serving"
  /\ init = "idle" /\ sid < MaxInits
  /\ init' = "named"
  /\ sid' = sid + 1
  /\ call' = Race
  /\ UNCHANGED <<queue, seq, failures, pipeline, batch, counts, metering, lifecycle>>

\* The counter starts again, and the writer joins the lock's queue.
InitReset ==
  /\ Running
  /\ init = "named"
  /\ init' = "binding"
  /\ seq' = 0
  /\ queue' = Append(queue, Binder)
  /\ UNCHANGED <<call, sid, failures, pipeline, batch, counts, metering, lifecycle>>

InitBound ==
  /\ Running
  /\ queue # << >> /\ Head(queue) = Binder
  /\ Readers = {}
  /\ queue' = Tail(queue)
  /\ init' = "idle"
  /\ UNCHANGED <<call, sid, seq, failures, pipeline, batch, counts, metering, lifecycle>>

-----------------------------------------------------------------------------
(* MetricsWriter.                                                          *)

\* is_tool_call_event: neither a receipt nor the startup event.
ToolCall(e) == e.kind \notin {"received", "startup"}

\* Bug: the events that report a failed disk write count as calls.
CountedAlways(e) == ToolCall(e)

\* accumulate_event.
Counted(e) == ToolCall(e) /\ e.kind # "write_failure"

\* recv, then try_recv while there is more, up to a full batch.
TakeEvent ==
  /\ Running
  /\ channel # << >> /\ Len(batch) < BatchMax
  /\ LET e == Head(channel)
     IN  /\ counts' = IF Counted(e) THEN [counts EXCEPT ![e.tool] = @ + 1] ELSE counts
         /\ batch' = Append(batch, e)
  /\ channel' = Tail(channel)
  /\ UNCHANGED <<call, queue, init, sid, seq, failures, dropped, metering, lifecycle>>

\* record_otel_metrics, for the events of a batch: a failed write is an event
\* of its own, and is added to both counters.
Metered(events) ==
  [calls |-> Cardinality({i \in DOMAIN events : ToolCall(events[i])}),
   failures |-> Cardinality({i \in DOMAIN events : events[i].kind = "write_failure"})]

CallsIn(events) == Cardinality({i \in DOMAIN events : Counted(events[i])})

\* The file is rotated, opened, locked and appended to (MetricsFile); if it
\* cannot be opened the batch is lost.  The lock may be another process's for
\* ever.
Flush ==
  /\ Running
  /\ batch # << >>
  /\ channel = << >> \/ Len(batch) = BatchMax
  /\ \/ /\ meter' = [calls |-> meter.calls + Metered(batch).calls,
                     failures |-> meter.failures + Metered(batch).failures]
        /\ UNCHANGED lost
     \/ /\ lost' = lost + CallsIn(batch)
        /\ UNCHANGED meter
  /\ batch' = << >>
  /\ UNCHANGED <<call, queue, init, sid, seq, failures, pipeline, counts, lifecycle>>

\* Whoever may still send holds the channel open.
Senders == {c \in Calls : \/ call[c].pc \notin {"new", "ended"}
                          \/ call[c].store \notin {"none", "done"}}

\* recv yields None: the summary is written.
Export ==
  /\ server = "closed" /\ ~exported
  /\ Senders = {} /\ init = "idle"
  /\ channel = << >> /\ batch = << >>
  /\ exported' = TRUE
  /\ UNCHANGED <<call, queue, init, sid, seq, failures, pipeline, batch, counts, metering, server>>

\* The transport ends, or a signal asks the HTTP server to.
Close ==
  /\ server = "serving"
  /\ server' = "closed"
  /\ UNCHANGED <<call, queue, init, sid, seq, failures, pipeline, batch, counts, metering, exported>>

\* main returns, and with it goes the runtime: the writer's join handle was
\* dropped when it was spawned.
Exit ==
  /\ server = "closed"
  /\ server' = "exited"
  /\ UNCHANGED <<call, queue, init, sid, seq, failures, pipeline, batch, counts, metering, exported>>

-----------------------------------------------------------------------------
Advance(c) ==
  Enter(c) \/ Number(c) \/ Identify(c) \/ Finish(c) \/ FinishSilently(c)

WriteBehind(c) == QueueStore(c) \/ Store(c) \/ DrainFailures(c) \/ ReportFailure(c)

Terminated == server = "exited" /\ UNCHANGED vars

Next ==
  \/ \E c \in Calls : \/ \E t \in Tool : Arrive(c, t)
                      \/ Advance(c)
                      \/ WriteBehind(c)
  \/ InitNamed \/ InitReset \/ InitBound
  \/ TakeEvent \/ Flush \/ Export
  \/ Close \/ Exit \/ Terminated

Spec == Init /\ [][Next]_vars

\* Tasks that can run are polled and tools end; nothing is assumed of the
\* writer, whose file lock another process may hold.
FairSpec ==
  /\ Spec
  /\ \A c \in Calls : WF_vars(Advance(c))
  /\ WF_vars(InitReset) /\ WF_vars(InitBound)

-----------------------------------------------------------------------------
\* The calls the summary must count: server.rs:220-225 asks a terminal event
\* of each call, because the summary counts nothing else.
Ended(tools) == {c \in Calls : /\ call[c].pc = "ended" /\ call[c].tool \in tools
                               /\ ~call[c].silent}

Total == counts["analyze_file"] + counts["edit_overwrite"] + counts["read_resource"]

\* The summary counts no call twice, whatever receipts and write failures
\* its events are mixed with, and misses none but those whose events are on
\* their way or were dropped (metrics_export.rs:38-66); OpenTelemetry's counter
\* of calls agrees with it but for the failed disk writes, which that counter
\* counts as calls, and for batches in hand or lost (metrics.rs:531-560).
SummaryCountsCalls ==
  /\ \A t \in Tool : counts[t] <= Cardinality(Ended({t}))
  /\ Cardinality(Ended(Tool)) <= Total + Len(channel) + dropped
  /\ Total = meter.calls - meter.failures + CallsIn(batch) + lost

\* Two calls have the same session and sequence number only if one of them
\* took them while on_initialized was replacing the two (server.rs:166-179
\* and 193-202 do it under no common lock).
PairsUnique ==
  \A c, d \in Calls :
    /\ c # d
    /\ call[c].pc \in {"running", "ended"} /\ call[d].pc \in {"running", "ended"}
    /\ call[c].sid = call[d].sid /\ call[c].seq = call[d].seq
    => call[c].raced \/ call[d].raced

\* Telemetry never blocks a call (metrics.rs, "Non-blocking observability
\* contract"), and neither does a new session: a call that waits for the
\* router ends while the server runs, though the writer may be stuck.
CallsEnd ==
  \A c \in Calls : call[c].pc = "queued" ~> call[c].pc = "ended" \/ ~Running
==============================================================================
