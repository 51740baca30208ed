---------------------------- MODULE TelemetryProofs ----------------------------
(****************************************************************************)
(* What the metrics guarantee: from a request to the queue (Telemetry), for *)
(* any requests, channel and batch sizes and any number of sessions, and    *)
(* from the queue to the files of a day (MetricsFile), for any processes.   *)
(****************************************************************************)
EXTENDS Telemetry, MetricsFile, FiniteSetTheorems, FunctionTheorems, TLAPS

CallState ==
  [pc : {"new", "queued", "entered", "numbered", "running", "ended"}, tool : Tool \cup {NoTool},
   seq : Nat, sid : Nat, store : {"none", "queued", "stored", "failed", "done"},
   silent : BOOLEAN, raced : BOOLEAN]

Events == [tool : Tool, kind : {"received", "ended", "write_failure"}] \cup {StartupEvent}

TelemetryTypeOK ==
  /\ call \in [Calls -> CallState]
  /\ queue \in Seq(Calls \cup {Binder})
  /\ init \in {"idle", "named", "binding"} /\ sid \in Nat /\ seq \in Nat /\ failures \in Nat
  /\ channel \in Seq(Events) /\ dropped \in Nat
  /\ batch \in Seq(Events) /\ counts \in [Tool -> Nat]
  /\ meter \in [calls : Nat, failures : Nat] /\ lost \in Nat

(* A call waits for the router once, and has a tool once it has come.       *)
QueueInv ==
  /\ \A i \in 1..Len(queue) : queue[i] \in Calls => call[queue[i]].pc = "queued"
  /\ \A i, j \in 1..Len(queue) : queue[i] = queue[j] /\ queue[i] \in Calls => i = j
  /\ \A c \in Calls : call[c].pc # "new" \/ call[c].store # "none" => call[c].tool \in Tool
  /\ \A c \in Calls : call[c].silent => call[c].pc = "ended"

(* How often events of a kind come.                                         *)
Occurs(s, E) == {i \in 1..Len(s) : s[i] \in E}
Times(s, E) == Cardinality(Occurs(s, E))

Ends(tools) == {e \in Events : e.kind = "ended" /\ e.tool \in tools}
CallEvents == {e \in Events : ToolCall(e)}
FailureEvents == {e \in Events : e.kind = "write_failure"}

(* An ended call is in the counts, on its way or dropped.                   *)
CountInv ==
  /\ \A t \in Tool : counts[t] + Times(channel, Ends({t})) <= Cardinality(Ended({t}))
  /\ Cardinality(Ended(Tool)) <= Total + Times(channel, Ends(Tool)) + dropped
  /\ Total = meter.calls - meter.failures + Times(batch, Ends(Tool)) + lost

(* The session of a call that has its number: the one it has, or would take *)
(* now.                                                                     *)
Numbered(c) == call[c].pc \in {"numbered", "running", "ended"}
SessionOf(c) == IF call[c].pc = "numbered" THEN sid ELSE call[c].sid

PairInv ==
  /\ \A c \in Calls : Numbered(c) /\ ~ call[c].raced =>
       /\ SessionOf(c) <= sid
       /\ init = "named" => SessionOf(c) < sid
       /\ SessionOf(c) = sid => call[c].seq < seq
  /\ \A c, d \in Calls :
       /\ c # d /\ Numbered(c) /\ Numbered(d) /\ ~ call[c].raced /\ ~ call[d].raced
       /\ SessionOf(c) = SessionOf(d)
       => call[c].seq # call[d].seq

IInv == TelemetryTypeOK /\ QueueInv /\ CountInv /\ PairInv

-----------------------------------------------------------------------------
(* Counting.                                                               *)

LEMMA TimesType ==
  ASSUME NEW S, NEW s \in Seq(S), NEW E
  PROVE  IsFiniteSet(Occurs(s, E)) /\ Times(s, E) \in Nat /\ Times(s, E) <= Len(s)
<1>1. Len(s) \in Nat
  OBVIOUS
<1>2. IsFiniteSet(1..Len(s)) /\ Cardinality(1..Len(s)) = Len(s)
  BY <1>1, FS_Interval
<1>3. Occurs(s, E) \subseteq 1..Len(s)
  BY DEF Occurs
<1>4. QED
  BY <1>2, <1>3, FS_Subset, FS_CardinalityType DEF Times

LEMMA TimesEmpty == \A E : Times(<<>>, E) = 0
<1>1. \A E : Occurs(<<>>, E) = {}
  BY DEF Occurs
<1>2. QED
  BY <1>1, FS_EmptySet DEF Times

LEMMA TimesAppend ==
  ASSUME NEW S, NEW s \in Seq(S), NEW e \in S, NEW E
  PROVE  Times(Append(s, e), E) = IF e \in E THEN Times(s, E) + 1 ELSE Times(s, E)
<1> DEFINE n == Len(s) + 1
           t == Append(s, e)
<1>1. /\ Len(s) \in Nat /\ Len(t) = n /\ t[n] = e
      /\ \A i \in 1..Len(s) : t[i] = s[i] /\ i \in 1..n
      /\ \A i \in 1..n : i = n \/ i \in 1..Len(s)
      /\ n \in 1..n /\ n \notin 1..Len(s)
  OBVIOUS
<1>2. Occurs(t, E) = IF e \in E THEN Occurs(s, E) \cup {n} ELSE Occurs(s, E)
  <2> HIDE DEF t, n
  <2>1. QED
    BY <1>1 DEF Occurs
<1>3. n \notin Occurs(s, E)
  BY <1>1 DEF Occurs
<1>4. IsFiniteSet(Occurs(s, E))
  BY TimesType
<1>5. Cardinality(Occurs(s, E) \cup {n}) = Cardinality(Occurs(s, E)) + 1
  BY <1>3, <1>4, FS_AddElement
<1>6. QED
  BY <1>2, <1>5 DEF Times

(* The first event is followed by the others, each one place later.         *)
LEMMA TimesTail ==
  ASSUME NEW S, NEW s \in Seq(S), s # <<>>, NEW E
  PROVE  Times(s, E) = IF Head(s) \in E THEN Times(Tail(s), E) + 1 ELSE Times(Tail(s), E)
<1> DEFINE t == Tail(s)
           later == Occurs(s, E) \ {1}
<1>1. /\ Len(s) \in Nat /\ Len(s) >= 1 /\ t \in Seq(S) /\ Len(t) = Len(s) - 1 /\ Head(s) = s[1]
      /\ \A i \in 1..Len(t) : t[i] = s[i + 1]
  OBVIOUS
<1> HIDE DEF t
<1>2. Occurs(s, E) = IF Head(s) \in E THEN later \cup {1} ELSE later
  BY <1>1 DEF Occurs
<1>3. Occurs(t, E) \in SUBSET Nat /\ later \in SUBSET Nat
  BY <1>1 DEF Occurs
<1> DEFINE f == [i \in Occurs(t, E) |-> i + 1]
<1>4. f \in Bijection(Occurs(t, E), later)
  <2>1. \A i \in Occurs(t, E) : f[i] \in later
    BY <1>1 DEF Occurs
  <2>2. \A i, j \in Occurs(t, E) : f[i] = f[j] => i = j
    BY <1>3
  <2>3. ASSUME NEW i \in later PROVE \E j \in Occurs(t, E) : f[j] = i
    <3>1. i \in 1..Len(s) /\ i # 1 /\ s[i] \in E
      BY DEF Occurs
    <3>2. i - 1 \in 1..Len(t) /\ (i - 1) + 1 = i
      BY <1>1, <3>1
    <3>3. i - 1 \in Occurs(t, E)
      BY <1>1, <3>1, <3>2 DEF Occurs
    <3>4. f[i - 1] = i
      BY <3>2, <3>3
    <3>5. QED
      BY <3>3, <3>4
  <2>4. f \in [Occurs(t, E) -> later]
    BY <2>1
  <2> HIDE DEF f, later
  <2>5. QED
    BY <2>2, <2>3, <2>4, Fun_IsBij
<1>5. IsFiniteSet(Occurs(t, E)) /\ IsFiniteSet(Occurs(s, E))
  BY <1>1, TimesType
<1>6. Cardinality(later) = Cardinality(Occurs(t, E)) /\ IsFiniteSet(later)
  <2>1. ExistsBijection(Occurs(t, E), later)
    BY <1>4 DEF ExistsBijection
  <2>2. QED
    BY <1>5, <2>1, FS_Bijection
<1>7. 1 \notin later
  OBVIOUS
<1> HIDE DEF later
<1>8. Cardinality(later \cup {1}) = Cardinality(later) + 1
  BY <1>6, <1>7, FS_AddElement
<1>9. QED
  BY <1>2, <1>6, <1>8 DEF Times, t

LEMMA TimesSplit ==
  ASSUME NEW S, NEW s \in Seq(S), NEW A, NEW B, A \cap B = {}
  PROVE  Times(s, A \cup B) = Times(s, A) + Times(s, B)
<1>1. Occurs(s, A \cup B) = Occurs(s, A) \cup Occurs(s, B) /\ Occurs(s, A) \cap Occurs(s, B) = {}
  BY DEF Occurs
<1>2. IsFiniteSet(Occurs(s, A)) /\ IsFiniteSet(Occurs(s, B))
  BY TimesType
<1> DEFINE a == Occurs(s, A)
           b == Occurs(s, B)
<1>3. /\ Cardinality({}) = 0 /\ Cardinality(a) \in Nat /\ Cardinality(b) \in Nat
      /\ a \cap b = {} /\ Cardinality(a \cap b) = 0
  BY <1>1, <1>2, FS_EmptySet, FS_CardinalityType
<1> HIDE DEF a, b
<1>4. Cardinality(a \cup b) = Cardinality(a) + Cardinality(b) - Cardinality(a \cap b)
  BY <1>2, FS_Union DEF a, b
<1>5. Cardinality(a \cup b) = Cardinality(a) + Cardinality(b)
  BY <1>3, <1>4
<1>6. QED
  BY <1>1, <1>5 DEF Times, a, b

-----------------------------------------------------------------------------
(* The calls that ended.                                                   *)

LEMMA EndedFinite ==
  \A tools : IsFiniteSet(Ended(tools)) /\ Cardinality(Ended(tools)) \in Nat
<1>1. \A tools : Ended(tools) \subseteq Calls
  BY DEF Ended
<1>2. QED
  BY <1>1, FS_Subset, FS_CardinalityType, TelemetryAssumption

LEMMA EndedSame ==
  ASSUME \A c \in Calls : /\ call'[c].pc = "ended" <=> call[c].pc = "ended"
                          /\ call'[c].tool = call[c].tool \/ call[c].pc # "ended"
                          /\ call'[c].silent = call[c].silent \/ call[c].pc # "ended"
  PROVE  \A tools : Ended(tools)' = Ended(tools)
BY DEF Ended

(* c ends with the terminal event of its tool, or without it.               *)
LEMMA EndedGrows ==
  ASSUME NEW c \in Calls, call[c].pc # "ended", call'[c].pc = "ended",
         ~ call'[c].silent, call'[c].tool = call[c].tool,
         \A d \in Calls \ {c} : call'[d] = call[d]
  PROVE  \A tools : Cardinality(Ended(tools)') =
           IF call[c].tool \in tools THEN Cardinality(Ended(tools)) + 1
                                     ELSE Cardinality(Ended(tools))
<1>1. ASSUME NEW tools
      PROVE  /\ c \notin Ended(tools)
             /\ Ended(tools)' = IF call[c].tool \in tools THEN Ended(tools) \cup {c} ELSE Ended(tools)
  BY DEF Ended
<1>2. QED
  BY <1>1, EndedFinite, FS_AddElement

(* What Send does to the events on their way.                               *)
LEMMA SendKeeps ==
  ASSUME TelemetryTypeOK, NEW t \in Tool, NEW k \in {"received", "ended", "write_failure"}, Send(t, k)
  PROVE  /\ channel' \in Seq(Events) /\ dropped' \in Nat
         /\ \A E : /\ Times(channel, E) \in Nat /\ Times(channel', E) \in Nat
                   /\ MetricEvent(t, k) \notin E => Times(channel', E) = Times(channel, E)
                   /\ MetricEvent(t, k) \in E => /\ Times(channel', E) <= Times(channel, E) + 1
                                                 /\ Times(channel', E) + dropped' = Times(channel, E) + dropped + 1
         /\ dropped <= dropped'
<1> DEFINE e == MetricEvent(t, k)
<1>1. e \in Events
  BY DEF MetricEvent, Events
<1>2. channel \in Seq(Events) /\ dropped \in Nat
  BY DEF TelemetryTypeOK
<1>3. \A E : Times(channel, E) \in Nat
  BY <1>2, TimesType
<1>4. CASE channel' = Append(channel, e) /\ dropped' = dropped
  <2> HIDE DEF e
  <2>1. \A E : Times(channel', E) = IF e \in E THEN Times(channel, E) + 1 ELSE Times(channel, E)
    BY <1>1, <1>2, <1>4, TimesAppend
  <2>2. channel' \in Seq(Events)
    BY <1>1, <1>2, <1>4
  <2>3. QED
    BY <1>2, <1>3, <1>4, <2>1, <2>2 DEF e
<1>5. CASE channel' = channel /\ dropped' = dropped + 1
  BY <1>2, <1>3, <1>5
<1>6. QED
  BY <1>4, <1>5 DEF Send

LEMMA MetricEnds ==
  ASSUME NEW t \in Tool, NEW k \in {"received", "ended", "write_failure"}, NEW tools
  PROVE  MetricEvent(t, k) \in Ends(tools) <=> k = "ended" /\ t \in tools
BY DEF MetricEvent, Ends, Events

-----------------------------------------------------------------------------
(* Types.                                                                  *)

LEMMA InitIInv == Init => IInv
<1> SUFFICES ASSUME Init PROVE IInv
  OBVIOUS
<1>1. NewCall \in CallState
  BY DEF NewCall, CallState
<1>2. TelemetryTypeOK
  <2>1. <<StartupEvent>> \in Seq(Events) /\ <<>> \in Seq(Events)
    BY DEF Events
  <2>2. QED
    BY <1>1, <2>1 DEF Init, TelemetryTypeOK
<1>3. QueueInv
  BY DEF Init, QueueInv, NewCall
<1>4. CountInv
  <2>1. \A tools : Ended(tools) = {}
    BY DEF Ended, Init, NewCall
  <2>2. \A tools : Cardinality(Ended(tools)) = 0
    BY <2>1, FS_EmptySet
  <2>3. ASSUME NEW tools PROVE Times(channel, Ends(tools)) = 0
    <3>1. Occurs(channel, Ends(tools)) = {}
      BY DEF Occurs, Ends, Init, StartupEvent, MetricEvent
    <3>2. QED
      BY <3>1, FS_EmptySet DEF Times
  <2>4. Times(batch, Ends(Tool)) = 0
    BY TimesEmpty DEF Init
  <2>5. Total = 0 /\ \A t \in Tool : counts[t] = 0
    BY DEF Total, Init, Tool
  <2>6. QED
    BY <2>2, <2>3, <2>4, <2>5 DEF CountInv, Init
<1>5. PairInv
  BY DEF Init, PairInv, NewCall, Numbered
<1>6. QED
  BY <1>2, <1>3, <1>4, <1>5 DEF IInv

-----------------------------------------------------------------------------

(* What a call's own step does to its record.                              *)

LEMMA OwnRecord ==
  ASSUME TelemetryTypeOK, NEW c \in Calls, NEW r \in CallState, call' = [call EXCEPT ![c] = r]
  PROVE  /\ call' \in [Calls -> CallState] /\ call'[c] = r
         /\ \A d \in Calls : d # c => call'[d] = call[d]
BY DEF TelemetryTypeOK

LEMMA ArriveRecord ==
  ASSUME TelemetryTypeOK, NEW c \in Calls, NEW t \in Tool, Arrive(c, t)
  PROVE  /\ call' \in [Calls -> CallState] /\ \A d \in Calls : d # c => call'[d] = call[d]
         /\ call'[c].tool = t
         /\ call'[c].pc = (IF t = "read_resource" THEN "entered" ELSE "queued")
         /\ call'[c].seq = call[c].seq /\ call'[c].sid = call[c].sid
         /\ call'[c].store = call[c].store /\ call'[c].silent = call[c].silent
         /\ (call'[c].raced <=> call[c].raced)
<1> DEFINE r == [call[c] EXCEPT !.tool = t, !.pc = (IF t = "read_resource" THEN "entered" ELSE "queued")]
<1>1. call[c] \in CallState
  BY DEF TelemetryTypeOK
<1>3. call' = [call EXCEPT ![c] = r]
  BY Zenon DEF TelemetryTypeOK, Arrive
<1>4. /\ r \in CallState
      /\ r.tool = t /\ r.pc = (IF t = "read_resource" THEN "entered" ELSE "queued")
      /\ r.seq = call[c].seq /\ r.sid = call[c].sid /\ r.store = call[c].store
      /\ r.silent = call[c].silent /\ (r.raced <=> call[c].raced)
  BY <1>1 DEF CallState
<1> HIDE DEF r
<1>5. QED
  BY <1>3, <1>4, OwnRecord

LEMMA EnterRecord ==
  ASSUME TelemetryTypeOK, NEW c \in Calls, Enter(c)
  PROVE  /\ call' \in [Calls -> CallState] /\ \A d \in Calls : d # c => call'[d] = call[d]
         /\ call'[c].pc = "entered" /\ call'[c].tool = call[c].tool
         /\ call'[c].seq = call[c].seq /\ call'[c].sid = call[c].sid
         /\ call'[c].store = call[c].store /\ call'[c].silent = call[c].silent
         /\ (call'[c].raced <=> call[c].raced)
<1> DEFINE r == [call[c] EXCEPT !.pc = "entered"]
<1>1. call[c] \in CallState
  BY DEF TelemetryTypeOK
<1>3. call' = [call EXCEPT ![c] = r]
  BY Zenon DEF TelemetryTypeOK, Enter
<1>4. /\ r \in CallState
      /\ r.pc = "entered" /\ r.tool = call[c].tool /\ r.seq = call[c].seq
      /\ r.sid = call[c].sid /\ r.store = call[c].store /\ r.silent = call[c].silent
      /\ (r.raced <=> call[c].raced)
  BY <1>1 DEF CallState
<1> HIDE DEF r
<1>5. QED
  BY <1>3, <1>4, OwnRecord

LEMMA NumberRecord ==
  ASSUME TelemetryTypeOK, NEW c \in Calls, Number(c)
  PROVE  /\ call' \in [Calls -> CallState] /\ \A d \in Calls : d # c => call'[d] = call[d]
         /\ call'[c].pc = "numbered" /\ call'[c].seq = seq /\ call'[c].tool = call[c].tool
         /\ call'[c].sid = call[c].sid /\ call'[c].store = call[c].store
         /\ call'[c].silent = call[c].silent /\ (call'[c].raced <=> init = "named")
<1> DEFINE raced == init = "named"
           r == [call[c] EXCEPT !.pc = "numbered", !.seq = seq, !.raced = raced]
<1>1. call[c] \in CallState /\ seq \in Nat
  BY DEF TelemetryTypeOK
<1>2. raced \in BOOLEAN
  BY <1>1 DEF CallState
<1>3. call' = [call EXCEPT ![c] = r]
  BY Zenon DEF TelemetryTypeOK, Number
<1> HIDE DEF raced
<1>4. /\ r \in CallState
      /\ r.pc = "numbered" /\ r.seq = seq /\ r.tool = call[c].tool /\ r.sid = call[c].sid
      /\ r.store = call[c].store /\ r.silent = call[c].silent /\ (r.raced <=> raced)
  BY <1>1, <1>2 DEF CallState
<1> HIDE DEF r
<1>5. QED
  BY <1>3, <1>4, OwnRecord DEF raced

LEMMA IdentifyRecord ==
  ASSUME TelemetryTypeOK, NEW c \in Calls, Identify(c)
  PROVE  /\ call' \in [Calls -> CallState] /\ \A d \in Calls : d # c => call'[d] = call[d]
         /\ call'[c].pc = (IF call[c].tool = "read_resource" THEN "ended" ELSE "running")
         /\ call'[c].sid = sid /\ call'[c].tool = call[c].tool /\ call'[c].seq = call[c].seq
         /\ call'[c].store = call[c].store /\ call'[c].silent = call[c].silent
         /\ (call'[c].raced <=> call[c].raced \/ init = "named")
<1> DEFINE raced == call[c].raced \/ init = "named"
           r == [call[c] EXCEPT !.pc = (IF call[c].tool = "read_resource" THEN "ended" ELSE "running"), !.sid = sid, !.raced = raced]
<1>1. call[c] \in CallState /\ sid \in Nat
  BY DEF TelemetryTypeOK
<1>2. raced \in BOOLEAN
  BY <1>1 DEF CallState
<1>3. call' = [call EXCEPT ![c] = r]
  BY Zenon DEF TelemetryTypeOK, Identify
<1> HIDE DEF raced
<1>4. /\ r \in CallState
      /\ r.pc = (IF call[c].tool = "read_resource" THEN "ended" ELSE "running")
      /\ r.sid = sid /\ r.tool = call[c].tool /\ r.seq = call[c].seq
      /\ r.store = call[c].store /\ r.silent = call[c].silent /\ (r.raced <=> raced)
  BY <1>1, <1>2 DEF CallState
<1> HIDE DEF r
<1>5. QED
  BY <1>3, <1>4, OwnRecord DEF raced

LEMMA FinishRecord ==
  ASSUME TelemetryTypeOK, NEW c \in Calls, Finish(c)
  PROVE  /\ call' \in [Calls -> CallState] /\ \A d \in Calls : d # c => call'[d] = call[d]
         /\ call'[c].pc = "ended" /\ call'[c].tool = call[c].tool /\ call'[c].seq = call[c].seq
         /\ call'[c].sid = call[c].sid /\ call'[c].store = call[c].store
         /\ call'[c].silent = call[c].silent /\ (call'[c].raced <=> call[c].raced)
<1> DEFINE r == [call[c] EXCEPT !.pc = "ended"]
<1>1. call[c] \in CallState
  BY DEF TelemetryTypeOK
<1>3. call' = [call EXCEPT ![c] = r]
  BY Zenon DEF TelemetryTypeOK, Finish
<1>4. /\ r \in CallState
      /\ r.pc = "ended" /\ r.tool = call[c].tool /\ r.seq = call[c].seq
      /\ r.sid = call[c].sid /\ r.store = call[c].store /\ r.silent = call[c].silent
      /\ (r.raced <=> call[c].raced)
  BY <1>1 DEF CallState
<1> HIDE DEF r
<1>5. QED
  BY <1>3, <1>4, OwnRecord

LEMMA SilentRecord ==
  ASSUME TelemetryTypeOK, NEW c \in Calls, FinishSilently(c)
  PROVE  /\ call' \in [Calls -> CallState] /\ \A d \in Calls : d # c => call'[d] = call[d]
         /\ call'[c].pc = "ended" /\ call'[c].silent = TRUE /\ call'[c].tool = call[c].tool
         /\ call'[c].seq = call[c].seq /\ call'[c].sid = call[c].sid
         /\ call'[c].store = call[c].store /\ (call'[c].raced <=> call[c].raced)
<1> DEFINE r == [call[c] EXCEPT !.pc = "ended", !.silent = TRUE]
<1>1. call[c] \in CallState
  BY DEF TelemetryTypeOK
<1>3. call' = [call EXCEPT ![c] = r]
  BY Zenon DEF TelemetryTypeOK, FinishSilently
<1>4. /\ r \in CallState
      /\ r.pc = "ended" /\ r.silent = TRUE /\ r.tool = call[c].tool /\ r.seq = call[c].seq
      /\ r.sid = call[c].sid /\ r.store = call[c].store /\ (r.raced <=> call[c].raced)
  BY <1>1 DEF CallState
<1> HIDE DEF r
<1>5. QED
  BY <1>3, <1>4, OwnRecord

LEMMA StoreRecord ==
  ASSUME TelemetryTypeOK, NEW c \in Calls,
         QueueStore(c) \/ Store(c) \/ DrainFailures(c) \/ ReportFailure(c)
  PROVE  /\ call' \in [Calls -> CallState] /\ \A d \in Calls : d # c => call'[d] = call[d]
         /\ call'[c].pc = call[c].pc /\ call'[c].tool = call[c].tool /\ call'[c].seq = call[c].seq
         /\ call'[c].sid = call[c].sid /\ call'[c].silent = call[c].silent
         /\ call'[c].raced <=> call[c].raced
<1>1. call[c] \in CallState
  BY DEF TelemetryTypeOK
<1>2. PICK st \in {"queued", "stored", "failed", "done"} : call' = [call EXCEPT ![c].store = st]
  BY DEF QueueStore, Store, DrainFailures, ReportFailure
<1> DEFINE r == [call[c] EXCEPT !.store = st]
<1>3. call' = [call EXCEPT ![c] = r]
  BY <1>2, Zenon DEF TelemetryTypeOK
<1>4. /\ r \in CallState
      /\ r.pc = call[c].pc /\ r.tool = call[c].tool /\ r.seq = call[c].seq
      /\ r.sid = call[c].sid /\ r.silent = call[c].silent /\ r.raced = call[c].raced
  BY <1>1 DEF CallState
<1> HIDE DEF r
<1>5. QED
  BY <1>3, <1>4, OwnRecord


LEMMA TypeStep == IInv /\ [Next]_vars => TelemetryTypeOK'
<1> SUFFICES ASSUME IInv, [Next]_vars PROVE TelemetryTypeOK'
  OBVIOUS
<1> USE DEF pipeline, metering, lifecycle
<1>1. TelemetryTypeOK /\ QueueInv
  BY DEF IInv
<1>2. \A c \in Calls : call[c] \in CallState
  BY <1>1 DEF TelemetryTypeOK
<1>3. ASSUME NEW c \in Calls, NEW t \in Tool, Arrive(c, t) PROVE TelemetryTypeOK'
  <2>1. call' \in [Calls -> CallState]
    BY <1>1, <1>3, ArriveRecord
  <2>2. queue' \in Seq(Calls \cup {Binder})
    BY <1>1, <1>3 DEF Arrive, TelemetryTypeOK
  <2>3. QED
    BY <1>1, <1>3, <2>1, <2>2 DEF Arrive, TelemetryTypeOK
<1>4. ASSUME NEW c \in Calls, Enter(c) PROVE TelemetryTypeOK'
  <2>1. call' \in [Calls -> CallState]
    BY <1>1, <1>4, EnterRecord
  <2>2. queue' \in Seq(Calls \cup {Binder})
    BY <1>1, <1>4 DEF Enter, TelemetryTypeOK
  <2>3. QED
    BY <1>1, <1>4, <2>1, <2>2 DEF Enter, TelemetryTypeOK
<1>5. ASSUME NEW c \in Calls, Number(c) PROVE TelemetryTypeOK'
  <2>1. call' \in [Calls -> CallState]
    BY <1>1, <1>5, NumberRecord
  <2>2. QED
    BY <1>1, <1>5, <2>1 DEF Number, TelemetryTypeOK
<1>6. ASSUME NEW c \in Calls, Identify(c) PROVE TelemetryTypeOK'
  <2>1. call' \in [Calls -> CallState]
    BY <1>1, <1>6, IdentifyRecord
  <2>2. call[c].tool \in Tool
    BY <1>1, <1>6 DEF Identify, QueueInv
  <2>3. channel' \in Seq(Events) /\ dropped' \in Nat
    BY <1>1, <1>6, <2>2, SendKeeps DEF Identify
  <2>4. QED
    BY <1>1, <1>6, <2>1, <2>3 DEF Identify, TelemetryTypeOK
<1>7. ASSUME NEW c \in Calls, QueueStore(c) \/ Store(c) \/ DrainFailures(c) PROVE TelemetryTypeOK'
  <2>1. call' \in [Calls -> CallState]
    BY <1>1, <1>7, StoreRecord
  <2>2. failures' \in Nat
    BY <1>1, <1>7 DEF QueueStore, Store, DrainFailures, TelemetryTypeOK
  <2>3. QED
    BY <1>1, <1>7, <2>1, <2>2 DEF QueueStore, Store, DrainFailures, TelemetryTypeOK
<1>8. ASSUME NEW c \in Calls, ReportFailure(c) \/ Finish(c) PROVE TelemetryTypeOK'
  <2>1. call' \in [Calls -> CallState]
    BY <1>1, <1>8, StoreRecord, FinishRecord
  <2>2. call[c].tool \in Tool
    BY <1>1, <1>8 DEF ReportFailure, Finish, QueueInv
  <2>3. channel' \in Seq(Events) /\ dropped' \in Nat
    BY <1>1, <1>8, <2>2, SendKeeps DEF ReportFailure, Finish
  <2>4. QED
    BY <1>1, <1>8, <2>1, <2>3 DEF ReportFailure, Finish, TelemetryTypeOK
<1>9. ASSUME NEW c \in Calls, FinishSilently(c) PROVE TelemetryTypeOK'
  <2>1. call' \in [Calls -> CallState]
    BY <1>1, <1>9, SilentRecord
  <2>2. QED
    BY <1>1, <1>9, <2>1 DEF FinishSilently, TelemetryTypeOK
<1>10. ASSUME InitNamed PROVE TelemetryTypeOK'
  <2>1. call' \in [Calls -> CallState]
    BY <1>1, <1>2, <1>10 DEF InitNamed, Race, CallState
  <2>2. QED
    BY <1>1, <1>10, <2>1 DEF InitNamed, TelemetryTypeOK
<1>11. ASSUME InitReset \/ InitBound PROVE TelemetryTypeOK'
  <2>1. queue' \in Seq(Calls \cup {Binder})
    <3>1. Binder \in Calls \cup {Binder} /\ queue \in Seq(Calls \cup {Binder})
      BY <1>1 DEF TelemetryTypeOK
    <3>2. CASE InitReset
      BY <3>1, <3>2 DEF InitReset
    <3>3. CASE InitBound
      BY <3>1, <3>3 DEF InitBound
    <3>4. QED
      BY <1>11, <3>2, <3>3
  <2>2. QED
    BY <1>1, <1>11, <2>1 DEF InitReset, InitBound, TelemetryTypeOK
<1>12. ASSUME TakeEvent PROVE TelemetryTypeOK'
  <2>1. Head(channel) \in Events /\ channel' \in Seq(Events)
    BY <1>1, <1>12 DEF TakeEvent, TelemetryTypeOK
  <2>2. batch' \in Seq(Events)
    BY <1>1, <1>12, <2>1 DEF TakeEvent, TelemetryTypeOK
  <2>3. counts' \in [Tool -> Nat]
    <3>1. counts \in [Tool -> Nat]
      BY <1>1 DEF TelemetryTypeOK
    <3>2. Counted(Head(channel)) => Head(channel).tool \in Tool
      BY <2>1 DEF Events, Counted, ToolCall, StartupEvent, MetricEvent
    <3>3. QED
      BY <1>12, <3>1, <3>2 DEF TakeEvent
  <2>4. QED
    BY <1>1, <1>12, <2>1, <2>2, <2>3 DEF TakeEvent, TelemetryTypeOK
<1>13. ASSUME Flush PROVE TelemetryTypeOK'
  <2>1. Metered(batch).calls \in Nat /\ Metered(batch).failures \in Nat /\ CallsIn(batch) \in Nat
    <3>1. batch \in Seq(Events)
      BY <1>1 DEF TelemetryTypeOK
    <3>2. IsFiniteSet(DOMAIN batch)
      BY <3>1, FS_Interval
    <3>3. \A E : E \subseteq DOMAIN batch => Cardinality(E) \in Nat
      BY <3>2, FS_Subset, FS_CardinalityType
    <3>4. QED
      BY <3>3 DEF Metered, CallsIn
  <2>2. batch' \in Seq(Events)
    BY <1>13 DEF Flush
  <2>3. meter' \in [calls : Nat, failures : Nat] /\ lost' \in Nat
    BY <1>1, <1>13, <2>1 DEF Flush, TelemetryTypeOK
  <2>4. QED
    BY <1>1, <1>13, <2>2, <2>3 DEF Flush, TelemetryTypeOK
<1>14. ASSUME Export \/ Close \/ Exit \/ UNCHANGED vars PROVE TelemetryTypeOK'
  BY <1>1, <1>14 DEF Export, Close, Exit, vars, TelemetryTypeOK
<1>15. QED
  BY <1>3, <1>4, <1>5, <1>6, <1>7, <1>8, <1>9, <1>10, <1>11, <1>12, <1>13, <1>14
  DEF Next, Advance, WriteBehind, Terminated

-----------------------------------------------------------------------------
(* The queue.                                                              *)

LEMMA QueueSame ==
  ASSUME QueueInv, queue' = queue,
         \A c \in Calls : /\ call[c].pc = "queued" => call'[c].pc = "queued"
                          /\ (call'[c].pc # "new" \/ call'[c].store # "none") => call'[c].tool \in Tool
                          /\ call'[c].silent => call'[c].pc = "ended"
  PROVE  QueueInv'
<1>1. ASSUME NEW i \in 1..Len(queue'), queue'[i] \in Calls PROVE call'[queue'[i]].pc = "queued"
  <2>1. i \in 1..Len(queue) /\ queue[i] \in Calls /\ queue'[i] = queue[i]
    BY <1>1
  <2>2. call[queue[i]].pc = "queued"
    BY <2>1 DEF QueueInv
  <2>3. QED
    BY <2>1, <2>2
<1>2. \A i, j \in 1..Len(queue') : queue'[i] = queue'[j] /\ queue'[i] \in Calls => i = j
  BY DEF QueueInv
<1>3. \A c \in Calls : (call'[c].pc # "new" \/ call'[c].store # "none") => call'[c].tool \in Tool
  OBVIOUS
<1>4. \A c \in Calls : call'[c].silent => call'[c].pc = "ended"
  OBVIOUS
<1>5. QED
  BY <1>1, <1>2, <1>3, <1>4 DEF QueueInv

LEMMA QueueStep == IInv /\ [Next]_vars => QueueInv'
<1> SUFFICES ASSUME IInv, [Next]_vars PROVE QueueInv'
  OBVIOUS
<1>1. TelemetryTypeOK /\ QueueInv
  BY DEF IInv
<1>2. \A c \in Calls : /\ call[c].pc # "new" \/ call[c].store # "none" => call[c].tool \in Tool
                       /\ call[c].silent => call[c].pc = "ended"
  BY <1>1 DEF QueueInv
<1>3. ASSUME NEW c \in Calls, NEW t \in Tool, Arrive(c, t) PROVE QueueInv'
  <2>1. \A d \in Calls : /\ (call'[d].pc # "new" \/ call'[d].store # "none") => call'[d].tool \in Tool
                         /\ call'[d].silent => call'[d].pc = "ended"
    <3>1. ~ call[c].silent
      BY <1>2, <1>3 DEF Arrive
    <3>2. /\ call'[c].tool = t /\ (call'[c].silent <=> call[c].silent)
          /\ \A d \in Calls : d # c => call'[d] = call[d]
      BY <1>1, <1>3, ArriveRecord
    <3>3. QED
      BY <1>2, <3>1, <3>2
  <2>2. CASE t = "read_resource"
    BY <1>1, <1>3, <2>1, <2>2, ArriveRecord, QueueSame DEF Arrive
  <2>3. CASE t # "read_resource"
    <3>1. /\ queue \in Seq(Calls \cup {Binder}) /\ queue' = Append(queue, c)
          /\ call[c].pc = "new" /\ call'[c].pc = "queued"
          /\ \A d \in Calls : d # c => call'[d] = call[d]
      <4>1. call'[c].pc = "queued" /\ \A d \in Calls : d # c => call'[d] = call[d]
        BY <1>1, <1>3, <2>3, ArriveRecord
      <4>2. QED
        BY <1>1, <1>3, <2>3, <4>1 DEF Arrive, TelemetryTypeOK
    <3>2. /\ Len(queue) \in Nat /\ Len(queue') = Len(queue) + 1 /\ queue'[Len(queue) + 1] = c
          /\ \A i \in 1..Len(queue) : queue'[i] = queue[i]
      BY <3>1
    <3>3. \A i \in 1..Len(queue) : queue[i] # c
      BY <1>1, <3>1 DEF QueueInv
    <3>4. QED
      BY <1>1, <2>1, <3>1, <3>2, <3>3 DEF QueueInv
  <2>4. QED
    BY <2>2, <2>3
<1>4. ASSUME NEW c \in Calls, Enter(c) PROVE QueueInv'
  <2>1. \A d \in Calls : /\ (call'[d].pc # "new" \/ call'[d].store # "none") => call'[d].tool \in Tool
                         /\ call'[d].silent => call'[d].pc = "ended"
    <3>1. Len(queue) >= 1 /\ queue[1] = c
      BY <1>1, <1>4 DEF Enter, TelemetryTypeOK
    <3>2. call[c].pc = "queued"
      BY <1>1, <3>1 DEF QueueInv, TelemetryTypeOK
    <3>3. QED
      BY <1>1, <1>2, <1>4, <3>2, EnterRecord
  <2>2. /\ queue \in Seq(Calls \cup {Binder}) /\ queue # <<>> /\ Head(queue) = c /\ queue' = Tail(queue)
        /\ \A d \in Calls : d # c => call'[d] = call[d]
    BY <1>1, <1>4, EnterRecord DEF Enter, TelemetryTypeOK
  <2>3. /\ Len(queue) \in Nat /\ Len(queue') = Len(queue) - 1 /\ queue[1] = c /\ Len(queue) >= 1
        /\ \A i \in 1..Len(queue') : queue'[i] = queue[i + 1] /\ i + 1 \in 1..Len(queue) /\ i + 1 # 1
    BY <2>2
  <2>4. \A i \in 1..Len(queue') : queue'[i] # c
    BY <1>1, <2>3 DEF QueueInv
  <2>5. QED
    BY <1>1, <2>1, <2>2, <2>3, <2>4 DEF QueueInv
<1>5. ASSUME NEW c \in Calls, Number(c) PROVE QueueInv'
  BY <1>1, <1>2, <1>5, NumberRecord, QueueSame DEF Number
<1>6. ASSUME NEW c \in Calls, Identify(c) PROVE QueueInv'
  BY <1>1, <1>2, <1>6, IdentifyRecord, QueueSame DEF Identify
<1>7. ASSUME NEW c \in Calls, QueueStore(c) \/ Store(c) \/ DrainFailures(c) \/ ReportFailure(c) PROVE QueueInv'
  <2>1. call[c].tool \in Tool /\ queue' = queue
    BY <1>2, <1>7 DEF QueueStore, Store, DrainFailures, ReportFailure
  <2>2. QED
    BY <1>1, <1>2, <1>7, <2>1, StoreRecord, QueueSame
<1>8. ASSUME NEW c \in Calls, Finish(c) PROVE QueueInv'
  BY <1>1, <1>2, <1>8, FinishRecord, QueueSame DEF Finish
<1>9. ASSUME NEW c \in Calls, FinishSilently(c) PROVE QueueInv'
  BY <1>1, <1>2, <1>9, SilentRecord, QueueSame DEF FinishSilently
<1>10. ASSUME InitNamed PROVE QueueInv'
  <2>1. \A c \in Calls : /\ call'[c].pc = call[c].pc /\ call'[c].tool = call[c].tool
                         /\ call'[c].store = call[c].store /\ call'[c].silent = call[c].silent
    BY <1>1, <1>10 DEF InitNamed, Race, TelemetryTypeOK, CallState
  <2>2. QED
    BY <1>1, <1>2, <1>10, <2>1, QueueSame DEF InitNamed
<1>11. ASSUME InitReset PROVE QueueInv'
  <2>1. /\ queue \in Seq(Calls \cup {Binder}) /\ queue' = Append(queue, Binder) /\ call' = call
    BY <1>1, <1>11 DEF InitReset, TelemetryTypeOK
  <2>2. /\ Len(queue) \in Nat /\ Len(queue') = Len(queue) + 1 /\ queue'[Len(queue) + 1] = Binder
        /\ \A i \in 1..Len(queue) : queue'[i] = queue[i]
    BY <2>1
  <2>3. Binder \notin Calls
    BY TelemetryAssumption
  <2>4. QED
    BY <1>1, <2>1, <2>2, <2>3 DEF QueueInv
<1>12. ASSUME InitBound PROVE QueueInv'
  <2>1. queue \in Seq(Calls \cup {Binder}) /\ queue # <<>> /\ queue' = Tail(queue) /\ call' = call
    BY <1>1, <1>12 DEF InitBound, TelemetryTypeOK
  <2>2. /\ Len(queue) \in Nat /\ Len(queue') = Len(queue) - 1
        /\ \A i \in 1..Len(queue') : queue'[i] = queue[i + 1] /\ i + 1 \in 1..Len(queue)
    BY <2>1
  <2>3. QED
    BY <1>1, <2>1, <2>2 DEF QueueInv
<1>13. ASSUME TakeEvent \/ Flush \/ Export \/ Close \/ Exit \/ UNCHANGED vars PROVE QueueInv'
  BY <1>1, <1>13 DEF TakeEvent, Flush, Export, Close, Exit, vars, QueueInv
<1>14. QED
  BY <1>3, <1>4, <1>5, <1>6, <1>7, <1>8, <1>9, <1>10, <1>11, <1>12, <1>13
  DEF Next, Advance, WriteBehind, Terminated

-----------------------------------------------------------------------------
(* The counts.                                                             *)

LEMMA EventKinds ==
  ASSUME NEW e \in Events
  PROVE  /\ e \in CallEvents <=> ToolCall(e)
         /\ e \in FailureEvents <=> e.kind = "write_failure"
         /\ e \in Ends(Tool) <=> Counted(e)
         /\ \A t \in Tool : e \in Ends({t}) <=> Counted(e) /\ e.tool = t
         /\ Counted(e) => e.tool \in Tool
BY DEF Events, CallEvents, FailureEvents, Ends, ToolCall, Counted, StartupEvent, MetricEvent

LEMMA BatchCalls ==
  ASSUME NEW s \in Seq(Events)
  PROVE  /\ CallsIn(s) = Times(s, Ends(Tool)) /\ CallsIn(s) \in Nat
         /\ Metered(s).calls \in Nat /\ Metered(s).failures \in Nat
         /\ Metered(s).calls = CallsIn(s) + Metered(s).failures
<1>1. DOMAIN s = 1..Len(s) /\ \A i \in 1..Len(s) : s[i] \in Events
  OBVIOUS
<1>2. Occurs(s, Ends(Tool)) = {i \in DOMAIN s : Counted(s[i])}
  BY <1>1, EventKinds DEF Occurs
<1>3. Occurs(s, CallEvents) = {i \in DOMAIN s : ToolCall(s[i])}
  BY <1>1, EventKinds DEF Occurs
<1>4. Occurs(s, FailureEvents) = {i \in DOMAIN s : s[i].kind = "write_failure"}
  BY <1>1, EventKinds DEF Occurs
<1>5. /\ CallsIn(s) = Times(s, Ends(Tool)) /\ Metered(s).calls = Times(s, CallEvents)
      /\ Metered(s).failures = Times(s, FailureEvents)
  BY <1>2, <1>3, <1>4 DEF CallsIn, Metered, Times
<1>6. CallEvents = Ends(Tool) \cup FailureEvents /\ Ends(Tool) \cap FailureEvents = {}
  BY DEF CallEvents, Ends, FailureEvents, ToolCall, Events, StartupEvent, MetricEvent
<1>7. Times(s, CallEvents) = Times(s, Ends(Tool)) + Times(s, FailureEvents)
  BY <1>6, TimesSplit
<1>8. Times(s, CallEvents) \in Nat /\ Times(s, Ends(Tool)) \in Nat /\ Times(s, FailureEvents) \in Nat
  BY TimesType
<1>9. QED
  BY <1>5, <1>7, <1>8

LEMMA CountTypes ==
  ASSUME TelemetryTypeOK
  PROVE  /\ Total \in Nat /\ meter.calls \in Nat /\ meter.failures \in Nat /\ lost \in Nat /\ dropped \in Nat
         /\ \A t \in Tool : counts[t] \in Nat
         /\ \A E : Times(channel, E) \in Nat /\ Times(batch, E) \in Nat
<1>1. \A E : Times(channel, E) \in Nat /\ Times(batch, E) \in Nat
  BY TimesType DEF TelemetryTypeOK
<1>2. \A t \in Tool : counts[t] \in Nat
  BY DEF TelemetryTypeOK
<1>3. Total \in Nat
  BY <1>2 DEF Total, Tool
<1>4. QED
  BY <1>1, <1>2, <1>3 DEF TelemetryTypeOK

LEMMA CountSame ==
  ASSUME TelemetryTypeOK, CountInv, \A tools : Cardinality(Ended(tools)') = Cardinality(Ended(tools)),
         UNCHANGED <<counts, meter, lost, batch>>,
         \A E : Times(channel', Ends(E)) = Times(channel, Ends(E)),
         dropped' \in Nat, dropped <= dropped'
  PROVE  CountInv'
<1>1. \A t \in Tool : counts'[t] + Times(channel', Ends({t})) <= Cardinality(Ended({t})')
  BY DEF CountInv
<1>2. Total' = Total
  BY DEF Total
<1>3. Cardinality(Ended(Tool)') <= Total' + Times(channel', Ends(Tool)) + dropped'
  BY <1>2, CountTypes, EndedFinite DEF CountInv
<1>4. Total' = meter'.calls - meter'.failures + Times(batch', Ends(Tool)) + lost'
  BY <1>2 DEF CountInv
<1>5. QED
  BY <1>1, <1>3, <1>4 DEF CountInv

(* A call ends and sends its event.                                         *)
LEMMA CountEnds ==
  ASSUME TelemetryTypeOK, CountInv, NEW c \in Calls, call[c].pc # "ended", call'[c].pc = "ended",
         ~ call'[c].silent, call'[c].tool = call[c].tool, call[c].tool \in Tool,
         \A d \in Calls \ {c} : call'[d] = call[d],
         UNCHANGED <<counts, meter, lost, batch>>,
         Send(call[c].tool, "ended")
  PROVE  CountInv'
<1> DEFINE u == call[c].tool
<1>1. u \in Tool
  OBVIOUS
<1>2. \A tools : /\ Cardinality(Ended(tools)) \in Nat
                 /\ Cardinality(Ended(tools)') = IF u \in tools THEN Cardinality(Ended(tools)) + 1
                                                              ELSE Cardinality(Ended(tools))
  BY EndedGrows, EndedFinite
<1>3. Send(u, "ended")
  OBVIOUS
<1> HIDE DEF u
<1>4. /\ dropped' \in Nat
      /\ \A tools : /\ Times(channel, Ends(tools)) \in Nat /\ Times(channel', Ends(tools)) \in Nat
                    /\ u \notin tools => Times(channel', Ends(tools)) = Times(channel, Ends(tools))
                    /\ u \in tools => /\ Times(channel', Ends(tools)) <= Times(channel, Ends(tools)) + 1
                                      /\ Times(channel', Ends(tools)) + dropped'
                                           = Times(channel, Ends(tools)) + dropped + 1
  BY <1>1, <1>3, SendKeeps, MetricEnds
<1>5. Total' = Total /\ counts' = counts
  BY DEF Total
<1>6. ASSUME NEW t \in Tool
      PROVE  counts'[t] + Times(channel', Ends({t})) <= Cardinality(Ended({t})')
  <2>1. counts[t] + Times(channel, Ends({t})) <= Cardinality(Ended({t}))
    BY DEF CountInv
  <2>2. counts[t] \in Nat
    BY CountTypes
  <2>3. CASE u = t
    <3>1. /\ Cardinality(Ended({t})) \in Nat
          /\ Cardinality(Ended({t})') = Cardinality(Ended({t})) + 1
      BY <1>2, <2>3
    <3>2. /\ Times(channel, Ends({t})) \in Nat /\ Times(channel', Ends({t})) \in Nat
          /\ Times(channel', Ends({t})) <= Times(channel, Ends({t})) + 1
      BY <1>4, <2>3
    <3>3. QED
      BY <1>5, <2>1, <2>2, <3>1, <3>2
  <2>4. CASE u # t
    <3>1. Cardinality(Ended({t})') = Cardinality(Ended({t}))
      BY <1>2, <2>4
    <3>2. Times(channel', Ends({t})) = Times(channel, Ends({t}))
      BY <1>4, <2>4
    <3>3. QED
      BY <1>5, <2>1, <3>1, <3>2
  <2>5. QED
    BY <2>3, <2>4
<1>7. Cardinality(Ended(Tool)') <= Total' + Times(channel', Ends(Tool)) + dropped'
  <2>1. Cardinality(Ended(Tool)) <= Total + Times(channel, Ends(Tool)) + dropped
    BY DEF CountInv
  <2>2. Total \in Nat /\ dropped \in Nat
    BY CountTypes
  <2>3. /\ Cardinality(Ended(Tool)) \in Nat
        /\ Cardinality(Ended(Tool)') = Cardinality(Ended(Tool)) + 1
    BY <1>1, <1>2
  <2>4. /\ Times(channel, Ends(Tool)) \in Nat /\ Times(channel', Ends(Tool)) \in Nat /\ dropped' \in Nat
        /\ Times(channel', Ends(Tool)) + dropped' = Times(channel, Ends(Tool)) + dropped + 1
    BY <1>1, <1>4
  <2>5. QED
    BY <1>5, <2>1, <2>2, <2>3, <2>4
<1>8. Total' = meter'.calls - meter'.failures + Times(batch', Ends(Tool)) + lost'
  BY <1>5 DEF CountInv
<1>9. QED
  BY <1>6, <1>7, <1>8 DEF CountInv

LEMMA CountTake == TelemetryTypeOK /\ CountInv /\ TakeEvent => CountInv'
<1> SUFFICES ASSUME TelemetryTypeOK, CountInv, TakeEvent PROVE CountInv'
  OBVIOUS
<1> DEFINE e == Head(channel)
<1>1. channel \in Seq(Events) /\ channel # <<>> /\ batch \in Seq(Events) /\ e \in Events
  BY DEF TelemetryTypeOK, TakeEvent
<1>2. /\ channel' = Tail(channel) /\ batch' = Append(batch, e) /\ dropped' = dropped
      /\ meter' = meter /\ lost' = lost /\ call' = call
      /\ counts' = IF Counted(e) THEN [counts EXCEPT ![e.tool] = counts[e.tool] + 1] ELSE counts
  BY DEF TakeEvent, metering
<1>3. \A E : Times(channel, E) = IF e \in E THEN Times(channel', E) + 1 ELSE Times(channel', E)
  BY <1>1, <1>2, TimesTail
<1>4. channel' \in Seq(Events)
  BY <1>1, <1>2
<1> HIDE DEF e
<1>5. Times(batch', Ends(Tool)) = IF e \in Ends(Tool) THEN Times(batch, Ends(Tool)) + 1
                                                       ELSE Times(batch, Ends(Tool))
  BY <1>1, <1>2, TimesAppend
<1>6. \A E : Times(channel', E) \in Nat
  BY <1>4, TimesType
<1>7. /\ e \in Ends(Tool) <=> Counted(e)
      /\ \A t \in Tool : e \in Ends({t}) <=> Counted(e) /\ e.tool = t
      /\ Counted(e) => e.tool \in Tool
  BY <1>1, EventKinds
<1>8. counts \in [Tool -> Nat]
  BY DEF TelemetryTypeOK
<1>9. \A tools : Ended(tools)' = Ended(tools)
  BY <1>2 DEF Ended
<1>10. \A t \in Tool : counts'[t] = IF Counted(e) /\ e.tool = t THEN counts[t] + 1 ELSE counts[t]
  BY <1>2, <1>7, <1>8
<1>11. ASSUME NEW t \in Tool
       PROVE  counts'[t] + Times(channel', Ends({t})) <= Cardinality(Ended({t})')
  <2>1. counts[t] + Times(channel, Ends({t})) <= Cardinality(Ended({t}))
    BY DEF CountInv
  <2>2. Cardinality(Ended({t})') = Cardinality(Ended({t})) /\ Times(channel', Ends({t})) \in Nat
        /\ counts[t] \in Nat
    BY <1>6, <1>8, <1>9
  <2>3. counts'[t] + Times(channel', Ends({t})) = counts[t] + Times(channel, Ends({t}))
    BY <1>3, <1>7, <1>10, <2>2
  <2>4. QED
    BY <2>1, <2>2, <2>3
<1>12. Total' = IF Counted(e) THEN Total + 1 ELSE Total
  BY <1>7, <1>8, <1>10 DEF Total, Tool
<1>13. Cardinality(Ended(Tool)') <= Total' + Times(channel', Ends(Tool)) + dropped'
  <2>1. Cardinality(Ended(Tool)) <= Total + Times(channel, Ends(Tool)) + dropped
    BY DEF CountInv
  <2>2. Cardinality(Ended(Tool)') = Cardinality(Ended(Tool)) /\ Times(channel', Ends(Tool)) \in Nat
    BY <1>6, <1>9
  <2>3. Total \in Nat /\ dropped \in Nat
    BY CountTypes
  <2>4. Total' + Times(channel', Ends(Tool)) = Total + Times(channel, Ends(Tool))
    BY <1>3, <1>7, <1>12, <2>2, <2>3
  <2>5. QED
    BY <1>2, <2>1, <2>2, <2>3, <2>4
<1>14. Total' = meter'.calls - meter'.failures + Times(batch', Ends(Tool)) + lost'
  <2>1. /\ Total \in Nat /\ meter.calls \in Nat /\ meter.failures \in Nat /\ lost \in Nat
        /\ Times(batch, Ends(Tool)) \in Nat
    BY CountTypes
  <2>2. Total = meter.calls - meter.failures + Times(batch, Ends(Tool)) + lost
    BY DEF CountInv
  <2>3. QED
    BY <1>2, <1>5, <1>7, <1>12, <2>1, <2>2
<1>15. QED
  BY <1>11, <1>13, <1>14 DEF CountInv

LEMMA CountFlush == TelemetryTypeOK /\ CountInv /\ Flush => CountInv'
<1> SUFFICES ASSUME TelemetryTypeOK, CountInv, Flush PROVE CountInv'
  OBVIOUS
<1>1. /\ batch' = <<>> /\ counts' = counts /\ channel' = channel /\ dropped' = dropped /\ call' = call
      /\ batch \in Seq(Events)
  BY DEF Flush, pipeline, TelemetryTypeOK
<1>2. Times(batch', Ends(Tool)) = 0 /\ CallsIn(batch) = Times(batch, Ends(Tool))
  BY <1>1, TimesEmpty, BatchCalls
<1>3. /\ Total \in Nat /\ meter.calls \in Nat /\ meter.failures \in Nat /\ lost \in Nat
      /\ CallsIn(batch) \in Nat /\ Metered(batch).calls \in Nat /\ Metered(batch).failures \in Nat
      /\ Metered(batch).calls = CallsIn(batch) + Metered(batch).failures
  BY <1>1, CountTypes, BatchCalls
<1>4. Total = meter.calls - meter.failures + CallsIn(batch) + lost
  BY <1>2 DEF CountInv
<1>5. Total' = Total /\ \A tools : Ended(tools)' = Ended(tools)
  BY <1>1 DEF Total, Ended
<1>6. \/ /\ meter'.calls = meter.calls + Metered(batch).calls
         /\ meter'.failures = meter.failures + Metered(batch).failures
         /\ lost' = lost
      \/ lost' = lost + CallsIn(batch) /\ meter' = meter
  BY DEF Flush
<1>7. Total' = meter'.calls - meter'.failures + Times(batch', Ends(Tool)) + lost'
  BY <1>2, <1>3, <1>4, <1>5, <1>6
<1>8. \A t \in Tool : counts'[t] + Times(channel', Ends({t})) <= Cardinality(Ended({t})')
  BY <1>1, <1>5 DEF CountInv
<1>9. Cardinality(Ended(Tool)') <= Total' + Times(channel', Ends(Tool)) + dropped'
  BY <1>1, <1>5 DEF CountInv
<1>10. QED
  BY <1>7, <1>8, <1>9 DEF CountInv

(* A step that ends no call and touches no count.                           *)
LEMMA CountFrame ==
  ASSUME TelemetryTypeOK, CountInv, UNCHANGED <<counts, meter, lost, batch, channel, dropped>>,
         \A c \in Calls : /\ call'[c].pc = "ended" <=> call[c].pc = "ended"
                          /\ call'[c].tool = call[c].tool \/ call[c].pc # "ended"
                          /\ call'[c].silent = call[c].silent \/ call[c].pc # "ended"
  PROVE  CountInv'
<1>1. \A tools : Cardinality(Ended(tools)') = Cardinality(Ended(tools))
  BY EndedSame
<1>2. dropped \in Nat
  BY DEF TelemetryTypeOK
<1>3. QED
  BY <1>1, <1>2, CountSame

LEMMA CountStep == IInv /\ [Next]_vars => CountInv'
<1> SUFFICES ASSUME IInv, [Next]_vars PROVE CountInv'
  OBVIOUS
<1> USE DEF pipeline, metering, lifecycle
<1>1. TelemetryTypeOK /\ CountInv /\ QueueInv
  BY DEF IInv
<1>2. \A c \in Calls : /\ call[c].pc # "new" \/ call[c].store # "none" => call[c].tool \in Tool
                       /\ call[c].silent => call[c].pc = "ended"
  BY <1>1 DEF QueueInv
<1>3. ASSUME NEW c \in Calls, NEW t \in Tool, Arrive(c, t) PROVE CountInv'
  <2>1. call[c].pc = "new" /\ UNCHANGED <<counts, meter, lost, batch, channel, dropped>>
    BY <1>3 DEF Arrive
  <2>2. QED
    BY <1>1, <1>3, <2>1, ArriveRecord, CountFrame
<1>4. ASSUME NEW c \in Calls, Enter(c) PROVE CountInv'
  <2>1. call[c].pc # "ended" /\ UNCHANGED <<counts, meter, lost, batch, channel, dropped>>
    <3>1. Len(queue) >= 1 /\ queue[1] = c
      BY <1>1, <1>4 DEF Enter, TelemetryTypeOK
    <3>2. QED
      BY <1>1, <1>4, <3>1 DEF QueueInv, TelemetryTypeOK, Enter
  <2>2. QED
    BY <1>1, <1>4, <2>1, EnterRecord, CountFrame
<1>5. ASSUME NEW c \in Calls, Number(c) PROVE CountInv'
  <2>1. call[c].pc # "ended" /\ UNCHANGED <<counts, meter, lost, batch, channel, dropped>>
    BY <1>5 DEF Number
  <2>2. QED
    BY <1>1, <1>5, <2>1, NumberRecord, CountFrame
<1>6. ASSUME NEW c \in Calls, Identify(c) PROVE CountInv'
  <2>1. /\ call[c].pc = "numbered" /\ UNCHANGED <<counts, meter, lost, batch>>
        /\ Send(call[c].tool, IF call[c].tool = "read_resource" THEN "ended" ELSE "received")
    BY <1>6 DEF Identify
  <2>2. call[c].tool \in Tool
    BY <1>2, <2>1
  <2>3. CASE call[c].tool = "read_resource"
    <3>1. Send(call[c].tool, "ended")
      BY <2>1, <2>3
    <3>2. /\ call'[c].pc = "ended" /\ call'[c].tool = call[c].tool /\ ~ call'[c].silent
          /\ \A d \in Calls : d # c => call'[d] = call[d]
      BY <1>1, <1>2, <1>6, <2>1, <2>3, IdentifyRecord
    <3>3. QED
      BY <1>1, <2>1, <2>2, <3>1, <3>2, CountEnds
  <2>4. CASE call[c].tool # "read_resource"
    <3>1. \A tools : Cardinality(Ended(tools)') = Cardinality(Ended(tools))
      BY <1>1, <1>6, <2>1, <2>4, IdentifyRecord, EndedSame
    <3>2. /\ dropped' \in Nat /\ dropped <= dropped'
          /\ \A E : Times(channel', Ends(E)) = Times(channel, Ends(E))
      BY <1>1, <2>1, <2>2, <2>4, SendKeeps, MetricEnds
    <3>3. QED
      BY <1>1, <2>1, <3>1, <3>2, CountSame
  <2>5. QED
    BY <2>3, <2>4
<1>7. ASSUME NEW c \in Calls, QueueStore(c) \/ Store(c) \/ DrainFailures(c) PROVE CountInv'
  <2>1. UNCHANGED <<counts, meter, lost, batch, channel, dropped>>
    BY <1>7 DEF QueueStore, Store, DrainFailures
  <2>2. QED
    BY <1>1, <1>7, <2>1, StoreRecord, CountFrame
<1>8. ASSUME NEW c \in Calls, ReportFailure(c) PROVE CountInv'
  <2>1. /\ UNCHANGED <<counts, meter, lost, batch>> /\ Send(call[c].tool, "write_failure")
        /\ call[c].store # "none"
    BY <1>8 DEF ReportFailure
  <2>2. \A tools : Cardinality(Ended(tools)') = Cardinality(Ended(tools))
    BY <1>1, <1>8, StoreRecord, EndedSame
  <2>3. /\ dropped' \in Nat /\ dropped <= dropped'
        /\ \A E : Times(channel', Ends(E)) = Times(channel, Ends(E))
    BY <1>1, <1>2, <2>1, SendKeeps, MetricEnds
  <2>4. QED
    BY <1>1, <2>1, <2>2, <2>3, CountSame
<1>9. ASSUME NEW c \in Calls, Finish(c) PROVE CountInv'
  <2>1. /\ call[c].pc = "running" /\ UNCHANGED <<counts, meter, lost, batch>>
        /\ Send(call[c].tool, "ended")
    BY <1>9 DEF Finish
  <2>2. QED
    BY <1>1, <1>2, <1>9, <2>1, FinishRecord, CountEnds
<1>10. ASSUME NEW c \in Calls, FinishSilently(c) PROVE CountInv'
  <2>1. call[c].pc = "running" /\ UNCHANGED <<counts, meter, lost, batch, channel, dropped>>
    BY <1>10 DEF FinishSilently
  <2>2. \A tools : Ended(tools)' = Ended(tools)
    BY <1>1, <1>10, <2>1, SilentRecord DEF Ended
  <2>3. dropped \in Nat
    BY <1>1 DEF TelemetryTypeOK
  <2>4. QED
    BY <1>1, <2>1, <2>2, <2>3, CountSame
<1>11. ASSUME InitNamed PROVE CountInv'
  <2>1. /\ UNCHANGED <<counts, meter, lost, batch, channel, dropped>>
        /\ \A c \in Calls : /\ call'[c].pc = call[c].pc /\ call'[c].tool = call[c].tool
                            /\ call'[c].silent = call[c].silent
    BY <1>1, <1>11 DEF InitNamed, Race, TelemetryTypeOK, CallState
  <2>2. QED
    BY <1>1, <2>1, CountFrame
<1>12. ASSUME InitReset \/ InitBound \/ Export \/ Close \/ Exit \/ UNCHANGED vars PROVE CountInv'
  <2>1. UNCHANGED <<counts, meter, lost, batch, channel, dropped, call>>
    BY <1>12 DEF InitReset, InitBound, Export, Close, Exit, vars
  <2>2. QED
    BY <1>1, <2>1, CountFrame
<1>13. QED
  BY <1>1, <1>3, <1>4, <1>5, <1>6, <1>7, <1>8, <1>9, <1>10, <1>11, <1>12, CountTake, CountFlush
  DEF Next, Advance, WriteBehind, Terminated

-----------------------------------------------------------------------------
(* The pairs.                                                              *)

(* A call that is not numbered by this step keeps what tells its pair.      *)
LEMMA PairFrame ==
  ASSUME PairInv, UNCHANGED <<sid, seq, init>>,
         \A c \in Calls : /\ call'[c].pc = call[c].pc \/ (~ Numbered(c) /\ ~ Numbered(c)')
                                                      \/ (call[c].pc = "running" /\ call'[c].pc = "ended")
                          /\ call'[c].seq = call[c].seq /\ call'[c].sid = call[c].sid
                          /\ call'[c].raced <=> call[c].raced
  PROVE  PairInv'
<1>1. ASSUME NEW c \in Calls, Numbered(c)', ~ call'[c].raced
      PROVE  /\ Numbered(c) /\ ~ call[c].raced /\ call'[c].seq = call[c].seq
             /\ SessionOf(c)' = SessionOf(c)
  BY <1>1 DEF Numbered, SessionOf
<1>2. ASSUME NEW c \in Calls, Numbered(c)', ~ call'[c].raced
      PROVE  /\ SessionOf(c)' <= sid'
             /\ init' = "named" => SessionOf(c)' < sid'
             /\ SessionOf(c)' = sid' => call'[c].seq < seq'
  BY <1>1, <1>2 DEF PairInv
<1>3. ASSUME NEW c \in Calls, NEW d \in Calls, c # d, Numbered(c)', Numbered(d)',
             ~ call'[c].raced, ~ call'[d].raced, SessionOf(c)' = SessionOf(d)'
      PROVE  call'[c].seq # call'[d].seq
  BY <1>1, <1>3 DEF PairInv
<1>4. QED
  BY <1>2, <1>3 DEF PairInv

LEMMA PairNumber ==
  ASSUME TelemetryTypeOK, PairInv, NEW c \in Calls, Number(c)
  PROVE  PairInv'
<1>1. /\ seq' = seq + 1 /\ sid' = sid /\ init' = init /\ call[c].pc = "entered"
      /\ sid \in Nat /\ seq \in Nat
  BY DEF Number, TelemetryTypeOK
<1>2. /\ call'[c].pc = "numbered" /\ call'[c].seq = seq /\ (call'[c].raced <=> init = "named")
      /\ \A d \in Calls : d # c => call'[d] = call[d]
  BY NumberRecord
<1>3. SessionOf(c)' = sid /\ ~ Numbered(c)
  BY <1>1, <1>2 DEF SessionOf, Numbered
<1>4. \A d \in Calls : d # c => /\ Numbered(d)' <=> Numbered(d)
                                /\ SessionOf(d)' = SessionOf(d)
  BY <1>1, <1>2 DEF SessionOf, Numbered
<1>5. \A d \in Calls : call[d].seq \in Nat /\ SessionOf(d) \in Nat
  BY <1>1 DEF TelemetryTypeOK, CallState, SessionOf
<1>6. ASSUME NEW d \in Calls, d # c, Numbered(d)', ~ call'[d].raced
      PROVE  /\ Numbered(d) /\ ~ call[d].raced /\ call'[d].seq = call[d].seq
             /\ SessionOf(d)' = SessionOf(d) /\ SessionOf(d) <= sid
             /\ init = "named" => SessionOf(d) < sid
             /\ SessionOf(d) = sid => call[d].seq < seq
  BY <1>2, <1>4, <1>6 DEF PairInv
<1>7. ASSUME NEW d \in Calls, Numbered(d)', ~ call'[d].raced
      PROVE  /\ SessionOf(d)' <= sid'
             /\ init' = "named" => SessionOf(d)' < sid'
             /\ SessionOf(d)' = sid' => call'[d].seq < seq'
  <2>1. CASE d = c
    BY <1>1, <1>2, <1>3, <1>7, <2>1
  <2>2. CASE d # c
    BY <1>1, <1>5, <1>6, <1>7, <2>2
  <2>3. QED
    BY <2>1, <2>2
<1>8. ASSUME NEW d \in Calls, NEW f \in Calls, d # f, Numbered(d)', Numbered(f)',
             ~ call'[d].raced, ~ call'[f].raced, SessionOf(d)' = SessionOf(f)'
      PROVE  call'[d].seq # call'[f].seq
  <2>1. CASE d # c /\ f # c
    BY <1>6, <1>8, <2>1 DEF PairInv
  <2>2. CASE d = c
    <3>1. call[f].seq < seq /\ call'[f].seq = call[f].seq /\ call'[d].seq = seq /\ call[f].seq \in Nat
      BY <1>2, <1>3, <1>5, <1>6, <1>8, <2>2
    <3>2. QED
      BY <1>1, <3>1
  <2>3. CASE f = c
    <3>1. call[d].seq < seq /\ call'[d].seq = call[d].seq /\ call'[f].seq = seq /\ call[d].seq \in Nat
      BY <1>2, <1>3, <1>5, <1>6, <1>8, <2>3
    <3>2. QED
      BY <1>1, <3>1
  <2>4. QED
    BY <2>1, <2>2, <2>3
<1>9. QED
  BY <1>7, <1>8 DEF PairInv

(* A call that keeps its number keeps its session, or is marked.            *)
LEMMA PairIdentify ==
  ASSUME TelemetryTypeOK, PairInv, NEW c \in Calls, Identify(c)
  PROVE  PairInv'
<1>1. seq' = seq /\ sid' = sid /\ init' = init /\ call[c].pc = "numbered"
  BY DEF Identify
<1>2. /\ call'[c].pc \in {"running", "ended"} /\ call'[c].seq = call[c].seq /\ call'[c].sid = sid
      /\ call[c].raced => call'[c].raced
      /\ \A d \in Calls : d # c => call'[d] = call[d]
  BY IdentifyRecord
<1>3. \A d \in Calls : /\ Numbered(d)' <=> Numbered(d)
                       /\ SessionOf(d)' = SessionOf(d)
                       /\ call'[d].seq = call[d].seq
                       /\ call[d].raced => call'[d].raced
  BY <1>1, <1>2 DEF SessionOf, Numbered
<1>4. ASSUME NEW d \in Calls, Numbered(d)', ~ call'[d].raced
      PROVE  /\ SessionOf(d)' <= sid'
             /\ init' = "named" => SessionOf(d)' < sid'
             /\ SessionOf(d)' = sid' => call'[d].seq < seq'
  BY <1>1, <1>3, <1>4 DEF PairInv
<1>5. ASSUME NEW d \in Calls, NEW f \in Calls, d # f, Numbered(d)', Numbered(f)',
             ~ call'[d].raced, ~ call'[f].raced, SessionOf(d)' = SessionOf(f)'
      PROVE  call'[d].seq # call'[f].seq
  BY <1>3, <1>5 DEF PairInv
<1>6. QED
  BY <1>4, <1>5 DEF PairInv

(* A new session has no call yet.                                           *)
LEMMA PairNamed ==
  ASSUME TelemetryTypeOK, PairInv, InitNamed
  PROVE  PairInv'
<1>1. sid' = sid + 1 /\ seq' = seq /\ sid \in Nat
  BY DEF InitNamed, TelemetryTypeOK
<1>2. \A d \in Calls : /\ call'[d].pc = call[d].pc /\ call'[d].seq = call[d].seq
                       /\ call'[d].sid = call[d].sid /\ call[d].sid \in Nat
                       /\ call[d].raced => call'[d].raced
                       /\ call[d].pc = "numbered" => call'[d].raced
  BY DEF InitNamed, Race, TelemetryTypeOK, CallState
<1>3. ASSUME NEW d \in Calls, Numbered(d)', ~ call'[d].raced
      PROVE  /\ Numbered(d) /\ ~ call[d].raced /\ call'[d].seq = call[d].seq
             /\ SessionOf(d)' = SessionOf(d) /\ SessionOf(d) <= sid /\ SessionOf(d) \in Nat
  BY <1>2, <1>3 DEF PairInv, Numbered, SessionOf
<1>4. ASSUME NEW d \in Calls, Numbered(d)', ~ call'[d].raced
      PROVE  /\ SessionOf(d)' <= sid'
             /\ init' = "named" => SessionOf(d)' < sid'
             /\ SessionOf(d)' = sid' => call'[d].seq < seq'
  BY <1>1, <1>3, <1>4
<1>5. ASSUME NEW d \in Calls, NEW f \in Calls, d # f, Numbered(d)', Numbered(f)',
             ~ call'[d].raced, ~ call'[f].raced, SessionOf(d)' = SessionOf(f)'
      PROVE  call'[d].seq # call'[f].seq
  BY <1>3, <1>5 DEF PairInv
<1>6. QED
  BY <1>4, <1>5 DEF PairInv

LEMMA PairStep == IInv /\ [Next]_vars => PairInv'
<1> SUFFICES ASSUME IInv, [Next]_vars PROVE PairInv'
  OBVIOUS
<1>1. TelemetryTypeOK /\ PairInv /\ QueueInv
  BY DEF IInv
<1>2. ASSUME NEW c \in Calls, NEW t \in Tool, Arrive(c, t) PROVE PairInv'
  <2>1. call[c].pc = "new" /\ UNCHANGED <<sid, seq, init>>
    BY <1>2 DEF Arrive
  <2>2. ~ Numbered(c) /\ ~ Numbered(c)'
    BY <1>1, <1>2, <2>1, ArriveRecord DEF Numbered
  <2>3. QED
    BY <1>1, <1>2, <2>1, <2>2, ArriveRecord, PairFrame
<1>3. ASSUME NEW c \in Calls, Enter(c) PROVE PairInv'
  <2>1. call[c].pc = "queued" /\ UNCHANGED <<sid, seq, init>>
    <3>1. Len(queue) >= 1 /\ queue[1] = c
      BY <1>1, <1>3 DEF Enter, TelemetryTypeOK
    <3>2. QED
      BY <1>1, <1>3, <3>1 DEF QueueInv, TelemetryTypeOK, Enter
  <2>2. ~ Numbered(c) /\ ~ Numbered(c)'
    BY <1>1, <1>3, <2>1, EnterRecord DEF Numbered
  <2>3. QED
    BY <1>1, <1>3, <2>1, <2>2, EnterRecord, PairFrame
<1>4. ASSUME NEW c \in Calls, WriteBehind(c) PROVE PairInv'
  <2>1. UNCHANGED <<sid, seq, init>>
    BY <1>4 DEF WriteBehind, QueueStore, Store, DrainFailures, ReportFailure
  <2>2. QED
    BY <1>1, <1>4, <2>1, StoreRecord, PairFrame DEF WriteBehind
<1>5. ASSUME NEW c \in Calls, Finish(c) PROVE PairInv'
  <2>1. call[c].pc = "running" /\ UNCHANGED <<sid, seq, init>>
    BY <1>5 DEF Finish
  <2>2. QED
    BY <1>1, <1>5, <2>1, FinishRecord, PairFrame
<1>6. ASSUME NEW c \in Calls, FinishSilently(c) PROVE PairInv'
  <2>1. call[c].pc = "running" /\ UNCHANGED <<sid, seq, init>>
    BY <1>6 DEF FinishSilently
  <2>2. QED
    BY <1>1, <1>6, <2>1, SilentRecord, PairFrame
<1>7. ASSUME InitReset PROVE PairInv'
  <2>1. init = "named" /\ init' = "binding" /\ call' = call /\ sid' = sid /\ sid \in Nat
    BY <1>1, <1>7 DEF InitReset, TelemetryTypeOK
  <2>2. \A c \in Calls : (Numbered(c)' <=> Numbered(c)) /\ SessionOf(c)' = SessionOf(c)
    BY <2>1 DEF Numbered, SessionOf
  <2>3. \A c \in Calls : SessionOf(c) \in Nat
    BY <1>1 DEF SessionOf, TelemetryTypeOK, CallState
  <2>4. ASSUME NEW c \in Calls, Numbered(c)', ~ call'[c].raced
        PROVE  SessionOf(c)' < sid'
    BY <1>1, <2>1, <2>2, <2>4 DEF PairInv
  <2>5. ASSUME NEW c \in Calls, NEW d \in Calls, c # d, Numbered(c)', Numbered(d)',
               ~ call'[c].raced, ~ call'[d].raced, SessionOf(c)' = SessionOf(d)'
        PROVE  call'[c].seq # call'[d].seq
    BY <1>1, <2>1, <2>2, <2>5 DEF PairInv
  <2>6. ASSUME NEW c \in Calls, Numbered(c)', ~ call'[c].raced
        PROVE  /\ SessionOf(c)' <= sid'
               /\ init' = "named" => SessionOf(c)' < sid'
               /\ SessionOf(c)' = sid' => call'[c].seq < seq'
    <3>1. SessionOf(c)' < sid' /\ SessionOf(c)' \in Nat /\ sid' \in Nat
      BY <2>1, <2>2, <2>3, <2>4, <2>6
    <3>2. QED
      BY <3>1
  <2>7. QED
    BY <2>5, <2>6 DEF PairInv
<1>8. ASSUME InitBound PROVE PairInv'
  <2>1. init' # "named" /\ UNCHANGED <<sid, seq, call>>
    BY <1>8 DEF InitBound
  <2>2. \A c \in Calls : (Numbered(c)' <=> Numbered(c)) /\ SessionOf(c)' = SessionOf(c)
    BY <2>1 DEF Numbered, SessionOf
  <2>3. QED
    BY <1>1, <2>1, <2>2 DEF PairInv
<1>9. ASSUME TakeEvent \/ Flush \/ Export \/ Close \/ Exit \/ UNCHANGED vars PROVE PairInv'
  <2>1. UNCHANGED <<sid, seq, init, call>>
    BY <1>9 DEF TakeEvent, Flush, Export, Close, Exit, vars
  <2>2. QED
    BY <1>1, <2>1, PairFrame
<1>10. QED
  BY <1>1, <1>2, <1>3, <1>4, <1>5, <1>6, <1>7, <1>8, <1>9, PairNumber, PairIdentify, PairNamed
  DEF Next, Advance, Terminated

-----------------------------------------------------------------------------
(* The results.                                                            *)

LEMMA IInvStep == IInv /\ [Next]_vars => IInv'
BY TypeStep, QueueStep, CountStep, PairStep DEF IInv

LEMMA IInvHolds == Spec => []IInv
BY InitIInv, IInvStep, PTL DEF Spec

(* The summary the writer exports counts no call twice, and misses none     *)
(* whose event is not on its way or dropped; the OpenTelemetry counters     *)
(* agree with it but for the failed disk writes and the batches lost.       *)
THEOREM TelemetrySummaryCountsCalls == Spec => []SummaryCountsCalls
<1>1. IInv => SummaryCountsCalls
  <2> SUFFICES ASSUME IInv PROVE SummaryCountsCalls
    OBVIOUS
  <2>1. TelemetryTypeOK /\ CountInv
    BY DEF IInv
  <2>2. ASSUME NEW t \in Tool PROVE counts[t] <= Cardinality(Ended({t}))
    <3>1. counts[t] + Times(channel, Ends({t})) <= Cardinality(Ended({t}))
      BY <2>1 DEF CountInv
    <3>2. counts[t] \in Nat /\ Times(channel, Ends({t})) \in Nat /\ Cardinality(Ended({t})) \in Nat
      BY <2>1, CountTypes, EndedFinite
    <3>3. QED
      BY <3>1, <3>2
  <2>3. Cardinality(Ended(Tool)) <= Total + Len(channel) + dropped
    <3>1. Cardinality(Ended(Tool)) <= Total + Times(channel, Ends(Tool)) + dropped
      BY <2>1 DEF CountInv
    <3>2. /\ Times(channel, Ends(Tool)) \in Nat /\ Times(channel, Ends(Tool)) <= Len(channel)
          /\ Len(channel) \in Nat
      BY <2>1, TimesType DEF TelemetryTypeOK
    <3>3. Total \in Nat /\ dropped \in Nat /\ Cardinality(Ended(Tool)) \in Nat
      BY <2>1, CountTypes, EndedFinite
    <3>4. QED
      BY <3>1, <3>2, <3>3
  <2>4. CallsIn(batch) = Times(batch, Ends(Tool))
    BY <2>1, BatchCalls DEF TelemetryTypeOK
  <2>5. QED
    BY <2>1, <2>2, <2>3, <2>4 DEF SummaryCountsCalls, CountInv
<1>2. QED
  BY <1>1, IInvHolds, PTL

(* A session and sequence number name one call, but for a call that took    *)
(* them while a new session was replacing both.                             *)
THEOREM TelemetryPairsUnique == Spec => []PairsUnique
<1>1. IInv => PairsUnique
  BY DEF IInv, PairInv, PairsUnique, Numbered, SessionOf
<1>2. QED
  BY <1>1, IInvHolds, PTL

-----------------------------------------------------------------------------
(* The calendar.                                                           *)

\* Division as the calendar needs it.  Its numbers are too large for Zenon:
\* the leaves of this section name SMT.
LEMMA Division ==
  ASSUME NEW n \in Int, NEW k \in Nat, k > 0
  PROVE  n \div k \in Int /\ k * (n \div k) <= n /\ n < k * (n \div k) + k
BY SMT

\* A day of a period of 400 years falls in one of its years, counted from
\* March, and that year has at most 366 days.
LEMMA YearOfEra ==
  ASSUME NEW doe \in Int, 0 <= doe, doe <= 146096,
         NEW a \in Int, 1460 * a <= doe, doe < 1460 * a + 1460,
         NEW b \in Int, 36524 * b <= doe, doe < 36524 * b + 36524,
         NEW c \in Int, 146096 * c <= doe, doe < 146096 * c + 146096,
         NEW yoe \in Int, 365 * yoe <= doe - a + b - c, doe - a + b - c < 365 * yoe + 365,
         NEW q \in Int, 4 * q <= yoe, yoe < 4 * q + 4,
         NEW h \in Int, 100 * h <= yoe, yoe < 100 * h + 100
  PROVE  /\ 0 <= yoe /\ yoe <= 399
         /\ 0 <= doe - (365 * yoe + q - h)
         /\ doe - (365 * yoe + q - h) <= 366
<1>1. 0 <= yoe /\ yoe <= 399
  BY SMTT(60)
<1>2. 0 <= doe - (365 * yoe + q - h)
  BY <1>1, SMTT(60)
<1>3. doe - (365 * yoe + q - h) <= 366
  BY <1>1, SMTT(60)
<1>4. QED
  BY <1>1, <1>2, <1>3, SMT

\* current_date_str and date_to_days_since_epoch undo each other on every
\* day from 1970 on (metrics_export.rs).
LEMMA DaysOfDateOf ==
  ASSUME NEW days \in Nat
  PROVE  DaysOf(DateOf(days)) = days
<1> DEFINE z == days + 719468
           era == z \div 146097
           doe == z - era * 146097
           a == doe \div 1460
           b == doe \div 36524
           c == doe \div 146096
           yoe == (doe - a + b - c) \div 365
           q == yoe \div 4
           h == yoe \div 100
           doy == doe - (365 * yoe + q - h)
           mp == (5 * doy + 2) \div 153
           first == (153 * mp + 2) \div 5
           dd == doy - first + 1
           m == IF mp < 10 THEN mp + 3 ELSE mp - 9
           yy == yoe + era * 400 + IF m <= 2 THEN 1 ELSE 0
<1>0. DateOf(days) = <<yy, m, dd>>
  BY SMT DEF DateOf
<1>1. z \in Nat /\ z >= 719468
  BY SMT
<1>2. era \in Int /\ 146097 * era <= z /\ z < 146097 * era + 146097
  BY <1>1, Division, SMT
<1> HIDE DEF era
<1>3. doe \in Int /\ 0 <= doe /\ doe <= 146096 /\ z = era * 146097 + doe
  BY <1>1, <1>2, SMT
<1> HIDE DEF z, doe
<1>4. a \in Int /\ 1460 * a <= doe /\ doe < 1460 * a + 1460
  BY <1>3, Division, SMT
<1>5. b \in Int /\ 36524 * b <= doe /\ doe < 36524 * b + 36524
  BY <1>3, Division, SMT
<1>6. c \in Int /\ 146096 * c <= doe /\ doe < 146096 * c + 146096
  BY <1>3, Division, SMT
<1> HIDE DEF a, b, c
<1>7. yoe \in Int /\ 365 * yoe <= doe - a + b - c /\ doe - a + b - c < 365 * yoe + 365
  BY <1>3, <1>4, <1>5, <1>6, Division, SMT
<1> HIDE DEF yoe
<1>8. q \in Int /\ 4 * q <= yoe /\ yoe < 4 * q + 4
  BY <1>7, Division, SMT
<1>9. h \in Int /\ 100 * h <= yoe /\ yoe < 100 * h + 100
  BY <1>7, Division, SMT
<1> HIDE DEF q, h
<1>10. 0 <= yoe /\ yoe <= 399 /\ doy \in Int /\ 0 <= doy /\ doy <= 366
  BY <1>3, <1>4, <1>5, <1>6, <1>7, <1>8, <1>9, YearOfEra, SMT
<1>11. doe = yoe * 365 + q - h + doy
  BY <1>3, <1>7, <1>8, <1>9, SMT
<1> HIDE DEF doy
<1>12. mp \in Int /\ 153 * mp <= 5 * doy + 2 /\ 5 * doy + 2 < 153 * mp + 153
  BY <1>10, Division, SMT
<1>13. 0 <= mp /\ mp <= 11
  BY <1>10, <1>12, SMT
<1> HIDE DEF mp
<1>14. first \in Int
  BY <1>13, <1>12, Division, SMT
<1>15. (yoe + era * 400) \div 400 = era
  BY <1>2, <1>7, <1>10, SMT
<1> DEFINE early == m <= 2
           y2 == IF early THEN yy - 1 ELSE yy
           m2 == IF early THEN m + 9 ELSE m - 3
<1>16. y2 = yoe + era * 400 /\ m2 = mp /\ first + dd - 1 = doy
  BY <1>2, <1>7, <1>10, <1>12, <1>13, <1>14, SMT
<1>17. y2 \div 400 = era /\ y2 - era * 400 = yoe
  BY <1>15, <1>16, <1>2, <1>7, SMT
<1> DEFINE date == <<yy, m, dd>>
           sum == (y2 \div 400) * 146097 + ((y2 - (y2 \div 400) * 400) * 365 + (y2 - (y2 \div 400) * 400) \div 4 - (y2 - (y2 \div 400) * 400) \div 100 + ((153 * m2 + 2) \div 5 + dd - 1))
<1>18. date[1] = yy /\ date[2] = m /\ date[3] = dd
  OBVIOUS
<1>19. DaysOf(date) = IF sum >= 719468 THEN sum - 719468 ELSE 0
  BY <1>18, SMT DEF DaysOf
<1>20. sum = z
  BY <1>3, <1>11, <1>16, <1>17 , SMT DEF q, h
<1>21. QED
  BY <1>0, <1>1, <1>19, <1>20, SMT DEF z
-----------------------------------------------------------------------------
(* The inductive invariant.                                                *)

Date == {DateOf(day) : day \in Nat}
Line == [batch : Nat, locked : BOOLEAN]
File == [day : Nat, lines : Seq(Line)]
WriterState ==
  [pc : {"off", "cleaning", "unlocking", "idle", "received", "opened", "writing"},
   now : Nat, todo : SUBSET Date, date : Date \cup {<<>>}, day : Nat,
   batch : Nat, left : Nat, locked : BOOLEAN]

Cleaning(p) == writer[p].pc \in {"cleaning", "unlocking"}
Writing(p) == writer[p].pc = "writing"

MetricsTypeOK ==
  /\ today \in Nat /\ batches \in Nat
  /\ files \in [DOMAIN files -> File] /\ DOMAIN files \subseteq Date
  /\ lockedBy \subseteq Writers \X Date
  /\ writer \in [Writers -> WriterState]

(* A file bears the date of the day it was made for; a batch goes to the    *)
(* file of a day that has not expired, which is there once it was opened;   *)
(* a cleanup sees the date of its day.                                      *)
FileDates == \A date \in DOMAIN files : date = DateOf(files[date].day)

WriterDates(p) ==
  /\ writer[p].now <= today
  /\ Cleaning(p) => writer[p].now = today
  /\ writer[p].pc = "unlocking" => Expired(writer[p].date, today)
  /\ InHand(p) => writer[p].date = DateOf(writer[p].day) /\ today <= writer[p].day + Retention
  /\ writer[p].pc \in {"opened", "writing"} => writer[p].date \in DOMAIN files

DatesInv == FileDates /\ \A p \in Writers : WriterDates(p)

(* A date has one holder, and who writes with the lock is it.               *)
HoldersInv ==
  /\ \A g, h \in lockedBy : g[2] = h[2] => g = h
  /\ \A p \in Writers : Writing(p) /\ writer[p].locked => <<p, writer[p].date>> \in lockedBy

(* Batches are numbered apart.                                              *)
NumbersInv ==
  /\ \A p \in Writers : InHand(p) => writer[p].batch <= batches
  /\ \A p, q \in Writers : InHand(p) /\ InHand(q) /\ writer[p].batch = writer[q].batch => p = q

(* Lines are those of batches that were received: of a batch in hand there  *)
(* are none before its flush, and then they are in its file.                *)
LinesInv ==
  \A date \in DOMAIN files : \A i \in DOMAIN files[date].lines :
    LET line == files[date].lines[i]
    IN  /\ line.batch <= batches
        /\ \A p \in Writers : InHand(p) /\ line.batch = writer[p].batch =>
             Writing(p) /\ writer[p].date = date /\ line.locked = writer[p].locked

(* Since a process with the lock wrote its first line, nobody else with a   *)
(* lock has written.                                                        *)
TailInv ==
  \A p \in Writers : Writing(p) /\ writer[p].locked =>
    LET lines == files[writer[p].date].lines
    IN  \A i, j \in DOMAIN lines :
          i <= j /\ lines[i].batch = writer[p].batch /\ lines[j].locked => lines[j].batch = writer[p].batch

(* A cleanup has removed what had expired of the entries it is past.        *)
CleanedInv ==
  \A p \in Writers : Cleaning(p) =>
    \A date \in DOMAIN files \ (spared \cup writer[p].todo) :
      files[date].day + Retention >= writer[p].now

MetricsIInv == /\ MetricsTypeOK /\ DatesInv /\ HoldersInv /\ NumbersInv /\ LinesInv /\ TailInv /\ CleanedInv
        /\ BatchesTogether /\ RetentionExact

-----------------------------------------------------------------------------
LEMMA ExpiredDate ==
  ASSUME NEW day \in Nat, NEW now \in Nat
  PROVE  Expired(DateOf(day), now) <=> now > day + Retention
BY DaysOfDateOf DEF Expired, Retention

LEMMA FileDays ==
  ASSUME MetricsTypeOK, NEW date \in DOMAIN files
  PROVE  /\ files[date] \in File /\ files[date].day \in Nat
         /\ files[date].lines \in Seq(Line)
         /\ \A i \in DOMAIN files[date].lines : files[date].lines[i] \in Line
<1>1. files[date] \in File
  BY DEF MetricsTypeOK
<1>2. files[date].day \in Nat /\ files[date].lines \in Seq(Line)
  BY <1>1 DEF File
<1>3. QED
  BY <1>1, <1>2

LEMMA SetWriter ==
  ASSUME MetricsTypeOK, NEW p \in Writers, NEW w \in WriterState, Set(p, w)
  PROVE  /\ writer' \in [Writers -> WriterState]
         /\ writer'[p] = w
         /\ \A q \in Writers : q # p => writer'[q] = writer[q]
BY DEF Set, MetricsTypeOK

(* The processes that have a batch in hand had it before, the files are as  *)
(* they were or fewer.                                                      *)
LEMMA SameBatches ==
  ASSUME MetricsTypeOK, NumbersInv, LinesInv, TailInv, BatchesTogether, batches' = batches,
         DOMAIN files' \subseteq DOMAIN files,
         \A date \in DOMAIN files' : files'[date] = files[date],
         \A p \in Writers : InHand(p)' =>
           /\ writer'[p] = writer[p]
           /\ Writing(p) => writer[p].date \in DOMAIN files'
  PROVE  NumbersInv' /\ LinesInv' /\ TailInv' /\ BatchesTogether'
<1>1. \A p \in Writers : InHand(p)' => InHand(p) /\ (Writing(p)' => Writing(p))
  BY DEF InHand, Writing
<1>2. NumbersInv' /\ LinesInv'
  <2>1. NumbersInv'
    BY <1>1 DEF NumbersInv
  <2>2. ASSUME NEW date \in DOMAIN files', NEW i \in DOMAIN files'[date].lines
        PROVE  LET line == files'[date].lines[i]
               IN  /\ line.batch <= batches'
                   /\ \A p \in Writers : InHand(p)' /\ line.batch = writer'[p].batch =>
                        Writing(p)' /\ writer'[p].date = date /\ line.locked = writer'[p].locked
    <3>1. files'[date].lines[i] = files[date].lines[i] /\ date \in DOMAIN files /\ i \in DOMAIN files[date].lines
      OBVIOUS
    <3>2. \A p \in Writers : InHand(p)' => (Writing(p) => Writing(p)')
      BY DEF InHand, Writing
    <3>3. QED
      BY <1>1, <3>1, <3>2 DEF LinesInv
  <2>3. QED
    BY <2>1, <2>2 DEF LinesInv
<1>3. TailInv'
  <2> SUFFICES ASSUME NEW p \in Writers, Writing(p)', writer'[p].locked
               PROVE  LET lines == files'[writer'[p].date].lines
                      IN  \A i, j \in DOMAIN lines :
                            i <= j /\ lines[i].batch = writer'[p].batch /\ lines[j].locked =>
                              lines[j].batch = writer'[p].batch
    BY DEF TailInv
  <2>1. InHand(p)' /\ writer'[p] = writer[p] /\ Writing(p) /\ writer[p].locked
    BY DEF InHand, Writing
  <2>2. files'[writer'[p].date] = files[writer[p].date]
    BY <2>1
  <2>3. QED
    BY <2>1, <2>2 DEF TailInv
<1>4. BatchesTogether'
  BY DEF BatchesTogether
<1>5. QED
  BY <1>2, <1>3, <1>4

(* A batch in hand comes nearer to its flush, and files appear: there are   *)
(* still no lines of it.                                                    *)
LEMMA SameLines ==
  ASSUME MetricsTypeOK, DatesInv, NumbersInv, LinesInv, TailInv, BatchesTogether, batches' = batches,
         NEW p \in Writers, InHand(p), ~Writing(p), InHand(p)', writer'[p].batch = writer[p].batch,
         \A q \in Writers : q # p => writer'[q] = writer[q],
         \A date \in DOMAIN files : date \in DOMAIN files' /\ files'[date] = files[date],
         \A date \in DOMAIN files' : date \notin DOMAIN files => files'[date].lines = <<>>,
         writer'[p].date \in DOMAIN files' \/ ~Writing(p)'
  PROVE  NumbersInv' /\ LinesInv' /\ TailInv' /\ BatchesTogether'
<1>1. \A q \in Writers : /\ InHand(q)' <=> InHand(q)
                         /\ writer'[q].batch = writer[q].batch
                         /\ q # p => (Writing(q)' <=> Writing(q))
  BY DEF InHand, Writing
<1>2. NumbersInv'
  BY <1>1 DEF NumbersInv
<1>3. \A date \in DOMAIN files' : \A i \in DOMAIN files'[date].lines :
        date \in DOMAIN files /\ i \in DOMAIN files[date].lines /\ files'[date].lines = files[date].lines
  OBVIOUS
<1>4. \A date \in DOMAIN files : \A i \in DOMAIN files[date].lines :
        files[date].lines[i].batch # writer[p].batch
  BY DEF LinesInv
<1>5. LinesInv'
  <2> SUFFICES ASSUME NEW date \in DOMAIN files, NEW i \in DOMAIN files[date].lines
               PROVE  LET line == files[date].lines[i]
                      IN  /\ line.batch <= batches
                          /\ \A q \in Writers : InHand(q)' /\ line.batch = writer'[q].batch =>
                               Writing(q)' /\ writer'[q].date = date /\ line.locked = writer'[q].locked
    BY <1>3 DEF LinesInv
  <2>1. QED
    BY <1>1, <1>4 DEF LinesInv
<1>6. TailInv'
  <2> SUFFICES ASSUME NEW q \in Writers, Writing(q)', writer'[q].locked,
                      NEW i \in DOMAIN files'[writer'[q].date].lines,
                      NEW j \in DOMAIN files'[writer'[q].date].lines, i <= j,
                      files'[writer'[q].date].lines[i].batch = writer'[q].batch,
                      files'[writer'[q].date].lines[j].locked
               PROVE  files'[writer'[q].date].lines[j].batch = writer'[q].batch
    BY DEF TailInv
  <2>1. CASE q = p
    BY <2>1, <1>3, <1>4
  <2>2. CASE q # p
    <3>1. Writing(q) /\ writer'[q] = writer[q] /\ writer[q].date \in DOMAIN files
      BY <2>2, <1>1 DEF DatesInv, WriterDates, Writing
    <3>2. QED
      BY <3>1 DEF TailInv
  <2>3. QED
    BY <2>1, <2>2
<1>7. BatchesTogether'
  BY <1>3 DEF BatchesTogether
<1>8. QED
  BY <1>2, <1>5, <1>6, <1>7

LEMMA NotExpired ==
  ASSUME MetricsTypeOK, DatesInv
  PROVE  \A q \in Writers : InHand(q) => ~Expired(writer[q].date, today)
<1> SUFFICES ASSUME NEW q \in Writers, InHand(q) PROVE ~Expired(writer[q].date, today)
  OBVIOUS
<1> DEFINE day == writer[q].day
<1>1. day \in Nat /\ today \in Nat
  BY DEF MetricsTypeOK, WriterState
<1>2. writer[q].date = DateOf(day) /\ today <= day + Retention
  BY DEF DatesInv, WriterDates
<1> HIDE DEF day
<1>3. ~(today > day + Retention)
  BY <1>1, <1>2 DEF Retention
<1>4. QED
  BY <1>1, <1>2, <1>3, ExpiredDate

LEMMA MetricsInitIInv == MetricsInit => MetricsIInv
BY MetricsAssumption DEF MetricsInit, MetricsIInv, MetricsTypeOK, DatesInv, FileDates, WriterDates, HoldersInv, NumbersInv, LinesInv, TailInv, CleanedInv, BatchesTogether, RetentionExact, WriterState, File, Line, Off, InHand, Cleaning, Writing

(* One step per action, under it one per part of the invariant.             *)
LEMMA MetricsStepIInv ==
  ASSUME MetricsIInv, [MetricsNext]_metricsVars
  PROVE  MetricsIInv'
<1> USE DEF MetricsIInv, Fault, fileVars
<1>1. ASSUME NEW p \in Writers, StartWriter(p) PROVE MetricsIInv'
  <2> DEFINE w == [Off EXCEPT !.pc = "cleaning", !.now = today, !.todo = DOMAIN files]
  <2>0. w \in WriterState /\ w.pc = "cleaning" /\ w.now = today /\ w.todo = DOMAIN files
    BY <1>1 DEF StartWriter, MetricsTypeOK, WriterState, Off
  <2> HIDE DEF w
  <2>1. /\ writer' \in [Writers -> WriterState] /\ writer'[p] = w
        /\ \A q \in Writers : q # p => writer'[q] = writer[q]
    BY <1>1, <2>0, SetWriter DEF StartWriter, w
  <2>2. MetricsTypeOK'
    BY <1>1, <2>1 DEF StartWriter, MetricsTypeOK
  <2>3. DatesInv'
    <3>1. FileDates' /\ \A q \in Writers : q # p => WriterDates(q)'
      BY <1>1, <2>1 DEF StartWriter, DatesInv, FileDates, WriterDates, InHand, Cleaning
    <3>2. WriterDates(p)'
      BY <1>1, <2>0, <2>1 DEF StartWriter, DatesInv, WriterDates, MetricsTypeOK, InHand, Cleaning
    <3>3. QED
      BY <3>1, <3>2 DEF DatesInv
  <2>4. HoldersInv'
    BY <1>1, <2>0, <2>1 DEF StartWriter, HoldersInv, Writing
  <2>5. CleanedInv' /\ RetentionExact'
    <3>1. CleanedInv'
      BY <1>1, <2>0, <2>1 DEF StartWriter, CleanedInv, Cleaning
    <3>2. RetentionExact'
      BY <1>1, <2>0, <2>1 DEF StartWriter, RetentionExact, InHand
    <3>3. QED
      BY <3>1, <3>2
  <2>6. NumbersInv' /\ LinesInv' /\ TailInv' /\ BatchesTogether'
    <3>1. \A q \in Writers : InHand(q)' =>
            writer'[q] = writer[q] /\ (Writing(q) => writer[q].date \in DOMAIN files')
      BY <1>1, <2>0, <2>1 DEF StartWriter, DatesInv, WriterDates, InHand, Writing
    <3>2. QED
      BY <1>1, <3>1, SameBatches DEF StartWriter
  <2>7. QED
    BY <2>2, <2>3, <2>4, <2>5, <2>6
<1>2. ASSUME NEW p \in Writers, CleanLock(p) PROVE MetricsIInv'
  <2> DEFINE w == [writer[p] EXCEPT !.pc = "cleaning"]
  <2>0. w \in WriterState /\ w.pc = "cleaning" /\ w.now = writer[p].now /\ w.todo = writer[p].todo
    BY <1>2 DEF CleanLock, MetricsTypeOK, WriterState, Off
  <2> HIDE DEF w
  <2>1. /\ writer' \in [Writers -> WriterState] /\ writer'[p] = w
        /\ \A q \in Writers : q # p => writer'[q] = writer[q]
    BY <1>2, <2>0, SetWriter DEF CleanLock, w
  <2>2. MetricsTypeOK'
    BY <1>2, <2>1 DEF CleanLock, MetricsTypeOK
  <2>3. DatesInv'
    <3>1. FileDates' /\ \A q \in Writers : q # p => WriterDates(q)'
      BY <1>2, <2>1 DEF CleanLock, DatesInv, FileDates, WriterDates, InHand, Cleaning
    <3>2. WriterDates(p)'
      BY <1>2, <2>0, <2>1 DEF CleanLock, DatesInv, WriterDates, MetricsTypeOK, InHand, Cleaning
    <3>3. QED
      BY <3>1, <3>2 DEF DatesInv
  <2>4. HoldersInv'
    <3>1. \A q \in Writers : InHand(q) => ~Expired(writer[q].date, today)
      BY NotExpired
    <3>2. \A q \in Writers : InHand(q) => writer[q].date # writer[p].date
      BY <1>2, <3>1 DEF CleanLock, DatesInv, WriterDates
    <3>3. \A g, h \in lockedBy' : g[2] = h[2] => g = h
      BY <1>2 DEF CleanLock, HoldersInv
    <3>4. ASSUME NEW q \in Writers, Writing(q)', writer'[q].locked
          PROVE  <<q, writer'[q].date>> \in lockedBy'
      <4>1. q # p /\ writer'[q] = writer[q] /\ Writing(q) /\ InHand(q)
        BY <3>4, <2>0, <2>1 DEF Writing, InHand
      <4>2. <<q, writer[q].date>> \in lockedBy /\ writer[q].date # writer[p].date
        BY <3>4, <4>1, <3>2 DEF HoldersInv
      <4>3. QED
        BY <1>2, <4>1, <4>2 DEF CleanLock
    <3>5. QED
      BY <3>3, <3>4 DEF HoldersInv
  <2>5. CleanedInv' /\ RetentionExact'
    <3>1. CleanedInv'
      BY <1>2, <2>0, <2>1 DEF CleanLock, CleanedInv, Cleaning
    <3>2. RetentionExact'
      BY <1>2, <2>0, <2>1 DEF CleanLock, RetentionExact, InHand
    <3>3. QED
      BY <3>1, <3>2
  <2>6. NumbersInv' /\ LinesInv' /\ TailInv' /\ BatchesTogether'
    <3>1. \A q \in Writers : InHand(q)' =>
            writer'[q] = writer[q] /\ (Writing(q) => writer[q].date \in DOMAIN files')
      BY <1>2, <2>0, <2>1 DEF CleanLock, DatesInv, WriterDates, InHand, Writing
    <3>2. QED
      BY <1>2, <3>1, SameBatches DEF CleanLock
  <2>7. QED
    BY <2>2, <2>3, <2>4, <2>5, <2>6
<1>3. ASSUME NEW p \in Writers, CleanEnd(p) PROVE MetricsIInv'
  <2> DEFINE w == [writer[p] EXCEPT !.pc = "idle", !.date = <<>>]
  <2>0. w \in WriterState /\ w.pc = "idle" /\ w.now = writer[p].now
    BY <1>3 DEF CleanEnd, MetricsTypeOK, WriterState, Off
  <2> HIDE DEF w
  <2>1. /\ writer' \in [Writers -> WriterState] /\ writer'[p] = w
        /\ \A q \in Writers : q # p => writer'[q] = writer[q]
    BY <1>3, <2>0, SetWriter DEF CleanEnd, w
  <2>2. MetricsTypeOK'
    BY <1>3, <2>1 DEF CleanEnd, MetricsTypeOK
  <2>3. DatesInv'
    <3>1. FileDates' /\ \A q \in Writers : q # p => WriterDates(q)'
      BY <1>3, <2>1 DEF CleanEnd, DatesInv, FileDates, WriterDates, InHand, Cleaning
    <3>2. WriterDates(p)'
      BY <1>3, <2>0, <2>1 DEF CleanEnd, DatesInv, WriterDates, MetricsTypeOK, InHand, Cleaning
    <3>3. QED
      BY <3>1, <3>2 DEF DatesInv
  <2>4. HoldersInv'
    BY <1>3, <2>0, <2>1 DEF CleanEnd, HoldersInv, Writing
  <2>5. CleanedInv' /\ RetentionExact'
    <3>1. CleanedInv'
      BY <1>3, <2>0, <2>1 DEF CleanEnd, CleanedInv, Cleaning
    <3>2. RetentionExact'
      BY <1>3, <2>0, <2>1 DEF CleanEnd, RetentionExact, InHand, CleanedInv, Cleaning
    <3>3. QED
      BY <3>1, <3>2
  <2>6. NumbersInv' /\ LinesInv' /\ TailInv' /\ BatchesTogether'
    <3>1. \A q \in Writers : InHand(q)' =>
            writer'[q] = writer[q] /\ (Writing(q) => writer[q].date \in DOMAIN files')
      BY <1>3, <2>0, <2>1 DEF CleanEnd, DatesInv, WriterDates, InHand, Writing
    <3>2. QED
      BY <1>3, <3>1, SameBatches DEF CleanEnd
  <2>7. QED
    BY <2>2, <2>3, <2>4, <2>5, <2>6
<1>4. ASSUME NEW p \in Writers, EndFlush(p) PROVE MetricsIInv'
  <2> DEFINE w == [Off EXCEPT !.pc = "idle", !.now = writer[p].now]
  <2>0. w \in WriterState /\ w.pc = "idle" /\ w.now = writer[p].now
    BY <1>4 DEF EndFlush, MetricsTypeOK, WriterState, Off
  <2> HIDE DEF w
  <2>1. /\ writer' \in [Writers -> WriterState] /\ writer'[p] = w
        /\ \A q \in Writers : q # p => writer'[q] = writer[q]
    BY <1>4, <2>0, SetWriter DEF EndFlush, w
  <2>2. MetricsTypeOK'
    BY <1>4, <2>1 DEF EndFlush, MetricsTypeOK
  <2>3. DatesInv'
    <3>1. FileDates' /\ \A q \in Writers : q # p => WriterDates(q)'
      BY <1>4, <2>1 DEF EndFlush, DatesInv, FileDates, WriterDates, InHand, Cleaning
    <3>2. WriterDates(p)'
      BY <1>4, <2>0, <2>1 DEF EndFlush, DatesInv, WriterDates, MetricsTypeOK, InHand, Cleaning
    <3>3. QED
      BY <3>1, <3>2 DEF DatesInv
  <2>4. HoldersInv'
    BY <1>4, <2>0, <2>1 DEF EndFlush, HoldersInv, Writing
  <2>5. CleanedInv' /\ RetentionExact'
    <3>1. CleanedInv'
      BY <1>4, <2>0, <2>1 DEF EndFlush, CleanedInv, Cleaning
    <3>2. RetentionExact'
      BY <1>4, <2>0, <2>1 DEF EndFlush, RetentionExact, InHand
    <3>3. QED
      BY <3>1, <3>2
  <2>6. NumbersInv' /\ LinesInv' /\ TailInv' /\ BatchesTogether'
    <3>1. \A q \in Writers : InHand(q)' =>
            writer'[q] = writer[q] /\ (Writing(q) => writer[q].date \in DOMAIN files')
      BY <1>4, <2>0, <2>1 DEF EndFlush, DatesInv, WriterDates, InHand, Writing
    <3>2. QED
      BY <1>4, <3>1, SameBatches DEF EndFlush
  <2>7. QED
    BY <2>2, <2>3, <2>4, <2>5, <2>6
<1>5. ASSUME NEW p \in Writers, StopWriter(p) PROVE MetricsIInv'
  <2> DEFINE w == Off
  <2>0. w \in WriterState /\ w.pc = "off" /\ w.now = 0
    BY <1>5 DEF StopWriter, MetricsTypeOK, WriterState, Off
  <2> HIDE DEF w
  <2>1. /\ writer' \in [Writers -> WriterState] /\ writer'[p] = w
        /\ \A q \in Writers : q # p => writer'[q] = writer[q]
    BY <1>5, <2>0, SetWriter DEF StopWriter, w
  <2>2. MetricsTypeOK'
    BY <1>5, <2>1 DEF StopWriter, MetricsTypeOK
  <2>3. DatesInv'
    <3>1. FileDates' /\ \A q \in Writers : q # p => WriterDates(q)'
      BY <1>5, <2>1 DEF StopWriter, DatesInv, FileDates, WriterDates, InHand, Cleaning
    <3>2. WriterDates(p)'
      BY <1>5, <2>0, <2>1 DEF StopWriter, DatesInv, WriterDates, MetricsTypeOK, InHand, Cleaning
    <3>3. QED
      BY <3>1, <3>2 DEF DatesInv
  <2>4. HoldersInv'
    BY <1>5, <2>0, <2>1 DEF StopWriter, HoldersInv, Writing
  <2>5. CleanedInv' /\ RetentionExact'
    <3>1. CleanedInv'
      BY <1>5, <2>0, <2>1 DEF StopWriter, CleanedInv, Cleaning
    <3>2. RetentionExact'
      BY <1>5, <2>0, <2>1 DEF StopWriter, RetentionExact, InHand
    <3>3. QED
      BY <3>1, <3>2
  <2>6. NumbersInv' /\ LinesInv' /\ TailInv' /\ BatchesTogether'
    <3>1. \A q \in Writers : InHand(q)' =>
            writer'[q] = writer[q] /\ (Writing(q) => writer[q].date \in DOMAIN files')
      BY <1>5, <2>0, <2>1 DEF StopWriter, DatesInv, WriterDates, InHand, Writing
    <3>2. QED
      BY <1>5, <3>1, SameBatches DEF StopWriter
  <2>7. QED
    BY <2>2, <2>3, <2>4, <2>5, <2>6
<1>6. ASSUME NEW n \in DayLeaps, PassDays(n) PROVE MetricsIInv'
  <2>0. n \in Nat
    BY MetricsAssumption
  <2>1. MetricsTypeOK'
    BY <1>6, <2>0 DEF PassDays, MetricsTypeOK
  <2>2. DatesInv'
    <3>1. ASSUME NEW p \in Writers PROVE WriterDates(p)'
      BY <1>6, <2>0 DEF PassDays, DatesInv, WriterDates, MetricsTypeOK, WriterState, InHand, Cleaning
    <3>2. QED
      BY <1>6, <3>1 DEF PassDays, DatesInv, FileDates
  <2>3. HoldersInv' /\ CleanedInv' /\ RetentionExact'
    BY <1>6 DEF PassDays, HoldersInv, CleanedInv, RetentionExact, Writing, Cleaning, InHand
  <2>4. NumbersInv' /\ LinesInv' /\ TailInv' /\ BatchesTogether'
    <3>1. \A q \in Writers : InHand(q)' =>
            writer'[q] = writer[q] /\ (Writing(q) => writer[q].date \in DOMAIN files')
      BY <1>6 DEF PassDays, DatesInv, WriterDates, InHand, Writing
    <3>2. QED
      BY <1>6, <3>1, SameBatches DEF PassDays
  <2>5. QED
    BY <2>1, <2>2, <2>3, <2>4
<1>7. ASSUME NEW p \in Writers, NEW date \in writer[p].todo, CleanFile(p, date) PROVE MetricsIInv'
  <2> USE DEF CleanFile
  <2> DEFINE w == [writer[p] EXCEPT !.todo = @ \ {date}]
             u == [w EXCEPT !.pc = "unlocking", !.date = date]
  <2>0. /\ date \in Date /\ writer[p].pc = "cleaning"
        /\ w \in WriterState /\ w.pc = "cleaning" /\ w.now = writer[p].now
        /\ w.todo = writer[p].todo \ {date}
        /\ u \in WriterState /\ u.pc = "unlocking" /\ u.now = writer[p].now
        /\ u.todo = writer[p].todo \ {date} /\ u.date = date
    BY <1>7 DEF MetricsTypeOK, WriterState
  <2>1. writer[p].now = today /\ w.now = today /\ u.now = today
    BY <2>0 DEF DatesInv, WriterDates, Cleaning
  <2>2. ASSUME date \in DOMAIN files PROVE Expired(date, today) <=> today > files[date].day + Retention
    <3>1. date = DateOf(files[date].day)
      BY <2>2 DEF DatesInv, FileDates
    <3>2. files[date].day \in Nat /\ today \in Nat
      BY <2>2, FileDays DEF MetricsTypeOK
    <3> DEFINE day == files[date].day
    <3> HIDE DEF day
    <3>3. day \in Nat /\ date = DateOf(day)
      BY <3>1, <3>2 DEF day
    <3>4. Expired(date, today) <=> today > day + Retention
      BY <3>2, <3>3, ExpiredDate
    <3>5. QED
      BY <3>4 DEF day
  <2> HIDE DEF w, u
  <2>3. PICK v \in {w, u} : Set(p, v) /\ (v = u => Expired(date, today))
    <3>1. w # u
      BY <2>0
    <3>2. Set(p, w) \/ (Set(p, u) /\ Expired(date, today))
      BY <1>7, <2>1 DEF w, u
    <3>3. QED
      BY <3>1, <3>2
  <2>4. /\ writer' \in [Writers -> WriterState] /\ writer'[p] = v
        /\ \A q \in Writers : q # p => writer'[q] = writer[q]
    BY <2>0, <2>3, SetWriter
  <2>5. /\ v.pc \in {"cleaning", "unlocking"} /\ v.now = today /\ v.todo = writer[p].todo \ {date}
        /\ v.pc = "unlocking" => v.date = date /\ Expired(date, today)
    BY <2>0, <2>1, <2>3
  (* What the entry's removal, or its failure, does to the files. *)
  <2>6. /\ DOMAIN files' \subseteq DOMAIN files /\ spared \subseteq spared'
        /\ \A d \in DOMAIN files' : files'[d] = files[d]
        /\ files' = [d \in DOMAIN files' |-> files'[d]]
        /\ \A d \in DOMAIN files : d \notin DOMAIN files' => d = date /\ Expired(date, today)
        /\ date \in DOMAIN files' /\ date \notin spared' => ~Expired(date, today)
    BY <1>7, <2>1 DEF w, MetricsTypeOK
  <2>7. UNCHANGED <<today, lockedBy, batches>>
    BY <1>7
  <2>8. MetricsTypeOK'
    BY <2>4, <2>6, <2>7 DEF MetricsTypeOK
  <2>9. \A q \in Writers : InHand(q) => ~Expired(writer[q].date, today)
    BY NotExpired
  <2>10. DatesInv'
    <3>1. FileDates'
      BY <2>6 DEF DatesInv, FileDates
    <3>2. WriterDates(p)'
      BY <2>4, <2>5, <2>7, <2>8 DEF WriterDates, Cleaning, InHand, MetricsTypeOK
    <3>3. \A q \in Writers : q # p => WriterDates(q)'
      BY <2>4, <2>6, <2>7, <2>9 DEF DatesInv, WriterDates, Cleaning, InHand
    <3>4. QED
      BY <3>1, <3>2, <3>3 DEF DatesInv
  <2>11. HoldersInv'
    BY <2>4, <2>5, <2>7 DEF HoldersInv, Writing
  <2>12. \A d \in DOMAIN files' \ spared' : d = date => files'[d].day + Retention >= today
    <3> SUFFICES ASSUME date \in DOMAIN files, date \in DOMAIN files', date \notin spared'
                 PROVE  files[date].day + Retention >= today
      BY <2>6
    <3>1. ~(today > files[date].day + Retention)
      BY <2>2, <2>6
    <3>2. QED
      BY <3>1, FileDays DEF MetricsTypeOK, Retention
  <2>13. CleanedInv'
    BY <2>0, <2>4, <2>5, <2>6, <2>12 DEF CleanedInv, Cleaning
  <2>14. RetentionExact'
    <3>1. \A r \in removed' : r.on > r.day + Retention
      BY <1>7, <2>1, <2>2 DEF RetentionExact
    <3>2. QED
      BY <3>1, <2>4, <2>5, <2>6 DEF RetentionExact, InHand
  <2>15. NumbersInv' /\ LinesInv' /\ TailInv' /\ BatchesTogether'
    <3>1. \A q \in Writers : InHand(q)' =>
            writer'[q] = writer[q] /\ (Writing(q) => writer[q].date \in DOMAIN files')
      BY <2>4, <2>5, <2>10 DEF DatesInv, WriterDates, InHand, Writing
    <3>2. QED
      BY <2>6, <2>7, <3>1, SameBatches
  <2>16. QED
    BY <2>8, <2>10, <2>11, <2>13, <2>14, <2>15
<1>8. ASSUME NEW p \in Writers, ReceiveBatch(p) PROVE MetricsIInv'
  <2> USE DEF ReceiveBatch
  <2>0. PICK k \in 1..BatchLimit :
          Set(p, [writer[p] EXCEPT !.pc = "received", !.batch = batches + 1, !.left = k,
                                   !.date = DateOf(today), !.day = today])
    BY <1>8
  <2> DEFINE w == [writer[p] EXCEPT !.pc = "received", !.batch = batches + 1, !.left = k,
                                    !.date = DateOf(today), !.day = today]
  <2>1. /\ w \in WriterState /\ w.pc = "received" /\ w.batch = batches + 1 /\ w.now = writer[p].now
        /\ w.date = DateOf(today) /\ w.day = today /\ writer[p].pc = "idle"
    <3>1. k \in Nat /\ DateOf(today) \in Date /\ today \in Nat /\ batches + 1 \in Nat
      BY MetricsAssumption DEF MetricsTypeOK, Date
    <3>2. writer[p] \in WriterState /\ writer[p].pc = "idle"
      BY <1>8 DEF MetricsTypeOK
    <3>3. QED
      BY <3>1, <3>2 DEF WriterState
  <2> HIDE DEF w
  <2>2. /\ writer' \in [Writers -> WriterState] /\ writer'[p] = w
        /\ \A q \in Writers : q # p => writer'[q] = writer[q]
    BY <2>0, <2>1, SetWriter DEF w
  <2>3. UNCHANGED <<today, files, lockedBy, removed, spared>> /\ batches' = batches + 1
    BY <1>8
  <2>4. MetricsTypeOK'
    BY <2>2, <2>3 DEF MetricsTypeOK
  <2>5. DatesInv'
    <3>1. FileDates' /\ \A q \in Writers : q # p => WriterDates(q)'
      BY <2>2, <2>3 DEF DatesInv, FileDates, WriterDates, InHand, Cleaning
    <3>2. WriterDates(p)'
      BY <2>1, <2>2, <2>3 DEF DatesInv, WriterDates, MetricsTypeOK, InHand, Cleaning, Retention
    <3>3. QED
      BY <3>1, <3>2 DEF DatesInv
  <2>6. HoldersInv' /\ CleanedInv'
    BY <2>1, <2>2, <2>3 DEF HoldersInv, CleanedInv, Writing, Cleaning
  <2>7. RetentionExact'
    BY <2>1, <2>2, <2>3 DEF RetentionExact, InHand
  <2>8. NumbersInv'
    <3>1. \A q \in Writers : q # p /\ InHand(q)' => writer'[q].batch <= batches /\ InHand(q)
      BY <2>2 DEF NumbersInv, InHand
    <3>2. writer'[p].batch = batches + 1 /\ batches \in Nat /\ \A q \in Writers : writer[q].batch \in Nat
      BY <2>1, <2>2 DEF MetricsTypeOK, WriterState
    <3>3. ASSUME NEW q \in Writers, NEW r \in Writers, InHand(q)', InHand(r)', writer'[q].batch = writer'[r].batch
          PROVE  q = r
      BY <2>2, <3>1, <3>2, <3>3 DEF NumbersInv
    <3>4. ASSUME NEW q \in Writers, InHand(q)' PROVE writer'[q].batch <= batches'
      BY <2>2, <2>3, <3>1, <3>2, <3>4
    <3>5. QED
      BY <3>3, <3>4 DEF NumbersInv
  <2>9. LinesInv'
    <3> SUFFICES ASSUME NEW date \in DOMAIN files, NEW i \in DOMAIN files[date].lines
                 PROVE  LET line == files[date].lines[i]
                        IN  /\ line.batch <= batches + 1
                            /\ \A q \in Writers : InHand(q)' /\ line.batch = writer'[q].batch =>
                                 Writing(q)' /\ writer'[q].date = date /\ line.locked = writer'[q].locked
      BY <2>3 DEF LinesInv
    <3>1. files[date].lines[i].batch <= batches /\ files[date].lines[i].batch \in Nat /\ batches \in Nat
      BY FileDays DEF LinesInv, Line, MetricsTypeOK
    <3>2. files[date].lines[i].batch # writer'[p].batch
      BY <2>1, <2>2, <3>1
    <3>3. \A q \in Writers : q # p => (InHand(q)' <=> InHand(q)) /\ (Writing(q)' <=> Writing(q))
      BY <2>2 DEF InHand, Writing
    <3>4. QED
      BY <2>2, <3>1, <3>2, <3>3 DEF LinesInv
  <2>10. TailInv'
    <3>1. \A q \in Writers : Writing(q)' => q # p /\ Writing(q)
      BY <2>1, <2>2 DEF Writing
    <3>2. QED
      BY <2>2, <2>3, <3>1 DEF TailInv
  <2>11. BatchesTogether'
    BY <2>3 DEF BatchesTogether
  <2>12. QED
    BY <2>4, <2>5, <2>6, <2>7, <2>8, <2>9, <2>10, <2>11
<1>9. ASSUME NEW p \in Writers, OpenFile(p) PROVE MetricsIInv'
  <2> DEFINE w == [writer[p] EXCEPT !.pc = "opened"]
             v == [Off EXCEPT !.pc = "idle", !.now = writer[p].now]
             date == writer[p].date
             day == writer[p].day
  <2>1. /\ w \in WriterState /\ w.pc = "opened" /\ w.now = writer[p].now /\ w.batch = writer[p].batch
        /\ w.date = date /\ w.day = day
        /\ v \in WriterState /\ v.pc = "idle" /\ v.now = writer[p].now
        /\ writer[p].pc = "received" /\ day \in Nat
    BY <1>9 DEF OpenFile, MetricsTypeOK, WriterState, Off
  <2>2. date = DateOf(day) /\ date \in Date /\ today <= day + Retention
    BY <2>1 DEF DatesInv, WriterDates, InHand, Date
  <2>3. UNCHANGED <<today, lockedBy, batches, removed, spared>>
    BY <1>9 DEF OpenFile
  <2> HIDE DEF w, v
  <2>4. CASE Set(p, w) /\ files' = IF date \in DOMAIN files THEN files
                                   ELSE [d \in DOMAIN files \cup {date} |->
                                           IF d = date THEN [day |-> day, lines |-> <<>>] ELSE files[d]]
    <3>1. /\ writer' \in [Writers -> WriterState] /\ writer'[p] = w
          /\ \A q \in Writers : q # p => writer'[q] = writer[q]
      BY <2>1, <2>4, SetWriter
    <3>2. /\ date \in DOMAIN files' /\ DOMAIN files' \subseteq Date
          /\ \A d \in DOMAIN files : d \in DOMAIN files' /\ files'[d] = files[d]
          /\ \A d \in DOMAIN files' : d \notin DOMAIN files =>
               d = date /\ files'[d] = [day |-> day, lines |-> <<>>]
          /\ files' = [d \in DOMAIN files' |-> files'[d]]
      BY <2>2, <2>4 DEF MetricsTypeOK
    <3>3. MetricsTypeOK'
      <4>1. [day |-> day, lines |-> <<>>] \in File
        <5>1. <<>> \in Seq(Line)
          OBVIOUS
        <5>2. QED
          BY <2>1, <5>1 DEF File
      <4>2. \A d \in DOMAIN files : files[d] \in File
        BY DEF MetricsTypeOK
      <4>3. \A d \in DOMAIN files' : files'[d] \in File
        BY <3>2, <4>1, <4>2
      <4>4. QED
        BY <2>3, <3>1, <3>2, <4>3 DEF MetricsTypeOK
    <3>4. DatesInv'
      <4>1. FileDates'
        BY <2>2, <3>2 DEF DatesInv, FileDates
      <4>2. WriterDates(p)'
        BY <2>1, <2>2, <2>3, <3>1, <3>2 DEF DatesInv, WriterDates, Cleaning, InHand
      <4>3. \A q \in Writers : q # p => WriterDates(q)'
        BY <2>3, <3>1, <3>2 DEF DatesInv, WriterDates, Cleaning, InHand
      <4>4. QED
        BY <4>1, <4>2, <4>3 DEF DatesInv
    <3>5. HoldersInv'
      BY <2>1, <2>3, <3>1 DEF HoldersInv, Writing
    <3>6. \A d \in DOMAIN files' : d \notin DOMAIN files =>
            \A q \in Writers : files'[d].day + Retention >= writer'[q].now
      <4>1. \A q \in Writers : writer'[q].now <= today /\ writer'[q].now \in Nat
        BY <2>3, <3>1, <3>4 DEF DatesInv, WriterDates, WriterState
      <4>2. QED
        BY <2>1, <2>2, <3>2, <4>1 DEF MetricsTypeOK, Retention
    <3>7. CleanedInv'
      <4>1. \A q \in Writers : Cleaning(q)' => q # p /\ Cleaning(q) /\ writer'[q] = writer[q]
        BY <2>1, <3>1 DEF Cleaning
      <4>2. QED
        BY <2>3, <3>2, <3>6, <4>1 DEF CleanedInv
    <3>8. RetentionExact'
      BY <2>1, <2>3, <3>1, <3>2, <3>6 DEF RetentionExact, InHand
    <3>9. NumbersInv' /\ LinesInv' /\ TailInv' /\ BatchesTogether'
      <4>1. InHand(p) /\ ~Writing(p) /\ InHand(p)' /\ ~Writing(p)' /\ writer'[p].batch = writer[p].batch
        BY <2>1, <3>1 DEF InHand, Writing
      <4>2. QED
        BY <2>3, <3>1, <3>2, <4>1, SameLines
    <3>10. QED
      BY <3>3, <3>4, <3>5, <3>7, <3>8, <3>9
  <2>5. CASE Set(p, v) /\ files' = files
    <3>1. /\ writer' \in [Writers -> WriterState] /\ writer'[p] = v
          /\ \A q \in Writers : q # p => writer'[q] = writer[q]
      BY <2>1, <2>5, SetWriter
    <3>2. MetricsTypeOK'
      BY <2>3, <2>5, <3>1 DEF MetricsTypeOK
    <3>3. DatesInv'
      BY <2>1, <2>3, <2>5, <3>1 DEF DatesInv, FileDates, WriterDates, InHand, Cleaning
    <3>4. HoldersInv' /\ CleanedInv'
      BY <2>1, <2>3, <2>5, <3>1 DEF HoldersInv, CleanedInv, Writing, Cleaning
    <3>5. RetentionExact'
      BY <2>1, <2>3, <2>5, <3>1 DEF RetentionExact, InHand
    <3>6. NumbersInv' /\ LinesInv' /\ TailInv' /\ BatchesTogether'
      <4>1. \A q \in Writers : InHand(q)' =>
              writer'[q] = writer[q] /\ (Writing(q) => writer[q].date \in DOMAIN files')
        BY <2>1, <2>5, <3>1 DEF DatesInv, WriterDates, InHand, Writing
      <4>2. QED
        BY <2>3, <2>5, <4>1, SameBatches
    <3>7. QED
      BY <3>2, <3>3, <3>4, <3>5, <3>6
  <2>6. QED
    BY <1>9, <2>4, <2>5 DEF OpenFile, w, v
<1>10. ASSUME NEW p \in Writers, AcquireLock(p) PROVE MetricsIInv'
  <2> DEFINE date == writer[p].date
             w(b) == [writer[p] EXCEPT !.pc = "writing", !.locked = b]
  <2>1. PICK b \in BOOLEAN : /\ Set(p, w(b))
                             /\ IF b THEN Free(date) /\ lockedBy' = lockedBy \cup {<<p, date>>}
                                ELSE lockedBy' = lockedBy
    BY <1>10 DEF AcquireLock
  <2> DEFINE v == w(b)
  <2>2. /\ v \in WriterState /\ v.pc = "writing" /\ v.now = writer[p].now /\ v.batch = writer[p].batch
        /\ v.date = date /\ v.day = writer[p].day /\ v.locked = b /\ writer[p].pc = "opened"
    BY <1>10 DEF AcquireLock, MetricsTypeOK, WriterState
  <2> HIDE DEF w, v
  <2>3. /\ writer' \in [Writers -> WriterState] /\ writer'[p] = v
        /\ \A q \in Writers : q # p => writer'[q] = writer[q]
    BY <2>1, <2>2, SetWriter DEF v
  <2>4. UNCHANGED <<today, files, batches, removed, spared>>
    BY <1>10 DEF AcquireLock
  <2>5. date \in DOMAIN files /\ date \in Date
    BY <2>2 DEF DatesInv, WriterDates, MetricsTypeOK
  <2>6. MetricsTypeOK'
    BY <2>1, <2>3, <2>4, <2>5 DEF MetricsTypeOK
  <2>7. DatesInv'
    BY <2>2, <2>3, <2>4, <2>5 DEF DatesInv, FileDates, WriterDates, InHand, Cleaning
  <2>8. HoldersInv'
    <3>1. \A g, h \in lockedBy' : g[2] = h[2] => g = h
      BY <2>1 DEF HoldersInv, Free, MetricsTypeOK
    <3>2. \A q \in Writers : Writing(q)' /\ writer'[q].locked => <<q, writer'[q].date>> \in lockedBy'
      BY <2>1, <2>2, <2>3 DEF HoldersInv, Writing
    <3>3. QED
      BY <3>1, <3>2 DEF HoldersInv
  <2>9. CleanedInv' /\ RetentionExact'
    <3>1. CleanedInv'
      BY <2>2, <2>3, <2>4 DEF CleanedInv, Cleaning
    <3>2. RetentionExact'
      BY <2>2, <2>3, <2>4 DEF RetentionExact, InHand
    <3>3. QED
      BY <3>1, <3>2
  <2>10. NumbersInv' /\ LinesInv' /\ TailInv' /\ BatchesTogether'
    <3>1. InHand(p) /\ ~Writing(p) /\ InHand(p)' /\ writer'[p].batch = writer[p].batch
      BY <2>2, <2>3 DEF InHand, Writing
    <3>2. writer'[p].date \in DOMAIN files'
      BY <2>2, <2>3, <2>4, <2>5
    <3>3. QED
      BY <2>3, <2>4, <3>1, <3>2, SameLines
  <2>11. QED
    BY <2>6, <2>7, <2>8, <2>9, <2>10
<1>11. ASSUME NEW p \in Writers, WriteLine(p) PROVE MetricsIInv'
  <2> DEFINE date == writer[p].date
             lines == files[date].lines
             w == [writer[p] EXCEPT !.left = @ - 1]
             e == [batch |-> writer[p].batch, locked |-> writer[p].locked]
             n == Len(lines)
             lines2 == Append(lines, e)
  <2>1. /\ w \in WriterState /\ w.pc = "writing" /\ w.now = writer[p].now /\ w.batch = writer[p].batch
        /\ w.date = date /\ w.day = writer[p].day /\ w.locked = writer[p].locked
        /\ writer[p].pc = "writing" /\ e \in Line /\ Writing(p) /\ InHand(p)
    <3>1. writer[p] \in WriterState /\ writer[p].pc = "writing" /\ writer[p].left > 0
      BY <1>11 DEF WriteLine, MetricsTypeOK
    <3>2. writer[p].left - 1 \in Nat
      BY <3>1 DEF WriterState
    <3>3. w \in WriterState /\ e \in Line
      BY <3>1, <3>2 DEF WriterState, Line
    <3>4. QED
      BY <3>1, <3>3 DEF WriterState, Writing, InHand
  <2> HIDE DEF w
  <2>2. /\ writer' \in [Writers -> WriterState] /\ writer'[p] = w
        /\ \A q \in Writers : q # p => writer'[q] = writer[q]
    BY <1>11, <2>1, SetWriter DEF WriteLine, w
  <2>3. UNCHANGED <<today, lockedBy, batches, removed, spared>>
    BY <1>11 DEF WriteLine
  <2>4. date \in DOMAIN files
    BY <2>1 DEF DatesInv, WriterDates
  <2>5. files[date] \in File /\ lines \in Seq(Line)
    BY <2>4, FileDays
  <2>6. /\ DOMAIN files' = DOMAIN files /\ files' = [d \in DOMAIN files |-> files'[d]]
        /\ \A d \in DOMAIN files : d # date => files'[d] = files[d]
        /\ files'[date] = [day |-> files[date].day, lines |-> lines2]
    BY <1>11, <2>4, <2>5 DEF WriteLine, MetricsTypeOK, File
  <2> HIDE DEF date
  <2>7. /\ lines2 \in Seq(Line) /\ n \in Nat /\ DOMAIN lines = 1..n /\ DOMAIN lines2 = 1..(n + 1)
        /\ lines2[n + 1] = e /\ \A i \in 1..n : lines2[i] = lines[i]
    BY <2>1, <2>5
  <2> HIDE DEF lines2, n, e
  <2>8. /\ files'[date].lines = lines2 /\ files'[date].day = files[date].day /\ files'[date] \in File
        /\ e.batch = writer[p].batch /\ e.locked = writer[p].locked
    BY <2>5, <2>6, <2>7 DEF File, e
  <2>9. \A q \in Writers : /\ writer'[q].now = writer[q].now /\ writer'[q].batch = writer[q].batch
                           /\ writer'[q].locked = writer[q].locked /\ writer'[q].date = writer[q].date
                           /\ (InHand(q)' <=> InHand(q)) /\ (Writing(q)' <=> Writing(q))
    BY <2>1, <2>2 DEF InHand, Writing, date
  <2>10. MetricsTypeOK'
    BY <2>2, <2>3, <2>6, <2>8 DEF MetricsTypeOK
  <2>11. DatesInv'
    <3>1. FileDates'
      BY <2>6, <2>8 DEF DatesInv, FileDates
    <3>2. WriterDates(p)'
      BY <2>1, <2>2, <2>3, <2>6, <2>9 DEF DatesInv, WriterDates, Cleaning, InHand
    <3>3. \A q \in Writers : q # p => WriterDates(q)'
      BY <2>2, <2>3, <2>6 DEF DatesInv, WriterDates, Cleaning, InHand
    <3>4. QED
      BY <3>1, <3>2, <3>3 DEF DatesInv
  <2>12. HoldersInv'
    BY <2>3, <2>9 DEF HoldersInv
  <2>13. CleanedInv' /\ RetentionExact'
    <3>1. \A d \in DOMAIN files : files'[d].day = files[d].day
      BY <2>6, <2>8
    <3>2. CleanedInv'
      BY <2>1, <2>2, <2>3, <2>6, <3>1 DEF CleanedInv, Cleaning
    <3>3. RetentionExact'
      BY <2>1, <2>2, <2>3, <2>6, <2>9, <3>1 DEF RetentionExact, InHand
    <3>4. QED
      BY <3>2, <3>3
  <2>14. NumbersInv'
    BY <2>3, <2>9 DEF NumbersInv
  <2>15. LinesInv'
    <3> SUFFICES ASSUME NEW d \in DOMAIN files, NEW i \in DOMAIN files'[d].lines
                 PROVE  LET line == files'[d].lines[i]
                        IN  /\ line.batch <= batches
                            /\ \A q \in Writers : InHand(q) /\ line.batch = writer[q].batch =>
                                 Writing(q) /\ writer[q].date = d /\ line.locked = writer[q].locked
      BY <2>3, <2>6, <2>9 DEF LinesInv
    <3>1. CASE d = date /\ i = n + 1
      BY <3>1, <2>1, <2>7, <2>8 DEF NumbersInv, date
    <3>2. CASE d = date /\ i # n + 1
      <4>1. i \in DOMAIN files[d].lines /\ files'[d].lines[i] = files[d].lines[i]
        BY <3>2, <2>7, <2>8
      <4>2. QED
        BY <4>1 DEF LinesInv
    <3>3. CASE d # date
      BY <3>3, <2>6 DEF LinesInv
    <3>4. QED
      BY <3>1, <3>2, <3>3
  <2>16. TailInv'
    <3> SUFFICES ASSUME NEW q \in Writers, Writing(q), writer[q].locked,
                        NEW i \in DOMAIN files'[writer[q].date].lines,
                        NEW j \in DOMAIN files'[writer[q].date].lines, i <= j,
                        files'[writer[q].date].lines[i].batch = writer[q].batch,
                        files'[writer[q].date].lines[j].locked
                 PROVE  files'[writer[q].date].lines[j].batch = writer[q].batch
      BY <2>9 DEF TailInv
    <3>1. CASE writer[q].date # date
      <4>1. writer[q].date \in DOMAIN files
        BY DEF DatesInv, WriterDates, Writing
      <4>2. QED
        BY <3>1, <4>1, <2>6 DEF TailInv
    <3>2. CASE writer[q].date = date /\ j = n + 1
      <4>1. q = p
        <5> SUFFICES ASSUME q # p PROVE FALSE
          OBVIOUS
        <5>1. writer[p].locked
          BY <3>2, <2>7, <2>8
        <5>2. <<p, date>> \in lockedBy /\ <<q, date>> \in lockedBy
          BY <3>2, <5>1, <2>1 DEF HoldersInv, date
        <5>3. <<p, date>> = <<q, date>>
          BY <5>2 DEF HoldersInv
        <5>4. QED
          BY <5>3
      <4>2. QED
        BY <3>2, <4>1, <2>7, <2>8
    <3>3. CASE writer[q].date = date /\ j # n + 1
      <4>1. i \in 1..n /\ j \in 1..n
        BY <3>3, <2>7, <2>8
      <4>2. files'[date].lines[i] = lines[i] /\ files'[date].lines[j] = lines[j]
        BY <4>1, <2>7, <2>8
      <4>3. i \in DOMAIN files[writer[q].date].lines /\ j \in DOMAIN files[writer[q].date].lines
        BY <3>3, <4>1, <2>7
      <4>4. files[writer[q].date].lines[j].batch = writer[q].batch
        BY <3>3, <4>2, <4>3 DEF TailInv
      <4>5. QED
        BY <3>3, <4>2, <4>4
    <3>4. QED
      BY <3>1, <3>2, <3>3
  <2>17. BatchesTogether'
    <3> SUFFICES ASSUME NEW d \in DOMAIN files, NEW i \in DOMAIN files'[d].lines, NEW k \in DOMAIN files'[d].lines,
                        NEW j \in i..k, files'[d].lines[i].batch = files'[d].lines[k].batch,
                        files'[d].lines[i].locked, files'[d].lines[j].locked
                 PROVE  files'[d].lines[j].batch = files'[d].lines[i].batch
      BY <2>6 DEF BatchesTogether
    <3>1. CASE d # date
      BY <3>1, <2>6 DEF BatchesTogether
    <3>2. CASE d = date /\ k # n + 1
      <4>1. i \in 1..n /\ j \in 1..n /\ k \in 1..n
        BY <3>2, <2>7, <2>8
      <4>2. /\ files'[d].lines[i] = lines[i] /\ files'[d].lines[j] = lines[j]
            /\ files'[d].lines[k] = lines[k]
        BY <3>2, <4>1, <2>7, <2>8
      <4>3. QED
        BY <3>2, <4>1, <4>2, <2>7 DEF BatchesTogether
    <3>3. CASE d = date /\ k = n + 1
      <4>1. files'[d].lines[k] = e /\ files'[d].lines[i].batch = writer[p].batch
        BY <3>3, <2>7, <2>8
      <4>2. CASE j = n + 1
        BY <3>3, <4>1, <4>2
      <4>3. CASE j # n + 1
        <5>1. i \in 1..n /\ j \in 1..n /\ i <= j
          BY <3>3, <4>3, <2>7, <2>8
        <5>2. files'[d].lines[i] = lines[i] /\ files'[d].lines[j] = lines[j]
          BY <3>3, <5>1, <2>7, <2>8
        <5>3. writer[p].locked
          BY <3>3, <4>1, <5>1, <5>2, <2>1, <2>4, <2>7 DEF LinesInv
        <5>4. lines[j].batch = writer[p].batch
          <6>1. /\ i \in DOMAIN files[writer[p].date].lines /\ j \in DOMAIN files[writer[p].date].lines
                /\ lines = files[writer[p].date].lines
            BY <5>1, <2>7 DEF date
          <6>2. lines[i].batch = writer[p].batch /\ lines[j].locked
            BY <3>3, <4>1, <5>2
          <6>3. QED
            BY <5>1, <5>3, <6>1, <6>2, <2>1 DEF TailInv
        <5>5. QED
          BY <4>1, <5>2, <5>4
      <4>4. QED
        BY <4>2, <4>3
    <3>4. QED
      BY <3>1, <3>2, <3>3
  <2>18. QED
    BY <2>10, <2>11, <2>12, <2>13, <2>14, <2>15, <2>16, <2>17
<1>12. CASE UNCHANGED metricsVars
  BY <1>12 DEF metricsVars, MetricsTypeOK, DatesInv, FileDates, WriterDates, HoldersInv, NumbersInv, LinesInv, TailInv, CleanedInv, BatchesTogether, RetentionExact, InHand, Writing, Cleaning
<1>13. QED
  BY <1>1, <1>2, <1>3, <1>4, <1>5, <1>6, <1>7, <1>8, <1>9, <1>10, <1>11, <1>12 DEF MetricsNext

\* The lines of a batch stay together in the file of its day, whatever
\* processes of whatever number append to it, die or clean up meanwhile,
\* unless one of them wrote without the lock (flush_batch and
\* acquire_metrics_lock, metrics_export.rs).
THEOREM MetricsBatchesTogether == MetricsSpec => []BatchesTogether
<1>1. MetricsInit => MetricsIInv
  BY MetricsInitIInv
<1>2. MetricsIInv /\ [MetricsNext]_metricsVars => MetricsIInv'
  BY MetricsStepIInv
<1>3. MetricsIInv => BatchesTogether
  BY DEF MetricsIInv
<1>4. QED
  BY <1>1, <1>2, <1>3, PTL DEF MetricsSpec

\* cleanup_old_files removes a metrics file only when its thirty days have
\* passed, on any date, and leaves none that is older when its process takes
\* events, but for those whose removal failed.
THEOREM MetricsRetentionExact == MetricsSpec => []RetentionExact
<1>1. MetricsInit => MetricsIInv
  BY MetricsInitIInv
<1>2. MetricsIInv /\ [MetricsNext]_metricsVars => MetricsIInv'
  BY MetricsStepIInv
<1>3. MetricsIInv => RetentionExact
  BY DEF MetricsIInv
<1>4. QED
  BY <1>1, <1>2, <1>3, PTL DEF MetricsSpec

=============================================================================
