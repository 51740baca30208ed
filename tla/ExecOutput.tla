----------------------------- MODULE ExecOutput -----------------------------
(***************************************************************************)
(* What exec_command does with the text of a command that ended, up to its *)
(* answer: the limits on each stream, the slot files long output is kept   *)
(* in, the filter rules and the links of the answer.                       *)
(*                                                                         *)
(* Several server processes share the slot files: the number of a slot is  *)
(* the number of the call in its session, so every session of every        *)
(* process uses the same slots from 0 on.  A slot file is replaced by      *)
(* writing a temporary file and renaming it; a process may stop between    *)
(* any two of these steps, and a write may fail.                           *)
(*                                                                         *)
(* A text is a set of lines [id, len, noise]: which line of the command it *)
(* is (lines are shown in this order), its bytes with the newline (fewer   *)
(* when the front of the line was cut off), and whether a filter rule      *)
(* strips it.  Escape sequences and the rules' regular expressions are     *)
(* left out.                                                               *)
(***************************************************************************)
EXTENDS Naturals, Sequences, FiniteSets, SequencesExt

CONSTANTS Servers,            \* server processes
          Programs,           \* what clients ask: sequences of commands, see Ask
          BuiltinRules,       \* the filter rules of build_builtin_filter_rules
          ProjectFiles,       \* contents of .aptu/filters.toml, see LoadFilterTable
          StreamBytes,        \* MAX_BYTES of a stream before it is kept
          StdoutBytes, StderrBytes, InterleavedBytes, OutputLines, PreviewLines,
          PidBound,           \* bound: processes started in all
          FailureBound        \* bound: writes that fail

FilterRule ==
    [match : SUBSET STRING, strip : BOOLEAN, max : Seq(Nat), onEmpty : BOOLEAN, valid : BOOLEAN]

ASSUME OutputAssumption ==
    /\ IsFiniteSet(Servers)
    /\ {StreamBytes, StdoutBytes, StderrBytes, InterleavedBytes, OutputLines, PreviewLines,
        PidBound, FailureBound} \subseteq Nat
    /\ StdoutBytes < StreamBytes /\ StderrBytes < StreamBytes
    /\ StdoutBytes + StderrBytes <= InterleavedBytes
    /\ InterleavedBytes < 2 * StreamBytes
    /\ PreviewLines <= OutputLines
    /\ \A programs \in Programs : \A c \in DOMAIN programs :
         programs[c].lines \in Seq([err : BOOLEAN, len : Nat, noise : BOOLEAN])
    /\ BuiltinRules \in Seq(FilterRule)
    /\ \A file \in ProjectFiles : file.kind = "rules" => file.rules \in Seq(FilterRule)

VARIABLES asked,      \* asked[c]: the command of call c and how it ends
          table,      \* the filter rules loaded when the servers started
          calls,      \* calls[c]: how far call c is
          callSeq,    \* callSeq[p]: session_call_seq of process p
          pid,        \* pid[p]: the process id of p
          tmpCounter, \* tmpCounter[p]: COUNTER of tmp_path in p
          temps,      \* temporary files: name -> [call, text, whole]
          slots       \* slot files: <<slot, stream>> -> [call, text, whole, over]

outputVars == <<asked, table, calls, callSeq, pid, tmpCounter, temps, slots>>

Streams == {"stdout", "stderr", "interleaved"}
NoFile == [none |-> TRUE]
NoRule == [none |-> TRUE]
Message == {[id |-> 0, len |-> 1, noise |-> FALSE]}   \* text of the server's own

----------------------------------------------------------------------------
(* The lines of a command.                                                 *)

Bytes(text) == Cardinality(UNION {{line.id} \X (1..line.len) : line \in text})

Ahead(text, line) == {l \in text : l.id < line.id}
From(text, line) == {l \in text : l.id >= line.id}

\* The lines pushed until the stream is full: a line is taken while the
\* bytes before it are below the limit, later ones are dropped.
FirstBytes(text, limit) == {line \in text : Bytes(Ahead(text, line)) < limit}

Printed(run) ==
    {[id |-> i, len |-> run.lines[i].len, noise |-> run.lines[i].noise] : i \in DOMAIN run.lines}

StreamText(run, stream) ==
    IF stream = "interleaved" THEN FirstBytes(Printed(run), 2 * StreamBytes)
    ELSE FirstBytes({line \in Printed(run) : run.lines[line.id].err = (stream = "stderr")}, StreamBytes)

\* The last bytes of a text: the line they start in loses its front.
LastBytes(text, limit) ==
    LET whole == {line \in text : Bytes(From(text, line)) <= limit}
        left == limit - Bytes(whole)
        cut == {line \in text \ whole : left > 0 /\ From(text, line) \subseteq whole \cup {line}}
    IN {[line EXCEPT !.len = left] : line \in cut} \cup whole

LastLines(text) == {line \in text : Cardinality(From(text, line)) <= PreviewLines}

Preview(text, limit) ==
    IF Bytes(text) > limit THEN LastBytes(text, limit)
    ELSE IF Cardinality(text) > OutputLines THEN LastLines(text) ELSE text

----------------------------------------------------------------------------
(* Filter rules: match is the set of the commands a rule is for, max the   *)
(* number of lines it keeps, if any, and valid whether its pattern is a    *)
(* regular expression.                                                     *)

Valid(rule) == rule.valid

\* The rules of the project's file go in front, one after the other.
Loaded(rules) ==
    LET loaded[n \in 0..Len(rules)] ==
          IF n = 0 THEN BuiltinRules
          ELSE IF Valid(rules[n]) THEN <<rules[n]>> \o loaded[n - 1] ELSE loaded[n - 1]
    IN loaded[Len(rules)]

LoadFilterTable(file) ==
    IF file.kind = "rules" /\ file.version = 1 THEN Loaded(file.rules)
    ELSE BuiltinRules      \* no file, one that does not parse, another version

RuleFor(rules, command) ==
    LET matching == {n \in DOMAIN rules : command \in rules[n].match}
    IN IF matching = {} THEN NoRule ELSE rules[Min(matching)]
FirstMatch(command) == RuleFor(table, command)

ApplyFilter(rule, text) ==
    LET kept == {line \in text : ~ (rule.strip /\ line.noise)}
        capped == rule.max # <<>> /\ Cardinality(kept) > rule.max[1]
        cut == IF capped THEN {line \in kept : Cardinality(Ahead(kept, line)) < rule.max[1]} ELSE kept
    IN IF cut = {} /\ rule.onEmpty
       THEN [text |-> Message, effect |-> "substituted"]
       ELSE [text |-> cut, effect |-> IF capped THEN "capped" ELSE "none"]

----------------------------------------------------------------------------
(* The answer's text, before anything is written.  Ask: a command is       *)
(* [by, command, lines, ends, aborted], by the servers its client may be   *)
(* connected to, lines what the drain task delivered, ends one of "ok",    *)
(* "failed", "killed" (by a signal), "timed_out", "no_shell", and aborted  *)
(* when the drain task was given up, which leaves the exit code alone.     *)

Exited(run) == run.ends = "ok"      \* exit_code is Some(0)

\* handle_output_persist: too much of either stream keeps both.
Persisted(run) ==
    LET out == StreamText(run, "stdout")
        err == StreamText(run, "stderr")
        over == \/ Cardinality(out) > OutputLines \/ Bytes(out) > StdoutBytes
                \/ Cardinality(err) > OutputLines \/ Bytes(err) > StderrBytes
    IN {s \in {"stdout", "stderr"} : over /\ StreamText(run, s) # {}}

\* persist_interleaved_overflow.
Overflowing(run) ==
    Persisted(run) \cup
      (IF Bytes(StreamText(run, "interleaved")) > InterleavedBytes THEN {"interleaved"} ELSE {})

Shell(run) ==
    IF run.ends = "no_shell"
    THEN [stdout |-> {}, stderr |-> Message, interleaved |-> Message, truncated |-> FALSE]
    ELSE [stdout |-> Preview(StreamText(run, "stdout"), StdoutBytes),
          stderr |-> Preview(StreamText(run, "stderr"), StderrBytes),
          interleaved |-> LET all == StreamText(run, "interleaved")
                          IN IF Bytes(all) > InterleavedBytes
                             THEN LastBytes(all, InterleavedBytes) ELSE all,
          truncated |-> \/ run.aborted
                        \/ {"stdout", "interleaved"} \cap Overflowing(run) # {}
                        \/ Bytes(StreamText(run, "stderr")) > StderrBytes]

\* apply_filter_rules: the effect is that on stdout, or else on interleaved.
Filtered(out, all) ==
    LET effect == IF out.effect = "none" THEN all.effect ELSE out.effect
    IN [applied |-> TRUE, capped |-> effect = "capped",
        substituted |-> effect = "substituted",
        stdout |-> out.text, interleaved |-> all.text]

ApplyRule(rule, shell) ==
    IF rule = NoRule
    THEN [applied |-> FALSE, capped |-> FALSE, substituted |-> FALSE,
          stdout |-> shell.stdout, interleaved |-> shell.interleaved]
    ELSE Filtered(ApplyFilter(rule, shell.stdout), ApplyFilter(rule, shell.interleaved))

Filtering(run) ==
    ApplyRule(IF Exited(run) THEN FirstMatch(run.command) ELSE NoRule, Shell(run))

\* What a cap of the filter saves before it cuts: streams without a file yet.
Unkept(shell, filtering, overflowing) ==
    IF filtering.capped
    THEN {s \in {"stdout", "interleaved"} \ overflowing : shell[s] # {}}
    ELSE {}

PreFilter(run) == Unkept(Shell(run), Filtering(run), Overflowing(run))

\* The preview is kept instead of the text.
CapturedPreview(run, stream) == Shell(run)[stream]
Captured(run, stream) ==
    IF stream \in Overflowing(run) THEN StreamText(run, stream) ELSE Shell(run)[stream]

\* The files in the order they are written.
Included(s, files) == IF s \in files THEN <<s>> ELSE <<>>

Writes(run) ==
    IF run.ends = "no_shell" THEN <<>>
    ELSE Included("stdout", Overflowing(run)) \o Included("stderr", Overflowing(run))
           \o Included("interleaved", Overflowing(run))
           \o Included("stdout", PreFilter(run)) \o Included("interleaved", PreFilter(run))

----------------------------------------------------------------------------
(* Slot files and temporary files.                                         *)

SlotBase(slot, stream) == <<slot, stream>>
\* A name without the process: two processes share it.
TmpPathByCount(p, path) == <<path, tmpCounter[p]>>
TmpPath(p, path) == <<path, pid[p], tmpCounter[p]>>

\* A file made, or one of that name replaced.
Put(files, name, file) == [n \in DOMAIN files \cup {name} |-> IF n = name THEN file ELSE files[n]]

Capture(path) == IF path \in DOMAIN slots THEN slots[path] ELSE NoFile

\* read_resource_impl of aptu-overflow://slot-{slot}/{stream}.
ReadOverflow(slot, stream) ==
    LET file == Capture(SlotBase(slot, stream))
    IN IF file = NoFile \/ file.text = {} THEN NoFile ELSE file

----------------------------------------------------------------------------
FreshCall == [at |-> "asked", by |-> "none", slot |-> 0, todo |-> <<>>, tmp |-> <<>>, filled |-> FALSE,
            kept |-> {}, lost |-> {}, answer |-> NoFile]
Busy(c) == calls[c].at \in {"running", "writing"}
Lost == UNION {{<<c, s>> : s \in calls[c].lost} : c \in DOMAIN calls}

OutputInit ==
    /\ asked \in Programs
    /\ table \in {LoadFilterTable(file) : file \in ProjectFiles}
    /\ calls = [c \in DOMAIN asked |-> FreshCall]
    /\ callSeq = [p \in Servers |-> 0]
    /\ pid = CHOOSE f \in [Servers -> 1..Cardinality(Servers)] : IsInjective(f)
    /\ tmpCounter = [p \in Servers |-> 0]
    /\ temps = << >> /\ slots = << >>

\* A call takes its number when it is received; then the command runs.
Receive(c, p) ==
    /\ calls[c].at = "asked" /\ p \in asked[c].by
    /\ calls' = [calls EXCEPT ![c].at = "running", ![c].by = p, ![c].slot = callSeq[p]]
    /\ callSeq' = [callSeq EXCEPT ![p] = @ + 1]
    /\ UNCHANGED <<asked, table, pid, tmpCounter, temps, slots>>

\* The command ended and its lines are collected.
Collect(c) ==
    /\ calls[c].at = "running"
    /\ calls' = [calls EXCEPT ![c].at = "writing", ![c].todo = Writes(asked[c])]
    /\ UNCHANGED <<asked, table, callSeq, pid, tmpCounter, temps, slots>>

\* std::fs::write creates the temporary file, or empties it.
OpenTmp(c) ==
    /\ calls[c].at = "writing" /\ calls[c].todo # <<>> /\ calls[c].tmp = <<>>
    /\ LET name == TmpPath(calls[c].by, SlotBase(calls[c].slot, Head(calls[c].todo)))
       IN /\ temps' = Put(temps, name, [call |-> c, whole |-> FALSE])
          /\ calls' = [calls EXCEPT ![c].tmp = name]
    /\ tmpCounter' = [tmpCounter EXCEPT ![calls[c].by] = @ + 1]
    /\ UNCHANGED <<asked, table, callSeq, pid, slots>>

FillTmp(c) ==
    /\ calls[c].at = "writing" /\ calls[c].tmp \in DOMAIN temps /\ ~ calls[c].filled
    /\ temps' = [temps EXCEPT ![calls[c].tmp] = [call |-> c, whole |-> TRUE]]
    /\ calls' = [calls EXCEPT ![c].filled = TRUE]
    /\ UNCHANGED <<asked, table, callSeq, pid, tmpCounter, slots>>

\* The call is done with a file: kept and lost are the streams to add.
Written(call, kept, lost) ==
    [call EXCEPT !.todo = Tail(@), !.tmp = <<>>, !.filled = FALSE,
                 !.kept = @ \cup kept, !.lost = @ \cup lost]

\* The rename replaces the slot file.  over, the calls whose captures were
\* there before, is kept for the properties only.
RenameTmp(c) ==
    /\ calls[c].at = "writing" /\ calls[c].filled /\ calls[c].tmp \in DOMAIN temps
    /\ LET stream == Head(calls[c].todo)
           path == SlotBase(calls[c].slot, stream)
           tmp == temps[calls[c].tmp]
           old == Capture(path)
           over == IF old = NoFile THEN {} ELSE old.over \cup {old.call}
       IN /\ slots' = Put(slots, path, [call |-> tmp.call, whole |-> tmp.whole, over |-> over,
                                        text |-> Captured(asked[tmp.call], stream)])
          /\ calls' = [calls EXCEPT ![c] = Written(@, {stream}, {})]
    /\ temps' = Restrict(temps, DOMAIN temps \ {calls[c].tmp})
    /\ UNCHANGED <<asked, table, callSeq, pid, tmpCounter>>

\* A directory that cannot be made, a full disk, a rename refused.
WriteFails(c) ==
    /\ calls[c].at = "writing" /\ calls[c].todo # <<>>
    /\ Cardinality(Lost) < FailureBound
    /\ calls' = [calls EXCEPT ![c] = Written(@, {}, {Head(calls[c].todo)})]
    /\ UNCHANGED <<asked, table, callSeq, pid, tmpCounter, temps, slots>>

----------------------------------------------------------------------------
(* The answer.                                                             *)

\* A failed write of a filter's capture is overlooked.
PathsUnchecked(c) == Overflowing(asked[c]) \cup PreFilter(asked[c])
\* An overflowing stream has its path whether or not the file was written; a
\* stream saved for the filter only when it was.
Paths(c) == Overflowing(asked[c]) \cup (calls[c].kept \cap PreFilter(asked[c]))

\* The text is the interleaved lines, or both streams when there are none.
ShownText(shell, filtering) ==
    IF filtering.interleaved # {} THEN filtering.interleaved
    ELSE filtering.stdout \cup shell.stderr

AnswerWith(run, shell, filtering, paths) ==
    IF run.ends = "timed_out"
    THEN [text |-> Message, links |-> {}, truncated |-> FALSE, filtered |-> FALSE,
          capped |-> FALSE, error |-> TRUE, structured |-> TRUE]
    ELSE [text |-> ShownText(shell, filtering),
          links |-> IF shell.truncated \/ filtering.capped THEN paths ELSE {},
          truncated |-> shell.truncated,
          filtered |-> filtering.applied, capped |-> filtering.capped,
          error |-> run.ends = "failed",
          structured |-> \/ shell.truncated \/ filtering.applied \/ run.aborted
                         \/ paths \cap {"stdout", "stderr"} # {}]

AnswerOf(c) ==
    AnswerWith(asked[c], Shell(asked[c]), Filtering(asked[c]),
               IF asked[c].ends = "no_shell" THEN {} ELSE Paths(c))

Reply(c) ==
    /\ calls[c].at = "writing" /\ calls[c].todo = <<>>
    /\ calls' = [calls EXCEPT ![c].at = "answered", ![c].answer = AnswerOf(c)]
    /\ UNCHANGED <<asked, table, callSeq, pid, tmpCounter, temps, slots>>

----------------------------------------------------------------------------
\* Bound: sessions and processes start while they can still make a difference.
Open == {c \in DOMAIN calls : calls[c].at = "asked" \/ Busy(c)}

\* on_initialized: a new session numbers its calls from 0 again, while calls
\* of the last one may still run.
StartSession(p) ==
    /\ callSeq[p] > 0 /\ \E c \in Open : calls[c].at = "asked"
    /\ callSeq' = [callSeq EXCEPT ![p] = 0]
    /\ UNCHANGED <<asked, table, calls, pid, tmpCounter, temps, slots>>

\* A server process ends, wherever its calls are, and is started again.
ServerRestart(p) ==
    /\ \A q \in Servers : pid[q] < PidBound
    /\ Cardinality(Open) > 1
    /\ pid' = [pid EXCEPT ![p] = Max({pid[q] : q \in Servers}) + 1]
    /\ callSeq' = [callSeq EXCEPT ![p] = 0]
    /\ tmpCounter' = [tmpCounter EXCEPT ![p] = 0]
    /\ calls' = [c \in DOMAIN calls |->
                   IF Busy(c) /\ calls[c].by = p THEN [calls[c] EXCEPT !.at = "gone"] ELSE calls[c]]
    /\ UNCHANGED <<asked, table, temps, slots>>

OutputNext ==
    \/ \E c \in DOMAIN calls, p \in Servers : Receive(c, p)
    \/ \E c \in DOMAIN calls : \/ Collect(c) \/ OpenTmp(c) \/ FillTmp(c) \/ RenameTmp(c)
                               \/ WriteFails(c) \/ Reply(c)
    \/ \E p \in Servers : StartSession(p) \/ ServerRestart(p)

OutputSpec == OutputInit /\ [][OutputNext]_outputVars

----------------------------------------------------------------------------
(* Properties.                                                             *)

EndedCalls == {c \in DOMAIN calls : calls[c].at = "answered"}

\* Whoever reads a slot file gets what one call captured, whole, however the
\* writes of processes and sessions that share the slot interleave and
\* wherever they stop (exec_runtime.rs:483-488).
CapturesWhole ==
    \A path \in DOMAIN slots :
        LET file == ReadOverflow(path[1], path[2])
        IN file # NoFile => file.whole

\* A link of an answer leads to what that call captured or to what a later
\* call put in its place, never to nothing and never to an older capture,
\* unless the file of an overflow could not be written (exec_command.rs:591-596).
LinksHold ==
    \A c \in EndedCalls : \A s \in calls[c].answer.links \ (calls[c].lost \cap Overflowing(asked[c])) :
        LET file == ReadOverflow(calls[c].slot, s)
        IN file # NoFile /\ (file.call = c \/ c \in file.over)

Ids(run, text) == {line.id : line \in {l \in text : l.id > 0 /\ l.len = run.lines[l.id].len}}
Kept(run) == UNION {Ids(run, StreamText(run, s)) : s \in Streams}
StrippedLine(run, i) ==
    Filtering(run).applied /\ FirstMatch(run.command).strip /\ run.lines[i].noise

AccountedFor(c, i) ==
    LET run == asked[c]
        answer == calls[c].answer
    IN \/ i \in Ids(run, answer.text)
       \/ StrippedLine(run, i)
       \/ /\ answer.truncated \/ answer.capped
          /\ \/ calls[c].lost # {} \/ i \notin Kept(run)
             \/ \E s \in answer.links : i \in Ids(run, Captured(run, s))
Complete(c) == \A i \in 1..Len(asked[c].lines) : AccountedFor(c, i)

\* A line of the command that is missing from the answer was stripped by a
\* filter rule, or the answer says that it is cut and, when every write
\* succeeded, links to a capture that has the line, if the stream was kept
\* that far.  Left out are answers in which the rule replaced an empty stdout:
\* there a cap of the lines from stderr is silent.
LinesAccounted ==
    \A c \in EndedCalls : \/ asked[c].ends \in {"timed_out", "no_shell"}
                        \/ Filtering(asked[c]).substituted
                        \/ Complete(c)
=============================================================================
