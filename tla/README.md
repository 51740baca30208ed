# TLA+ models of aptu-coder

aptu-coder is an MCP server for code analysis. A client calls eight tools
(`analyze_directory`, `analyze_file`, `analyze_module`, `analyze_symbol`,
`edit_overwrite`, `edit_replace`, `exec_command`, `verify_anchors`), reads
resources, and asks for completions. Calls run concurrently on one `CodeAnalyzer`
that all sessions share; editors, builds and other servers write the same files.

This directory has TLA+ models of the parts of the server where that matters,
model-checked with TLC on small instances, and TLAPS proofs of their main
properties for every value of the constants. `core/` below stands for
`src/crates/aptu-coder-core/src/`, `server/` for `src/crates/aptu-coder/src/`.

    tlc -config MCEditReplace.cfg MCEdit     # one run; PROJECT.json lists them all
    tlapm EditProofs.tla                     # one proof module

## Inventory

| Component | State it keeps | Operations | Makes it correct | Module |
|---|---|---|---|---|
| Edit tools (`server/tools/edit_*.rs`, `core/edit.rs`) | the files; `file_edit_locks`; `edit_failure_counts` | replace one block or a batch, overwrite | no update is lost, an edit takes effect at one instant or not at all, a failure is counted once, the map is bounded, every call is answered while the server lives | `EditTools`, `AtomicEdits` |
| `exec_command` (`server/tools/exec_*.rs`) | child, pipes, drain task, timers | spawn, feed stdin, wait, kill, reap, drain | nothing is left running, output is complete or flagged, the call ends | `ExecCommand` |
| One-file caches (`analyze_file`, `analyze_module`, completion) | L1 LRU by (path, mtime), L2 on disk by content hash | look up, analyse, store, write behind, invalidate | an answer is of a content the file had during the call; L2 entries match their hash | `FileCache`, `LruCache` |
| `analyze_symbol` (`server/tools/symbol_focused.rs`, `core/analyze_focused.rs`) | LRU and disk cache of answers, structural graphs in memory and on disk | walk, read in parallel, build, resolve, collect sites, shorten, cancel | answers and graphs are of contents of their time and complete | `SymbolAnalysis`, `LruCache` |
| Dispatch, sessions, metrics (`server/lib.rs`, `tools/server.rs`, `metrics*.rs`, `main.rs`) | router lock, session id and call counter, bounded channel, the writer's batch and counts | enter, number, emit, new session, batch, export, shut down | telemetry neither blocks nor miscounts, identifiers are unique, calls end | `Telemetry` |
| Text matching of edits (`core/edit.rs`) | none | find exactly or without trailing blanks, map offsets back, splice, batch | what is removed is the old text and nothing else, a batch is its edits in any order | `EditMatch` |
| Directory analysis (`analyze_directory.rs`, `core/traversal.rs`, `core/analyze.rs`) | LRU and disk cache of listings | walk, filter by git, analyse, summarise, page, cancel | a listing is as fresh as its key | `DirectoryAnalysis` |
| Graphs (`core/graph/`), graph resources (`resources.rs`), pages and texts of `analyze_symbol` (`core/formatter/`) | the stored graph | build, resolve, chains, blast radius, subgraph, texts, pages, cursors | calls join the right definitions; a query returns what is near; cursors lead through all of it once | `CallGraph`, `StructuralGraph`, `FocusText`, `GraphQueries` |
| Output of `exec_command` (`exec_runtime.rs`, `filters.rs`), overflow resources | slot files and temporary files, shared by all servers of a user | cut, persist, filter, answer, read a slot, restart | every line is shown, linked or accounted for; a link leads to a whole capture | `ExecOutput` |
| Anchors (`core/anchors.rs`, `verify_anchors.rs`) | none | check paths, read once, search a window | a citation holds exactly when the file, the line and the symbol are there | `Anchors` |
| Path validation (`validation.rs`) | none | resolve a path under the server's directory or `working_dir` | one name for one file, nothing outside | `PathRules` |
| Command checks (`exec_command.rs`, `heredoc_validation.rs`, `shell_scan.rs`) | none | take a `cd` for the working directory, scan for here-documents | the command runs where it says; accepted here-documents are closed and write no file | `CommandChecks` |
| Import lookup (`core/module_lookup.rs`) | none | resolve Python wildcards, find importers | the names Python would import | `PythonImports` |
| Pages of `analyze_file` (`analyze_file.rs`, `core/formatter/`) | none | format, summarise, page | following the cursors shows every function once | `FileAnswers` |
| Metrics files (`metrics_export.rs`, `core/file_lock.rs`) | files of the day and lock files, shared by all servers of a user | append a batch, turn the day, remove old files | batches stay together; exactly what is past the retention goes | `MetricsFile` |
| Parsers, language handlers, completion, shell detection, OTel set-up, types | thread-local parsers | pure, or set-up | about grammars, wording or libraries | left out |

`PROJECT.json` lists the parts one by one with their sources and what is missing.

How they interact. `CodeAnalyzer::call_tool` holds the router's read lock while
a tool runs (Telemetry); each tool takes a (session, sequence) pair, emits a
receipt and an end. The edit tools share the per-path mutexes and the failure
map, and after a write drop the file's entries from the L1 of FileCache;
nothing tells the caches of `analyze_symbol` and `analyze_directory`, which rely on mtimes.
`analyze_file` and `analyze_symbol` answer before their disk entries are
written; failed writes reach the metrics through a counter all calls share.
`analyze_symbol` leaves structural graphs that graph resources read.
`exec_command` writes slot files that overflow resources read, and numbers them by the
call's place in its session, so that the sessions of all servers of a user use the same ones.
The metrics files of a day are shared in the same way, under an advisory lock.

The hard parts are where the code gives up atomicity: between a read and a
rename, between a stat and a read, at every await, between a call's two
readings of a file, between a thread's return and its coordinator's
bookkeeping, between an answer and its write-behind, and between the end of the
transport and that of the writer. The hazards in `PROJECT.json` are these,
line by line, with the properties that would catch them.

## Plan

Written in this order, because what a client relies on most came first:
`EditTools` with `AtomicEdits` and `EditProofs`; `ExecCommand` and `ExecProofs`;
`LruCache`, `FileCache` and `FileCacheProofs`; `Telemetry`; `SymbolAnalysis`;
`CallGraph`, `StructuralGraph` and `GraphQueries`; then the tools that are functions
of a request (`EditMatch`, `PathRules`, `CommandChecks`, `Anchors`, `PythonImports`,
`FileAnswers`), what several servers share (`ExecOutput`, `MetricsFile`),
`DirectoryAnalysis`, and the texts of `analyze_symbol` (`FocusText`).

Still worth doing:

1. A theorem about batches of edits: when the new texts contain none of the old ones.
2. A composition of `FileCache` and `EditTools`: the hash a client gets from one
   and sends to the other.
3. `EditMatch` as the meaning of `EditTools!Apply`.

## Modules

**EditTools** (`edit_replace.rs`, `edit_overwrite.rs`, `core/edit.rs`). Each
call moves through `arrived` (path resolved, registry entry found or made),
`queued` (waiting for the mutex on the blocking pool), `locked`, `spliced` (new
text computed from `snapshot`), `leaving`, `returned` (the join handle is
ready) and `done` (the coordinator has updated the failure map).
`OverwriteFile` is one step: the write-and-rename takes no lock and reads
nothing. Matching is the constant `Apply` (EditMatch has the algorithm); a content hash stands for its content.
`server` says whether the process lives: `PanicStrategy` has the builds that are considered, and where a
panic aborts (the release build, `Cargo.toml:74-79`), `Abort` ends the server with every call
under way; where it unwinds (dev and test builds), the mutex is released and poisoned and the coordinator told.
The module's `Counted` and `Incremented` are the circuit breaker.

**AtomicEdits** is the promise: each call commits, is rejected or fails at one
instant. `EditTools!Atomic` maps the outcomes onto it.

**ExecCommand** (`exec_runtime.rs`, `exec_command.rs`). `pc` is the handler's
await; `drain` the spawned task; `child`, `background`, `pipe` and `stdinPipe`
the operating system. Timers may fire whenever they are armed. The child and
its background process do anything.

**LruCache** is the cache of `core/cache.rs`, one operator per operation under
its mutex. **FileCache** (`analyze_file.rs`, `analyze_module.rs`, `cache.rs`,
`cache_disk.rs`) has one action per system call or lock section of a handler.
A file is the sequence of its versions; `FineMtime` says whether two versions
may share an mtime. A content stands for its bytes and its hash. An analysis carries its bytes and the path it
was made for, because extension and directory decide what it says; a hit in L2, which is keyed by
the hash alone, answers with whatever path's analysis is stored there.

**SymbolAnalysis** (`analyze_symbol.rs`, `symbol_focused.rs`,
`analyze_focused.rs`, `graph/store.rs`). An answer is a function from files to
the content each was read with. `Visit`, `ReadSource` and `ReadSites` are the
three looks a call takes at each file, in any order between files. What it
assumes: every change of a file gives an mtime it never had (FileCache is
where that is dropped); a file that exists is read or is unreadable for good; a
cancellation before the analysis starts is one noticed when it does; the
store's budget is counted in graphs. `git_ref`, `impl_only`,
`mode=import_lookup` and pages are left out here.

**Telemetry** (`lib.rs`, `tools/server.rs`, `metrics.rs`, `metrics_export.rs`,
`main.rs`). `queue` is tokio's fair lock: a reader behind the waiting writer
waits. Two ghost fields of a call, `silent` and `raced`, record what the code
did and appear in properties only. The JSONL file, its rotation and the
client's name and version are left out. `meter` is what OpenTelemetry is told of each batch, and
`lost` the calls of batches whose file could not be opened, which are in neither.

**CallGraph** (`call_graph.rs`, `analyze_focused.rs`) and **StructuralGraph**
(`structural.rs`) define the two graphs as functions of a program, which is the
sequence of its parsed files. The code's maps from a name to a list of edges are
one sequence whose edges name their key; Rust's loops over the levels of a search and over
the nodes of a level are recursive functions.
`Orders` stands for the iteration order of a `HashMap`, `Neighbors` for
petgraph's, latest edge first. **GraphQueries** (`resources.rs`,
`analyze_symbol.rs`, `symbol_focused.rs`, `pagination.rs`) is one client that
asks and follows the cursors it is given, beside a store that may lose the
graph and have it built again at any time. The files stay as they are:
SymbolAnalysis is where they change. A request says which names its match mode
accepts, whether its text is long and how many def-use sites there are, so that
strings and the collection of sites are not needed. Places in chains
and nodes are kept with path and line, because resolution depends on them.
**FocusText** (`formatter/summary.rs`, `formatter/pagination.rs`,
`formatter_defuse.rs`) says what the text, the summary, a page and the fields of
an answer tell: which names and places are in which section, in a tree
of a caller or callee with what is under it, and which counts stand at the top.

**TextRequest** is one request of a tool that is a function of its arguments and
of the files it reads, with `request` and `answer` as variables; its text is a sequence of
characters, where `nl`, `cr` and `sp` are told apart because the code does.
**EditMatch** (`core/edit.rs`), **PathRules** (`validation.rs`, on a file
system of directories, files and links), **CommandChecks** (`exec_command.rs`,
`heredoc_validation.rs`, `shell_scan.rs`), **Anchors** (`anchors.rs`,
`verify_anchors.rs`), **PythonImports** (`module_lookup.rs`) and **FileAnswers**
(`analyze_file.rs` and its formatters) extend it, each with one action per handler.
`Requests`, what may be asked, is a constant; each module states the form of its requests as an
assumption, PythonImports also that a tree has no links and that what is in it is in a directory of it.
**TextTools** is the specification of all but FileAnswers, which has its own (`FileSpec`).
A handler that reads twice has the second state of the files in its request: `verify_anchors`
resolves paths first and again, on the blocking thread, when it reads. A page of FileAnswers
answers into the same request, so that a client's walk through the cursors is a behaviour.

**ExecOutput** (`exec_runtime.rs` from the end of the drain on, `filters.rs`,
`resources.rs`) has the server processes and the slot files they share. A call cuts the streams to
their limits, writes the captures (a temporary file, then a rename, each a step that
may fail or be the last of the process), filters, writes again when a filter's cap cuts,
and answers with links; a read of a slot is an action at any time. The exit code of a command that ended is
kept when the drain window expires, so that its output is filtered like any other (`Exited`). A line is its
number, its length and whether a rule strips it.

**DirectoryAnalysis** (`analyze_directory.rs`, `traversal.rs`, `analyze.rs`,
`cache.rs`, `cache_disk.rs`) has one action per entry of the walk, per cache
tier, for the analysis and for the write-behind, while files are made, written and deleted. Both
keys are modelled as they are: the one in memory with nanosecond mtimes, the one on
disk with whole seconds and the digits of depth and git_ref side by side.

**MetricsFile** (`metrics_export.rs`, `file_lock.rs`) has the writers of
several servers, the lock file of the day, the appended lines and the cleanup at a start,
with dates computed by the code's own calendar arithmetic. Which events a batch holds
is in Telemetry.

**MCTools** puts FileCache and the modules from TextRequest to MetricsFile side by side in one run:
a behaviour is of one of them, with the others at rest.

Operators preceded by a comment that begins "Bug:" or "Fault:" are not used by
any specification: each is a plausible mistake in the definition it precedes,
kept to show that a property would notice it (`mutants` in `PROJECT.json`).

## Runs

| Run | Shows | Bounds |
|---|---|---|
| `edit_replace_atomic` | `edit_replace` calls exclude each other on a path, lose no update and implement `AtomicEdits` | 3 calls, 1 path, 4 contents, 7 requests: single, batch, hashed, stale, malformed, ambiguous, panicking in either build |
| `edit_breaker` | no failure is counted twice, the map keeps its cap, and every call is answered unless a panic aborts the server | 3 calls of both tools, 2 sessions, cap 2, threshold 2, panics that abort and that unwind |
| `exec_command` | no child is left, output is complete or flagged, the pipes are kept, calls end, and cancelled ones without the timeout | stdin 2 over a pipe of 1, pipes of 2, 3 lines per stream, budgets 2 and 1 |
| `exec_binary_output` (violation) | what follows an undecodable line is lost without a flag | stdin 1, 2 lines |
| `tool_suite` | edits remove the old text and nothing else, and panic only where matches abut; a batch is its edits; the two resolvers agree; no `cd` that matters is taken away; accepted here-documents are closed and write no file; citations and wildcard imports are judged exactly; captures are whole and links lead to them; no line goes missing silently; listings are as fresh as their keys; batches of metrics stay together and the retention is exact; the cursors of `analyze_file` show each function once; answers of the one-file caches are fresh and their disk entries truthful | see below; 1.3 million states |
| `exec_cd_prefix` (violation) | a relative `cd` is compared with `working_dir` as if it were relative to the server's directory, and dropped | the same paths, all `cd` requests |
| `cache_module_reread` (violation) | `analyze_module` stores its second reading under the hash of its first | 2 calls, 3 versions |
| `server_telemetry` | the summary counts each call once, pairs are unique outside a new session's window, telemetry blocks nothing | 2 calls (an analysis or a resource read beside an edit), channel 2, batch 2, 2 new sessions |
| `symbol_analysis` | answers and graphs show contents of their time | 2 calls, 2 files, 3 contents, 1 change, all caches of 1 |
| `graph_queries` | chains and searches are exact, calls join the definitions that rank first, cursors lead through everything once and end, a paged graph survives eviction and rebuilding | 72 sets of up to 3 calls in one file and 4 in another, 20 symbol and 28 graph requests, depths to 2 (3 is refused), pages of 2, summaries of 1 name, fields of 2 entries |
| `graph_callees` (violation) | the `callees` field names the symbol itself and leaves out a callee that calls nothing | as `graph_queries` |
| `symbol_cancelled` (violation) | a cancelled call's partial sites become the answer of a later call | 2 calls, no change |

Why the bounds are enough for what the properties say. Each property relates one
or two calls to one file: the third call of the edit runs queues behind two
others and finds the mutex a panicking one left. Two calls of one session reach the threshold of
the breaker, and a third, of the other session, finds its map full. Caches of one entry evict at
every store, and a channel of two fills with the startup event and one receipt.
Pipes are shorter than the output and longer than nothing, so that both ends
block. FileCache has three versions because a call can span two changes (a stale
store, then a change back). SymbolAnalysis needs one: an mtime never recurs
there, so a second change of a file makes no key equal that was not, and each
property speaks of one file at a time. A restart loses all that is in memory.
In the graph run both files define `f`, at lines that make the nearest
definition another one than the one in the same file; the calls include a
cycle, a call of itself, a scoped name, a name nobody defines and a call across
files; pages of two give walks of up to three pages.
In `tool_suite`: texts of up to four characters over a letter, a blank, `\r` and `\n`
with an old text of up to two (batches: three), which gives every pair of matches
that touch, overlap or share a line; the paths of a server's directory
with two nested subdirectories, a file in each of two, a link to each subdirectory and one outside, with `..` (behind links too) and with names that do not exist;
commands of up to three words before and after a `<<`; batches of at most two
anchors (three are refused) in files of up to four lines with a window of 1; a package with a
subpackage and imports of no to three dots; commands with up to three lines of 1
or 3 bytes, one with six, failed, timed out and aborted ones, against limits of 6, 4, 2 and
7 bytes, two lines and a preview of one, with two servers, three processes and one
failed write; a directory of four nodes beside another of the same shape, two changes with two ticks to
the second, listings and pages of one file; two metrics writers, three starts, two
batches of up to two events and one fault, from 2024-02-29 and
2100-02-28 over thirty and thirty-one days, so that the leap day, the year 2100 that has none and the
turn of a month are passed (no batch outlasts the retention); files of four lines with up to three functions and two
classes, pages of one function; for the caches two calls, one edit, three versions, two spellings of a
path and a capacity of one.
The cfgs of SymbolAnalysis, MCTools, MCFileCache and GraphQueries turn deadlock checking off because
these models really stop: their calls are made once and their changes are
bounded. The other specifications say with an explicit step when they are done.
Symmetry is used over calls (in SymbolAnalysis, also files; in `tool_suite`, the calls of FileCache) that no
definition tells apart, and in no run with a liveness property.

Fairness. EditTools: weak fairness of each call's own steps, because a blocking
thread is scheduled and a woken task polled; a mutex always comes free, and the
number of calls is finite. ExecCommand: weak fairness of the handler, the drain
task, the cancellation and the end of the drain window; none of the child or its
background process, because nothing makes them end. The execution timeout is a premise of the one
property that needs it (`FittingCallAnswered`); a cancelled call is answered without it
(`CancelledCallAnswered`). Telemetry: weak fairness of
each call and of `on_initialized`, tools being assumed to end; none of the
writer, because another process may hold its file lock for ever. The other
modules have no liveness property: every wait in them is for the file system, and
that following cursors ends is the action property `CursorsAdvance`, which is proved.

## Proofs

TLAPS proves the following for all values of the constants, under each
module's named assumption (distinct special values, positive capacities, and the types
of constants; TLC evaluates them in every run).

| Theorem | Says |
|---|---|
| `EditProofs!TypeCorrect` | types of EditTools, hence the saturation of the failure counter |
| `EditProofs!Mutex` | one replace at a time in the cycle of a path, with any overwrites around |
| `EditProofs!NoLostUpdate` | without `edit_overwrite`, a replace persists what it computed from the current contents |
| `EditProofs!ReplacesAtomic` | without `edit_overwrite`, EditTools implements AtomicEdits |
| `ExecProofs!TypeCorrect`, `ChildReaped`, `CompleteOutput`, `PipesKept` | the safety properties of ExecCommand, for any stdin, pipes, budgets and output |
| `FileCacheProofs!DiskTruthful` | a disk entry of `analyze_file` is an analysis of the bytes with its hash, made for a path with a language, with mtimes fine or coarse |
| `FileCacheProofs!Freshness` | with fine mtimes, answers of `analyze_file` and completions are fresh |
| `EditProofs!FailuresCovered` | no entry of the failure map counts more than failed; the map keeps its cap |
| `TelemetryProofs!MetricsBatchesTogether` | batches written under the lock stay together |
| `TelemetryProofs!MetricsRetentionExact` | the cleanup removes what is past its thirty days and nothing younger, on any date |
| `ExecProofs!OutputCapturesWhole` | a slot file is what one call wrote, whole |
| `ExecProofs!OutputLinksHold` | a link leads to the call's capture or a later one in its place |
| `ExecProofs!OutputLinesAccounted` | a line that is not shown was stripped by a rule, or the answer says that it is cut and links a capture that has the line if any does |
| `SymbolProofs!SymbolAnswersFresh` | answers of `analyze_symbol`, computed or cached, are of contents since the call began |
| `SymbolProofs!SymbolGraphsTruthful` | graphs kept were built from what their key hashes; the store keeps its budget |
| `TelemetryProofs!TelemetrySummaryCountsCalls` | the summary counts no call twice and misses none unaccounted for |
| `TelemetryProofs!TelemetryPairsUnique` | (session, sequence) names one call, but for calls that raced a new session |
| `DirectoryProofs!DirectoryListingsFresh` | a listing is as fresh as the key of the tier it came from |
| `ToolProofs!ToolOneNamePerFile` | the two edit tools resolve a path to one name, in any tree with links |
| `ToolProofs!ToolCdHonoured` | taking away an absolute `cd` that climbs out of no link, or any without `working_dir`, never moves the command |
| `ToolProofs!ToolAcceptedHeredocs` | an accepted command has no here-document behind a redirection of a writing command, and its first one is closed, where no quote is escaped |
| `ToolProofs!ToolRemovedIsOldText` | what an edit takes out is its old text but for white space at line ends and one newline, with no line ending cut in half, in any text |
| `ToolProofs!ToolPanicsOnlyWhereMatchesAbut` | a replace_all panics only where a match begins with the newline that the one right before it takes in |
| `ToolProofs!ToolAnchorsExact` | each citation has the verdict it would have alone, and holds exactly when line and symbol are there |
| `GraphProofs!GraphCallsResolved` | each link of the graph joins a call with the definition that ranks first for it |
| `GraphProofs!GraphPagesInduced` | the edges of a page are those of the program between its nodes, also after the graph was evicted and built again in another order |
| `GraphProofs!GraphWalksExact` | the pages of a query show each node within the depth once, the nearest first, up to the cap and no other |
| `GraphProofs!SymbolWalksShowAll` | a client that follows the cursors of `analyze_symbol` to the end was told every caller, callee and site |
| `GraphProofs!SymbolCursorsAdvance` | each cursor leads further than the one before, so that following them ends |
| `GraphProofs!SymbolChainsExact` | the chains of an answer are one for each edge of the names within the depth, and none is longer than the code asserts |
| `ToolProofs!ToolWalkListsFunctions` | a client that follows the cursors of `analyze_file` reads every function once, in order, for any file and page size |
| `ToolProofs!ToolWildcardAsPython` | a wildcard is replaced by names that Python binds for it, by all of them where the file has an `__all__` or plain definitions only |

The arguments. *Edits*: `MutualExclusion` is not inductive: two calls exclude
each other because both found their mutex through the registry. `LockInv` says so:
a call at or past the mutex has the registry's mutex of its path, and inside the
cycle it is that mutex's holder. Two holders on one path then have the same mutex
and the same holder. For `SnapshotCurrent` the only writer left, when nobody
overwrites, is a holder, so that exclusion keeps the snapshot current. The
refinement needs `SpliceInv` (what is to be persisted was accepted on the snapshot)
and `OutcomeInv` (an outcome is set exactly when the call is decided). `ReplaceOnly`,
the hypothesis of two theorems, says that no client sends `edit_overwrite`;
it cannot be dropped, since `OverwriteFile` takes no mutex. *Exec*: `ChildInv` ties
the state of the child to the handler's await; an accounting invariant says that
lines written are lines kept, lines in the pipe, or lines dropped with `budgetHit` set.
*Caches*: `Disk` says that a queued write of `analyze_file` carries the analysis of
the bytes it is keyed by. `Track` says that, mtimes being version numbers
(`Stamps`), an L1 entry under mtime m holds the content of a version no older than m;
a call that hits took its key after it began, so that what it finds is no older than that.
Since a handler stats before it reads, a write between the two makes an entry look
older than it is, never newer. That is the whole argument, and why the order of the two
system calls matters.

*Failure counter*: `CoverInv` adds to `CounterCovered` that the calls that cover an
entry are finitely many, because each step adds at most one, so that nothing need be
assumed of the number of calls, sessions and paths. A call covers its entry in the step in
which it counts, and is `done` for ever: what covers only grows, so that a reset or a cleared map
cannot put a count above it.

*Metrics*: `BatchesTogether` is not inductive, since a process that still writes must find its
own batch at the end of the file. `TailInv` says that since a holder of the lock
wrote its first line nobody else with a lock has written; it rests on `HoldersInv`
(one holder per date), `NumbersInv` (batches in hand are numbered apart) and `LinesInv` (a batch
not yet flushed has no lines). `RetentionExact` rests on `DaysOfDateOf`: the two
calendar conversions of the code, integer arithmetic in eras of 400 years, are inverse
on every day, and `CleanedInv`: a cleanup under way has dealt with every date it is past.

*Output*: two writes never share a temporary file, because a name has its process's id and
counter, and `NamesInv` says that no file of a name still to come exists: ids of
running processes differ, ids are not reused while a file of theirs is there, and counters only grow.
`OwnTmp` then keeps a call's temporary file its own from the opening to the rename, so that what
is renamed is whole (`SlotsInv`). For the links, `CallInv` accounts for
each file a call has to write as kept, lost or still to do, and `KeptInv` says that what was
kept is in its slot or was replaced by a later call. For the lines, a text is the set of its
lines' numbers. A line that a stream's limit drops finds that stream full, so that the other stream
is kept in a file of its own or the whole is; `CallInv` then says where each file went, and
what remains is a case for each way a text is cut (limit, cap, preview) with the flag or link it leaves.

*Symbols*: the invariant dates what a call knows. `Walk` says that each mtime of a
walk is that of a version no older than the call; `GraphRead` and `SitesRead` that what was read
after is of that version or a later one; `CachesFresh` that an entry shows each file
as it was at or after the mtime in its key. A call that hits has the mtimes of its own walk as
its key. It needs what the code gets by checking the flag last: what a cancelled call
collected is never stored (`GraphRead` excepts `cancelled`). `KeyTrue` ties a graph
to the hashes it is stored under. The bound of the store rests on a lemma that the keys of an LRU
are those of its order, each once.

*Telemetry*: an ended call that is not silent is in the counts, in the channel or dropped, and the
batch is what the counts have beyond the meter (`CountInv`); the writer's counts, the events of the
channel and the ended calls are all cardinalities, so that the lemmas are about sending and taking one.
For `PairsUnique`, `PairInv` takes for a call that has its number but not yet its session
the session it would read now; the numbers given in the present session are below the
counter, and while `on_initialized` stands between the new name and the reset, no call of the
present session counts unless it raced.

*Directories*: a version of a node is its mtime, which only grows. A key in memory has, for
each file, its mtime, and `MemoryFresh` says of an entry what
`ListingsFresh` says of any walk that has its key, the one that hits among them;
`DiskFresh` says the same with whole seconds. `Analysing` keeps each file the walk saw as still
to do, done, or changed since. A file that changes becomes newer, so that none of this is ever lost.

*Tools*: `AnswerInv` says that an answer is what the handler makes of the request; the rest is about
operators. `canonicalize` is a recursive function over the names of a path, and
`CanonicalLast` (by two inductions on that function) says that it looks the last name up in what the others lead
to: so `validate_path_relative_to`, which canonicalises the parent only, gives the same name
unless that one is a link. Where a `cd` is absolute its base is `/` for the server and for the shell
alike, and without a `working_dir` both start in the server's directory; that is why
`CdHonoured` holds and `CdAlwaysHonoured`, for a relative one beside a `working_dir`, does not. The shell takes `..` off the
path as written and the server off what a link leads to: `LogicalPhysical` says that the two ways agree where no link is climbed out of. An anchor's window
is the lines at most `Window` away although the code counts from the offset and clamps at
both ends (`WindowLines`). A relative import finds `m.py` or `m/__init__.py` by paths that
Python's rule writes in another way (`FrontOfConcat`). The two phases of the here-document check are
recursive functions over the words. Up to the first unquoted `<<` the state of the second phase
agrees with the quotes the first one sees, so that a first document left open makes it fail, and it
stays failed (`FirstClosed`; without escaped quotes, which the phases count differently). Where a
writing command redirects just before the `<<`, the scan back finds it across any arguments (`FileWriteFound`). The pages of `analyze_file`: after n
pages the cursor is at n times the page size and what was read is the first n pages (`Followed`); the pages
cut the functions in no class into consecutive parts, and the filter that prints a page
keeps what the one that cut it kept (`TextShowsPage`).

*Edits of a text*: both normalisations leave characters out, so that all is about `Count(Q, x)`, how many of
the first x places are in the set Q of those that stay. An offset of the shorter text is a count,
and the code's arithmetic gives the first place with that count: `norm_to_original_offset` adds
the `\r` of the line endings before it (`ToOriginalIs`, by a bijection),
`map_to_norm` what the offset is past the beginning of its line, because what is left of a line is
its beginning (`MapToNormIs`). A span between two such places, normalised by itself, is the span of the
normalised text (`PickedPart`): for line endings because it cannot end between `\r` and `\n`
(`OriginalSpan`), for trimmed lines because it ends with a line or with a character that is no white
space, old_text being trimmed as well (`TrimmedPart`, `TrimmedEnd`). `map_end_to_norm` goes past that only at the
end of a trimmed line, over its white space and its newline (`MatchEnds`). Since
`match_indices` keeps matches apart, two spans can share nothing else than that newline
(`MatchesApart`).

*Graphs*: the state is simple (`GraphInv`: what is stored is a graph of the program in some order of
the callers, and a walk has read the beginning of an answer that is the same for all of these graphs),
and the work is in the algorithms, of which everything is proved by inductions over numbers with `Upwards`.
*Calls*: the candidates of a name are gone through in order and a later one replaces the best only if it
ranks before it, so that the end is the one all others rank behind. *Orders*: links that leave a node come from the block
of one caller's name, and within it by first call; hence a node's neighbours are the same, in
the same order, whatever the order of the callers, and so is every search (`GraphPagesInduced`,
`GraphWalksExact`: this is why a walk survives a rebuild). *Searches*: after n levels
`bfs_frontier` and `blast_radius_bidirectional` have seen the ball of radius n, the frontier being what the
ball before lacks, and the nodes found are in the order of their distance; with a cap, a prefix of them.
The pages are consecutive parts of that sequence. *Lists of `analyze_symbol`*: for each list, how
far the client was led (`Reached`) only grows, and cursors point there. The pages have told of each chain before it, and when the
whole text is shown in the place of a page, it tells of all (`SymbolWalksShowAll`,
`SymbolCursorsAdvance`). *Chains*: a level of the search expands the names of one ball that are not in the one before, so
that each edge leaving the last ball is taken once. `Traced` is the bijection from chains to edges, with
the ends and the length of each; to divide the chains into tests and others
composes it with a permutation.

The modules were changed where proofs asked for it. `FillTmp` and `RenameTmp` had no guard
that the call was still writing, which no run could notice and the invariant did. The
recency order of LruCache, the counts of Telemetry and the sums of ExecOutput
are recursive functions and cardinalities, where folds would hide what they compute.
DirectoryAnalysis had left unsaid that every visit is to one of the roots.
ExecOutput has texts as sets of lines, and its table of filters is the loop of `load_filter_table`. The graph
modules pick, flatten and search with recursive functions instead of `SelectSeq` and folds, and an answer says
whether the symbol is `known`.
PathRules goes through a path with a recursive function instead of a fold. In PythonImports, dots
that lead above the root gave a path with a made-up name, which in some tree exists; `Locate` now stops
there, as the code does. The backward scans of the here-document check go over sets of places, and its phases are recursive
functions, where `SelectSeq` and folds told the provers nothing. EditMatch says which places of a text
go (`CRLF`, `Trailing`) and picks the others, where it went through lines with folds. The items of an import and the names of `__all__` are sets, their order being
in no property.

Only model-checked: all liveness properties (TLAPS has no rule for fairness
here, nor for ENABLED), `analyze_module` and the recency order of
FileCache, and `BatchIsItsEdits`, which holds for the new texts of the run and not for all: a new text may
contain the old text of another edit, which is then found twice when the edits are applied one by one. The library's induction
theorems take operators as parameters, which the provers cannot instantiate. An induction over
natural numbers can be had without them, by taking the least counterexample
(`NatLessThanWellFounded` and `WFMin` of the library; `LeastNat`, `Upwards`), and all lemmas on
recursive functions here are proved so. That needs a definition by such a function: of folds,
`SelectSeq` and the sorts of the community modules the provers know nothing.

## Where code and documents disagree

Shown by a violation run, with the lines in `PROJECT.json`: the five runs marked
above. Seen while reading, without a run:

- The breaker is documented as counting consecutive failures (`edit_replace.rs:19`),
  but coordinators update it after the lock is released: failures before and
  after a success may add up.
- The failures of `drain_write_failures` may be reported by another call, and one event
  may stand for several; its "consecutive" counter is never reset by a success.
- `record_otel_metrics` counts a `cache_write_failure` event as a call (`metrics.rs:586`).
- `edit_overwrite` refuses a path without a terminal event (`edit_overwrite.rs:33`
  against `server.rs:220`).
- `README.md:245` and the comment at `exec_command.rs:629-632` say that `exit_code` is null when the drain
  window expires; it is kept (`exec_runtime.rs:219`), and so are the filters and captures of exit code 0. A cancellation while stdin is being written is
  not seen (`README.md:190`).
- `summary` is not part of the key of `analyze_symbol` (`types.rs:105`), so that a cached
  full text answers a request for a summary and the other way round.
- `edit_replace` advises to retry a stale hash with the one `analyze_file` returns
  (`edit_replace.rs:407`), which is a hash of the answer's text.
- Disk entries are shared by files with the same bytes. That of `analyze_module` has the base name of the first;
  that of `analyze_file` has its path, its language by extension and the wildcard imports of its directory
  (`analyze_file.rs:64`, `analyze.rs:417-430`), so that a copy under another extension or in another
  package is answered with the first one's analysis. Names of a Python wildcard import come from a file in no key.
- `callers` of `analyze_symbol` has callers of callers too (`analyze.rs:591`), because nodes at the
  full depth are still expanded, and so differs between follow_depth 0 and 1, which it is
  documented not to.
- The chains are not paths: an outgoing one is a node, the further hops and then the
  node's own callee, so that the text may show an arrow where there is no call
  (`call_graph.rs:454-489`).
- A name that is only called, or that only calls, without a definition, is resolved and
  then refused (`call_graph.rs:420`).
- A page of callers announces its callees "(use cursor for callee pagination)"
  (`formatter/pagination.rs:284`), but callees that fit one page are shown by the whole
  text, and when that is long the cursor leads to a summary (`symbol_focused.rs:522`).
  `WalkShowsAll` therefore leaves long texts out.
- `subgraph` follows outgoing edges only (`structural.rs:372`), though `README.md:202`
  speaks of callers, callees and connections.
- main does not wait for the writer that exports the metrics summary when the transport
  ends (`main.rs:251`, against `README.md:284`).
- `DESIGN-GUIDE.md:250` says that `analyze_symbol` returns the graph's hash; it does
  not. A graph evicted while its answers are cached is not built again
  (`resources.rs:577`). Edges between two pages of a graph are on neither
  (`README.md:202`).
- The tree of a text of `analyze_symbol` is built from the first two places of each chain
  (`formatter/pagination.rs:14-58`): a line may read "f -> f" with what a callee calls under it.
  FOCUS counts distinct names in the full text and chains on a page (`summary.rs:419-431`,
  `pagination.rs:228`). The summary's suggestion names a parameter `force` that does not exist.
- `README.md:189` says that concurrent edits of a file are serialised per path;
  `edit_overwrite` writes without the mutex (`edit_overwrite.rs:79`).
- `lib.rs:799` speaks of a timeout of 300 seconds on the server's side; standard input is written before the
  timeout, the cancellation and the drain are armed (`exec_runtime.rs:311`), so that a child that does not read it
  is waited for without end.
- With replace_all on two empty lines and an old text of a blank and a newline,
  matches that only abut make the splice panic (`edit.rs:269`, against its doc at
  `edit.rs:311-313`), and the release build aborts on a panic (`Cargo.toml:74-79`).
- `cd /srv/n/.. && x`, with `n` a link, is promoted to the parent of what `n` leads to (`exec_command.rs:148`); the shell
  would go to `/srv`.
- `cd /abs; x && y` is refused as a path that does not exist; `--no-stat` is appended to
  the end of a compound command, not to its git pull.
- The here-document checks reject and accept other forms than listed
  (`heredoc_validation.rs:33-47`, `shell_scan.rs:15`): a second one on a line is not looked at, backslashes are
  ignored in the second phase, and `<<<` and `1 << 2` are taken for here-documents.
- `verify_anchors` refuses a whole batch for one missing file, though `exists=false` is documented
  for each anchor (`types.rs:1112`). The hint of a failed edit says "File has N lines" of the first twenty.
- A wildcard import is not replaced by all it binds: decorated definitions, variables and imports of the
  target are no root-level definitions (`module_lookup.rs:245`). An empty `__all__` falls back to functions and classes, a module file is preferred to
  a package of its name, and wildcards of the target are not followed (`module_lookup.rs`).
- A parent that is a file is classed `path_invalid` ("parent path exists but is not a directory").
- The cap of a filter rule is silent where standard output was empty and replaced by
  on_empty while the interleaved text is cut (`exec_runtime.rs:412-415`).
- The comment at `exec_runtime.rs:26-31` says that slot files hold nearly the whole output; lines are
  dropped at 50 KiB before anything is persisted. Failed writes are ignored and the path is
  returned all the same; temporary files of a process that ended are never removed.
- SIZE_LIMIT is 5,000 (`lib.rs:282`) where `README.md:177` and the error texts
  (`analyze_file.rs:332`, `symbol_focused.rs:260`) say 50K.
- The disk key of a directory has whole-second mtimes, no root, and depth and git_ref
  without a separator; the key in memory has neither root nor directories. A
  comment says that directories count with a zero mtime, but theirs are hashed too.
- A summary of `analyze_directory` from the disk cache has no STRUCTURE section (`analyze.rs:73-81`). Its
  subtree counts are documented as those of an unbounded walk and are bounded by
  max_depth; the walk is cut at its limit before it is sorted and the answer does not say so; an
  automatic summary ignores the cursor.
- "entries currently in the disk cache" (`cache_disk.rs:45-55`) counts every put again and starts
  at 0 with each process.
- A metrics file named `metrics-0000-01-*` makes `y - 1` underflow (`metrics_export.rs:423`); a crash
  between the removals of a file and of its lock leaves the lock file for good; a directory removed
  during the day is made again only on the next, and its batches are lost.
- `types.rs:167` lists the fields `references` and `calls`, which no text shows; "use fields
  to limit output" does not help, since the size is that of the whole text: a file over the
  limit cannot be paged with summary=false. Imports are on no page unless asked for. Two
  classes of one name both list the last one's methods (`emit.rs:22-39`); a class lists ten methods
  and says no more of the others. With fields that leave functions out the cursor still pages over them.
- With mtimes too coarse to tell two writes apart (`FineMtime = FALSE`), `AnswersFresh` is
  violated: the L1 entry of the first write answers for the second until an edit
  tool invalidates it.

## Not modelled

Parsers and language handlers: tree-sitter queries, whose correctness is about
grammars; their results are inputs of the graph modules and of FileAnswers. Path completion, shell detection, the set-up of
OpenTelemetry and the types have no state that more than one step touches. Of what is modelled:
escape sequences and the patterns of filter rules, substitutions in parentheses and words glued to operators in
commands, ignore rules of the walk, permissions of files, and the hint of a `not_found` edit.

Besides these: the wording of answers,
hashing (taken as injective), serialisation and compression of cache entries (a
failure is a miss), poisoned mutexes of caches (they become empty caches), the
locks of cache shards (a read or write under one is a step; one that cannot be taken
is a miss or a failed write), protocol framing, cancellation of calls other
than `exec_command`, `analyze_symbol` and `analyze_directory`, and the HTTP transport, which only multiplies clients.
