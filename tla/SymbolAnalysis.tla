---------------------------- MODULE SymbolAnalysis ----------------------------
(***************************************************************************)
(* analyze_symbol over a directory: the walk, the two caches of answers,   *)
(* the parallel reading of the files, the structural graph and its disk    *)
(* store, the search for def-use sites, the second analysis that shortens  *)
(* a long answer, and the cancellation of a call.                          *)
(*                                                                         *)
(*   handler    tools/analyze_symbol.rs, tools/symbol_focused.rs           *)
(*   analysis   analyze_focused.rs                                         *)
(*   caches     cache.rs, cache_disk.rs, graph/store.rs                    *)
(*                                                                         *)
(* A call answers for all files at once, so an answer is a function from   *)
(* the files to the content each was read with.  A content stands for its  *)
(* bytes, their hash and what the parser finds in them.  Every change of a *)
(* file gives it an mtime it never had: its number in the file's history.  *)
(***************************************************************************)
EXTENDS Naturals, Sequences, FiniteSets, LruCache

CONSTANTS
  Files,          \* files below the root
  Contents,       \* contents of a file
  Unreadable,     \* contents read_to_string or the size limit rejects
  Defines,        \* contents that put the symbol into the call graph
  Mentions,       \* contents with a def-use site of the symbol
  Long,           \* contents that take the full text over SIZE_LIMIT
  Requests,       \* requests clients send
  Calls,          \* analyze_symbol calls
  CallCapacity,   \* APTU_CODER_SYMBOL_CACHE_CAPACITY
  GraphCapacity,  \* APTU_CODER_STRUCTURAL_CACHE_CAPACITY
  StoreBudget,    \* graphs APTU_CODER_DISK_CACHE_MAX_BYTES has room for
  MaxWrites       \* bound: changes of the files

CONSTANTS Absent, Skipped, Unread, NoKey, NoOutput

ASSUME SymbolAssumption ==
  /\ Unreadable \subseteq Contents
  /\ Defines \subseteq Contents \ Unreadable
  /\ Mentions \subseteq Contents \ Unreadable
  /\ Long \subseteq Contents \ Unreadable
  /\ Requests \subseteq [mode : {"call_graph", "def_use"},
                         summary : {"true", "false", "unset"}]
  /\ CallCapacity \in Nat \ {0}
  /\ GraphCapacity \in Nat \ {0}
  /\ StoreBudget \in Nat \ {0}
  /\ MaxWrites \in Nat
  /\ {Absent, Skipped, Unread} \cap Contents = {}
  /\ Absent # Skipped /\ Skipped # Unread /\ Absent # Unread

VARIABLES
  history,    \* file -> the contents it has had, the last one being on disk
  answers,    \* CallGraphCache: (request, mtimes) -> output
  disk,       \* the disk cache of the same outputs, as a function
  graphs,     \* StructuralGraphCache: contents -> structural graph
  store,      \* GraphDiskStore, its entries by the mtime of their file
  call,       \* the calls
  behind      \* calls whose write to the disk cache is still queued

vars == <<history, answers, disk, graphs, store, call, behind>>

Reading == [Files -> Contents \cup {Skipped, Unread}]
Nothing == [f \in Files |-> Unread]

OnDisk(f) == history[f][Len(history[f])]

\* What a task of the thread pool gets out of a file.
Seen(content) ==
  IF content \in Contents \ Unreadable THEN content ELSE Skipped

NewCall ==
  [pc |-> "new", req |-> NoOutput, cancelled |-> FALSE,
   from |-> [f \in Files |-> 0], mtimes |-> [f \in Files |-> Unread],
   graph |-> Nothing, sites |-> Nothing, key |-> NoKey,
   first |-> NoOutput, output |-> NoOutput]

Init ==
  /\ history \in [Files -> {<<c>> : c \in Contents \cup {Absent}}]
  /\ answers = EmptyLru
  /\ disk = [k \in {} |-> NoOutput]
  /\ graphs = EmptyLru
  /\ store = EmptyLru
  /\ call = [c \in Calls |-> NewCall]
  /\ behind = {}

-----------------------------------------------------------------------------
(* The walk and the caches of answers.  `from` remembers how much history  *)
(* each file had when the call began.                                      *)

Arrive(c, r) ==
  /\ call[c].pc = "new"
  /\ call' = [call EXCEPT ![c] =
       [NewCall EXCEPT !.pc = "walk", !.req = r,
                       !.from = [f \in Files |-> Len(history[f])]]]
  /\ UNCHANGED <<history, answers, disk, graphs, store, behind>>

\* The parallel walker takes the mtime of one entry.
Visit(c, f) ==
  /\ call[c].pc = "walk"
  /\ call[c].mtimes[f] = Unread
  /\ LET mtimes == [call[c].mtimes EXCEPT ![f] =
                      IF OnDisk(f) = Absent THEN Absent ELSE Len(history[f])]
     IN  call' = [call EXCEPT
           ![c].mtimes = mtimes,
           ![c].pc = IF \E g \in Files : mtimes[g] = Unread
                     THEN "walk" ELSE "l1"]
  /\ UNCHANGED <<history, answers, disk, graphs, store, behind>>

Walked(c) == {f \in Files : call[c].mtimes[f] # Absent}

\* Bug: the key names the files but not their mtimes.
CacheKeyUndated(c) == <<call[c].req.mode, Walked(c)>>

\* CallGraphCacheKey: all that decides the output but `summary`.
CacheKey(c) == <<call[c].req.mode, call[c].mtimes>>

\* A call that ends drops its working state.
Answer(c, output) ==
  [call EXCEPT ![c] =
     [@ EXCEPT !.pc = "answered", !.output = output, !.graph = Nothing,
               !.sites = Nothing, !.key = NoKey, !.first = NoOutput]]

Refuse(c) == [call EXCEPT ![c] = [NewCall EXCEPT !.pc = "error"]]

L1Hit(c) ==
  /\ call[c].pc = "l1"
  /\ LruHas(answers, CacheKey(c))
  /\ answers' = LruGet(answers, CacheKey(c))
  /\ call' = Answer(c, answers.map[CacheKey(c)])
  /\ UNCHANGED <<history, disk, graphs, store, behind>>

L1Miss(c) ==
  /\ call[c].pc = "l1"
  /\ ~LruHas(answers, CacheKey(c))
  /\ call' = [call EXCEPT ![c].pc = "l2"]
  /\ UNCHANGED <<history, answers, disk, graphs, store, behind>>

Promote(c, output) ==
  answers' = LruPush(answers, CacheKey(c), output, CallCapacity)

L2Hit(c) ==
  /\ call[c].pc = "l2"
  /\ CacheKey(c) \in DOMAIN disk
  /\ Promote(c, disk[CacheKey(c)])
  /\ call' = Answer(c, disk[CacheKey(c)])
  /\ UNCHANGED <<history, disk, graphs, store, behind>>

\* No entry, or one that cannot be locked, read or decoded.
L2Miss(c) ==
  /\ call[c].pc = "l2"
  /\ call' = [call EXCEPT ![c].pc = "collect"]
  /\ UNCHANGED <<history, answers, disk, graphs, store, behind>>

-----------------------------------------------------------------------------
(* The analysis, on the blocking pool.                                     *)

\* One task of collect_file_analysis.
ReadSource(c, f) ==
  /\ call[c].pc = "collect"
  /\ f \in Walked(c)
  /\ call[c].graph[f] = Unread
  /\ call' = [call EXCEPT ![c].graph[f] =
                IF call[c].cancelled THEN Skipped ELSE Seen(OnDisk(f))]
  /\ UNCHANGED <<history, answers, disk, graphs, store, behind>>

\* Bug: every file is hashed by a reading of its own.
GraphKeyReread(c) ==
  IF \E f \in Walked(c) : OnDisk(f) = Absent
  THEN NoKey
  ELSE [f \in Walked(c) |-> OnDisk(f)]

\* compute_cache_key: the files that were read bring their hash, the others
\* are read once more; one that cannot be read leaves the graph without a
\* key.
GraphKey(c) ==
  LET skipped == {f \in Walked(c) : call[c].graph[f] = Skipped}
  IN  IF \E f \in skipped : OnDisk(f) = Absent
      THEN NoKey
      ELSE [f \in Walked(c) |-> IF f \in skipped THEN OnDisk(f)
                                                 ELSE call[c].graph[f]]

\* The tasks are joined, and a call cancelled by then fails.
Hash(c) ==
  /\ call[c].pc = "collect"
  /\ \A f \in Walked(c) : call[c].graph[f] # Unread
  /\ call' = IF call[c].cancelled
             THEN Refuse(c)
             ELSE [call EXCEPT ![c].pc = "find", ![c].key = GraphKey(c)]
  /\ UNCHANGED <<history, answers, disk, graphs, store, behind>>

\* The store of structural graphs: a graph that is read is touched, and one
\* that is written pushes the oldest out when the budget is exceeded.
StoreGet(k) == LruGet(store, k)
StorePut(k, g) == LruPush(store, k, g, StoreBudget)

\* In the memory cache, or in the store, or to be built.
FindGraph(c) ==
  /\ call[c].pc = "find"
  /\ ~call[c].cancelled
  /\ LET k == call[c].key
     IN  \/ /\ k = NoKey
            /\ call' = [call EXCEPT ![c].pc = "resolve"]
            /\ UNCHANGED <<graphs, store>>
         \/ /\ LruHas(graphs, k)
            /\ graphs' = LruGet(graphs, k)
            /\ call' = [call EXCEPT ![c].pc = "resolve"]
            /\ UNCHANGED store
         \/ /\ ~LruHas(graphs, k)
            /\ LruHas(store, k)
            /\ store' = StoreGet(k)
            /\ graphs' = LruPush(graphs, k, store.map[k], GraphCapacity)
            /\ call' = [call EXCEPT ![c].pc = "resolve"]
         \/ /\ k # NoKey
            /\ ~LruHas(graphs, k)
            /\ ~LruHas(store, k)
            /\ call' = [call EXCEPT ![c].pc = "build"]
            /\ UNCHANGED <<graphs, store>>
  /\ UNCHANGED <<history, answers, disk, behind>>

\* The token is looked at again before the graph and before the symbol.
StopEarly(c) ==
  /\ call[c].pc \in {"find", "resolve"}
  /\ call[c].cancelled
  /\ call' = Refuse(c)
  /\ UNCHANGED <<history, answers, disk, graphs, store, behind>>

\* The graph goes to the store and to the memory cache.  (A write that fails
\* is only logged, and leaves what an entry evicted at once would leave.)
BuildGraph(c) ==
  /\ call[c].pc = "build"
  /\ LET k == call[c].key
         g == [f \in Walked(c) |-> call[c].graph[f]]
     IN  /\ store' = StorePut(k, g)
         /\ graphs' = LruPush(graphs, k, g, GraphCapacity)
  /\ call' = [call EXCEPT ![c].pc = "resolve"]
  /\ UNCHANGED <<history, answers, disk, behind>>

Found(c) == \E f \in Walked(c) : call[c].graph[f] \in Defines
DefUse(c) == call[c].req.mode = "def_use"

\* A name the call graph lacks may still be a variable with def-use sites.
Resolve(c) ==
  /\ call[c].pc = "resolve"
  /\ ~call[c].cancelled
  /\ call' = IF ~Found(c) /\ ~DefUse(c)
             THEN Refuse(c)
             ELSE [call EXCEPT ![c].pc = "extract"]
  /\ UNCHANGED <<history, answers, disk, graphs, store, behind>>

\* One task of collect_def_use_sites.  Nothing looks at the token after it.
ReadSites(c, f) ==
  /\ call[c].pc = "extract"
  /\ DefUse(c)
  /\ f \in Walked(c)
  /\ call[c].sites[f] = Unread
  /\ call' = [call EXCEPT ![c].sites[f] =
                IF call[c].cancelled THEN Skipped ELSE Seen(OnDisk(f))]
  /\ UNCHANGED <<history, answers, disk, graphs, store, behind>>

-----------------------------------------------------------------------------
(* The output, back in the handler.                                        *)

Retried(c) == call[c].first # NoOutput
Compact(c) == call[c].req.summary = "true" \/ Retried(c)

Outcome(c) ==
  [compact |-> Compact(c), graph |-> call[c].graph, sites |-> call[c].sites]

TooLong(c) ==
  /\ ~Compact(c)
  /\ Found(c)
  /\ \E f \in Walked(c) : call[c].graph[f] \in Long

Extracted(c) ==
  /\ call[c].pc = "extract"
  /\ DefUse(c) => \A f \in Walked(c) : call[c].sites[f] # Unread

NotFound(c) ==
  /\ Extracted(c)
  /\ ~Found(c)
  /\ \A f \in Walked(c) : call[c].sites[f] \notin Mentions
  /\ call' = Refuse(c)
  /\ UNCHANGED <<history, answers, disk, graphs, store, behind>>

\* A long answer without a preference is analysed again for a summary.
Shorten(c) ==
  /\ Extracted(c)
  /\ TooLong(c)
  /\ call[c].req.summary = "unset"
  /\ call' = IF call[c].cancelled
             THEN Refuse(c)
             ELSE [call EXCEPT ![c].pc = "collect", ![c].first = Outcome(c),
                               ![c].graph = Nothing, ![c].sites = Nothing]
  /\ UNCHANGED <<history, answers, disk, graphs, store, behind>>

RefuseLong(c) ==
  /\ Extracted(c)
  /\ TooLong(c)
  /\ call[c].req.summary = "false"
  /\ call' = Refuse(c)
  /\ UNCHANGED <<history, answers, disk, graphs, store, behind>>

\* The chains and sites are those of the first analysis, the text is that of
\* the last one.
Output(c) ==
  [text |-> Outcome(c),
   data |-> IF Retried(c) THEN call[c].first ELSE Outcome(c)]

Finish(c) ==
  /\ Extracted(c)
  /\ Found(c) \/ \E f \in Walked(c) : call[c].sites[f] \in Mentions
  /\ ~TooLong(c)
  /\ Promote(c, Output(c))
  /\ behind' = behind \cup {c}
  /\ call' = Answer(c, Output(c))
  /\ UNCHANGED <<history, disk, graphs, store>>

\* The write-behind task: the entry is replaced, or a failure is counted.
L2Put(c) ==
  /\ c \in behind
  /\ behind' = behind \ {c}
  /\ \/ disk' = [k \in DOMAIN disk \cup {CacheKey(c)} |->
                   IF k = CacheKey(c) THEN call[c].output ELSE disk[k]]
     \/ disk' = disk
  /\ UNCHANGED <<history, answers, graphs, store, call>>

-----------------------------------------------------------------------------
(* Clients, other programs, and the server's end.                          *)

\* The token is cancelled while the analysis runs.  (Cancelled before, it is
\* found so when the analysis starts.)
Cancel(c) ==
  /\ call[c].pc \in {"collect", "find", "build", "resolve", "extract"}
  /\ ~call[c].cancelled
  /\ call' = [call EXCEPT ![c].cancelled = TRUE]
  /\ UNCHANGED <<history, answers, disk, graphs, store, behind>>

\* A client reads a graph by the hash of its contents, from the store alone.
ReadGraph(k) ==
  /\ LruHas(store, k)
  /\ store' = StoreGet(k)
  /\ UNCHANGED <<history, answers, disk, graphs, call, behind>>

Writes ==
  Cardinality({w \in Files \X (2..MaxWrites + 1) : w[2] <= Len(history[w[1]])})

\* A write, a creation or a deletion, by an edit tool or another program.
Change(f, content) ==
  /\ Writes < MaxWrites
  /\ content # OnDisk(f)
  /\ history' = [history EXCEPT ![f] = Append(@, content)]
  /\ UNCHANGED <<answers, disk, graphs, store, call, behind>>

\* The server stops and starts again; its disk caches and the files remain.
Restart ==
  /\ \E c \in Calls : call[c].pc \notin {"new", "lost"}
  /\ answers' = EmptyLru
  /\ graphs' = EmptyLru
  /\ behind' = {}
  /\ call' = [c \in Calls |-> IF call[c].pc = "new" THEN NewCall
                              ELSE [NewCall EXCEPT !.pc = "lost"]]
  /\ UNCHANGED <<history, disk, store>>

CallStep(c) ==
  \/ \E r \in Requests : Arrive(c, r)
  \/ \E f \in Files : Visit(c, f) \/ ReadSource(c, f) \/ ReadSites(c, f)
  \/ L1Hit(c) \/ L1Miss(c) \/ L2Hit(c) \/ L2Miss(c)
  \/ Hash(c) \/ FindGraph(c) \/ StopEarly(c) \/ BuildGraph(c) \/ Resolve(c)
  \/ NotFound(c) \/ Shorten(c) \/ RefuseLong(c) \/ Finish(c) \/ L2Put(c)

Next ==
  \/ \E c \in Calls : CallStep(c) \/ Cancel(c)
  \/ \E k \in DOMAIN store.map : ReadGraph(k)
  \/ \E f \in Files, content \in Contents \cup {Absent} : Change(f, content)
  \/ Restart

Spec == Init /\ [][Next]_vars

-----------------------------------------------------------------------------
(* Properties.                                                             *)

\* What reading a file could give since a call began.
SeenDuring(c, f) ==
  {Seen(history[f][i]) : i \in call[c].from[f]..Len(history[f])}

Parts(c) == {call[c].output.text, call[c].output.data}

\* The call graph in an answer, computed or cached, shows every file the
\* call walked as it was at some time since the call began, whatever is
\* written meanwhile and whichever calls are cancelled; the sites of a
\* def-use answer do too, but for files that are missing from them.
AnswersFresh ==
  \A c \in Calls : call[c].pc = "answered" =>
    \A p \in Parts(c), f \in Walked(c) :
      /\ p.graph[f] \in SeenDuring(c, f)
      /\ DefUse(c) => p.sites[f] \in SeenDuring(c, f) \cup {Skipped}

\* An answer to a call nobody cancelled lists the sites of every file.
AnswersComplete ==
  \A c \in Calls : call[c].pc = "answered" /\ ~call[c].cancelled /\ DefUse(c) =>
    \A p \in Parts(c), f \in Walked(c) : p.sites[f] \in SeenDuring(c, f)

\* A structural graph kept under the hash of some contents was built from
\* those contents, and the store keeps to its budget; a file is missing from
\* a graph only if there was a time when it could not be read.
GraphTruthful(k, g) ==
  \A f \in DOMAIN k :
    \/ g[f] = k[f]
    \/ g[f] = Skipped /\ \E i \in 1..Len(history[f]) : Seen(history[f][i]) = Skipped

GraphsTruthful ==
  /\ \A k \in DOMAIN graphs.map : GraphTruthful(k, graphs.map[k])
  /\ \A k \in DOMAIN store.map : GraphTruthful(k, store.map[k])
  /\ Cardinality(DOMAIN store.map) <= StoreBudget
=============================================================================
