--------------------------- MODULE DirectoryAnalysis ---------------------------
(***************************************************************************)
(* analyze_directory: the walk, the git_ref filter, the cache in memory    *)
(* and the cache on disk, the analysis on a blocking thread, the summary,  *)
(* the pages.                                                              *)
(*                                                                         *)
(* A directory is a node "root" with a file "file" and a directory "sub"   *)
(* that has a file "deep".  Files are written, made and deleted while      *)
(* calls run; nothing is locked.  A node is Missing or [version, mtime];   *)
(* version 0 is what git has, and a write gives the next version and the   *)
(* time of the write.  Times count fine ticks, PerSecond of them a second. *)
(***************************************************************************)
EXTENDS Naturals, Sequences, FiniteSets, SequencesExt

CONSTANTS Roots,          \* directories that are analysed
          Edited,         \* the roots whose files change
          Visits,         \* what clients ask, one sequence of requests for each behaviour
          PerSecond,      \* ticks in a second
          ListingLimit,   \* SIZE_LIMIT, in files of a listing
          PageOfFiles,    \* ANALYZE_DIRECTORY_PAGE_SIZE
          TickBound       \* bound: changes to files

ASSUME DirectoryAssumption ==
    /\ Edited \subseteq Roots
    /\ \A visit \in Visits : \A v \in DOMAIN visit : visit[v].root \in Roots
    /\ PerSecond \in Nat \ {0} /\ PageOfFiles \in Nat \ {0}
    /\ ListingLimit \in Nat /\ TickBound \in Nat

VARIABLES tree,        \* tree[r][n]: node n of root r
          clock,       \* ticks so far
          visits,      \* visits[v]: a request [root, depth, git, summary, offset, ends]
          steps,       \* steps[v]: how far the call for visit v is
          directoryCache, \* L1: DirectoryCacheKey -> output
          diskListings \* L2: disk key -> output, kept over restarts

directoryVars == <<tree, clock, visits, steps, directoryCache, diskListings>>

Missing == [missing |-> TRUE]
WalkOrder == <<"root", "file", "sub", "deep">>
Node == ToSet(WalkOrder)
FileNodes == {"file", "deep"}
Up(n) == CASE n = "file" -> "root" [] n = "sub" -> "root" [] n = "deep" -> "sub" [] n = "root" -> "root"
DepthOf(n) == CASE n = "root" -> 0 [] n = "deep" -> 2 [] OTHER -> 1
Second(time) == time \div PerSecond
NoOutput == [files |-> <<>>, entries |-> {}, counts |-> <<>>, formatted |-> {}]
Unsaved == [key |-> <<>>, value |-> NoOutput]

Added(cache, key, value) == [k \in DOMAIN cache \cup {key} |-> IF k = key THEN value ELSE cache[k]]

----------------------------------------------------------------------------
(* Files change.                                                           *)

Changes(r, n, new) ==
    /\ clock < TickBound
    /\ clock' = clock + 1
    /\ tree' = [tree EXCEPT ![r] = [m \in Node |->
                  CASE m = n -> new
                    [] m = Up(n) /\ (tree[r][n] = Missing \/ new = Missing) -> [tree[r][m] EXCEPT !.mtime = clock + 1]
                    [] OTHER -> tree[r][m]]]
    /\ UNCHANGED <<visits, steps, directoryCache, diskListings>>

\* A new version gets the time it is written at: the clock counts both.
WriteFile(r, n) == Changes(r, n, [version |-> clock + 1, mtime |-> clock + 1])
DeleteFile(r, n) == tree[r][n] # Missing /\ Changes(r, n, Missing)

----------------------------------------------------------------------------
(* Keys.  seen is what the walk found, a function of nodes.                *)

InDepth(visit) == {n \in Node : visit.depth = 0 \/ DepthOf(n) <= visit.depth}
Existing(seen) == {n \in DOMAIN seen : seen[n] # Missing}

\* git diff --name-only: files that are not as committed, the deleted ones too.
ChangedFiles(r) == {n \in FileNodes : tree[r][n] = Missing \/ tree[r][n].version > 0}
Ancestors(changed) == {"root"} \cup {Up(n) : n \in changed} \cup {Up(Up(n)) : n \in changed}
FilterByGit(seen, changed) ==
    Restrict(seen, DOMAIN seen \cap (changed \cup Ancestors(changed)))

\* A key of names only.
KeyOfNames(visit, seen) ==
    [files |-> {<<visit.root, n>> : n \in Existing(seen) \cap FileNodes},
     depth |-> visit.depth, git |-> visit.git]

\* DirectoryCacheKey::from_entries: full paths with fine mtimes, of files only.
KeyOf(visit, seen) ==
    [files |-> {<<visit.root, n, seen[n].mtime>> : n \in Existing(seen) \cap FileNodes},
     depth |-> visit.depth, git |-> visit.git]

\* disk_key: relative names with whole seconds, of directories too, no root.
\* The digits of the depth and the text of git_ref follow with nothing between:
\* depth 1 and no git_ref end as no depth and a git_ref "1" do.
DiskTail(visit) ==
    (IF visit.depth = 0 THEN <<>> ELSE <<ToString(visit.depth)>>)
      \o (IF visit.git = "none" THEN <<>> ELSE <<visit.git>>)

DiskKey(visit, seen) ==
    [files |-> {<<n, Second(seen[n].mtime)>> : n \in Existing(seen)}, tail |-> DiskTail(visit)]

----------------------------------------------------------------------------
NoListing == [kind |-> "none", shown |-> {}, next |-> FALSE]
Denied(why) == [NoListing EXCEPT !.kind = why]
NewStep == [at |-> "asked", seen |-> << >>, todo |-> WalkOrder, files |-> <<>>, tier |-> "none",
            output |-> NoOutput, unsaved |-> Unsaved, answer |-> NoListing]

DirectoryInit ==
    /\ tree = [r \in Roots |-> [n \in Node |-> [version |-> 0, mtime |-> 0]]]
    /\ clock = 0
    /\ visits \in Visits
    /\ steps = [v \in DOMAIN visits |-> NewStep]
    /\ directoryCache = << >> /\ diskListings = << >>

----------------------------------------------------------------------------
(* The walk.                                                               *)

\* One entry: whether it is there, with its mtime.
WalkEntry(v) ==
    LET n == Head(steps[v].todo)
        visit == visits[v]
    IN /\ steps[v].at \in {"asked", "walking"} /\ steps[v].todo # <<>>
       /\ steps' = [steps EXCEPT ![v].at = "walking", ![v].todo = Tail(@),
                      ![v].seen = IF n \in InDepth(visit) THEN Added(@, n, tree[visit.root][n]) ELSE @]
       /\ UNCHANGED <<tree, clock, visits, directoryCache, diskListings>>

WalkEnded(v) == steps[v].at = "walking" /\ steps[v].todo = <<>>

\* apply_git_ref_filter: an empty git_ref is none at all.
KeepChanged(v) ==
    /\ WalkEnded(v) /\ visits[v].git # "bad"
    /\ steps' = [steps EXCEPT ![v].at = "keyed",
                   ![v].seen = IF visits[v].git # "none"
                               THEN FilterByGit(@, ChangedFiles(visits[v].root)) ELSE @]
    /\ UNCHANGED <<tree, clock, visits, directoryCache, diskListings>>

GitFails(v) ==
    /\ WalkEnded(v) /\ visits[v].git = "bad"
    /\ steps' = [steps EXCEPT ![v].at = "answered", ![v].answer = Denied("invalid_params")]
    /\ UNCHANGED <<tree, clock, visits, directoryCache, diskListings>>

----------------------------------------------------------------------------
(* The caches.  Every lookup and store is one step under a lock.           *)

MemoryKey(v) == KeyOf(visits[v], steps[v].seen)

LookInMemory(v) ==
    /\ steps[v].at = "keyed"
    /\ steps' = IF MemoryKey(v) \in DOMAIN directoryCache
                THEN [steps EXCEPT ![v].at = "got", ![v].tier = "l1_memory",
                                   ![v].output = directoryCache[MemoryKey(v)]]
                ELSE [steps EXCEPT ![v].at = "missed"]
    /\ UNCHANGED <<tree, clock, visits, directoryCache, diskListings>>

\* In the order of the walk.
ToAnalyse(v) ==
    LET ifSeen(n) == IF n \in Existing(steps[v].seen) THEN <<n>> ELSE <<>>
    IN  ifSeen("file") \o ifSeen("deep")

LookOnDisk(v) ==
    LET key == DiskKey(visits[v], steps[v].seen)
        hit == key \in DOMAIN diskListings
    IN /\ steps[v].at = "missed"
       /\ steps' = IF hit
                   THEN [steps EXCEPT ![v].at = "got", ![v].tier = "l2_disk", ![v].output = diskListings[key]]
                   ELSE [steps EXCEPT ![v].at = "analysing", ![v].todo = ToAnalyse(v)]
       /\ directoryCache' = IF hit THEN Added(directoryCache, MemoryKey(v), diskListings[key])
                                   ELSE directoryCache
       /\ UNCHANGED <<tree, clock, visits, diskListings>>

\* The file as it is now; one that is gone is skipped.
AnalyseFile(v) ==
    LET n == Head(steps[v].todo)
        r == visits[v].root
    IN /\ steps[v].at = "analysing" /\ steps[v].todo # <<>>
       /\ steps' = [steps EXCEPT ![v].todo = Tail(@),
                      ![v].files = IF tree[r][n] = Missing THEN @
                                   ELSE Append(@, [root |-> r, node |-> n, version |-> tree[r][n].version])]
       /\ UNCHANGED <<tree, clock, visits, directoryCache, diskListings>>

CancelAnalysis(v) ==
    /\ steps[v].at = "analysing" /\ visits[v].ends = "cancelled"
    /\ steps' = [steps EXCEPT ![v].at = "answered", ![v].answer = Denied("cancelled")]
    /\ UNCHANGED <<tree, clock, visits, directoryCache, diskListings>>

SubtreeCounts(v) ==
    IF visits[v].depth = 0 THEN <<>>
    ELSE <<Cardinality({n \in Existing(steps[v].seen) \cap FileNodes : Up(n) = "sub"})>>

\* The output keeps its text; entries and counts are not serialised.
StoreListing(v) ==
    LET names == {<<visits[v].root, n>> : n \in Existing(steps[v].seen)}
        output == [files |-> steps[v].files, entries |-> names, counts |-> SubtreeCounts(v),
                   formatted |-> names]
    IN /\ steps[v].at = "analysing" /\ steps[v].todo = <<>>
       /\ steps' = [steps EXCEPT ![v].at = "got", ![v].tier = "miss", ![v].output = output,
                                 ![v].unsaved = [key |-> <<DiskKey(visits[v], steps[v].seen)>>,
                                                 value |-> [output EXCEPT !.entries = {}, !.counts = <<>>]]]
       /\ directoryCache' = Added(directoryCache, MemoryKey(v), output)
       /\ UNCHANGED <<tree, clock, visits, diskListings>>

\* The write to disk is a task of its own.
SaveListing(v) ==
    /\ steps[v].unsaved # Unsaved
    /\ diskListings' = Added(diskListings, steps[v].unsaved.key[1], steps[v].unsaved.value)
    /\ steps' = [steps EXCEPT ![v].unsaved = Unsaved]
    /\ UNCHANGED <<tree, clock, visits, directoryCache>>

----------------------------------------------------------------------------
(* The answer: a summary of the first level, a page of files, or the text. *)

UsesSummary(visit, output) ==
    visit.summary = "yes" \/ (visit.summary = "auto" /\ Len(output.files) > ListingLimit)

\* format_summary: the first level of the entries, directories with how many
\* files they have, files if they were analysed.
FilesShown(output) == {output.files[i].node : i \in 1..Len(output.files)}
Summary(output) ==
    {<<e[2], IF output.counts # <<>> /\ e[2] = "sub" THEN output.counts[1]
             ELSE Cardinality({n \in FilesShown(output) : e[2] \in {n, Up(n)}})>> :
        e \in {f \in output.entries : DepthOf(f[2]) = 1 /\ f[2] \in FilesShown(output) \cup {"sub"}}}

Slice(files, offset) == SubSeq(files, offset + 1, Min({offset + PageOfFiles, Len(files)}))

ListingOf(visit, output) ==
    CASE visit.summary = "yes" /\ visit.offset > 0 -> Denied("invalid_params")
      [] UsesSummary(visit, output) -> [kind |-> "summary", shown |-> Summary(output), next |-> FALSE]
      [] visit.summary = "no" ->
           [kind |-> "page", shown |-> ToSet(Slice(output.files, visit.offset)),
            next |-> visit.offset + PageOfFiles < Len(output.files)]
      [] OTHER -> [kind |-> "text", shown |-> output.formatted, next |-> FALSE]

ReplyListing(v) ==
    /\ steps[v].at = "got"
    /\ steps' = [steps EXCEPT ![v].at = "answered", ![v].answer = ListingOf(visits[v], steps[v].output)]
    /\ UNCHANGED <<tree, clock, visits, directoryCache, diskListings>>

\* The server ends and is started again: the memory is empty, what was not
\* yet written to disk is lost, and so are the calls under way.
RestartServer ==
    /\ directoryCache # << >>
    /\ directoryCache' = << >>
    /\ steps' = [v \in DOMAIN steps |->
                   [steps[v] EXCEPT !.unsaved = Unsaved,
                                    !.at = IF @ \in {"asked", "answered"} THEN @ ELSE "dropped"]]
    /\ UNCHANGED <<tree, clock, visits, diskListings>>

VisitNext(v) ==
    \/ WalkEntry(v) \/ KeepChanged(v) \/ GitFails(v)
    \/ LookInMemory(v) \/ LookOnDisk(v)
    \/ AnalyseFile(v) \/ CancelAnalysis(v) \/ StoreListing(v) \/ SaveListing(v)
    \/ ReplyListing(v)
DirectoryNext ==
    \/ \E v \in DOMAIN visits : VisitNext(v)
    \/ \E r \in Edited, n \in FileNodes : WriteFile(r, n) \/ DeleteFile(r, n)
    \/ RestartServer

DirectorySpec == DirectoryInit /\ [][DirectoryNext]_directoryVars

----------------------------------------------------------------------------
(* Properties.                                                             *)

Listed(v) == {steps[v].output.files[i] : i \in 1..Len(steps[v].output.files)}
Served(v) == steps[v].at = "answered" /\ steps[v].answer.kind \in {"summary", "page", "text"}
SeenFiles(v) == Existing(steps[v].seen) \cap FileNodes
AnalysedHere(v) == steps[v].output.entries # {}    \* not one read from disk

\* Every file of a listing was seen by the walk of its call.  A listing this
\* process made, or found in memory, is of the call's own directory: it has
\* nothing older than what the walk saw and leaves out a seen file only if
\* the file has been changed since.  One read from disk may be of another
\* directory, but nothing in it is older than the second of the mtime seen.
\* The walk, the reads, the stores and the changes interleave freely.
ListingsFresh ==
    \A v \in DOMAIN steps : Served(v) =>
        /\ \A f \in Listed(v) :
             /\ f.node \in SeenFiles(v)
             /\ AnalysedHere(v) => f.root = visits[v].root /\ f.version >= steps[v].seen[f.node].version
             /\ Second(f.version) >= Second(steps[v].seen[f.node].version)
        /\ AnalysedHere(v) =>
             \A n \in SeenFiles(v) : \/ n \in {f.node : f \in Listed(v)}
                                     \/ tree[visits[v].root][n] # steps[v].seen[n]
=============================================================================
