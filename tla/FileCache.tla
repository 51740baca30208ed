------------------------------ MODULE FileCache ------------------------------
(***************************************************************************)
(* The two caches of one-file analysis, and the calls that share them:     *)
(* analyze_file (tools/analyze_file.rs), analyze_module                    *)
(* (tools/analyze_module.rs), the symbol completions of completion.rs, the *)
(* edit tools that write a file and then invalidate its entries, and       *)
(* writers outside the server.                                             *)
(*                                                                         *)
(* L1 is an LRU map from (path as the client spelled it, mtime) to an      *)
(* analysis; L2 is a directory of entries keyed by tool and content hash,  *)
(* written behind the answer and kept across restarts.  A content stands   *)
(* for the bytes and for their blake3 hash.  An analysis is computed from  *)
(* a content and from the path it was read under (the extension chooses    *)
(* the language, the directory the siblings of a wildcard import): it      *)
(* carries both.                                                           *)
(***************************************************************************)
EXTENDS Naturals, Sequences, FiniteSets, LruCache

CONSTANTS
  Files,        \* files on the disk
  Names,        \* spellings of their paths that clients send
  FileOf,       \* the file a spelling resolves to
  Contents,     \* contents of a file
  Empty,        \* the content of no bytes
  Unparsable,   \* contents analysis rejects (not UTF-8, too large)
  Unsupported,  \* spellings whose extension has no language handler
  Calls,        \* analysis and completion calls
  Edits,        \* edit_overwrite and edit_replace calls
  Capacity,     \* APTU_CODER_FILE_CACHE_CAPACITY
  FineMtime,    \* TRUE when no two writes of a file share an mtime
  MaxVersions   \* bound: versions of one file

CONSTANTS Absent, NoKey, NoValue

Tools == {"analyze_file", "analyze_module"}

ASSUME FileCacheAssumption ==
  /\ FileOf \in [Names -> Files]
  /\ Empty \in Contents
  /\ Unparsable \subseteq Contents
  /\ Unsupported \subseteq Names
  /\ Capacity \in Nat \ {0}
  /\ FineMtime \in BOOLEAN
  /\ MaxVersions \in Nat \ {0}
  /\ Absent \notin Contents
  /\ NoKey \notin Nat

VARIABLES
  versions,  \* file -> the versions it has had, the last one being on disk
  l1,        \* the in-memory LRU cache
  l2,        \* tool -> content hash -> stored analysis
  call,      \* the analysis and completion calls
  behind,    \* calls whose L2 write is still queued
  edit       \* the edit calls

vars == <<versions, l1, l2, call, behind, edit>>

Analysis == [of : Names, bytes : Contents]

Version == [content : Contents \cup {Absent}, mtime : Nat]
Latest(s) == s[Len(s)]
OnDisk(f) == Latest(versions[f]).content
Mtime(f) == Latest(versions[f]).mtime

NewCall ==
  [pc |-> "new", tool |-> NoValue, name |-> NoValue, from |-> 0,
   key |-> NoKey, bytes |-> NoValue, value |-> NoValue]

NewEdit == [pc |-> "new", name |-> NoValue]

Init ==
  /\ versions \in [Files -> {<<[content |-> c, mtime |-> 1]>> :
                               c \in Contents \cup {Absent}}]
  /\ l1 = EmptyLru
  /\ l2 = [t \in Tools |-> [c \in Contents |-> NoValue]]
  /\ call = [c \in Calls |-> NewCall]
  /\ behind = {}
  /\ edit = [e \in Edits |-> NewEdit]

-----------------------------------------------------------------------------
(* The first system call of a handler: analyze_file and completion stat    *)
(* the path, analyze_module reads it.  `from` remembers the version on     *)
(* disk when the call began.                                               *)

Begin(c, tool, n) ==
  [call[c] EXCEPT !.tool = tool, !.name = n, !.from = Len(versions[FileOf[n]])]

Stat(c, tool, n) ==
  /\ call[c].pc = "new"
  /\ call' = [call EXCEPT ![c] =
       [Begin(c, tool, n) EXCEPT
          !.pc = "stat",
          !.key = IF OnDisk(FileOf[n]) = Absent THEN NoKey
                                                ELSE Mtime(FileOf[n])]]
  /\ UNCHANGED <<versions, l1, l2, behind, edit>>

Answer(c, v) == [call EXCEPT ![c].pc = "answered", ![c].value = v]
Refuse(c) == [call EXCEPT ![c].pc = "error"]

\* The analysis of some bytes under the path the call was sent.
AnalysisOf(c, bytes) == [of |-> call[c].name, bytes |-> bytes]

L1Key(c) == <<call[c].name, call[c].key>>

L1Hit(c) ==
  /\ call[c].pc = "stat"
  /\ call[c].key # NoKey
  /\ LruHas(l1, L1Key(c))
  /\ l1' = LruGet(l1, L1Key(c))
  /\ call' = Answer(c, l1.map[L1Key(c)])
  /\ UNCHANGED <<versions, l2, behind, edit>>

L1Miss(c) ==
  /\ call[c].pc = "stat"
  /\ call[c].key = NoKey \/ ~LruHas(l1, L1Key(c))
  /\ call' = IF call[c].tool = "complete"
             THEN Refuse(c)
             ELSE [call EXCEPT ![c].pc = "read"]
  /\ UNCHANGED <<versions, l1, l2, behind, edit>>

\* A failed read of analyze_file goes to the retry, past both caches.
ReadFile(c) ==
  /\ call[c].pc = "read"
  /\ LET bytes == OnDisk(FileOf[call[c].name])
     IN  call' = [call EXCEPT
                    ![c].pc = IF bytes = Absent THEN "retry" ELSE "l2",
                    ![c].bytes = IF bytes = Absent THEN Empty ELSE bytes]
  /\ UNCHANGED <<versions, l1, l2, behind, edit>>

ReadModule(c, n) ==
  /\ call[c].pc = "new"
  /\ LET bytes == OnDisk(FileOf[n])
         begun == Begin(c, "analyze_module", n)
     IN  call' = [call EXCEPT ![c] =
                    IF bytes = Absent
                    THEN [begun EXCEPT !.pc = "error"]
                    ELSE [begun EXCEPT !.pc = "l2", !.bytes = bytes]]
  /\ UNCHANGED <<versions, l1, l2, behind, edit>>

-----------------------------------------------------------------------------
(* L2, analysis and the two stores.                                        *)

\* Bug: the entry is stored under the mtime the file has by then.
L1StoreLate(c, v) ==
  l1' = IF call[c].key = NoKey THEN l1
        ELSE LruPush(l1, <<call[c].name, Mtime(FileOf[call[c].name])>>,
                     v, Capacity)

L1Store(c, v) ==
  l1' = IF call[c].key = NoKey THEN l1
                               ELSE LruPush(l1, L1Key(c), v, Capacity)

\* The entry is found by the hash alone: it may be the analysis of a file of
\* the same bytes under another path, and is answered whatever the path.
L2Hit(c) ==
  /\ call[c].pc = "l2"
  /\ l2[call[c].tool][call[c].bytes] # NoValue
  /\ LET v == l2[call[c].tool][call[c].bytes]
     IN  /\ call' = Answer(c, v)
         /\ IF call[c].tool = "analyze_file" THEN L1Store(c, v) ELSE l1' = l1
  /\ UNCHANGED <<versions, l2, behind, edit>>

\* No entry, or an entry whose lock, read, decompression or decoding failed.
L2Miss(c) ==
  /\ call[c].pc = "l2"
  /\ call' = [call EXCEPT ![c].pc = "analyze"]
  /\ UNCHANGED <<versions, l1, l2, behind, edit>>

\* The bytes analysis works on: analyze_file's own, or a second reading.
Analysed(c) ==
  IF call[c].tool = "analyze_file" THEN call[c].bytes
                                ELSE OnDisk(FileOf[call[c].name])

Succeeds(c, tool) ==
  /\ call[c].pc = "analyze"
  /\ call[c].tool = tool
  /\ Analysed(c) \in Contents \ Unparsable
  /\ call[c].name \notin Unsupported

\* analyze_file analyses the bytes it holds, stores the result in L1 under
\* the mtime it read before them, queues the L2 write and answers.
AnalyzeFile(c) ==
  /\ Succeeds(c, "analyze_file")
  /\ L1Store(c, AnalysisOf(c, call[c].bytes))
  /\ call' = Answer(c, AnalysisOf(c, call[c].bytes))
  /\ behind' = behind \cup {c}
  /\ UNCHANGED <<versions, l2, edit>>

\* analyze_module analyses the path: the file is read a second time, and the
\* result is stored under the hash of the first reading.
AnalyzeModule(c) ==
  /\ Succeeds(c, "analyze_module")
  /\ call' = Answer(c, AnalysisOf(c, Analysed(c)))
  /\ behind' = behind \cup {c}
  /\ UNCHANGED <<versions, l1, l2, edit>>

AnalysisFails(c) ==
  /\ call[c].pc = "analyze"
  /\ Analysed(c) \notin Contents \ Unparsable
  /\ call' = Refuse(c)
  /\ UNCHANGED <<versions, l1, l2, behind, edit>>

\* An extension without a handler: analyze_file previews the file read once
\* more (an unreadable one is previewed as empty), analyze_module describes
\* the bytes it read first.  Neither is stored.
UnsupportedFallback(c) ==
  /\ call[c].pc = "analyze"
  /\ Analysed(c) \in Contents \ Unparsable
  /\ call[c].name \in Unsupported
  /\ LET again == OnDisk(FileOf[call[c].name])
         bytes == IF call[c].tool = "analyze_module" THEN call[c].bytes
                  ELSE IF again = Absent THEN Empty ELSE again
     IN  call' = Answer(c, AnalysisOf(c, bytes))
  /\ UNCHANGED <<versions, l1, l2, behind, edit>>

\* Bug: the result of the retry is stored under the hash of the empty buffer
\* the failed read left.
RetryStored(c) ==
  /\ call[c].pc = "retry"
  /\ LET bytes == OnDisk(FileOf[call[c].name])
     IN  /\ bytes \in Contents \ Unparsable
         /\ call' = Answer(c, AnalysisOf(c, bytes))
  /\ behind' = behind \cup {c}
  /\ UNCHANGED <<versions, l1, l2, edit>>

\* analyze_file after a failed read: the path is read again, and a result is
\* answered but stored nowhere.
Retry(c) ==
  /\ call[c].pc = "retry"
  /\ LET bytes == OnDisk(FileOf[call[c].name])
     IN  call' = IF bytes \in Contents \ Unparsable
                 THEN Answer(c, AnalysisOf(c, bytes))
                 ELSE Refuse(c)
  /\ UNCHANGED <<versions, l1, l2, behind, edit>>

\* The write-behind task: a locked write-and-rename, or a counted failure.
L2Put(c) ==
  /\ c \in behind
  /\ behind' = behind \ {c}
  /\ \/ l2' = [l2 EXCEPT ![call[c].tool][call[c].bytes] = call[c].value]
     \/ l2' = l2
  /\ UNCHANGED <<versions, l1, call, edit>>

-----------------------------------------------------------------------------
(* Writers.                                                                *)

\* The kernel stamps a write with the current tick.
Write(f, c) ==
  /\ Len(versions[f]) < MaxVersions
  /\ \E m \in {Mtime(f), Mtime(f) + 1} :
       /\ FineMtime => m # Mtime(f)
       /\ versions' = [versions EXCEPT
                         ![f] = Append(@, [content |-> c, mtime |-> m])]

EditWrite(e, n, c) ==
  /\ edit[e].pc = "new"
  /\ Write(FileOf[n], c)
  /\ edit' = [edit EXCEPT ![e] = [pc |-> "written", name |-> n]]
  /\ UNCHANGED <<l1, l2, call, behind>>

\* invalidate_file: every entry of the spelling the edit was sent.
Invalidate(e) ==
  /\ edit[e].pc = "written"
  /\ l1' = LruDrop(l1, {k \in DOMAIN l1.map : k[1] = edit[e].name})
  /\ edit' = [edit EXCEPT ![e].pc = "answered"]
  /\ UNCHANGED <<versions, l2, call, behind>>

\* A write or a deletion by a program that is not the server.
OutsideWrite(f, c) ==
  /\ c # OnDisk(f)
  /\ Write(f, c)
  /\ UNCHANGED <<l1, l2, call, behind, edit>>

\* The server stops and starts again: L2 and the files remain.
Restart ==
  /\ \E c \in Calls : call[c].pc \notin {"new", "lost"}
  /\ l1' = EmptyLru
  /\ behind' = {}
  /\ call' = [c \in Calls |-> IF call[c].pc = "new" THEN NewCall
                              ELSE [NewCall EXCEPT !.pc = "lost"]]
  /\ edit' = [e \in Edits |-> IF edit[e].pc = "new" THEN NewEdit
                              ELSE [edit[e] EXCEPT !.pc = "lost"]]
  /\ UNCHANGED <<versions, l2>>

CallStep(c) ==
  \/ \E n \in Names : \/ \E tool \in {"analyze_file", "complete"} : Stat(c, tool, n)
                      \/ ReadModule(c, n)
  \/ L1Hit(c) \/ L1Miss(c) \/ ReadFile(c)
  \/ L2Hit(c) \/ L2Miss(c)
  \/ AnalyzeFile(c) \/ AnalyzeModule(c) \/ AnalysisFails(c)
  \/ UnsupportedFallback(c) \/ Retry(c) \/ L2Put(c)

Next ==
  \/ \E c \in Calls : CallStep(c)
  \/ \E e \in Edits : \/ \E n \in Names, c \in Contents : EditWrite(e, n, c)
                      \/ Invalidate(e)
  \/ \E f \in Files, c \in Contents \cup {Absent} : OutsideWrite(f, c)
  \/ Restart

Spec == Init /\ [][Next]_vars

-----------------------------------------------------------------------------
(* Properties.                                                             *)

CallState ==
  [pc : {"new", "stat", "read", "l2", "analyze", "retry",
         "answered", "error", "lost"},
   tool : Tools \cup {"complete", NoValue}, name : Names \cup {NoValue},
   from : Nat, key : Nat \cup {NoKey},
   bytes : Contents \cup {NoValue}, value : Analysis \cup {NoValue}]

\* The contents the file of a call had since the call began.
During(c) ==
  LET f == FileOf[call[c].name]
  IN  {versions[f][i].content : i \in call[c].from..Len(versions[f])}

Fresh(c) == call[c].value.bytes \in During(c)

AnsweredBy(tools) == {c \in Calls : call[c].pc = "answered" /\ call[c].tool \in tools}

\* What analyze_file and the completions answer was computed from a content
\* the file had between the call's first look at it and its answer, however
\* the call interleaves with edits, other spellings of the path, outside
\* writers, evictions and restarts.  (A preview of an unsupported file may
\* be of no content at all: it treats an unreadable file as an empty one.)
AnswersFresh ==
  \A c \in AnsweredBy({"analyze_file", "complete"}) :
    call[c].name \notin Unsupported => Fresh(c)

\* What analyze_module answers was computed from a content the file had
\* during the call; its only cache is the one on disk.
ModulesFresh == \A c \in AnsweredBy({"analyze_module"}) : Fresh(c)

Truthful(tool) ==
  \A h \in Contents :
    l2[tool][h] # NoValue => /\ l2[tool][h].bytes = h
                             /\ l2[tool][h].of \notin Unsupported

\* An entry analyze_file left on disk under a content hash was computed from
\* the content with that hash, under a path with a language: neither a failed
\* read, nor a preview, nor a write between reading and storing leaves an
\* entry that misleads the next server about the bytes.  (The path may be
\* another one than the reader's.)
DiskEntriesTruthful == Truthful("analyze_file")
=============================================================================
