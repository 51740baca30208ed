---------------------------- MODULE CommandChecks ----------------------------
(***************************************************************************)
(* What exec_command does with a command before it is spawned: a leading   *)
(* "cd path &&" is taken for the working directory, git pull is made       *)
(* quiet, and a command with a here-document is checked.  A command is a   *)
(* sequence of words set apart by white space; "nl" ends a line, "quote"   *)
(* is ', "escaped" is \', and a word is never glued to an operator.        *)
(***************************************************************************)
EXTENDS PathRules

-----------------------------------------------------------------------------
(* The working directory.  r.cd is the path of a leading "cd path &&", or   *)
(* <<>>, abs if what stands there begins with a slash; r.text says whether  *)
(* it is a "plain" path, holds a $ or a ~ ("expanded"), or a quote, an      *)
(* escape, a second word or an operator ("other"), which name no file as    *)
(* they are written.                                                        *)

Run(dir, words, cd) == [kind |-> "run", dir |-> dir, words |-> words, cd |-> cd]
Refused(subtype) == [kind |-> "refused", subtype |-> subtype]

(* What validate_path makes of the text of the cd, as it is written: in the *)
(* server's directory, and never in working_dir.                            *)
CdPath(r) ==
  IF r.text = "plain" THEN ValidatePath(r.fs, r.cwd, r.cd[1], TRUE)
                      ELSE Failed("not_found")

(* Without a working_dir the path of the cd becomes it, if it is absolute   *)
(* and within the server's directory.                                       *)
Promoted(r, whole, to) ==
  IF ~r.cd[1].abs \/ r.text = "expanded" THEN whole
  ELSE IF ~Found(to) THEN Refused("cd_path_not_found")
  ELSE IF IsDir(r.fs, to.path) THEN Run(to.path, r.words, <<>>)
  ELSE Refused("cd_path_not_dir")

(* Fault: a cd to any directory is taken for redundant.                     *)
DroppedAnyway(r, dir, whole, to) ==
  IF Found(to) THEN Run(dir, r.words, <<>>) ELSE whole

(* With a working_dir the cd is dropped where its path is the same.         *)
Dropped(r, dir, whole, to) ==
  IF to = At(dir) THEN Run(dir, r.words, <<>>) ELSE whole

(* strip_cd_prefix.                                                         *)
StripCd(r, dir, whole) ==
  IF r.cd = <<>> THEN whole
  ELSE IF r.dir = <<>> THEN Promoted(r, whole, CdPath(r))
  ELSE Dropped(r, dir, whole, CdPath(r))

(* validate_working_dir_phase.                                              *)
WorkingDirPhase(r) ==
  LET dir == WorkingDir(r.fs, r.cwd, r.dir)
  IN  IF ~Found(dir) THEN Refused("working_dir_not_found")
      ELSE IF r.dir # <<>> /\ ~IsDir(r.fs, dir.path) THEN Refused("working_dir_not_dir")
      ELSE StripCd(r, dir.path, Run(dir.path, r.words, r.cd))

(* maybe_inject_no_stat: the flag goes to the end of the command, of        *)
(* whatever its last word belongs to.                                       *)
NoStat(words) ==
  IF /\ Len(words) >= 2 /\ words[1] = "git" /\ words[2] = "pull"
     /\ ToSet(words) \cap {"--stat", "--no-stat", "--verbose"} = {}
  THEN Append(words, "--no-stat") ELSE words

-----------------------------------------------------------------------------
(* The scan for here-documents.                                             *)

Separators == {"|", ";", "&", "("}

IsWriteCommand(word) == word \in {"cat", "tee", "printf", "dd", "$cmd"}

IsStdinFlag(word) == word \in {"--data", "--body-file", "-d", "-F", "--stdin"}

IsFlag(word) == IsStdinFlag(word) \/ word = "-a"

(* The words before a position, by their places; line ends are white space. *)
Before(words, n) == {k \in 1..(n - 1) : words[k] # "nl"}

WithoutLast(places) == places \ {Max(places)}

(* Fault: the scan stops at the first argument.                             *)
ScanOneArg(words, places) == places # {} /\ IsWriteCommand(words[Max(places)])

(* scan_args_for_write_command: back over the arguments to a command that   *)
(* writes, or to a separator, which the last of them is not taken for.      *)
ScanArgs(words, places) ==
  \E k \in places : /\ IsWriteCommand(words[k])
                    /\ \A j \in WithoutLast(places) : k <= j => words[j] \notin Separators

(* scan_backward_for_file_write: "cmd > file <<", "cmd file <<" and         *)
(* "cmd -flag file <<".                                                     *)
FileWrite(words, n) ==
  LET args == WithoutLast(Before(words, n))
      first == WithoutLast(args)
      last == words[Max(args)]
  IN  /\ Before(words, n) # {} /\ args # {}
      /\ IF last \in {">", ">>"} THEN first = {} \/ ScanArgs(words, first)
         ELSE \/ IsWriteCommand(last)
              \/ IsFlag(last) /\ first # {} /\ IsWriteCommand(words[Max(first)])

(* scan_backward_for_stdin_flag.                                            *)
StdinFlag(words, n) ==
  LET places == Before(words, n)
      first == WithoutLast(places)
      last == words[Max(places)]
      flag == words[Max(first)]
  IN  /\ places # {}
      /\ IF last = "-" THEN first # {} /\ (IsStdinFlag(flag) \/ flag = "cat") ELSE IsStdinFlag(last)

(* Whether a position is in quotes, in the first phase: an escaped quote    *)
(* outside quotes begins none.                                              *)
Quoted(words, n) ==
  LET quoted[k \in 0..Len(words)] ==
        IF k = 0 THEN FALSE
        ELSE IF words[k] = "quote" \/ (words[k] = "escaped" /\ quoted[k - 1]) THEN ~quoted[k - 1]
        ELSE quoted[k - 1]
  IN  quoted[n - 1]

(* Phase 1 of validate_heredocs: the first << that is refused.              *)
Verdict(words, n, stdin) ==
  IF FileWrite(words, n) THEN "file_write"
  ELSE IF StdinFlag(words, n) THEN "stdin_flag"
  ELSE IF stdin THEN "stdin_param" ELSE "none"

Documents(words) == {n \in DOMAIN words : words[n] = "<<" /\ ~Quoted(words, n)}

Phase1(words, stdin) ==
  LET bad == {n \in Documents(words) : Verdict(words, n, stdin) # "none"}
  IN  IF bad = {} THEN "none" ELSE Verdict(words, Min(bad), stdin)

(* The line after position d that is the delimiter alone.                   *)
Closers(words, d) ==
  {n \in (d + 1)..Len(words) :
     /\ words[n] = words[d] /\ words[n - 1] = "nl"
     /\ n = Len(words) \/ words[n + 1] = "nl"}

DelimiterAfter(words, n) == {d \in (n + 1)..Len(words) : words[d] # "nl"}

(* Phase 2: every << found must have its closing line; the scan goes on     *)
(* after that line, with the quotes as they were.  Any quote counts in it.  *)
Scanned(words, st, n) ==
  LET d == Min(DelimiterAfter(words, n)) IN
  IF n < st.next \/ ~st.ok THEN st
  ELSE IF words[n] \in {"quote", "escaped"} THEN [st EXCEPT !.quoted = ~@]
  ELSE IF words[n] # "<<" \/ st.quoted THEN st
  ELSE IF DelimiterAfter(words, n) = {} THEN [st EXCEPT !.ok = FALSE]
  ELSE IF Closers(words, d) = {} THEN [st EXCEPT !.ok = FALSE]
  ELSE [st EXCEPT !.next = Min(Closers(words, d)) + 1]

Phase2(words) ==
  LET scan[n \in 0..Len(words)] ==
        IF n = 0 THEN [next |-> 1, quoted |-> FALSE, ok |-> TRUE]
        ELSE Scanned(words, scan[n - 1], n)
  IN  scan[Len(words)].ok

(* validate_pre_spawn_phase, and validate_heredocs.  stdin is the size of   *)
(* the stdin parameter in units of STDIN_MAX_BYTES, 0 where there is none.  *)
PreSpawn(words, stdin) ==
  IF stdin > 1 THEN "stdin_too_large"
  ELSE IF Phase1(words, stdin > 0) # "none" THEN "heredoc_error"
  ELSE IF ~Phase2(words) THEN "heredoc_error"
  ELSE "none"

(* The words of a command that still has its cd.                            *)
Full(run) == (IF run.cd = <<>> THEN <<>> ELSE <<"cd", "path", "&">>) \o run.words

Spawned(run, verdict) == IF verdict # "none" THEN Refused(verdict) ELSE run

Quieted(run) ==
  IF run.kind = "run" /\ run.cd = <<>> THEN [run EXCEPT !.words = NoStat(@)] ELSE run

Vetted(run, stdin) ==
  IF run.kind = "refused" THEN run ELSE Spawned(run, PreSpawn(Full(run), stdin))

Check(r) == Vetted(Quieted(WorkingDirPhase(r)), r.stdin)

(* At most one cd and one working_dir.                                      *)
ASSUME CommandAssumption ==
  \A r \in Requests : r.tool = "exec_command" =>
    /\ r.words \in Seq(STRING) /\ r.stdin \in Nat
    /\ r.cd \in Seq(Argument) /\ Len(r.cd) <= 1
    /\ r.dir \in Seq(Argument) /\ Len(r.dir) <= 1
    /\ \A p \in DOMAIN r.fs : p \in Seq(STRING)

CheckCommand == Answers("exec_command", Check(request))

-----------------------------------------------------------------------------
(* Properties                                                               *)

(* The way of a cd of the shell: a ".." takes the last name off the path as *)
(* it is written, if what is written so far is a directory.                 *)
LogicalStep(fs, at, name) ==
  LET reached == Canonical(fs, <<>>, at.path) IN
  IF ~Found(at) THEN at
  ELSE IF name # ".." THEN At(at.path \o <<name>>)
  ELSE IF ~Found(reached) \/ ~IsDir(fs, reached.path) THEN Failed("cd")
  ELSE At(IF at.path = <<>> THEN <<>> ELSE Front(at.path))

LogicalWay(fs, base, names) ==
  LET way[n \in 0..Len(names)] ==
        IF n = 0 THEN At(base) ELSE LogicalStep(fs, way[n - 1], names[n])
  IN  way

(* Where the shell runs what follows a cd: nowhere, if the cd fails.        *)
ShellDir(fs, dir, cd) ==
  LET names == cd[1].names
      written == LogicalWay(fs, Base(dir, cd[1]), names)[Len(names)]
      to == Canonical(fs, <<>>, written.path)
  IN  IF cd = <<>> THEN At(dir)
      ELSE IF Found(written) /\ Found(to) /\ IsDir(fs, to.path) THEN to ELSE Failed("cd")

AskedDir == ShellDir(request.fs, WorkingDir(request.fs, request.cwd, request.dir).path, request.cd)

(* What follows the cd runs in the directory it asks for, or is not run.    *)
CdKept ==
  Answered("exec_command") /\ answer.kind = "run" /\ request.text = "plain" =>
    ShellDir(request.fs, answer.dir, answer.cd) = AskedDir

(* Taking a cd away that goes nowhere up never moves the command (strip     *)
(* only when provably redundant, exec_command.rs:127).                      *)
CdAlwaysHonoured ==
  request.tool = "exec_command" /\ (\A n \in DOMAIN request.cd : ".." \notin Range(request.cd[n].names)) =>
    CdKept

(* A ".." behind a link: the shell takes the link off the path, realpath(3) *)
(* goes up from where the link leads.                                       *)
LinkClimbed(fs, names) ==
  \E n \in DOMAIN names :
    LET path == LogicalWay(fs, <<>>, names)[n - 1].path IN
    /\ names[n] = ".." /\ path # <<>>
    /\ IsLink(fs, Canonical(fs, <<>>, Front(path)).path \o <<Last(path)>>)

(* The cd is absolute and climbs out of no link, or there is no working_dir *)
(* that a relative one could be mistaken for.                               *)
Unambiguous(r) ==
  r.cd # <<>> => IF r.cd[1].abs THEN ~LinkClimbed(r.fs, r.cd[1].names) ELSE r.dir = <<>>

(* No cd is taken away that moves the command, of those that the server and *)
(* the shell see alike; and a plain one that the shell could follow within  *)
(* the server's directory is not refused (validate_working_dir_phase).      *)
CdHonoured ==
  request.tool = "exec_command" /\ Unambiguous(request) =>
    /\ CdKept
    /\ Answered("exec_command") /\ answer.kind = "refused" /\ request.text = "plain" =>
         (answer.subtype \in {"cd_path_not_found", "cd_path_not_dir"} =>
            AskedDir = Failed("cd") \/ ~Inside(request.cwd, AskedDir.path))

(* A command that is run has no here-document behind a redirection of a     *)
(* command that would write it to the file, whatever arguments stand        *)
(* between them, and its first here-document is closed.  Read forwards, as  *)
(* the shell does; the code scans backwards (shell_scan).                   *)
AcceptedHeredocs ==
  Answered("exec_command") /\ answer.kind = "run" =>
    LET words == Full(answer)
        docs == Documents(words)
    IN  /\ \A n \in docs, m \in DOMAIN words :
             ~ /\ m < n - 2 /\ IsWriteCommand(words[m]) /\ words[n - 2] \in {">", ">>"}
               /\ \A j \in m..(n - 1) : words[j] \notin Separators \cup {"nl"}
        /\ docs # {} /\ (\A n \in DOMAIN words : words[n] # "escaped") =>
             Closers(words, Min(DelimiterAfter(words, Min(docs)))) # {}
==============================================================================
