------------------------------ MODULE PathRules ------------------------------
(***************************************************************************)
(* How a path argument becomes the path a tool works on.  A filesystem is  *)
(* a function from canonical paths (sequences of names, <<>> is /) to      *)
(* nodes: a directory, a file, or a symbolic link with the canonical path  *)
(* it leads to.  A path argument is [abs, names]; "." names and repeated   *)
(* slashes are gone, ".." is a name.                                       *)
(***************************************************************************)
EXTENDS TextRequest

IsDir(fs, p)  == p \in DOMAIN fs /\ fs[p].kind = "dir"
IsLink(fs, p) == p \in DOMAIN fs /\ fs[p].kind = "link"

At(p)     == [err |-> "none", path |-> p]
Failed(e) == [err |-> e, path |-> <<>>]
Found(res) == res.err = "none"

(* std::fs::canonicalize: every name is looked up in the directory reached  *)
(* so far, and links are followed.                                          *)
Step(fs, at, name) ==
  LET next == at.path \o <<name>> IN
  IF ~Found(at) THEN at
  ELSE IF ~IsDir(fs, at.path) THEN Failed("not_a_directory")
  ELSE IF name = ".." THEN At(IF at.path = <<>> THEN <<>> ELSE Front(at.path))
  ELSE IF next \notin DOMAIN fs THEN Failed("not_found")
  ELSE IF ~IsLink(fs, next) THEN At(next)
  ELSE IF fs[next].to \in DOMAIN fs THEN At(fs[next].to)
  ELSE Failed("not_found")

Canonical(fs, base, names) ==
  LET reached[n \in 0..Len(names)] ==
        IF n = 0 THEN At(base) ELSE Step(fs, reached[n - 1], names[n])
  IN  reached[Len(names)]

(* Path::join: an absolute argument replaces the base.                      *)
Base(dir, arg) == IF arg.abs THEN <<>> ELSE dir

Resolve(fs, dir, arg) == Canonical(fs, Base(dir, arg), arg.names)

Inside(root, p) == IsPrefix(root, p)

(* Path::file_name has none for "/", and for a path that ends in "..".      *)
HasFileName(arg) == arg.names # <<>> /\ Last(arg.names) # ".."

Parent(arg) == [arg EXCEPT !.names = Front(@)]

(* path_error_subtype: the class the telemetry gives to a message.  The     *)
(* message for a parent that is no directory is worded in two ways, of      *)
(* which one is classed.                                                    *)
Subtype(e) ==
  CASE e = "not_found"       -> "path_not_found"
    [] e = "outside"         -> "path_outside_working_dir"
    [] e = "no_file_name"    -> "path_missing_filename"
    [] e = "parent_not_dir"  -> "parent_not_directory"
    [] OTHER                 -> "path_invalid"

(* validate_parent_in_root: the path of a file that need not exist.         *)
ParentInRoot(fs, root, arg) ==
  LET parent == Resolve(fs, root, Parent(arg)) IN
  IF ~HasFileName(arg) THEN Failed("no_file_name")
  ELSE IF ~Found(parent) THEN parent
  ELSE IF ~Inside(root, parent.path) THEN Failed("outside")
  ELSE IF ~IsDir(fs, parent.path) THEN Failed("parent_not_dir")
  ELSE At(parent.path \o <<Last(arg.names)>>)

(* validate_path: relative to the server's directory, and within it.        *)
ValidatePath(fs, cwd, arg, mustExist) ==
  LET found == IF mustExist THEN Resolve(fs, cwd, arg)
               ELSE ParentInRoot(fs, cwd, arg)
  IN  IF mustExist /\ found.err = "not_a_directory" THEN Failed("outside")
      ELSE IF Found(found) /\ ~Inside(cwd, found.path) THEN Failed("outside")
      ELSE found

(* Fault: the name is joined to the directory as it was written.            *)
RelativeToUnresolved(fs, dir, arg, mustExist) ==
  IF mustExist THEN Resolve(fs, dir, arg)
  ELSE IF ~HasFileName(arg) THEN Failed("no_file_name")
  ELSE IF ~Found(Resolve(fs, dir, Parent(arg))) THEN Resolve(fs, dir, Parent(arg))
  ELSE At(Base(dir, arg) \o arg.names)

(* validate_path_relative_to: relative to a directory that the caller       *)
(* chose, without a containment check.                                      *)
RelativeTo(fs, dir, arg, mustExist) ==
  LET parent == Resolve(fs, dir, Parent(arg)) IN
  IF ~IsDir(fs, dir) THEN Failed("invalid")
  ELSE IF mustExist THEN Resolve(fs, dir, arg)
  ELSE IF ~HasFileName(arg) THEN Failed("no_file_name")
  ELSE IF ~Found(parent) THEN parent
  ELSE IF ~IsDir(fs, parent.path) THEN Failed("invalid")
  ELSE At(parent.path \o <<Last(arg.names)>>)

(* What edit_overwrite and edit_replace make of path and working_dir:       *)
(* resolve_edit_path and the head of the overwrite handler.  The canonical  *)
(* path is the key of the edit lock and of the failure counter.             *)
WorkingDir(fs, cwd, dir) == IF dir = <<>> THEN At(cwd) ELSE Resolve(fs, cwd, Head(dir))

EditPath(r) ==
  LET dir == WorkingDir(r.fs, r.cwd, r.dir)
      res == RelativeTo(r.fs, dir.path, r.path, r.mustExist)
  IN  IF ~Found(dir) THEN [kind |-> "rejected", subtype |-> Subtype(dir.err)]
      ELSE IF ~Found(res) THEN [kind |-> "rejected", subtype |-> Subtype(res.err)]
      ELSE IF ~r.mustExist /\ IsDir(r.fs, res.path)
           THEN [kind |-> "rejected", subtype |-> "none"]
      ELSE [kind |-> "path", path |-> res.path]

Argument == [abs : BOOLEAN, names : Seq(STRING)]

IsPathRequest(r) ==
  /\ r = [tool |-> "edit_path", fs |-> r.fs, cwd |-> r.cwd, path |-> r.path, dir |-> r.dir,
          mustExist |-> r.mustExist]
  /\ r.path \in Argument /\ r.dir \in Seq(Argument) /\ r.mustExist \in BOOLEAN

ASSUME PathAssumption == \A r \in Requests : r.tool = "edit_path" => IsPathRequest(r)

ResolveEditPath == Answers("edit_path", EditPath(request))

-----------------------------------------------------------------------------
(* Properties                                                               *)

(* A path that edit_overwrite may create and a path that edit_replace       *)
(* requires to exist are the same name for the same file, so that locks,    *)
(* failure counters and cache invalidations of the two meet, unless the     *)
(* path ends in a symbolic link (validate_path_relative_to joins the file   *)
(* name to the canonical parent); and edit_overwrite refuses no file that   *)
(* edit_replace accepts.                                                    *)
OneNamePerFile ==
  Answered("edit_path") /\ request.mustExist /\ answer.kind = "path" =>
    LET overwrite == EditPath([request EXCEPT !.mustExist = FALSE])
        dir == WorkingDir(request.fs, request.cwd, request.dir)
        parent == Resolve(request.fs, dir.path, Parent(request.path))
    IN  \/ IsDir(request.fs, answer.path)
        \/ ~HasFileName(request.path)
        \/ IsLink(request.fs, parent.path \o <<Last(request.path.names)>>)
        \/ overwrite = answer
==============================================================================
