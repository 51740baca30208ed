---------------------------- MODULE PythonImports ----------------------------
(***************************************************************************)
(* The lookups by import (module_lookup.rs): the files that import a       *)
(* module, and the names a wildcard import of a Python file stands for.    *)
(* A source is [imports, defs, others, all]: imports are [module, dots,    *)
(* items], with module the path after the dots and items a set; defs is    *)
(* its undecorated functions and classes, others the names its other       *)
(* statements bind: decorated ones, variables, imports; all is <<>> or     *)
(* <<its __all__>>, one list of strings.  Py[m] is the file name m.py, and *)
(* Private are the names that begin with an underscore.                    *)
(***************************************************************************)
EXTENDS PathRules

CONSTANTS Private, Py

Import == [module : Seq(STRING), dots : Nat, items : SUBSET STRING]

(* What a tree has is in a directory of it.  There are no links in it, and   *)
(* no directory has the name of a source.                                   *)
ASSUME ImportsAssumption ==
  \A r \in Requests : r.tool = "wildcards" =>
    /\ r.file \in Seq(STRING) /\ r.file \in DOMAIN r.text
    /\ \A p \in DOMAIN r.fs :
         /\ p \in Seq(STRING) /\ r.fs[p].kind \in {"dir", "file"}
         /\ p # <<>> => /\ IsDir(r.fs, Front(p))
                        /\ IsDir(r.fs, p) => \A m \in DOMAIN Py : Last(p) # Py[m]
    /\ \A p \in DOMAIN r.text : /\ r.text[p].imports \in Seq(Import)
                               /\ r.text[p].all \in Seq(SUBSET STRING) /\ Len(r.text[p].all) <= 1

Wildcard(import) == import.items = {"*"}

(* Fault: one level too many is climbed.                                    *)
ClimbFurther(p, dots) == SubSeq(p, 1, Len(p) - dots - 1)

(* Path::parent, and PathBuf::pop for every dot but the first.              *)
Climb(p, dots) == SubSeq(p, 1, Len(p) - dots)

IsFile(fs, p) == p \in DOMAIN fs /\ fs[p].kind = "file"

(* locate_target_file: pkg/m.py for a module, or else pkg/m/__init__.py;    *)
(* for the dots alone the __init__.py of the directory they lead to.  There *)
(* is none where the dots lead above the root.                              *)
Locate(fs, p, import) ==
  LET dir == Climb(p, import.dots)
      file == IF import.module = <<>> THEN dir \o <<Py["__init__"]>>
              ELSE dir \o Front(import.module) \o <<Py[Last(import.module)]>>
      init == dir \o import.module \o <<Py["__init__"]>>
  IN  IF Len(p) < import.dots THEN <<>>
      ELSE IF IsFile(fs, file) THEN <<file>>
      ELSE IF import.module # <<>> /\ IsDir(fs, dir \o import.module) /\ IsFile(fs, init)
      THEN <<init>> ELSE <<>>

(* resolve_symbols_from_tree: the strings of __all__, and where there is    *)
(* none, or it is empty, the public names of the definitions that are       *)
(* children of the root themselves: those with a decorator are not.         *)
Exported(src) ==
  IF src.all # <<>> /\ src.all[1] # {} THEN src.all[1] ELSE src.defs \ Private

(* resolve_single_wildcard and validate_wildcard_target: an import that     *)
(* cannot be resolved, or that leads to its own file, stays as it is.       *)
Resolved(r, p, import) ==
  LET target == Locate(r.fs, p, import)
  IN  IF ~Wildcard(import) \/ import.dots = 0 THEN import
      ELSE IF target = <<>> \/ target = <<p>> THEN import
      ELSE IF target[1] \notin DOMAIN r.text THEN import
      ELSE [import EXCEPT !.items = Exported(r.text[target[1]])]

(* resolve_wildcard_imports.                                                *)
Imports(r) ==
  [n \in DOMAIN r.text[r.file].imports |->
     Resolved(r, r.file, r.text[r.file].imports[n])]

ResolveImports == Answers("wildcards", Imports(request))

(* analyze_import_lookup: the files of the walk with an import of the       *)
(* module, or of an item of that name; wildcards are not resolved for it.   *)
(* handle_import_lookup walks, filters by git_ref, and refuses the call if  *)
(* either fails.                                                            *)
Imported(import, asked) ==
  \/ import.dots = asked.dots /\ import.module = asked.module
  \/ asked.dots = 0 /\ Len(asked.module) = 1 /\ asked.module[1] \in import.items

Lookup(r) ==
  {p \in DOMAIN r.text : \E n \in DOMAIN r.text[p].imports :
                            Imported(r.text[p].imports[n], r.asked)}

LookupImport == Answers("import_lookup", Lookup(request))

ImportsNext == ResolveImports \/ LookupImport

-----------------------------------------------------------------------------
(* Properties                                                               *)

(* The file Python's own import would load: a package before a module of    *)
(* the same name.                                                           *)
PythonFiles(fs, p, import) ==
  LET top == Len(p) - import.dots
      dir == SubSeq(p, 1, top) \o import.module
      module == SubSeq(dir, 1, Len(dir) - 1) \o <<Py[Last(dir)]>>
  IN  IF top < 0 THEN {}
      ELSE {f \in {dir \o <<Py["__init__"]>>} : IsFile(fs, f)}
           \cup (IF import.module = <<>> THEN {} ELSE {f \in {module} : IsFile(fs, f)})

(* What Python binds for a wildcard.                                        *)
Binds(src) ==
  IF src.all # <<>> THEN src.all[1] ELSE (src.defs \cup src.others) \ Private

(* At any depth of dots, where one file can be meant a wildcard import is   *)
(* replaced, by names that Python binds for it, and by all of them when the *)
(* file has but plain definitions or an __all__; where no file can be meant *)
(* it stays (resolve_single_wildcard).  Left out: a module beside a package *)
(* of its name, of which Python loads the other one, and an empty __all__.  *)
WildcardAsPython ==
  Answered("wildcards") =>
    \A n \in DOMAIN answer :
      LET import == request.text[request.file].imports[n]
          files == PythonFiles(request.fs, request.file, import)
          src == request.text[CHOOSE f \in files : TRUE]
      IN  Wildcard(import) /\ import.dots > 0 /\ files # {request.file} =>
            /\ files = {} => answer[n] = import
            /\ Cardinality(files) = 1 /\ files \subseteq DOMAIN request.text /\ src.all # <<{}>> =>
                 /\ answer[n].items \subseteq Binds(src)
                 /\ src.others = {} \/ src.all # <<>> => answer[n].items = Binds(src)
==============================================================================
