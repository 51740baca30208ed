------------------------------- MODULE Anchors -------------------------------
(***************************************************************************)
(* verify_anchors: whether a batch of path:line[:symbol] citations still   *)
(* holds.  The paths are checked first, the files are read later on a      *)
(* blocking thread, each once for all its anchors.  A line of a file is    *)
(* the set of words in it.                                                 *)
(***************************************************************************)
EXTENDS PathRules

CONSTANTS
  MaxAnchors, \* MAX_ANCHORS
  Window      \* ANCHOR_WINDOW_LINES

Anchor == [path : Argument, line : Nat, symbol : Seq(STRING)]

ASSUME AnchorsAssumption ==
  /\ MaxAnchors \in Nat /\ Window \in Nat
  /\ \A r \in Requests : r.tool = "verify_anchors" =>
       /\ r.root \in Argument /\ r.anchors \in Seq(Anchor)
       /\ \A p \in DOMAIN r.text : r.text[p] \in Seq(SUBSET STRING)

NoLine == 0

Nothing(a) ==
  [path |-> a.path, line |-> a.line, symbol |-> a.symbol,
   exists |-> FALSE, inRange |-> FALSE, found |-> "not_searched", at |-> NoLine]

(* Fault: the window is counted from the line's offset, which is one less.  *)
WindowFromOffset(line, lines) ==
  (IF line > Window THEN line - Window ELSE 1)..(IF line + Window - 1 < lines THEN line + Window - 1 ELSE lines)

(* The lines, from 1, that are searched for the symbol of an anchor:        *)
(* lines[lo..hi] with lo = line - 1 - window, at least 0.                   *)
WindowOf(line, lines) ==
  (IF line > 1 + Window THEN line - Window ELSE 1)..Min({line + Window, lines})

(* verify_grouped.  lines is <<>> or the file's one reading.                *)
Verify(a, reading) ==
  LET lines == reading[1]
      hits == {n \in WindowOf(a.line, Len(lines)) : a.symbol[1] \in lines[n]}
      seen == [Nothing(a) EXCEPT !.exists = TRUE, !.inRange = a.line <= Len(lines)]
  IN  IF a.line = 0 \/ reading = <<>> THEN Nothing(a)
      ELSE IF a.symbol = <<>> \/ ~seen.inRange THEN seen
      ELSE IF hits = {} THEN [seen EXCEPT !.found = "no"]
      ELSE [seen EXCEPT !.found = "yes", !.at = Min(hits)]

(* What the blocking thread reads for a path: nothing, if it leads out of   *)
(* the root by then, or the file is gone or is not UTF-8.                   *)
Reading(text, fs, root, arg) ==
  LET p == Resolve(fs, root, arg)
  IN  IF Found(p) /\ Inside(root, p.path) /\ p.path \in DOMAIN text
      THEN <<text[p.path]>> ELSE <<>>

(* verify_anchors_with: one result for each anchor, in the batch's order.   *)
VerifyBatch(r, root) ==
  [n \in DOMAIN r.anchors |->
     Verify(r.anchors[n], Reading(r.text, r.later, root, r.anchors[n].path))]

Holds(res) == res.exists /\ res.inRange /\ res.found # "no"

(* verify_anchors_handler: the size of the batch, the root and every path   *)
(* are checked before a file is read; one path that is missing or leads out *)
(* of the root refuses the whole batch.                                     *)
VerifyAnchors(r) ==
  LET root == RelativeTo(r.fs, r.cwd, r.root, TRUE)
      Bad(a) == LET p == RelativeTo(r.fs, root.path, a.path, TRUE)
                IN  ~Found(p) \/ ~Inside(root.path, p.path)
      results == VerifyBatch(r, root.path)
  IN  IF Len(r.anchors) > MaxAnchors THEN [kind |-> "invalid_params"]
      ELSE IF ~Found(root) THEN [kind |-> "invalid_params"]
      ELSE IF \E n \in DOMAIN r.anchors : Bad(r.anchors[n]) THEN [kind |-> "invalid_params"]
      ELSE [kind |-> "ok", results |-> results,
            verified |-> Cardinality({n \in DOMAIN results : Holds(results[n])})]

CheckAnchors == Answers("verify_anchors", VerifyAnchors(request))

-----------------------------------------------------------------------------
(* Properties                                                               *)

(* Each anchor of a batch has the verdict it would have alone, at its own   *)
(* place, and a citation holds exactly if the file, when it was read, had   *)
(* the line, and the symbol within the window on either side (grouping by   *)
(* path and clamping, verify_anchors_with and verify_grouped).              *)
AnchorsExact ==
  Answered("verify_anchors") /\ answer.kind = "ok" =>
    \A n \in DOMAIN request.anchors :
      LET a == request.anchors[n]
          res == answer.results[n]
          root == Resolve(request.fs, request.cwd, request.root).path
          p == Resolve(request.later, root, a.path)
          present == Found(p) /\ Inside(root, p.path) /\ p.path \in DOMAIN request.text
          lines == request.text[p.path]
      IN  /\ <<res.path, res.line, res.symbol>> = <<a.path, a.line, a.symbol>>
          /\ Holds(res) <=>
               /\ present /\ a.line \in DOMAIN lines
               /\ a.symbol # <<>> =>
                    \E d \in -Window..Window : /\ a.line + d \in DOMAIN lines
                                               /\ a.symbol[1] \in lines[a.line + d]
          /\ res.at # NoLine =>
               \A k \in DOMAIN lines : a.symbol[1] \in lines[k] /\ k < res.at => k < a.line - Window
==============================================================================
