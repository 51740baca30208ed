-------------------------------- MODULE MCEdit --------------------------------
(* Instances of EditTools for TLC.  A file has two blocks, each as first     *)
(* written or as edited: c00, c10, c01 and c11.                              *)
EXTENDS EditTools, TLC

CONSTANTS c00, c10, c01, c11, fileA, fileB, sidA, sidB

MCContent == {c00, c10, c01, c11}
MCEdits == {"first", "second", "either"}

(* "first" and "second" change one block each; "either" matches both blocks  *)
(* of c00 and has trim-end matches that overlap in c11.                      *)
MCApply ==
  [e \in MCEdits |->
    CASE e = "first"  -> (c00 :> c10 @@ c01 :> c11 @@ c10 :> "not_found" @@ c11 :> "not_found")
      [] e = "second" -> (c00 :> c01 @@ c10 :> c11 @@ c01 :> "not_found" @@ c11 :> "not_found")
      [] e = "either" -> (c00 :> "ambiguous" @@ c10 :> c11 @@ c01 :> c11 @@ c11 :> "panic")]

Replace(t, path, e, h) == [tool |-> t, sid |-> sidA, path |-> path, edit |-> e, hash |-> h]
Overwrite(path, content) == [tool |-> "overwrite", sid |-> sidA, path |-> path, content |-> content]

ReplaceRequests ==
  { Replace("single", fileA, "first", NoHash),
    Replace("single", fileA, "second", NoHash),
    Replace("single", fileA, "either", NoHash),
    Replace("single", fileA, "second", c00),
    Replace("batch", fileA, "first", c01),
    Replace("batch", fileA, "either", NoHash),
    [tool |-> "malformed", sid |-> sidA, path |-> fileA] }

(* On c00 the first two requests fail and count, each for its own session:  *)
(* two calls of one session reach the threshold, and calls of both fill a   *)
(* map of two entries.  On c11 the first one panics.                        *)
MixedRequests ==
  { Replace("single", fileA, "either", NoHash),
    [Replace("batch", fileA, "first", c01) EXCEPT !.sid = sidB],
    Overwrite(fileA, c11) }

Symmetry == Permutations(Call)
==============================================================================
