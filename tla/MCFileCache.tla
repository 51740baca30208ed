----------------------------- MODULE MCFileCache -----------------------------
(* Small instances of FileCache: one file, under its path and under a link *)
(* whose extension no handler knows, and interchangeable calls.            *)
EXTENDS FileCache, TLC

CONSTANTS fileA, plainA, linkA, bytes0, bytes1, edit1, call1, call2, call3

OneFile == [n \in Names |-> fileA]
Symmetry == Permutations(Calls)
=============================================================================
