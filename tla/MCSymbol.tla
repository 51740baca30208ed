------------------------------- MODULE MCSymbol -------------------------------
(* Small instances of SymbolAnalysis: two files; a content that uses the     *)
(* symbol, one that defines it and makes a long text, and one not in UTF-8.  *)
EXTENDS SymbolAnalysis, TLC

CONSTANTS fileA, fileB, short, long, binary, call1, call2

MixedRequests ==
  { [mode |-> "call_graph", summary |-> "unset"],
    [mode |-> "def_use", summary |-> "false"] }
SiteRequests == {[mode |-> "def_use", summary |-> "unset"]}
Symmetry == {p @@ q : p \in Permutations(Calls), q \in Permutations(Files)}
==============================================================================
