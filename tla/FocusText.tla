------------------------------- MODULE FocusText -------------------------------
(***************************************************************************)
(* What analyze_symbol tells about a symbol: the text in full, the summary *)
(* of it, the page of a list (formatter/summary.rs, formatter/             *)
(* pagination.rs, formatter_defuse.rs), and the fields of direct           *)
(* neighbours beside the text (analyze_focused.rs).  A text is a record of *)
(* what it counts and names.                                               *)
(*                                                                         *)
(* An answer is a record of the symbol, its chains (callers, those from    *)
(* tests, callees), its def-use sites by kind, its definitions and the     *)
(* counts of the FILTER line.                                              *)
(***************************************************************************)
EXTENDS CallGraph

CONSTANTS
  TopNames,   \* names of a list in a summary (10)
  MaxEntries  \* entries of a field of direct neighbours (10)

\* The places graph.definitions has for a name.
Definitions(p, name) ==
  UNION {{<<p[i].path, d.line>> :
            d \in {e \in ToSet(p[i].functions) \cup ToSet(p[i].classes) : e.name = name}} :
         i \in DOMAIN p}

\* The distinct names on the other side of the edges of a symbol: what
\* impl_only leaves of them, and all of them.
FilterCounts(g, symbol, implOnly) ==
  LET names(edges) == {e.neighbor : e \in ToSet(Adjacent(edges, symbol))}
  IN  IF implOnly
      THEN <<Cardinality(names(Followed(g, TRUE, TRUE))), Cardinality(names(g.callers))>>
      ELSE << >>

Firsts(chains) == {chain[1].name : chain \in ToSet(chains)}
FirstPaths(chains) == {chain[1].path : chain \in ToSet(chains)}

\* format_chains_as_tree: how often two names begin a chain (no chain here
\* has fewer than two places).
Branch(chain) == <<chain[1].name, chain[2].name>>

Tree(chains) ==
  [b \in {Branch(chain) : chain \in ToSet(chains)} |->
     Cardinality({i \in DOMAIN chains : Branch(chains[i]) = b})]

\* Sites are written (or read and written) or read.
Written(sites) == {i \in DOMAIN sites : sites[i] # "read"}
ReadOnly(sites) == {i \in DOMAIN sites : sites[i] = "read"}

Paths(chains) == UNION {{place.path : place \in ToSet(chain)} : chain \in ToSet(chains)}

\* focused_prologue and the FILTER line: the names are counted, not the
\* chains.
Prologue(answer) ==
  [filter |-> answer.filter, defined |-> answer.defined,
   callerNames |-> Cardinality(Firsts(answer.callers)),
   calleeNames |-> Cardinality(Firsts(answer.callees))]

\* format_focused_internal.
FullText(answer) ==
  [kind |-> "full", head |-> Prologue(answer),
   callers |-> Tree(answer.callers), callees |-> Tree(answer.callees),
   tests |-> Len(answer.tests), testFiles |-> FirstPaths(answer.tests),
   files |-> Paths(answer.callers) \cup Paths(answer.callees)
             \cup {place[1] : place \in answer.defined},
   written |-> Written(answer.sites), readOnly |-> ReadOnly(answer.sites)]

\* Names taken by how many chains they begin, ties as the hash map has them.
Tops(chains) ==
  LET begun(name) == Cardinality({i \in DOMAIN chains : chains[i][1].name = name})
  IN  {top \in SUBSET Firsts(chains) :
         /\ Cardinality(top) = IF Cardinality(Firsts(chains)) < TopNames
                               THEN Cardinality(Firsts(chains)) ELSE TopNames
         /\ \A name \in top, other \in Firsts(chains) \ top : begun(name) >= begun(other)}

\* format_focused_summary_internal.
Summaries(answer) ==
  [kind : {"summary"}, head : {Prologue(answer)},
   callers : Tops(answer.callers), callees : Tops(answer.callees),
   tests : {Len(answer.tests)}, testFiles : {Cardinality(FirstPaths(answer.tests))},
   written : {Cardinality(Written(answer.sites))},
   readOnly : {Cardinality(ReadOnly(answer.sites))}]

\* The text about a name that only has sites.
SitesText(answer) ==
  [kind |-> "counts", written |-> Cardinality(Written(answer.sites)),
   readOnly |-> Cardinality(ReadOnly(answer.sites))]

\* format_focused_paginated: here the chains are counted.
ChainPageText(answer, mode, chains, first) ==
  [kind |-> "page", mode |-> mode, first |-> first, last |-> first + Len(chains) - 1,
   tree |-> Tree(chains), defined |-> Cardinality(answer.defined),
   callers |-> Len(answer.callers), callees |-> Len(answer.callees),
   tests |-> Len(answer.tests),
   testFiles |-> IF mode = "callers" THEN FirstPaths(answer.tests) ELSE {}]

\* format_focused_paginated_defuse.
SitesPageText(sites, first, last) ==
  [kind |-> "page", mode |-> "sites", first |-> first, last |-> last,
   written |-> Written(sites) \cap first..last,
   readOnly |-> ReadOnly(sites) \cap first..last]

\* chains_to_entries: what each of the first chains begins with.
Entries(chains) ==
  [i \in 1..(IF Len(chains) < MaxEntries THEN Len(chains) ELSE MaxEntries) |-> chains[i][1]]
=============================================================================
