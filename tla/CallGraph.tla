------------------------------- MODULE CallGraph -------------------------------
(***************************************************************************)
(* The call graph analyze_symbol builds from the parsed files of a         *)
(* directory and the chains it finds in it (graph/call_graph.rs,           *)
(* analyze_focused.rs).                                                    *)
(*                                                                         *)
(* A program is the sequence of its parsed files, in the order of their    *)
(* paths, each with what it has in source order.                           *)
(* A name may have a scope (`T::f`, `self.f`); Bare takes it off.          *)
(***************************************************************************)
EXTENDS Naturals, Sequences, FiniteSets, SequencesExt

CONSTANTS
  Bare,        \* strip_scope_prefix: a name -> the name without its scope
  TestPaths,   \* paths is_test_file accepts
  TestNames    \* names that start with test_

ParsedFile ==
  [path : STRING,
   functions : Seq([name : STRING, line : Nat]),
   classes : Seq([name : STRING, line : Nat]),
   imports : Seq(STRING),
   calls : Seq([caller : STRING, callee : STRING, line : Nat]),
   references : Seq([symbol : STRING, line : Nat]),
   impls : Seq([trait : STRING, type : STRING, line : Nat])]

\* The elements at some places of a sequence, in their order.
Picked(seq, places) ==
  LET picked[n \in 0..Len(seq)] ==
        IF n = 0 THEN << >>
        ELSE IF n \in places THEN Append(picked[n - 1], seq[n]) ELSE picked[n - 1]
  IN  picked[Len(seq)]

\* The places where something new comes first.
Fresh(seq, old) ==
  {k \in DOMAIN seq : seq[k] \notin old \cup {seq[j] : j \in 1..(k - 1)}}

-----------------------------------------------------------------------------
Named(list) == {list[i].name : i \in DOMAIN list}

Defined(p) ==
  UNION {Named(p[i].functions) \cup Named(p[i].classes) : i \in DOMAIN p}

\* The name as it is written, or without its scope, or as it is written.
ResolveCallee(p, callee) ==
  IF callee \notin Defined(p) /\ Bare[callee] \in Defined(p)
  THEN Bare[callee]
  ELSE callee

-----------------------------------------------------------------------------
(* Both maps are kept as sequences of edges that name their key: an edge   *)
(* belongs to the list of `of`, and the order of each list is theirs.      *)

Edge(of, neighbor, path, line, impl) ==
  [of |-> of, neighbor |-> neighbor, path |-> path, line |-> line, impl |-> impl]

CalleesOf(p, f) ==
  [j \in DOMAIN f.calls |->
     Edge(f.calls[j].caller, ResolveCallee(p, f.calls[j].callee),
          f.path, f.calls[j].line, FALSE)]

CallersOf(p, f) ==
  [j \in DOMAIN f.calls |->
     Edge(ResolveCallee(p, f.calls[j].callee), f.calls[j].caller,
          f.path, f.calls[j].line, FALSE)]
  \o [j \in DOMAIN f.references |->
     Edge(f.references[j].symbol, "<reference>",
          f.path, f.references[j].line, FALSE)]

\* An implementing type counts as a caller of the trait.
Implementors(f) ==
  [j \in DOMAIN f.impls |->
     Edge(f.impls[j].trait, f.impls[j].type, f.path, f.impls[j].line, TRUE)]

\* build_from_results, without the filter of impl_only.
CallGraph(p) ==
  [defined |-> Defined(p),
   callees |-> FlattenSeq([i \in DOMAIN p |-> CalleesOf(p, p[i])]),
   callers |-> FlattenSeq([i \in DOMAIN p |-> CallersOf(p, p[i])])
               \o FlattenSeq([i \in DOMAIN p |-> Implementors(p[i])])]

Keys(edges) == {edges[i].of : i \in DOMAIN edges}
Adjacent(edges, name) == Picked(edges, {i \in DOMAIN edges : edges[i].of = name})

Known(g) == g.defined \cup Keys(g.callers) \cup Keys(g.callees)

\* resolve_symbol: a request stands for the names its match mode accepts,
\* and the symbol must be the only one of them the graph knows.
Matches(g, accepted) == accepted \cap Known(g)

\* The lists that are followed: the callees, or the callers that impl_only
\* leaves.
Followed(g, incoming, implOnly) ==
  IF incoming
  THEN Picked(g.callers, {i \in DOMAIN g.callers : implOnly => g.callers[i].impl})
  ELSE g.callees

\* The keys stay when impl_only empties their lists.
Searchable(g, incoming, symbol) ==
  \/ symbol \in g.defined
  \/ symbol \in Keys(IF incoming THEN g.callers ELSE g.callees)

-----------------------------------------------------------------------------
(* find_chains_bfs.                                                        *)

Place(name, e) == [name |-> name, path |-> e.path, line |-> e.line]

\* From a name along the first edge of every list, n edges at most.
FirstEdges(edges, name, n) ==
  LET hops[k \in 0..n] ==
        IF k = 0
        THEN << >>
        ELSE LET at == IF hops[k - 1] = << >> THEN name
                                              ELSE Last(hops[k - 1]).name
                 out == Adjacent(edges, at)
             IN  IF out = << >>
                 THEN hops[k - 1]
                 ELSE Append(hops[k - 1], Place(out[1].neighbor, out[1]))
  IN  hops[n]

\* The chain of an edge found at depth d: the node it was found at, the way
\* on from its neighbour, the neighbour; backwards for callers.
Chain(edges, incoming, e, left) ==
  LET chain == <<Place(e.of, e)>> \o FirstEdges(edges, e.neighbor, left)
                                  \o <<Place(e.neighbor, e)>>
  IN  IF incoming THEN Reverse(chain) ELSE chain

\* The edges of all the lists of some names.
EdgesOf(edges, names) ==
  FlattenSeq([i \in DOMAIN names |-> Adjacent(edges, names[i])])

\* Bug: a neighbour is queued again whenever it is met.
QueueAgain(names, visited) == DOMAIN names

\* A neighbour is queued when it is met for the first time.
Queue(names, visited) == Fresh(names, visited)

\* One chain for every edge of every node within the depth, level by level;
\* nothing is queued beyond the depth.
Chains(edges, incoming, symbol, depth) ==
  LET Expand(d, level) ==
        LET met == EdgesOf(edges, level.queue)
            names == [k \in DOMAIN met |-> met[k].neighbor]
            queue == IF d < depth THEN Picked(names, Queue(names, level.visited)) ELSE << >>
        IN  [queue |-> queue, visited |-> level.visited \cup ToSet(queue),
             chains |-> level.chains \o
               [k \in DOMAIN met |-> Chain(edges, incoming, met[k], depth - d)]]
      level[d \in 0..depth] ==
        Expand(d, IF d = 0
                  THEN [queue |-> <<symbol>>, visited |-> {symbol}, chains |-> << >>]
                  ELSE level[d - 1])
  IN  level[depth].chains

\* Callers are split by where and what the first of their chain is.
FromTest(chain) == chain[1].path \in TestPaths \/ chain[1].name \in TestNames
=============================================================================
