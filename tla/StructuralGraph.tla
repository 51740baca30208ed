---------------------------- MODULE StructuralGraph ----------------------------
(***************************************************************************)
(* The structural graph of a program (graph/structural.rs): how it is      *)
(* built from the call graph, and the queries on it.                       *)
(*                                                                         *)
(* Nodes are numbered in the order they are added, which is how the code   *)
(* breaks ties.  Edges are a sequence in the order they are added, because *)
(* petgraph hands out the neighbours of a node latest first.               *)
(***************************************************************************)
EXTENDS CallGraph, FiniteSetsExt

Node(kind, name, path, line) ==
  [kind |-> kind, name |-> name, path |-> path, line |-> line]

SymbolNodes(kind, f, list) ==
  [j \in DOMAIN list |-> Node(kind, list[j].name, f.path, list[j].line)]

ModuleNodes(f) ==
  LET named == Picked(f.imports, {j \in DOMAIN f.imports : f.imports[j] # ""})
  IN  [j \in DOMAIN named |-> Node("module", named[j], f.path, 0)]

\* build_nodes: a file, its functions, its classes and what it imports.
Nodes(p) ==
  FlattenSeq([i \in DOMAIN p |->
    <<Node("file", p[i].path, p[i].path, 0)>>
    \o SymbolNodes("function", p[i], p[i].functions)
    \o SymbolNodes("class", p[i], p[i].classes)
    \o ModuleNodes(p[i])])

Link(from, to, kind) == [from |-> from, to |-> to, kind |-> kind]

\* A file is linked to all the nodes added between it and the next file.
FileLinks(nodes) ==
  LET files == {k \in DOMAIN nodes : nodes[k].kind = "file"}
      parts == Picked([k \in DOMAIN nodes |-> k], DOMAIN nodes \ files)
  IN  [i \in DOMAIN parts |->
         Link(Max({j \in files : j < parts[i]}), parts[i],
              IF nodes[parts[i]].kind = "module" THEN "imports" ELSE "contains")]

\* symbol_index: the nodes of a name, in the order of their numbers.
Bucket(nodes, name) ==
  {k \in DOMAIN nodes :
     nodes[k].kind \in {"function", "class"} /\ nodes[k].name = name}

Apart(a, b) == IF a < b THEN b - a ELSE a - b

Closest(nodes, pool, line) ==
  {k \in pool : \A j \in pool :
     Apart(nodes[k].line, line) <= Apart(nodes[j].line, line)}

\* Bug: the nearest line wins over the same file.
ResolveByLine(nodes, pool, path, line) ==
  LET near == Closest(nodes, pool, line)
      local == {k \in near : nodes[k].path = path}
  IN  IF local = {} THEN near ELSE local

\* resolve_candidate: the same file first, then the nearest line.
Resolve(nodes, pool, path, line) ==
  LET local == {k \in pool : nodes[k].path = path}
  IN  Closest(nodes, IF local = {} THEN pool ELSE local, line)

\* Both ends of a call are resolved from the place of the call; the first
\* definition wins.
End(nodes, name, e) == Min(Resolve(nodes, Bucket(nodes, name), e.path, e.line))

CallLinks(nodes, edges) ==
  LET known == {k \in DOMAIN edges :
                  Bucket(nodes, edges[k].of) # {} /\ Bucket(nodes, edges[k].neighbor) # {}}
      calls == Picked(edges, known)
  IN  [k \in DOMAIN calls |->
         Link(End(nodes, calls[k].of, calls[k]), End(nodes, calls[k].neighbor, calls[k]), "calls")]

\* The nodes of the links.
Pairs(links) == [i \in DOMAIN links |-> <<links[i].from, links[i].to>>]

\* The callers come out of a HashMap, in an order of its own.
Orders(p) == SetToSeqs(Keys(CallGraph(p).callees))

\* from_call_graph: two nodes are linked once.
Build(p, order) ==
  LET nodes == Nodes(p)
      inner == FileLinks(nodes)
      calls == CallLinks(nodes, EdgesOf(CallGraph(p).callees, order))
  IN  [nodes |-> nodes,
       links |-> inner \o Picked(calls, Fresh(Pairs(calls), ToSet(Pairs(inner))))]

-----------------------------------------------------------------------------
(* Queries.                                                                *)

\* petgraph's neighbors: the targets of the edges from a node, latest first.
Neighbors(g, n) ==
  LET out == Picked(g.links, {i \in DOMAIN g.links : g.links[i].from = n})
  IN  Reverse([i \in DOMAIN out |-> out[i].to])

\* Bug: a node is visited from every neighbour.
VisitAgain(met, visited) == DOMAIN met

\* A node is visited when it is met for the first time.
Visit(met, visited) == Fresh(met, visited)

\* bfs_frontier, the start included.
Frontier(neighbors, start, depth) ==
  LET level[d \in 0..depth] ==
        IF d = 0
        THEN [found |-> <<start>>, next |-> <<start>>]
        ELSE LET last == level[d - 1]
                 met == FlattenSeq([i \in DOMAIN last.next |-> neighbors[last.next[i]]])
                 next == Picked(met, Visit(met, ToSet(last.found)))
             IN  [found |-> last.found \o next, next |-> next]
  IN  level[depth].found

\* find_symbols: the first node of each name that has one.
FindSymbols(g, names) ==
  LET found == Picked(names, {i \in DOMAIN names : Bucket(g.nodes, names[i]) # {}})
  IN  [i \in DOMAIN found |-> Min(Bucket(g.nodes, found[i]))]

CallsOf(g) == {l \in ToSet(g.links) : l.kind = "calls"}

\* Both ways along the calls, from the nodes of a set.
CallNeighbors(calls, S) ==
  {l.to : l \in {c \in calls : c.from \in S}} \cup {l.from : l \in {c \in calls : c.to \in S}}

Upto(seq, n) == SubSeq(seq, 1, IF n < Len(seq) THEN n ELSE Len(seq))

\* Each node once, where it comes first.
Distinct(seq) == Picked(seq, Fresh(seq, {}))

\* blast_radius_bidirectional: the new nodes of a level in the order of
\* their numbers, until maxNodes are found.
Bidirectional(size, calls, seeds, maxNodes, maxDepth) ==
  LET first == Upto(Distinct(seeds), maxNodes)
      level[d \in 0..maxDepth] ==
        IF d = 0
        THEN [found |-> first, next |-> first]
        ELSE LET last == level[d - 1]
                 new == CallNeighbors(calls, ToSet(last.next)) \ ToSet(last.found)
                 next == Upto(Picked([k \in 1..size |-> k], new), maxNodes - Len(last.found))
             IN  [found |-> last.found \o next, next |-> next]
  IN  level[maxDepth].found

\* The edges with both ends among the nodes.
Induced(g, nodes) ==
  {l \in ToSet(g.links) : l.from \in nodes /\ l.to \in nodes}

\* render_subgraph_text: the functions with the names of their callees and
\* callers among the nodes.
Rendered(g, nodes) ==
  LET calls == Induced(g, nodes) \cap CallsOf(g)
  IN  [n \in {k \in nodes : g.nodes[k].kind = "function"} |->
         [calls |-> {g.nodes[l.to].name : l \in {c \in calls : c.from = n}},
          callers |-> {g.nodes[l.from].name : l \in {c \in calls : c.to = n}}]]
=============================================================================
