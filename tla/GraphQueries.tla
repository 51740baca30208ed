----------------------------- MODULE GraphQueries -----------------------------
(***************************************************************************)
(* Clients that read the graph of a directory page by page: the callers,   *)
(* callees and sites of a symbol (tools/analyze_symbol.rs,                 *)
(* tools/symbol_focused.rs) and the graph resources (tools/resources.rs).  *)
(*                                                                         *)
(* The server keeps nothing about a client: a page is asked for with the   *)
(* cursor of the page before, and everything is computed again.  The files *)
(* stay as they are here, but the structural graph a resource is read from *)
(* may be evicted and built again between two pages, with its edges in an  *)
(* order of their own.                                                     *)
(***************************************************************************)
EXTENDS StructuralGraph, FocusText

CONSTANTS
  Programs,        \* what the directory may hold
  SymbolRequests,  \* analyze_symbol requests
  GraphRequests,   \* graph resources
  ChainPage,       \* ANALYZE_SYMBOL_PAGE_SIZE
  NodePage,        \* PAGE_SIZE
  MaxToolDepth,    \* MAX_TOOL_DEPTH
  MaxGraphDepth    \* MAX_GRAPH_DEPTH

CONSTANTS NoGraph, NoCursor

\* The text of a client that has been given none.
NoText == [kind |-> "none"]

ASSUME GraphAssumption ==
  /\ SymbolRequests \subseteq
       [accepts : SUBSET DOMAIN Bare, depth : Nat, implOnly : BOOLEAN,
        summary : {"true", "false", "unset"},
        \* the def-use sites found, with mode=def_use
        sites : Seq({"write", "write_read", "read"}),
        long : BOOLEAN]    \* whether the text is over SIZE_LIMIT
  /\ GraphRequests \subseteq
       [kind : {"blast-radius", "subgraph", "bidirectional"},
        symbols : Seq(DOMAIN Bare), depth : Nat, maxNodes : Nat,
        format : {"json", "text"}]
  /\ Programs \subseteq Seq(ParsedFile)
  /\ NoCursor \notin {"callers", "callees", "sites"} \X Nat
  /\ ChainPage \in Nat \ {0}
  /\ NodePage \in Nat \ {0}
  /\ MaxToolDepth \in Nat
  /\ MaxGraphDepth \in Nat

VARIABLES
  program,   \* the parsed files
  stored,    \* the structural graph in the disk store, or NoGraph
  walk       \* the client: what it asked, the answer, what it has read

vars == <<program, stored, walk>>

Idle == [kind |-> "idle"]

Init ==
  /\ program \in Programs
  /\ stored = NoGraph
  /\ walk = Idle

-----------------------------------------------------------------------------
(* analyze_symbol.                                                         *)

Graph == CallGraph(program)

\* compute_chains: production and test callers, and callees.
Around(r, symbol, depth) ==
  LET incoming == Chains(Followed(Graph, TRUE, r.implOnly), TRUE, symbol, depth)
      tests == {i \in DOMAIN incoming : FromTest(incoming[i])}
  IN  [callers |-> Picked(incoming, DOMAIN incoming \ tests),
       tests |-> Picked(incoming, tests),
       callees |-> Chains(Graph.callees, FALSE, symbol, depth)]

\* The fields beside the text are of depth 1 at most.
Near(r, symbol) == Around(r, symbol, IF r.depth <= 1 THEN r.depth ELSE 1)

AnswerFrom(r, symbol, around, near) ==
  [known |-> TRUE, symbol |-> symbol,
   callers |-> around.callers, tests |-> around.tests, callees |-> around.callees,
   sites |-> r.sites, defined |-> Definitions(program, symbol),
   filter |-> FilterCounts(Graph, symbol, r.implOnly),
   fields |-> [callers |-> Entries(near.callers), tests |-> Entries(near.tests),
               callees |-> Entries(near.callees)]]

Found(r) ==
  LET symbol == CHOOSE s \in Matches(Graph, r.accepts) : TRUE
  IN  AnswerFrom(r, symbol, Around(r, symbol, r.depth), Near(r, symbol))

\* A name the graph lacks may still have def-use sites.
OnlySites(r) ==
  [known |-> FALSE, callers |-> << >>, tests |-> << >>, callees |-> << >>,
   sites |-> r.sites, defined |-> {}, filter |-> << >>,
   fields |-> [callers |-> << >>, tests |-> << >>, callees |-> << >>]]

\* One symbol, that is searchable both ways.
Answerable(r) ==
  \E s \in Matches(Graph, r.accepts) :
    /\ Matches(Graph, r.accepts) = {s}
    /\ Searchable(Graph, TRUE, s)
    /\ Searchable(Graph, FALSE, s)

Listed(answer, mode) ==
  CASE mode = "callers" -> Len(answer.callers)
    [] mode = "callees" -> Len(answer.callees)
    [] mode = "sites" -> Len(answer.sites)

\* The text is in full, but for the summary a client asks for or a long text
\* is replaced by, and the text about a name that only has sites.
Texts(w) ==
  IF ~w.answer.known THEN {SitesText(w.answer)}
  ELSE IF w.request.summary = "true" \/ w.request.long THEN Summaries(w.answer)
  ELSE {FullText(w.answer)}

PageText(answer, mode, first, last) ==
  IF mode = "sites"
  THEN SitesPageText(answer.sites, first, last)
  ELSE ChainPageText(answer, mode, SubSeq(answer[mode], first, last), first)

\* paginate_slice: whether there is a page after the one at the offset.
More(total, offset) == offset + ChainPage < total

\* Bug: the callees are announced after every page, their own last one too.
CalleesFollowAlways(w, mode) == w.answer.callees # << >>

\* Bug: callees that fit one page are not announced after the callers.
CalleesFollowLate(w, mode) == mode = "callers" /\ Len(w.answer.callees) > ChainPage

CalleesFollow(w, mode) == mode = "callers" /\ w.answer.callees # << >>

SitesFollow(w, mode) ==
  /\ w.answer.sites # << >>
  /\ mode = "callees" \/ (mode = "callers" /\ w.answer.callees = << >>)

\* The list that follows one that is read to its end.
NextList(w, mode) ==
  IF w.request.summary # "true" /\ CalleesFollow(w, mode)
  THEN <<"callees", 0>>
  ELSE IF w.request.summary # "true" /\ SitesFollow(w, mode)
       THEN <<"sites", 0>>
       ELSE NoCursor

\* apply_call_graph_pagination: whether a page replaces the text.
Replaced(w, mode, offset) ==
  LET summary == w.request.summary = "true"
      more == More(Listed(w.answer, mode), offset)
  IN  \/ /\ mode = "callers" /\ ~summary
         /\ more \/ offset > 0 \/ w.answer.callees # << >>
      \/ mode = "callees" /\ (more \/ offset > 0)
      \/ mode = "sites" /\ ~summary

\* One call of the walk: a page, or the text, and the next cursor.
WithPage(w, mode, offset, end) ==
  [w EXCEPT !.pages = Append(@, PageText(w.answer, mode, offset + 1, end)),
            !.cursor = IF end < Listed(w.answer, mode) THEN <<mode, end>>
                                                       ELSE NextList(w, mode)]

WithText(w, mode, text) ==
  [w EXCEPT !.text = text, !.cursor = NextList(w, mode)]

PageEnd(total, offset) == IF More(total, offset) THEN offset + ChainPage ELSE total

Paged(w) ==
  LET mode == w.cursor[1]
      offset == w.cursor[2]
  IN  IF Replaced(w, mode, offset)
      THEN {WithPage(w, mode, offset, PageEnd(Listed(w.answer, mode), offset))}
      ELSE {WithText(w, mode, text) : text \in Texts(w)}

\* The structural graph is found in a cache, or built and stored.
Builds == \E order \in Orders(program) : stored' = Build(program, order)

Refused(kind) == [kind |-> "refused", of |-> kind]

Asked(r, answer) ==
  [kind |-> "symbol", request |-> r, answer |-> answer, cursor |-> <<"callers", 0>>,
   pages |-> << >>, text |-> NoText]

\* Bad parameters are refused before anything is read, a missing symbol and
\* a long text only after the graph is stored.
AskSymbol(r) ==
  /\ walk = Idle
  /\ \/ /\ r.depth > MaxToolDepth
        /\ walk' = Refused("symbol")
        /\ UNCHANGED stored
     \/ /\ r.depth <= MaxToolDepth
        /\ \/ /\ Answerable(r)
              /\ ~(r.long /\ r.summary = "false")
              /\ walk' \in Paged(Asked(r, Found(r)))
           \/ /\ Matches(Graph, r.accepts) = {}
              /\ r.sites # << >>
              /\ walk' \in Paged(Asked(r, OnlySites(r)))
           \/ /\ ~Answerable(r)
              /\ Matches(Graph, r.accepts) # {} \/ r.sites = << >>
              /\ walk' = Refused("symbol")
           \/ /\ Answerable(r)
              /\ r.long /\ r.summary = "false"
              /\ walk' = Refused("symbol")
        /\ UNCHANGED stored \/ Builds
  /\ UNCHANGED program

\* The client calls again with the cursor it was given.
NextPage ==
  /\ walk.kind = "symbol"
  /\ walk.cursor # NoCursor
  /\ walk' \in Paged(walk)
  /\ UNCHANGED stored \/ Builds
  /\ UNCHANGED program

-----------------------------------------------------------------------------
(* The graph resources.                                                    *)

\* parse_graph_uri.
BadRequest(q) ==
  \/ q.kind # "subgraph" /\ q.depth > MaxGraphDepth
  \/ q.kind = "bidirectional" /\ (q.symbols = << >> \/ q.depth = 0 \/ q.maxNodes = 0)

\* The nodes of a query, in the order of its answer.
Selected(g, q) ==
  IF q.kind = "bidirectional"
  THEN Bidirectional(Len(g.nodes), CallsOf(g), FindSymbols(g, q.symbols), q.maxNodes, q.depth)
  ELSE Frontier([n \in DOMAIN g.nodes |-> Neighbors(g, n)], Min(Bucket(g.nodes, q.symbols[1])),
                IF q.kind = "subgraph" THEN 2 ELSE q.depth)

SymbolMissing(g, q) ==
  q.kind # "bidirectional" /\ Bucket(g.nodes, q.symbols[1]) = {}

Slice(nodes, offset) ==
  SubSeq(nodes, offset + 1,
         IF offset + NodePage < Len(nodes) THEN offset + NodePage ELSE Len(nodes))

\* Bug: edges keep the places their nodes have in the whole answer.
PageEdgesUnshifted(g, nodes, offset) ==
  LET page == Slice(nodes, offset)
      at(n) == CHOOSE i \in DOMAIN nodes : nodes[i] = n
  IN  {[source |-> at(l.from), target |-> at(l.to), kind |-> l.kind] :
       l \in Induced(g, ToSet(page))}

\* Edges refer to their nodes by the places these have on the page.
PageEdges(g, nodes, offset) ==
  LET page == Slice(nodes, offset)
      at(n) == CHOOSE i \in DOMAIN page : page[i] = n
  IN  {[source |-> at(l.from), target |-> at(l.to), kind |-> l.kind] :
       l \in Induced(g, ToSet(page))}

\* read_resource: the page at the offset, of the graph now in the store.
Read(w) ==
  IF stored = NoGraph \/ SymbolMissing(stored, w.query)
  THEN Refused("graph")
  ELSE LET nodes == Selected(stored, w.query)
           page == Slice(nodes, w.offset)
           end == w.offset + Len(page)
       IN  [w EXCEPT
             !.pages = Append(@, [nodes |-> page,
                                  edges |-> PageEdges(stored, nodes, w.offset)]),
             !.offset = end,
             !.more = end < Len(nodes)]

\* The whole answer as text, without pages.
ReadText(w) ==
  IF stored = NoGraph \/ SymbolMissing(stored, w.query)
  THEN Refused("graph")
  ELSE [w EXCEPT !.text = Rendered(stored, ToSet(Selected(stored, w.query)))]

AskGraph(q) ==
  /\ walk = Idle
  /\ LET w == [kind |-> "graph", query |-> q, offset |-> 0, pages |-> << >>,
               more |-> FALSE, text |-> << >>]
     IN  walk' = IF BadRequest(q) THEN Refused("graph")
                 ELSE IF q.format = "text" THEN ReadText(w)
                 ELSE Read(w)
  /\ UNCHANGED <<program, stored>>

\* The client reads on with the cursor it was given.
ReadOn ==
  /\ walk.kind = "graph"
  /\ walk.more
  /\ walk' = Read(walk)
  /\ UNCHANGED <<program, stored>>

\* A client's call that finds no graph in the caches, whatever comes of it.
Rebuild ==
  /\ Builds
  /\ UNCHANGED <<program, walk>>

\* The store is full, or the entry unreadable.
Evict ==
  /\ stored # NoGraph
  /\ stored' = NoGraph
  /\ UNCHANGED <<program, walk>>

Next ==
  \/ \E r \in SymbolRequests : AskSymbol(r)
  \/ NextPage
  \/ \E q \in GraphRequests : AskGraph(q)
  \/ ReadOn
  \/ Rebuild
  \/ Evict

Spec == Init /\ [][Next]_vars

-----------------------------------------------------------------------------
(* Properties.                                                             *)

\* The nodes within k steps along the pairs, for each k up to n.
Within(pairs, starts, n) ==
  LET within[k \in 0..n] ==
        IF k = 0
        THEN starts
        ELSE within[k - 1] \cup {e[2] : e \in {d \in pairs : d[1] \in within[k - 1]}}
  IN  within

Swap(pairs) == {<<e[2], e[1]>> : e \in pairs}

SymbolWalk == walk.kind = "symbol"
GraphWalk == walk.kind = "graph"

\* The chains of an answer are those of the edges that leave the names
\* within the depth: one for each, that begins at the edge and ends at its
\* other end, and none is longer than the assertion in the code allows.
ChainsExact ==
  SymbolWalk /\ walk.answer.known =>
    LET depth == walk.request.depth
        symbol == walk.answer.symbol
        out == Graph.callees
        in == Followed(Graph, TRUE, walk.request.implOnly)
        near(edges) == Within({<<e.of, e.neighbor>> : e \in ToSet(edges)}, {symbol}, depth)[depth]
        count(edges, e) == Cardinality({i \in DOMAIN edges : edges[i] = e})
        ends(c) == <<c[1], c[Len(c)]>>
        callees == walk.answer.callees
        callers == walk.answer.callers \o walk.answer.tests
    IN  /\ \A e \in ToSet(out) :
             Cardinality({i \in DOMAIN callees :
                            ends(callees[i]) = <<Place(e.of, e), Place(e.neighbor, e)>>})
             = IF e.of \in near(out) THEN count(out, e) ELSE 0
        /\ \A e \in ToSet(in) :
             Cardinality({i \in DOMAIN callers :
                            ends(callers[i]) = <<Place(e.neighbor, e), Place(e.of, e)>>})
             >= IF e.of \in near(in) THEN count(in, e) ELSE 0
        /\ Len(callees) = Cardinality({i \in DOMAIN out : out[i].of \in near(out)})
        /\ Len(callers) = Cardinality({i \in DOMAIN in : in[i].of \in near(in)})
        /\ \A c \in ToSet(callees) \cup ToSet(callers) : Len(c) <= depth + 2

\* The texts a client has been given.
Given == walk.pages \o (IF walk.text = NoText THEN << >> ELSE <<walk.text>>)

\* How many chains of a list a text shows under two names.
Shown(text, mode, b) ==
  LET tree == IF text.kind = "full" THEN text[mode]
              ELSE IF text.kind = "page" /\ text.mode = mode THEN text.tree
              ELSE [x \in {} |-> 0]
  IN  IF b \in DOMAIN tree THEN tree[b] ELSE 0

Told(mode, b) ==
  LET told[n \in 0..Len(Given)] ==
        IF n = 0 THEN 0 ELSE told[n - 1] + Shown(Given[n], mode, b)
  IN  told[Len(Given)]

ToldSites ==
  UNION {text.written \cup text.readOnly :
         text \in {x \in ToSet(Given) : x.kind = "full" \/ (x.kind = "page" /\ x.mode = "sites")}}

Times(chains, b) == Cardinality({i \in DOMAIN chains : Branch(chains[i]) = b})

\* A client that follows the cursors to the end without being given a
\* summary has been told of every caller, callee and site: each chain is
\* counted on a page or in the text under the names it begins with, each
\* site is listed, and no page goes over what an earlier one did
\* (handle_call_graph, analyze_symbol.rs:650-691, against what
\* apply_call_graph_pagination puts in the place of the text).
WalkShowsAll ==
  SymbolWalk =>
    /\ \A i, j \in DOMAIN walk.pages :
         i < j /\ walk.pages[i].mode = walk.pages[j].mode => walk.pages[i].last < walk.pages[j].first
    /\ walk.cursor = NoCursor /\ walk.request.summary # "true" /\ ~walk.request.long =>
         /\ \A mode \in {"callers", "callees"} : \A chain \in ToSet(walk.answer[mode]) :
              Told(mode, Branch(chain)) >= Times(walk.answer[mode], Branch(chain))
         /\ DOMAIN walk.answer.sites \subseteq ToldSites

\* The field callees names what the symbol itself calls ("Direct (depth-1)
\* callees", analyze.rs:597).
CalleesDirect ==
  SymbolWalk /\ walk.answer.known =>
    \A place \in ToSet(walk.answer.fields.callees) :
      \E e \in ToSet(Graph.callees) : e.of = walk.answer.symbol /\ e.neighbor = place.name

ListNumber(mode) ==
  CASE mode = "callers" -> 1 [] mode = "callees" -> 2 [] mode = "sites" -> 3

\* Following cursors comes to an end: each leads further down the same list
\* or to the beginning of a later one.
CursorsAdvance ==
  [][SymbolWalk /\ walk'.cursor # NoCursor =>
       \/ ListNumber(walk'.cursor[1]) > ListNumber(walk.cursor[1])
       \/ walk'.cursor[1] = walk.cursor[1] /\ walk'.cursor[2] > walk.cursor[2]]_walk

\* How a definition competes for a call: file first, line next, order last.
Rank(nodes, k, path, line) ==
  <<IF nodes[k].path = path THEN 0 ELSE 1, Apart(nodes[k].line, line), k>>

Beats(a, b) ==
  \/ a[1] < b[1]
  \/ a[1] = b[1] /\ a[2] < b[2]
  \/ a[1] = b[1] /\ a[2] = b[2] /\ a[3] < b[3]

\* The call edges of a stored graph are exactly the calls with both ends
\* defined, each between the definitions that rank first for it, whatever
\* order the callers were taken in.
CallsResolved ==
  stored # NoGraph =>
    LET nodes == stored.nodes
        best(name, e) ==
          {k \in Bucket(nodes, name) : \A j \in Bucket(nodes, name) \ {k} :
             Beats(Rank(nodes, k, e.path, e.line), Rank(nodes, j, e.path, e.line))}
        calls == Picked(stored.links, {i \in DOMAIN stored.links : stored.links[i].kind = "calls"})
    IN  /\ {<<l.from, l.to>> : l \in ToSet(calls)} =
             UNION {best(e.of, e) \X best(e.neighbor, e) : e \in ToSet(Graph.callees)}
        /\ IsInjective(calls)

\* A graph of the program, to measure distances in.
Reference == Build(program, CHOOSE order \in Orders(program) : TRUE)

StartNodes(g, q) ==
  IF q.kind = "bidirectional"
  THEN ToSet(Upto(Distinct(FindSymbols(g, q.symbols)), q.maxNodes))
  ELSE {Min(Bucket(g.nodes, q.symbols[1]))}

Steps(g, q) ==
  IF q.kind = "bidirectional"
  THEN LET calls == {<<l.from, l.to>> : l \in CallsOf(g)}
       IN  calls \cup Swap(calls)
  ELSE {<<l.from, l.to>> : l \in ToSet(g.links)}

Radius(q) == IF q.kind = "subgraph" THEN 2 ELSE q.depth
Collected(w) == FlattenSeq([i \in DOMAIN w.pages |-> w.pages[i].nodes])

\* A client that reads a graph to its last page has got the nodes within the
\* depth, each once and nearest first, or the first maxNodes of them, though
\* the graph was evicted and built again in between.
GraphWalkExact ==
  GraphWalk /\ walk.query.format = "json" =>
    LET nodes == Collected(walk)
        q == walk.query
        ref == Reference
        starts == StartNodes(ref, q)
        steps == Steps(ref, q)
        within == Within(steps, starts, Radius(q))
        ball == within[Radius(q)]
        \* The nearer of two nodes is met first.
        inner(n) == UNION {within[d] : d \in {k \in 0..Radius(q) : n \notin within[k]}}
    IN  /\ IsInjective(nodes)
        /\ ToSet(nodes) \subseteq ball
        /\ \A i \in DOMAIN nodes :
             inner(nodes[i]) \subseteq ToSet(SubSeq(nodes, 1, i - 1))
        /\ ~walk.more =>
             IF q.kind = "bidirectional"
             THEN Len(nodes) = Min({Cardinality(ball), q.maxNodes})
             ELSE ToSet(nodes) = ball

\* The edges of a page are the edges of the program between its nodes.
PagesInduced ==
  GraphWalk =>
    \A i \in DOMAIN walk.pages :
      LET page == walk.pages[i].nodes
      IN  /\ \A e \in walk.pages[i].edges : {e.source, e.target} \subseteq DOMAIN page
          /\ {<<page[e.source], page[e.target], e.kind>> : e \in walk.pages[i].edges}
               = {<<l.from, l.to, l.kind>> :
                  l \in Induced(Reference, ToSet(page))}
=============================================================================
