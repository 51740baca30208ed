-------------------------------- MODULE MCGraph --------------------------------
(* Small instances of GraphQueries: two files that both define f, and up to  *)
(* seven calls between their functions.                                      *)
EXTENDS GraphQueries, TLC

MCBare == [n \in {"f", "g", "h", "T", "x", "T::f", "T::x"} |->
             CASE n = "T::f" -> "f" [] n = "T::x" -> "x" [] OTHER -> n]

Call(caller, callee, line) == [caller |-> caller, callee |-> callee, line |-> line]

Itself == Call("h", "h", 8)

\* The files without the calls that are left out.
FileA(calls) ==
  [path |-> "a.rs", imports |-> <<"b", "">>,
   functions |-> <<[name |-> "f", line |-> 2], [name |-> "g", line |-> 6]>>,
   classes |-> <<[name |-> "T", line |-> 9]>>,
   calls |-> SelectSeq(<<Call("f", "g", 3), Call("g", "T::f", 7), Call("g", "T::x", 8)>>,
                       LAMBDA c : c \in calls),
   references |-> <<[symbol |-> "g", line |-> 1]>>,
   impls |-> <<[trait |-> "h", type |-> "T", line |-> 9]>>]

FileB(calls) ==
  [path |-> "tests/b.rs", imports |-> << >>,
   functions |-> <<[name |-> "f", line |-> 5], [name |-> "h", line |-> 6]>>,
   classes |-> << >>,
   calls |-> SelectSeq(<<Call("f", "h", 5), Call("h", "g", 6), Call("h", "f", 7), Itself>>,
                       LAMBDA c : c \in calls),
   references |-> << >>,
   impls |-> << >>]

CallsA == {Call("f", "g", 3), Call("g", "T::f", 7), Call("g", "T::x", 8)}
CallsB == {Call("f", "h", 5), Call("h", "g", 6), Call("h", "f", 7)}

MCPrograms ==
  {<<FileA(a), FileB(b)>> : a \in SUBSET CallsA, b \in SUBSET CallsB}
  \cup {<<FileA(CallsA), FileB(b \cup {Itself})>> : b \in SUBSET CallsB}

SymbolRequest(accepts, depth, implOnly, summary, sites, long) ==
  [accepts |-> accepts, depth |-> depth, implOnly |-> implOnly,
   summary |-> summary, sites |-> sites, long |-> long]

MCSites == <<"write", "write_read", "read">>

MCSymbolRequests ==
  {SymbolRequest({s}, d, FALSE, "unset", << >>, FALSE) : s \in {"f", "g", "h", "x"}, d \in 0..2}
  \cup {SymbolRequest({"f"}, 3, FALSE, "unset", << >>, FALSE),
        SymbolRequest({"h"}, 1, TRUE, "unset", << >>, FALSE),
        SymbolRequest({"g"}, 1, FALSE, "true", MCSites, FALSE),
        SymbolRequest({"g"}, 1, FALSE, "unset", MCSites, FALSE),
        SymbolRequest({"g"}, 1, FALSE, "unset", MCSites, TRUE),
        SymbolRequest({"g"}, 1, FALSE, "false", << >>, TRUE),
        SymbolRequest({"T::x"}, 1, FALSE, "unset", MCSites, FALSE),
        SymbolRequest({"f", "x"}, 1, FALSE, "unset", << >>, FALSE)}

GraphRequest(kind, symbols, depth, maxNodes, format) ==
  [kind |-> kind, symbols |-> symbols, depth |-> depth,
   maxNodes |-> maxNodes, format |-> format]

MCGraphRequests ==
  {GraphRequest("blast-radius", <<s>>, d, 0, "json") : s \in {"f", "g", "h"}, d \in 0..2}
  \cup {GraphRequest("subgraph", <<s>>, 0, 0, "json") : s \in {"h", "x"}}
  \cup {GraphRequest("bidirectional", s, d, m, "json") :
          s \in {<<"f">>, <<"h", "x", "f">>, <<"g", "g">>}, d \in 1..2, m \in {2, 9}}
  \cup {GraphRequest("blast-radius", <<"f">>, 3, 0, "json"),
        GraphRequest("bidirectional", << >>, 1, 1, "json"),
        GraphRequest("bidirectional", <<"f">>, 2, 9, "text"),
        GraphRequest("subgraph", <<"f">>, 0, 0, "text"),
        GraphRequest("subgraph", <<"x">>, 0, 0, "text")}
===============================================================================
