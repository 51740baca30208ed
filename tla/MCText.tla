-------------------------------- MODULE MCText --------------------------------
(* The requests of the tools that are functions of their arguments and of    *)
(* the files they read.                                                      *)
EXTENDS TextTools, TLC

Texts(chars, max) == UNION {[1..n -> chars] : n \in 0..max}

(* Every text of up to four characters, and every old_text of up to two.     *)
Char == {"a", "sp", "cr", "nl"}

BlockRequests ==
  [tool : {"edit_block"}, content : Texts(Char, 4), old : Texts(Char, 2),
   new : {<<"N">>}, all : BOOLEAN]

BatchRequests ==
  {[tool |-> "edit_batch", content |-> s,
    edits |-> <<[old |-> o, new |-> <<"N">>, all |-> FALSE],
                [old |-> p, new |-> <<"M">>, all |-> b]>>] :
     s \in Texts(Char, 3), o \in Texts(Char \ {"cr"}, 2),
     p \in Texts(Char \ {"cr"}, 2), b \in BOOLEAN}

(* The server runs in /srv, which holds a directory d with a directory d, a  *)
(* file f, a link l to d and a link m to a file outside.                     *)
MCfs ==
  LET dir == [kind |-> "dir"]  file == [kind |-> "file"]
  IN  (<<>> :> dir @@ <<"srv">> :> dir @@ <<"srv", "f">> :> file
       @@ <<"srv", "d">> :> dir @@ <<"srv", "d", "f">> :> file
       @@ <<"srv", "d", "d">> :> dir
       @@ <<"srv", "l">> :> [kind |-> "link", to |-> <<"srv", "d">>]
       @@ <<"srv", "m">> :> [kind |-> "link", to |-> <<"out">>]
       @@ <<"srv", "n">> :> [kind |-> "link", to |-> <<"srv", "d", "d">>]
       @@ <<"out">> :> file)

Args == [abs : {FALSE}, names : Texts({"f", "d", "l", "m", "new", ".."}, 2)]
        \cup {[abs |-> TRUE, names |-> <<"srv">> \o n] : n \in Texts({"f", "d", "l", ".."}, 1)}

PathRequests ==
  [tool : {"edit_path"}, fs : {MCfs}, cwd : {<<"srv">>}, path : Args,
   dir : {<<>>} \cup {<<arg>> : arg \in Args}, mustExist : BOOLEAN]

(* Ways back: out of a directory, a missing one, and two links, of which n   *)
(* leads deeper than where it is.                                            *)
BackArgs == {[abs |-> b, names |-> <<"srv", d, "..">> \o t] :
               b \in BOOLEAN, d \in {"d", "l", "n", "new"}, t \in {<<>>, <<"d">>, <<"..">>}}

CdRequests ==
  [tool : {"exec_command"}, fs : {MCfs}, cwd : {<<"srv">>},
   cd : {<<>>} \cup {<<arg>> : arg \in Args \cup BackArgs}, text : {"plain", "expanded", "other"},
   dir : {<<>>} \cup {<<arg>> : arg \in {a \in Args : Len(a.names) < 2}},
   words : {<<"x">>, <<"git", "pull">>}, stdin : {0}]

Heads == Texts({"cat", "x", ">", ";", "-", "--data", "-a", "quote", "nl"}, 3)
         \cup {<<"printf", "x", "x", ">", "f">>, <<"x", ";", "cat", ">>", "f">>}
Tails == Texts({"nl", "E", "x", "<<", "quote", "escaped"}, 3)

Here(head, tail, n) ==
  [tool |-> "exec_command", fs |-> MCfs, cwd |-> <<"srv">>, cd |-> <<>>, text |-> "plain",
   dir |-> <<>>, words |-> head \o <<"<<", "E">> \o tail, stdin |-> n]

(* What stands before the first << and after its delimiter.                  *)
Around == (Heads \X {<<"nl", "x", "nl", "E">>})
          \cup ({<<"x">>, <<"escaped">>, <<"quote", "quote", "x">>} \X Tails)

HeredocRequests == {Here(p[1], p[2], n) : p \in Around, n \in 0..2}

(* Batches of up to three anchors in two files, of which one may be gone or  *)
(* behind a link by the time it is read.                                     *)
MCAnchor == [path : {[abs |-> FALSE, names |-> <<"f">>], [abs |-> FALSE, names |-> <<"l", "f">>]},
             line : 0..4, symbol : {<<>>, <<"s">>}]

Lines == {<<{"s"}, {}, {}, {"s"}>>, <<{}, {}, {"s"}>>, <<>>}

AnchorRequests ==
  [tool : {"verify_anchors"}, fs : {MCfs}, cwd : {<<"srv">>}, root : {[abs |-> FALSE, names |-> <<>>]},
   anchors : {<<>>} \cup [1..2 -> MCAnchor] \cup {<<a, a, a>> : a \in MCAnchor},
   later : {MCfs, [MCfs EXCEPT ![<<"srv", "l">>] = [kind |-> "link", to |-> <<"out">>]]},
   text : {<<"srv", "f">> :> t @@ <<"srv", "d", "f">> :> <<{"s"}>> : t \in Lines}
          \cup {<<"srv", "d", "f">> :> <<{}, {"s"}>>}]

(* A package p with a subpackage q: p/__init__, p/m, p/q/__init__, p/q/m.    *)
MCPy == "__init__" :> "__init__.py" @@ "m" :> "m.py" @@ "q" :> "q.py" @@ "p" :> "p.py"
MCPrivate == {"_h"}
PyPaths == {<<"p", "__init__.py">>, <<"p", "m.py">>, <<"p", "q", "__init__.py">>, <<"p", "q", "m.py">>}

Tree(files) ==
  [p \in {<<>>, <<"p">>, <<"p", "q">>} \cup files |->
     IF p \in files THEN [kind |-> "file"] ELSE [kind |-> "dir"]]

MCImport == [module : {<<>>, <<"m">>, <<"q">>, <<"q", "m">>}, dots : 0..3, items : {{"*"}, {"f"}}]

Exports == {[imports |-> <<>>, defs |-> {"f", "_h"}, others |-> {}, all |-> <<>>],
            [imports |-> <<>>, defs |-> {"f"}, others |-> {"k", "_h"}, all |-> <<>>],
            [imports |-> <<>>, defs |-> {"g"}, others |-> {"k"}, all |-> <<{"_h", "g"}>>],
            [imports |-> <<>>, defs |-> {"g"}, others |-> {}, all |-> <<{}>>]}

ImportRequests ==
  UNION {{[tool |-> "wildcards", fs |-> Tree(files), file |-> p,
           text |-> [q \in files |-> IF q = p THEN [imports |-> <<i, j>>, defs |-> {}, others |-> {}, all |-> <<>>]
                                     ELSE e]] :
            p \in files, i \in MCImport, j \in {[module |-> <<"m">>, dots |-> 1, items |-> {"*"}]}, e \in Exports} :
         files \in SUBSET PyPaths}

LookupRequests ==
  {[tool |-> "import_lookup", asked |-> [module |-> a, dots |-> d],
    text |-> [q \in PyPaths |-> [imports |-> IF q = <<"p", "m.py">> THEN <<i>> ELSE <<>>]]] :
     a \in {<<"m">>, <<"f">>, <<"q", "m">>}, d \in 0..1, i \in MCImport}

MCRequests ==
  BlockRequests \cup BatchRequests \cup PathRequests \cup CdRequests
  \cup HeredocRequests \cup AnchorRequests \cup ImportRequests \cup LookupRequests

TextIdle == request = [tool |-> "none"] /\ answer = Unanswered
==============================================================================
