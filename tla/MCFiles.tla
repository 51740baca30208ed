------------------------------- MODULE MCFiles -------------------------------
(* Files of up to four lines, with up to three functions and two classes     *)
(* whose lines nest or follow each other, and may share a line at their ends.*)
EXTENDS FileAnswers

Span(line, end) == [line |-> line, end |-> end]

FunctionLists ==
  LET spans == <<Span(1, 1), Span(1, 3), Span(2, 2), Span(2, 3), Span(3, 4), Span(4, 4)>>
  IN  {SelectSeq(spans, LAMBDA f : f \in S) : S \in {T \in SUBSET ToSet(spans) : Cardinality(T) <= 3}}

Class(name, line, end) == [name |-> name, line |-> line, end |-> end]

ClassLists ==
  {<<>>, <<Class("A", 1, 3), Class("A", 4, 4)>>, <<Class("A", 1, 3), Class("B", 2, 2)>>}
  \cup {<<Class("A", s[1], s[2])>> : s \in {<<1, 3>>, <<1, 4>>, <<3, 4>>}}

ImplLists == {<<>>, <<[type |-> "A", function |-> Span(4, 4)]>>}

MCFile ==
  [kind : {"source"}, functions : FunctionLists, classes : ClassLists, impls : ImplLists,
   imports : {TRUE}, long : BOOLEAN]
  \cup [kind : {"unsupported", "unreadable", "directory"}, functions : {<<>>}, classes : {<<>>},
        impls : {<<>>}, imports : {FALSE}, long : BOOLEAN]

FileRequests ==
  [tool : {"analyze_file"}, file : MCFile, fields : {{}, {"functions"}, {"classes", "imports"}},
   summary : {"unset", "true", "false"}, cursor : {NoCursor}, read : {<<>>}, walk : {TRUE}]
  \cup [tool : {"analyze_file"}, file : {f \in MCFile : Len(f.functions) = 2}, fields : {{}},
        summary : {"unset", "true"}, cursor : {BadCursor, Mark(1), Mark(3)}, read : {<<>>}, walk : {FALSE}]
==============================================================================
