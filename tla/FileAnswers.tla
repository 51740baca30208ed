----------------------------- MODULE FileAnswers -----------------------------
(***************************************************************************)
(* The answer of analyze_file and the walk of a client through its pages    *)
(* (tools/analyze_file.rs, formatter/pagination.rs, formatter/emit.rs and   *)
(* formatter/render.rs), from what the parser found in the file: functions, *)
(* classes and imports, with their lines.  Where the analysis comes from is *)
(* in FileCache.                                                            *)
(***************************************************************************)
EXTENDS TextRequest

CONSTANTS
  FunctionPage,  \* ANALYZE_FILE_PAGE_SIZE
  MethodLimit,   \* methods shown of a class (10)
  TopFunctions   \* functions named by a summary (10)

ASSUME FileAnswersAssumption ==
  FunctionPage \in Nat \ {0} /\ MethodLimit \in Nat \ {0} /\ TopFunctions \in Nat \ {0}

-----------------------------------------------------------------------------
(* analyze_file_from_bytes.  A file is                                       *)
(*   kind       "source", "unsupported", "unreadable" or "directory"         *)
(*   functions  its functions, methods among them, in the order of the text  *)
(*   classes    its classes likewise: [name, line, end]                      *)
(*   impls      the functions of impl blocks: [type, function]               *)
(*   imports    whether it imports anything                                  *)
(*   long       whether all of this takes more than SIZE_LIMIT characters    *)
(* A request also has the texts a walk has read, and whether it is a walk.   *)
Function == [line : Nat, end : Nat]

File ==
  [kind : {"source", "unsupported", "unreadable", "directory"},
   functions : Seq(Function),
   classes : Seq([name : STRING, line : Nat, end : Nat]),
   impls : Seq([type : STRING, function : Function]),
   imports : BOOLEAN, long : BOOLEAN]

\* The cursor of a request, and the one a page ends with.
NoCursor == <<"none">>
BadCursor == <<"bad">>
Mark(offset) == <<"at", offset>>

\* No two functions are the same; a walk begins without a cursor.
ASSUME FileRequestsAssumption ==
  \A r \in Requests : r.tool = "analyze_file" =>
    /\ r \in [tool : {"analyze_file"}, file : File, fields : SUBSET STRING,
              summary : {"unset", "true", "false"}, cursor : {r.cursor}, read : {<<>>}, walk : BOOLEAN]
    /\ IsInjective(r.file.functions)
    /\ r.walk => r.cursor = NoCursor

\* extract_impl_methods: a function of an impl block goes to the first class
\* of that name.
MethodsGiven(file, i) ==
  LET c == file.classes[i]
      own == Picked(file.impls, {k \in DOMAIN file.impls : file.impls[k].type = c.name})
  IN  IF \E j \in 1..(i - 1) : file.classes[j].name = c.name THEN <<>>
      ELSE [k \in DOMAIN own |-> own[k].function]

\* is_method_of_class.
Within(f, c) == f.line >= c.line /\ f.end <= c.end

WithinOf(file, c) ==
  Picked(file.functions, {k \in DOMAIN file.functions : Within(file.functions[k], c)})

MethodsFound(file, i) ==
  IF MethodsGiven(file, i) # <<>> THEN MethodsGiven(file, i)
  ELSE WithinOf(file, file.classes[i])

\* collect_class_methods keeps them by name: the last class of a name gives
\* its methods to all of them.
ClassMethods(file, i) ==
  MethodsFound(file, Max({j \in DOMAIN file.classes : file.classes[j].name = file.classes[i].name}))

FirstOf(s, n) == SubSeq(s, 1, IF Len(s) < n THEN Len(s) ELSE n)

\* format_classes_section: each class, with the first of its methods.
ClassSection(file) ==
  [i \in DOMAIN file.classes |->
     [class |-> file.classes[i], methods |-> FirstOf(ClassMethods(file, i), MethodLimit)]]

-----------------------------------------------------------------------------
(* The handler.                                                            *)

\* Bug: what begins inside a class is left to the class.
TopLevelByStart(file) ==
  Picked(file.functions, {k \in DOMAIN file.functions : ~\E i \in DOMAIN file.classes :
    file.functions[k].line \in file.classes[i].line..file.classes[i].end})

InClass(file, f) == \E i \in DOMAIN file.classes : Within(f, file.classes[i])

\* The functions that are in no class are paged.
TopLevel(file) ==
  Picked(file.functions, {k \in DOMAIN file.functions : ~InClass(file, file.functions[k])})

\* paginate_slice: a page beyond the end is empty.
FunctionsAt(file, offset) == FirstOf(SubSeq(TopLevel(file), offset + 1, Len(TopLevel(file))), FunctionPage)

\* normalize_cursor, decode_offset.
Offset(r) == IF r.cursor = NoCursor THEN 0 ELSE r.cursor[2]

Shows(r, field) == r.fields = {} \/ r.fields \cap {"all", field} # {}

\* format_file_details_paginated.  Classes and imports are on the first page
\* only; imports only if fields asks for them.  The page's functions are
\* filtered a second time.
PageText(r, offset) ==
  LET file == r.file
      page == FunctionsAt(file, offset)
  IN  [classes |-> IF Shows(r, "classes") /\ offset = 0 THEN ClassSection(file) ELSE <<>>,
       imports |-> r.fields # {} /\ Shows(r, "imports") /\ offset = 0 /\ file.imports,
       functions |-> IF Shows(r, "functions")
                     THEN Picked(page, {k \in DOMAIN page : ~InClass(file, page[k])})
                     ELSE <<>>]

\* The text of a file in a language without a parser is its first lines.
FirstLines == [classes |-> <<>>, imports |-> FALSE, functions |-> <<>>]

Size(f) == f.end - f.line

\* format_file_details_summary: the largest functions, in whatever order ties
\* leave them.
Largest(file) ==
  LET all == DOMAIN file.functions
      size(i) == Size(file.functions[i])
      n == IF Cardinality(all) < TopFunctions THEN Cardinality(all) ELSE TopFunctions
  IN  {S \in SUBSET all : /\ Cardinality(S) = n
                          /\ \A i \in S, j \in all \ S : size(i) >= size(j)}

Rejected(why) == [result |-> "error", why |-> why]

UsesFileSummary(r) == r.summary = "true" \/ (r.summary = "unset" /\ r.file.long)

\* analyze_file_handler.
Replies(r) ==
  IF r.file.kind = "directory" THEN {Rejected("path_is_directory")}
  ELSE IF r.summary = "true" /\ r.cursor # NoCursor THEN {Rejected("summary_cursor_conflict")}
  ELSE IF r.file.kind = "unreadable" THEN {Rejected("internal_error")}
  ELSE IF r.file.long /\ r.summary = "false" THEN {Rejected("output_too_large")}
  ELSE IF r.cursor = BadCursor THEN {Rejected("invalid_cursor")}
  ELSE IF UsesFileSummary(r)
       THEN {[result |-> "summary", functions |-> S] : S \in Largest(r.file)}
  ELSE {[result |-> "page",
         text |-> IF r.file.kind = "unsupported" THEN FirstLines ELSE PageText(r, Offset(r)),
         next |-> IF Offset(r) + FunctionPage < Len(TopLevel(r.file))
                  THEN Mark(Offset(r) + FunctionPage) ELSE NoCursor]}

FileAnswer ==
  /\ request.tool = "analyze_file" /\ answer = Unanswered
  /\ answer' \in Replies(request)
  /\ UNCHANGED request

\* The client passes the cursor on, "with identical params" (common.rs:83),
\* and keeps what it has read.
NextPage ==
  /\ Answered("analyze_file")
  /\ answer.result = "page" /\ answer.next # NoCursor
  /\ request' = [request EXCEPT !.cursor = answer.next, !.read = Append(@, answer.text)]
  /\ answer' = Unanswered

FileNext == FileAnswer \/ NextPage

FileSpec == RequestInit /\ [][FileNext]_requestVars

-----------------------------------------------------------------------------
\* The functions a class's section does not show: those of a class whose
\* name is used again below, or that has an impl block, and those after the
\* tenth.
Unshown(file, f) ==
  \A i \in DOMAIN file.classes : Within(f, file.classes[i]) =>
    \/ \E j \in DOMAIN file.classes : j > i /\ file.classes[j].name = file.classes[i].name
    \/ MethodsGiven(file, i) # <<>>
    \/ \E k \in DOMAIN WithinOf(file, file.classes[i]) :
         k > MethodLimit /\ WithinOf(file, file.classes[i])[k] = f

\* The places of the functions in the texts a client has read, and which of
\* two it has read first.
PlacesRead(texts) == UNION {{p} \X DOMAIN texts[p].functions : p \in DOMAIN texts}

ReadBefore(a, b) == a[1] < b[1] \/ (a[1] = b[1] /\ a[2] < b[2])

\* A client that follows the cursors of a file from its first page is never
\* refused, reads functions in the order of the text, and has in the end read
\* each that is in no class once, and each other under a class it is in, but for
\* those a section does not show (types.rs:167, "Omit for all sections";
\* common.rs:83).
WalkListsFunctions ==
  Answered("analyze_file") /\ request.fields = {} /\ request.file.kind = "source"
  /\ request.walk =>
    LET functions == request.file.functions
        classes == request.file.classes
        texts == request.read \o (IF answer.result = "page" THEN <<answer.text>> ELSE <<>>)
        at(q) == texts[q[1]].functions[q[2]]
        Listed(f, i) == \E k \in DOMAIN texts[1].classes[i].methods : texts[1].classes[i].methods[k] = f
    IN  /\ request.read # <<>> => answer.result = "page"
        /\ \A a, b \in PlacesRead(texts), i, j \in DOMAIN functions :
             at(a) = functions[i] /\ at(b) = functions[j] /\ i < j => ReadBefore(a, b)
        /\ answer.result = "page" /\ answer.next = NoCursor =>
             \A f \in ToSet(functions) :
               IF InClass(request.file, f)
               THEN Unshown(request.file, f) \/ \E i \in DOMAIN classes : Listed(f, i)
               ELSE Cardinality({q \in PlacesRead(texts) : at(q) = f}) = 1
==============================================================================
