----------------------------- MODULE TextRequest -----------------------------
(***************************************************************************)
(* One tool call whose handler is a function of the request and of the     *)
(* files it reads: the request, and its answer once the handler returned.  *)
(* Text is a sequence of characters; "nl" is \n, "cr" is \r, "sp" stands   *)
(* for the other white space.                                              *)
(***************************************************************************)
EXTENDS Integers, FiniteSets, Sequences, SequencesExt, FiniteSetsExt

CONSTANTS
  Requests,   \* what clients may ask
  Unanswered

VARIABLES request, answer

requestVars == <<request, answer>>

RequestInit == request \in Requests /\ answer = Unanswered

(* The handler of tool t, whose outcome is a function of the request.       *)
Answers(t, outcome) ==
  /\ request.tool = t
  /\ answer = Unanswered
  /\ answer' = outcome
  /\ UNCHANGED request

Answered(t) == request.tool = t /\ answer # Unanswered

-----------------------------------------------------------------------------
(* The elements at some places of a sequence, in their order.               *)
Picked(seq, places) ==
  LET picked[n \in 0..Len(seq)] ==
        IF n = 0 THEN <<>>
        ELSE IF n \in places THEN Append(picked[n - 1], seq[n]) ELSE picked[n - 1]
  IN  picked[Len(seq)]

(* Where str::match_indices finds pat in text: offsets from 0, from the     *)
(* left, each match beginning at or after the end of the one before.        *)
Occurrences(text, pat) ==
  {i \in 0..(Len(text) - Len(pat)) : SubSeq(text, i + 1, i + Len(pat)) = pat}

(* The matches found, and the one at i if it is an occurrence and clear of  *)
(* them.                                                                    *)
Matched(found, i, occurrences, length) ==
  IF i \in occurrences /\ (found = <<>> \/ found[Len(found)] + length <= i)
  THEN Append(found, i)
  ELSE found

MatchIndices(text, pat) ==
  LET occurrences == Occurrences(text, pat)
      found[i \in 0..(Len(text) + 1)] ==
        IF i = 0 THEN <<>> ELSE Matched(found[i - 1], i - 1, occurrences, Len(pat))
  IN  found[Len(text) + 1]

(* str::split_inclusive('\n'): the offsets at which the lines of a text     *)
(* begin.                                                                   *)
LineStarts(text) ==
  Picked([n \in 1..Len(text) |-> n - 1], {n \in 1..Len(text) : n = 1 \/ text[n - 1] = "nl"})

IsSpace(ch) == ch \in {"sp", "cr", "nl"}
==============================================================================
