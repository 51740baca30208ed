------------------------------ MODULE EditMatch ------------------------------
(***************************************************************************)
(* What edit_replace does to a text once it has read it (EditTools has the *)
(* locking around it): line endings are normalised for the comparison,     *)
(* old_text is looked for exactly and, failing that, without the white     *)
(* space at line ends, and the spans found are mapped back to the file's   *)
(* own bytes and spliced.                                                  *)
(***************************************************************************)
EXTENDS TextRequest

(* A block is [content, old, new, all], a batch [content, edits], an edit    *)
(* [old, new, all].                                                         *)
ASSUME EditAssumption ==
  \A r \in Requests :
    /\ r.tool = "edit_block" =>
         r.content \in Seq(STRING) /\ r.old \in Seq(STRING) /\ r.new \in Seq(STRING) /\ r.all \in BOOLEAN
    /\ r.tool = "edit_batch" =>
         /\ r.content \in Seq(STRING)
         /\ r.edits \in Seq([old : Seq(STRING), new : Seq(STRING), all : BOOLEAN])

CRLF(s) == {n \in 1..(Len(s) - 1) : s[n] = "cr" /\ s[n + 1] = "nl"}

(* normalize_for_match: \r\n becomes \n, any other \r stays.                *)
Normalized(s) == Picked(s, DOMAIN s \ CRLF(s))

(* build_crlf_positions: the normalised offset of each \n that was a \r\n.  *)
CrlfPositions(s) ==
  {n - 1 - Cardinality({m \in CRLF(s) : m < n}) : n \in CRLF(s)}

(* Fault: a \r\n that begins at the offset counts as passed.                *)
ToOriginalLate(off, positions) ==
  off + Cardinality({p \in positions : p <= off})

(* norm_to_original_offset.                                                 *)
ToOriginal(off, positions) ==
  off + Cardinality({p \in positions : p < off})

(* trim_end_lines, and TrimEndIndex.trimmed: every line without the white   *)
(* space at its end, that is, with no character other than white space      *)
(* between it and the end of the line.                                      *)
Trailing(t) ==
  {n \in DOMAIN t : /\ t[n] # "nl"
                    /\ \A m \in n..Len(t) : ~IsSpace(t[m]) => \E k \in n..m : t[k] = "nl"}

TrimEndLines(t) == Picked(t, DOMAIN t \ Trailing(t))

(* TrimEndIndex.line_trim_starts.                                           *)
TrimStarts(t) ==
  [k \in DOMAIN LineStarts(t) |-> Cardinality(1..LineStarts(t)[k] \ Trailing(t))]

(* TrimEndIndex: a text, what is left of it, and where the lines of either  *)
(* begin.                                                                   *)
TrimEndIndex(t) ==
  [norm |-> t, trimmed |-> TrimEndLines(t),
   starts |-> LineStarts(t), trimStarts |-> TrimStarts(t)]

(* The line an offset of the trimmed text falls in: the last one that       *)
(* begins at or before it.                                                  *)
LineOf(off, starts) == Max({k \in 1..Len(starts) : starts[k] <= off})

MapToNorm(index, off) ==
  LET k == LineOf(off, index.trimStarts)
  IN  index.starts[k] + (off - index.trimStarts[k])

EndOfLine(index, k) ==
  IF k < Len(index.starts) THEN index.starts[k + 1] ELSE Len(index.norm)

AtTrimmedEnd(index, off) ==
  off = Len(index.trimmed) \/ index.trimmed[off + 1] = "nl"

(* Fault: the line after the match is taken in as well.                     *)
MapEndTwoLines(index, off) ==
  IF AtTrimmedEnd(index, off)
  THEN EndOfLine(index, LineOf(off, index.trimStarts) + 1)
  ELSE MapToNorm(index, off)

(* map_end_to_norm: a match that ends where a trimmed line ends takes in    *)
(* the white space after it and the newline.  A match that ends with a      *)
(* newline also ends where the line after it ends, if that line is blank.   *)
MapEndToNorm(index, off) ==
  IF AtTrimmedEnd(index, off)
  THEN EndOfLine(index, LineOf(off, index.trimStarts))
  ELSE MapToNorm(index, off)

(* find_trim_end_matches.                                                   *)
MappedBack(index, found, length, crlf) ==
  [n \in 1..Len(found) |->
     <<ToOriginal(MapToNorm(index, found[n]), crlf),
       ToOriginal(MapEndToNorm(index, found[n] + length), crlf)>>]

TrimEndMatches(index, pat, crlf) ==
  IF pat = <<>> THEN <<>>
  ELSE MappedBack(index, MatchIndices(index.trimmed, pat), Len(pat), crlf)

TrimEndSpans(s, old) ==
  TrimEndMatches(TrimEndIndex(Normalized(s)), TrimEndLines(old), CrlfPositions(s))

(* The spans of the file, <<start, end>> from 0, that an old_text names:    *)
(* its exact occurrences or else those of its lines without their ends.     *)
ExactSpans(s, old) ==
  LET found == MatchIndices(Normalized(s), old)
  IN  [n \in 1..Len(found) |->
         <<ToOriginal(found[n], CrlfPositions(s)),
           ToOriginal(found[n] + Len(old), CrlfPositions(s))>>]

OrElse(exact, trimmed) == IF exact # <<>> THEN exact ELSE trimmed
Spans(s, old) == OrElse(ExactSpans(s, old), TrimEndSpans(s, old))

(* Fault: regions are only compared by where they begin.                    *)
OverlappingStarts(spans) == {n \in 2..Len(spans) : spans[n][1] < spans[n - 1][1]}

Overlapping(spans) ==
  {n \in 2..Len(spans) : \E m \in 1..(n - 1) : spans[n][1] < spans[m][2]}

(* What is left between the spans, with news[n] in place of the n-th.       *)
Spliced(s, spans, news) ==
  LET Cut(n) == SubSeq(s, IF n = 1 THEN 1 ELSE spans[n - 1][2] + 1, spans[n][1])
  IN  FoldLeft(LAMBDA acc, n : acc \o Cut(n) \o news[n], <<>>,
               [n \in 1..Len(spans) |-> n])
      \o SubSeq(s, spans[Len(spans)][2] + 1, Len(s))

-----------------------------------------------------------------------------
(* edit_replace_block_inner, after the read and the hash check.  Spans that *)
(* overlap make the slice between them run backwards: the splice panics.    *)
BlockWith(r, old, spans) ==
  IF old = <<>> THEN [kind |-> "invalid_params"]
  ELSE IF spans = <<>> THEN [kind |-> "not_found"]
  ELSE IF Len(spans) > 1 /\ ~r.all THEN [kind |-> "ambiguous"]
  ELSE IF Overlapping(spans) # {} THEN [kind |-> "panic"]
  ELSE [kind |-> "ok", text |-> Spliced(r.content, spans, [n \in DOMAIN spans |-> r.new]),
        replaced |-> Len(spans)]

Block(r) == BlockWith(r, Normalized(r.old), Spans(r.content, Normalized(r.old)))

(* What is wrong with one edit of a batch, on the text all of them are      *)
(* matched against.                                                         *)
FailureWith(e, old, spans) ==
  IF old = <<>> THEN "empty_old_text"
  ELSE IF spans = <<>> THEN "old_text_not_found"
  ELSE IF Len(spans) > 1 /\ ~e.all THEN "ambiguous_match"
  ELSE "none"

Failure(s, e) == FailureWith(e, Normalized(e.old), Spans(s, Normalized(e.old)))

(* The spans of the edits that passed, as <<start, end, edit>>, in the      *)
(* order of sort_by_key.                                                    *)
Earlier(x, y) ==
  \/ x[1] < y[1]
  \/ x[1] = y[1] /\ x[2] < y[2]
  \/ x[1] = y[1] /\ x[2] = y[2] /\ x[3] < y[3]

AllSpans(s, edits) ==
  SetToSortSeq(
    UNION {{<<span[1], span[2], n>> :
              span \in ToSet(Spans(s, Normalized(edits[n].old)))} :
             n \in {m \in DOMAIN edits : Failure(s, edits[m]) = "none"}},
    Earlier)

Overlaps(spans) == {<<spans[n][3], "overlapping_edits">> : n \in Overlapping(spans)}

(* edit_replace_batch, after the read and the hash check: nothing is        *)
(* written unless every edit passed and no two regions overlap.             *)
BatchWith(r, spans, failures) ==
  IF failures \cup Overlaps(spans) # {}
  THEN [kind |-> "batch_failed", failures |-> failures \cup Overlaps(spans)]
  ELSE [kind |-> "ok",
        text |-> IF spans = <<>> THEN r.content
                 ELSE Spliced(r.content, spans, [n \in DOMAIN spans |-> r.edits[spans[n][3]].new]),
        replaced |-> Len(spans)]

Failures(r) ==
  {f \in {<<n, Failure(r.content, r.edits[n])>> : n \in DOMAIN r.edits} : f[2] # "none"}

Batch(r) == BatchWith(r, AllSpans(r.content, r.edits), Failures(r))

ReplaceBlock == Answers("edit_block", Block(request))
ReplaceBatch == Answers("edit_batch", Batch(request))

EditNext == ReplaceBlock \/ ReplaceBatch

-----------------------------------------------------------------------------
(* Properties                                                               *)

(* What a single edit takes out of the file is old_text, but for white      *)
(* space at line ends and at most one newline more, and each place is found *)
(* whole: no \r is left behind without the \n that was taken              *)
(* (edit_replace_block_inner, map_end_to_norm, norm_to_original_offset).    *)
RemovedIsOldText ==
  Answered("edit_block") /\ answer.kind = "ok" =>
    LET s == request.content
        old == TrimEndLines(Normalized(request.old))
    IN  \A span \in ToSet(Spans(s, Normalized(request.old))) :
          LET removed == SubSeq(s, span[1] + 1, span[2])
          IN  /\ TrimEndLines(Normalized(removed)) \in {old, old \o <<"nl">>}
              /\ span[2] \notin CRLF(s) \/ s[span[2]] # "cr"
              /\ ~(span[1] \in CRLF(s))

(* A replace_all panics only when two matches follow each other without a   *)
(* gap in the trimmed text and the first takes in what the second begins    *)
(* with: the matches themselves never overlap (match_indices).              *)
PanicsOnlyWhereMatchesAbut ==
  Answered("edit_block") /\ answer.kind = "panic" =>
    LET pat == TrimEndLines(Normalized(request.old))
        found == MatchIndices(TrimEndLines(Normalized(request.content)), pat)
    IN  /\ request.all
        /\ ExactSpans(request.content, Normalized(request.old)) = <<>>
        /\ \E n \in 2..Len(found) : found[n] = found[n - 1] + Len(pat) /\ pat[1] = "nl"

(* A batch that is applied is the same as its edits applied one after the   *)
(* other, in either order, where new texts have no character of the old     *)
(* ones: no edit sees another's result                                      *)
(* (edit_replace_batch, "all edits validate against one content snapshot"). *)
Alone(s, e) == Block([content |-> s, old |-> e.old, new |-> e.new, all |-> e.all])

BatchIsItsEdits ==
  Answered("edit_batch") /\ answer.kind = "ok" =>
    \A m, n \in DOMAIN request.edits : m # n =>
      LET first == Alone(request.content, request.edits[m])
          then == Alone(first.text, request.edits[n])
      IN  first.kind = "ok" /\ then.kind = "ok" /\ then.text = answer.text
==============================================================================
