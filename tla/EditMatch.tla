----------------------------- MODULE EditMatch ------------------------------
(***************************************************************************)
(* The matching and replacing of tools/editdiff.go, as the edit tool uses  *)
(* it.  A text is a sequence of characters.  Fancy characters (smart       *)
(* quotes, dashes, compatibility forms) are normalized to Plain[c] for a   *)
(* fuzzy match; positions are 1-based, and a match is [first, last].       *)
(***************************************************************************)
EXTENDS Integers, SequencesExt, FiniteSetsExt

CONSTANTS
    Plain,      \* [fancy characters -> characters]
    Blanks      \* the characters that are white space, other than the newline

Newline == "nl"
Return  == "cr"
BOM     == "bom"

-----------------------------------------------------------------------------
(* Line endings and the byte-order mark.                                   *)

\* NormalizeToLF
NormalizeToLF(text) ==
    LET Kept(i) ==
          CASE text[i] # Return                                            -> <<text[i]>>
            [] text[i] = Return /\ i < Len(text) /\ text[i + 1] = Newline -> <<>>
            [] OTHER                                                       -> <<Newline>>
    IN  FlattenSeq([i \in DOMAIN text |-> Kept(i)])

\* DetectLineEnding: TRUE for CRLF
EndsInCRLF(text) ==
    \E i \in 2..Len(text) :
        /\ text[i] = Newline /\ text[i - 1] = Return
        /\ \A j \in 1..(i - 1) : text[j] # Newline

RestoreLineEndings(text, crlf) ==
    FlattenSeq([i \in DOMAIN text |->
                  IF crlf /\ text[i] = Newline THEN <<Return, Newline>> ELSE <<text[i]>>])

-----------------------------------------------------------------------------
(* Matching.                                                               *)

\* Strip the white space that ends each line, then make every character plain.
\* Compatibility forms of a blank are blanks before the strip.
BlankToLineEnd(text, i) ==
    \A j \in i..Len(text) :
        (\A k \in i..j : text[k] # Newline) => text[j] \in Blanks

NormalizeForFuzzyMatch(text) ==
    LET plain == [i \in DOMAIN text |-> IF text[i] \in DOMAIN Plain THEN Plain[text[i]] ELSE text[i]]
        kept  == {i \in DOMAIN text : text[i] = Newline \/ ~BlankToLineEnd(text, i)}
    IN  FlattenSeq([i \in DOMAIN text |-> IF i \in kept THEN <<plain[i]>> ELSE <<>>])

OccursAt(text, sub, i) == i + Len(sub) - 1 <= Len(text) /\ SubSeq(text, i, i + Len(sub) - 1) = sub

Occurrences(text, sub) == {i \in 1..(Len(text) + 1) : OccursAt(text, sub, i)}

\* strings.Index, 0 when there is none
IndexOf(text, sub) ==
    LET at == Occurrences(text, sub) IN
    IF at = {} THEN 0 ELSE CHOOSE i \in at : \A j \in at : i <= j

\* strings.Count: matches that do not overlap, taken from the left; the empty
\* text is found before each character and at the end.
Count(text, sub) ==
    LET at   == Occurrences(text, sub)
        n[i \in 1..(Len(text) + 2)] ==
            IF i > Len(text) THEN 0
            ELSE IF i \in at THEN 1 + n[i + Len(sub)] ELSE n[i + 1]
    IN  IF sub = <<>> THEN Len(text) + 1 ELSE n[1]

\* fuzzyFindText
FuzzyFind(content, oldText) ==
    LET exact == IndexOf(content, oldText)
        fuzzy == IndexOf(NormalizeForFuzzyMatch(content), NormalizeForFuzzyMatch(oldText))
    IN  IF exact # 0
        THEN [found |-> TRUE, usedFuzzy |-> FALSE, index |-> exact, length |-> Len(oldText)]
        ELSE [found |-> fuzzy # 0, usedFuzzy |-> fuzzy # 0, index |-> fuzzy,
              length |-> Len(NormalizeForFuzzyMatch(oldText))]

CountOccurrences(content, oldText) ==
    Count(NormalizeForFuzzyMatch(content), NormalizeForFuzzyMatch(oldText))

-----------------------------------------------------------------------------
(* Replacing.  A matched edit is [index, length, newText].                 *)

Replaced(text, index, length, newText) ==
    SubSeq(text, 1, index - 1) \o newText \o SubSeq(text, index + length, Len(text))

\* Plausible bug: the first match is replaced first, and shifts the others.
BugApplyReplacements(text, matches, offset) ==
    FoldLeft(LAMBDA t, m : Replaced(t, m.index - offset, m.length, m.newText), text, matches)

\* applyReplacements, last match first; the text begins after offset characters of the base
ApplyReplacements(text, matches, offset) ==
    FoldRight(LAMBDA m, t : Replaced(t, m.index - offset, m.length, m.newText), matches, text)

\* splitLinesWithEndings and getLineSpans: a line includes its newline
LineSpans(text) ==
    LET ends == SetToSortSeq({i \in DOMAIN text : text[i] = Newline \/ i = Len(text)}, <)
    IN  [k \in DOMAIN ends |-> [first |-> IF k = 1 THEN 1 ELSE ends[k - 1] + 1, last |-> ends[k]]]

LinesOf(text) ==
    LET spans == LineSpans(text) IN [k \in DOMAIN spans |-> SubSeq(text, spans[k].first, spans[k].last)]

\* getReplacementLineRange: the lines that a match touches, or <<>> for its error
LineRange(spans, m) ==
    LET holding == {k \in DOMAIN spans : m.index \in spans[k].first..spans[k].last}
        ending  == {k \in DOMAIN spans : /\ \A h \in holding : k >= h
                                         /\ spans[k].last >= m.index + m.length - 1}
    IN  IF holding = {} \/ ending = {} THEN <<>> ELSE <<Min(holding), Min(ending)>>

\* The matches grouped by the lines they touch; a group is [from, to, matches].
Groups(spans, matches) ==
    LET Place(groups, m) ==
          LET range == LineRange(spans, m) IN
          IF groups # <<>> /\ range[1] <= Last(groups).to
          THEN Append(Front(groups), [Last(groups) EXCEPT !.to = Max({@, range[2]}),
                                                          !.matches = Append(@, m)])
          ELSE Append(groups, [from |-> range[1], to |-> range[2], matches |-> <<m>>])
    IN  FoldLeft(Place, <<>>, matches)

\* applyReplacementsPreservingUnchangedLines: the lines of the groups come from
\* the base, the others from the original.  Only when the line counts agree.
OverlayReplacements(original, base, matches) ==
    LET spans == LineSpans(base)
        lines == LinesOf(original)
        Overlay(done, g) ==
          LET offset == spans[g.from].first - 1 IN
          [next |-> g.to + 1,
           text |-> done.text \o FlattenSeq(SubSeq(lines, done.next, g.from - 1))
                      \o ApplyReplacements(SubSeq(base, offset + 1, spans[g.to].last), g.matches, offset)]
        all   == FoldLeft(Overlay, [next |-> 1, text |-> <<>>], Groups(spans, matches))
    IN  all.text \o FlattenSeq(SubSeq(lines, all.next, Len(lines)))

-----------------------------------------------------------------------------
(* ApplyEditsToNormalizedContent.                                          *)

Rejected(why) == [error |-> why, text |-> <<>>]

\* The first edit that is not found, or found more than once, decides the error.
MatchError(base, edits) ==
    LET Error(e) == IF ~FuzzyFind(base, e.oldText).found THEN "notFound"
                    ELSE IF CountOccurrences(base, e.oldText) > 1 THEN "duplicate" ELSE ""
        bad      == {i \in DOMAIN edits : Error(edits[i]) # ""}
    IN  IF bad = {} THEN "" ELSE Error(edits[Min(bad)])

\* sort.SliceStable by the index of the match
SortedMatches(base, edits) ==
    LET Match(i) == LET found == FuzzyFind(base, edits[i].oldText) IN
                    [index |-> found.index, length |-> found.length, newText |-> edits[i].newText]
        order    == SetToSortSeq(DOMAIN edits, LAMBDA i, j : \/ Match(i).index < Match(j).index
                                                             \/ Match(i).index = Match(j).index /\ i < j)
    IN  [k \in DOMAIN order |-> Match(order[k])]

Overlap(matches) ==
    \E k \in 2..Len(matches) : matches[k - 1].index + matches[k - 1].length > matches[k].index

LFEdits(edits) ==
    [i \in DOMAIN edits |-> [oldText |-> NormalizeToLF(edits[i].oldText),
                             newText |-> NormalizeToLF(edits[i].newText)]]

\* What becomes of edits found in base at matches, and of the text they make
Judged(content, new) ==
    IF new = content THEN Rejected("noChange") ELSE [error |-> "", text |-> new]

Applied(content, base, matches, fuzzy) ==
    IF Overlap(matches) THEN Rejected("overlap")
    ELSE IF ~fuzzy THEN Judged(content, ApplyReplacements(content, matches, 0))
    ELSE IF \/ Len(LineSpans(base)) # Len(LineSpans(content))
            \/ \E k \in DOMAIN matches : LineRange(LineSpans(base), matches[k]) = <<>>
    THEN Rejected("lines")
    ELSE Judged(content, OverlayReplacements(content, base, matches))

\* The edits are looked for in base.
Matched(content, base, edits, fuzzy) ==
    IF MatchError(base, edits) # "" THEN Rejected(MatchError(base, edits))
    ELSE Applied(content, base, SortedMatches(base, edits), fuzzy)

ApplyLFEdits(content, edits) ==
    IF \E i \in DOMAIN edits : edits[i].oldText = <<>> THEN Rejected("emptyOldText")
    ELSE IF \E i \in DOMAIN edits : FuzzyFind(content, edits[i].oldText).usedFuzzy
    THEN Matched(content, NormalizeForFuzzyMatch(content), edits, TRUE)
    ELSE Matched(content, content, edits, FALSE)

ApplyEdits(content, rawEdits) == ApplyLFEdits(content, LFEdits(rawEdits))

\* runEdit: the file keeps its byte-order mark and its first line's ending.
Restored(file, content, bom, edited) ==
    [error |-> edited.error,
     base  |-> NormalizeToLF(content), new |-> edited.text,
     file  |-> IF edited.error # "" THEN file
               ELSE bom \o RestoreLineEndings(edited.text, EndsInCRLF(content))]

EditFile(file, edits) ==
    LET bom     == IF file # <<>> /\ file[1] = BOM THEN <<BOM>> ELSE <<>>
        content == SubSeq(file, Len(bom) + 1, Len(file))
    IN  Restored(file, content, bom, ApplyEdits(NormalizeToLF(content), edits))
=============================================================================
