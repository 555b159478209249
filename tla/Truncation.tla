----------------------------- MODULE Truncation -----------------------------
(***************************************************************************)
(* tools/truncate.go: what the read tool keeps of the head of a file and   *)
(* the bash tool of the tail of an output.  A text is a sequence of bytes: *)
(* NL is the newline, Cont a continuation byte of a UTF-8 sequence, and    *)
(* any other value begins a character.                                     *)
(***************************************************************************)
EXTENDS Integers, SequencesExt

CONSTANTS
    MaxLines,   \* DefaultMaxLines
    MaxBytes    \* DefaultMaxBytes

ASSUME LimitAssumption ==
    /\ MaxLines \in Nat \ {0}
    /\ MaxBytes \in Nat \ {0}

NL   == "nl"
Cont == "cont"

\* The lines of a text and one more byte.
AddByte(lines, b) ==
    IF b = NL THEN Append(lines, <<>>) ELSE Front(lines) \o <<Append(Last(lines), b)>>

\* strings.Split(content, "\n") and strings.Join(lines, "\n")
SplitLines(content) == FoldLeft(AddByte, << <<>> >>, content)

JoinLines(lines) ==
    IF lines = <<>> THEN <<>>
    ELSE FoldLeft(LAMBDA text, line : text \o <<NL>> \o line, Head(lines), Tail(lines))

\* A trailing newline does not begin another line, and no content has no line.
CountedLines(content) ==
    IF content = <<>> THEN <<>>
    ELSE IF Last(content) = NL THEN Front(SplitLines(content)) ELSE SplitLines(content)

Fits(content) == Len(CountedLines(content)) <= MaxLines /\ Len(content) <= MaxBytes

-----------------------------------------------------------------------------
(* The loop that collects whole lines, in the order it is given them.      *)

NothingKept == [lines |-> <<>>, bytes |-> 0, hitBytes |-> FALSE]

\* Plausible bug: the newlines between the kept lines are not counted.
BugKeepLineWithoutNewline(kept, line) ==
    LET size == Len(line) IN
    IF kept.hitBytes \/ Len(kept.lines) >= MaxLines THEN kept
    ELSE IF kept.bytes + size > MaxBytes THEN [kept EXCEPT !.hitBytes = TRUE]
    ELSE [lines |-> Append(kept.lines, line), bytes |-> kept.bytes + size, hitBytes |-> FALSE]

KeepLine(kept, line) ==
    LET size == Len(line) + (IF kept.lines = <<>> THEN 0 ELSE 1) IN
    IF kept.hitBytes \/ Len(kept.lines) >= MaxLines THEN kept
    ELSE IF kept.bytes + size > MaxBytes THEN [kept EXCEPT !.hitBytes = TRUE]
    ELSE [lines |-> Append(kept.lines, line), bytes |-> kept.bytes + size, hitBytes |-> FALSE]

\* Which limit the result names.
TruncatedBy(kept) == IF kept.hitBytes /\ Len(kept.lines) < MaxLines THEN "bytes" ELSE "lines"

Untruncated(content) ==
    [content |-> content, truncatedBy |-> "", outputLines |-> Len(CountedLines(content)),
     firstLineExceedsLimit |-> FALSE, lastLinePartial |-> FALSE]

TruncateHead(content) ==
    LET lines == CountedLines(content)
        kept  == FoldLeft(KeepLine, NothingKept, lines)
    IN  IF Fits(content) THEN Untruncated(content)
        ELSE IF Len(lines[1]) > MaxBytes
        THEN [content |-> <<>>, truncatedBy |-> "bytes", outputLines |-> 0,
              firstLineExceedsLimit |-> TRUE, lastLinePartial |-> FALSE]
        ELSE [content |-> JoinLines(kept.lines), truncatedBy |-> TruncatedBy(kept),
              outputLines |-> Len(kept.lines),
              firstLineExceedsLimit |-> FALSE, lastLinePartial |-> FALSE]

\* The longest suffix within n bytes that does not begin inside a character.
SuffixWithin(s, n) ==
    LET starts == {i \in (Len(s) - n + 1)..Len(s) : s[i] # Cont}
    IN  IF Len(s) <= n THEN s
        ELSE IF starts = {} THEN <<>>
        ELSE SubSeq(s, CHOOSE i \in starts : \A j \in starts : i <= j, Len(s))

TruncateTail(content) ==
    LET lines   == CountedLines(content)
        kept    == FoldLeft(KeepLine, NothingKept, Reverse(lines))
        partial == kept.hitBytes /\ kept.lines = <<>>
        shown   == IF partial THEN <<SuffixWithin(Last(lines), MaxBytes)>> ELSE kept.lines
    IN  IF Fits(content) THEN Untruncated(content)
        ELSE [content |-> JoinLines(Reverse(shown)),
              truncatedBy |-> TruncatedBy([kept EXCEPT !.lines = shown]),
              outputLines |-> Len(shown),
              firstLineExceedsLimit |-> FALSE, lastLinePartial |-> partial]
=============================================================================
