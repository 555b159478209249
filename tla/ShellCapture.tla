---------------------------- MODULE ShellCapture ----------------------------
(***************************************************************************)
(* tools/shell_output.go: the tail of a command's output kept in memory,   *)
(* the true totals, and the file the whole output is spilled to when it    *)
(* exceeds the limits.  observeChunk and snapshot hold the capture's mutex *)
(* and are one step each.                                                  *)
(***************************************************************************)
EXTENDS Truncation

CONSTANT Chunks     \* what one read of the pipe may return: non-empty byte sequences

ASSUME ChunkAssumption ==
    \A chunk \in Chunks : chunk \in Seq(Range(chunk)) /\ chunk # <<>>

VARIABLES
    capture,    \* shellCaptureState
    spillFile,  \* the content of the full-output file
    stream      \* history: the whole sanitized output so far

captureVars == <<capture, spillFile, stream>>

\* Bytes that are not NL or Cont; any other value is an ordinary one-byte character.
Lead        == "lead"       \* begins a two-byte character
CR          == "cr"
Control     == "control"    \* one of U+0000..U+001F other than tab, newline and CR
Replacement == <<"fffd", Cont, Cont>>

\* Plausible bug: no more of the output is kept than may be shown.
BugMaxTailBytes == MaxBytes

MaxTailBytes == 2 * MaxBytes

CaptureInit ==
    /\ capture = [tail |-> <<>>, totalBytes |-> 0, completedLines |-> 0, currentLineBytes |-> 0,
                  started |-> FALSE, path |-> FALSE, spillErr |-> FALSE]
    /\ spillFile = <<>>
    /\ stream = <<>>

\* strings.Map over the string of one chunk: a byte that is no part of a
\* character of this chunk becomes U+FFFD.
Sanitize(chunk) ==
    LET Rune(i) ==
          CASE chunk[i] \in {CR, Control} -> <<>>
            [] chunk[i] = Lead -> IF i < Len(chunk) /\ chunk[i + 1] = Cont
                                  THEN <<Lead, Cont>> ELSE Replacement
            [] chunk[i] = Cont -> IF i > 1 /\ chunk[i - 1] = Lead
                                  THEN <<>> ELSE Replacement
            [] OTHER -> <<chunk[i]>>
    IN  FlattenSeq([i \in DOMAIN chunk |-> Rune(i)])

\* The totals after text.  hasOpenLine is currentLineBytes > 0.
Counted(text) ==
    LET newlines == {i \in DOMAIN text : text[i] = NL} IN
    [capture EXCEPT
        !.totalBytes = @ + Len(text),
        !.completedLines = @ + Cardinality(newlines),
        !.currentLineBytes = IF newlines = {} THEN @ + Len(text)
                             ELSE Len(Last(SplitLines(text)))]

TotalLines(c)  == c.completedLines + (IF c.currentLineBytes > 0 THEN 1 ELSE 0)
Overflowing(c) == c.totalBytes > MaxBytes \/ TotalLines(c) > MaxLines

\* The error returns of CreateTemp and AppendFile.  A context that is done
\* makes every call fail; a call may also fail for itself.
SpillOutcomes(started, ctxDone) ==
    (IF started THEN {} ELSE {"noFile"}) \cup {"notWritten"} \cup (IF ctxDone THEN {} ELSE {"written"})

\* Plausible bug: what the spill file gets first is the tail after the trim.
BugObserveTrimsFirst(chunk, ctxDone) ==
    LET text     == Sanitize(chunk)
        counted  == Counted(text)
        trimmed  == SuffixWithin(capture.tail \o text, MaxBytes)
        spilling == ~capture.spillErr /\ (capture.started \/ Overflowing(counted))
    IN  /\ stream' = stream \o text
        /\ \E outcome \in IF spilling THEN SpillOutcomes(capture.started, ctxDone) ELSE {"none"} :
              /\ capture' = [counted EXCEPT
                               !.tail = trimmed,
                               !.started = @ \/ spilling,
                               !.path = @ \/ (spilling /\ outcome # "noFile"),
                               !.spillErr = @ \/ outcome \in {"noFile", "notWritten"}]
              /\ spillFile' = IF outcome # "written" THEN spillFile
                              ELSE spillFile \o (IF capture.started THEN text ELSE trimmed)

\* observeChunk
Observe(chunk, ctxDone) ==
    LET text     == Sanitize(chunk)
        counted  == Counted(text)
        tail     == capture.tail \o text
        spilling == ~capture.spillErr /\ (capture.started \/ Overflowing(counted))
    IN  /\ stream' = stream \o text
        /\ \E outcome \in IF spilling THEN SpillOutcomes(capture.started, ctxDone) ELSE {"none"} :
              /\ capture' = [counted EXCEPT
                               !.tail = SuffixWithin(tail, MaxTailBytes),
                               !.started = @ \/ spilling,
                               !.path = @ \/ (spilling /\ outcome # "noFile"),
                               !.spillErr = @ \/ outcome \in {"noFile", "notWritten"}]
              /\ spillFile' = IF outcome # "written" THEN spillFile
                              ELSE spillFile \o (IF capture.started THEN text ELSE tail)

\* snapshotLocked, and the last line's length that the final capture adds
Snapshot ==
    LET tail == TruncateTail(capture.tail) IN
    [output      |-> IF Overflowing(capture) THEN tail.content ELSE capture.tail,
     truncatedBy |-> IF ~Overflowing(capture) THEN ""
                     ELSE IF tail.truncatedBy # "" THEN tail.truncatedBy
                     ELSE IF capture.totalBytes > MaxBytes THEN "bytes" ELSE "lines",
     totalLines  |-> TotalLines(capture),
     totalBytes  |-> capture.totalBytes,
     lastLine    |-> capture.currentLineBytes,
     path        |-> capture.path]

-----------------------------------------------------------------------------
(* The file comment (shell_output.go:11-26): what is reported is TruncateTail *)
(* of the whole output although only a tail of it was kept, with the totals  *)
(* of the whole stream.                                                      *)
OutputIsTailOfStream ==
    LET whole == TruncateTail(stream) IN
    /\ Snapshot.output = whole.content
    /\ Snapshot.truncatedBy = whole.truncatedBy
    /\ Snapshot.totalLines = Len(CountedLines(stream))
    /\ Snapshot.totalBytes = Len(stream)
    /\ Snapshot.lastLine = Len(Last(SplitLines(stream)))

(* The full output is never lost (shell_output.go:14-19): once the output has *)
(* overflowed, either an error is kept for the caller or the file that the   *)
(* result names holds every byte of the stream.                              *)
SpillHoldsWholeStream ==
    Overflowing(capture) /\ ~capture.spillErr => capture.path /\ spillFile = stream
=============================================================================
