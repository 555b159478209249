----------------------------- MODULE TextTools ------------------------------
(***************************************************************************)
(* What the text tools compute, over texts of a bounded size: the capture  *)
(* of an output that arrives in any chunks, a reader that follows the      *)
(* offsets of the read tool, the edit tool with the diff of what it did,   *)
(* and the diff of any two texts.  A behaviour is one such job.            *)
(***************************************************************************)
EXTENDS ShellCapture, EditMatch, LineDiff

CONSTANTS
    MaxOutputChunks,    \* bound on the chunks of an output
    ReadFiles,          \* the files read, as bytes
    Limits,             \* the limits a reader may ask for, integers or NoLimit
    NoLimit,            \* the parameter is absent
    EditFiles,          \* the files edited, as characters
    EditLists,          \* the lists of edits asked for
    DiffTexts           \* the texts diffed, as sequences of lines

ASSUME ReadFileAssumption == \A file \in ReadFiles : file \in Seq(Range(file))
ASSUME LimitsAreIntegers  == \A limit \in Limits : limit = NoLimit \/ limit \in Int

VARIABLE job

textVars == <<captureVars, job>>

-----------------------------------------------------------------------------
(* The read tool.                                                          *)

\* Plausible bug: the last line that was shown is read again.
BugNextOffset(start, truncation) == start + truncation.outputLines

\* The offset of the notice after truncated output
NextOffset(start, truncation) == start + truncation.outputLines + 1

\* readTextToolResult.  next is the offset its notice names, 0 when it has none.
ReadText(file, offset, limit) ==
    LET all   == SplitLines(file)
        start == Max({offset - 1, 0})
        end   == IF limit = NoLimit THEN Len(all) ELSE Max({start, Min({start + limit, Len(all)})})
        shown == TruncateHead(JoinLines(SubSeq(all, start + 1, end)))
    IN  CASE start >= Len(all)            -> [kind |-> "beyond", content |-> <<>>, next |-> 0]
          [] OTHER ->
             IF shown.firstLineExceedsLimit THEN [kind |-> "tooLong", content |-> <<>>, next |-> 0]
             ELSE [kind |-> "text", content |-> shown.content,
                   next |-> CASE shown.truncatedBy # ""                    -> NextOffset(start, shown)
                              [] shown.truncatedBy = "" /\ end < Len(all) -> end + 1
                              [] OTHER                                     -> 0]

-----------------------------------------------------------------------------
TextInit ==
    /\ CaptureInit
    /\ job \in {[kind |-> "capture", chunks |-> 0, ctxDone |-> FALSE]}
         \cup {[kind |-> "read", file |-> file, from |-> from, offset |-> from,
                shown |-> <<>>, status |-> "more"] : file \in ReadFiles, from \in 1..3}
         \cup {[kind |-> "edit", file |-> file] : file \in EditFiles}
         \cup {[kind |-> "diff", old |-> old] : old \in DiffTexts}

CaptureChunk(chunk) ==
    /\ job.kind = "capture" /\ job.chunks < MaxOutputChunks
    /\ \E ctxDone \in {job.ctxDone, TRUE} :
          /\ job' = [job EXCEPT !.chunks = @ + 1, !.ctxDone = ctxDone]
          /\ Observe(chunk, ctxDone)

\* "Use offset=N to continue": the reader keeps the lines it was shown.
ReadMore(limit) ==
    /\ job.kind = "read" /\ job.status = "more"
    /\ LET read == ReadText(job.file, job.offset, limit) IN
       job' = [job EXCEPT
                 !.shown  = IF read.kind # "text" \/ read.next = job.offset THEN @
                            ELSE @ \o SplitLines(read.content),
                 !.offset = IF read.next = 0 THEN @ ELSE read.next,
                 !.status = IF read.kind # "text" THEN read.kind
                            ELSE IF read.next = 0 THEN "complete" ELSE @]
    /\ UNCHANGED captureVars

Diffed(old, new) ==
    [old |-> old, new |-> new, patch |-> GenerateUnifiedPatch(old, new),
     display |-> GenerateDiffString(old, new)]

\* runEdit with its result's details
EditDone(file, edits, edited) ==
    [kind |-> "edited", before |-> file, edits |-> edits, edited |-> edited,
     diff |-> IF edited.error # "" THEN Diffed(<<>>, <<>>)
              ELSE Diffed(LinesOf(edited.base), LinesOf(edited.new))]

Edit ==
    /\ job.kind = "edit"
    /\ \E edits \in EditLists : job' = EditDone(job.file, edits, EditFile(job.file, edits))
    /\ UNCHANGED captureVars

Diff ==
    /\ job.kind = "diff"
    /\ \E new \in DiffTexts : job' = [kind |-> "diffed", diff |-> Diffed(job.old, new)]
    /\ UNCHANGED captureVars

Finished ==
    CASE job.kind = "capture" -> job.chunks = MaxOutputChunks
      [] job.kind = "read"    -> job.status # "more"
      [] OTHER                -> job.kind \in {"edited", "diffed"}

TextNext ==
    \/ \E chunk \in Chunks : CaptureChunk(chunk)
    \/ \E limit \in Limits : ReadMore(limit)
    \/ Edit \/ Diff
    \/ Finished /\ UNCHANGED textVars

TextSpec == TextInit /\ [][TextNext]_textVars

-----------------------------------------------------------------------------
(* Truncation keeps all that fits (truncate.go:108-112, 186-191): whole lines  *)
(* from the one end, within both limits, and one more would break a limit.     *)
(* Only a last line that is too long alone is cut, between two characters.     *)
KeepsWhatFits(content, result, fromHead) ==
    LET lines   == CountedLines(content)
        n       == result.outputLines
        Kept(k) == JoinLines(IF fromHead THEN FirstOf(lines, k) ELSE LastOf(lines, k))
        tooLong == Len(Kept(1)) > MaxBytes
        starts  == {i \in 1..(Len(Kept(1)) + 1) : /\ Len(Kept(1)) - i < MaxBytes
                                                  /\ i <= Len(Kept(1)) => Kept(1)[i] # Cont}
    IN  CASE Fits(content) -> result.content = content /\ result.truncatedBy = ""
          [] ~Fits(content) /\ tooLong /\ fromHead ->
                /\ result.content = <<>> /\ n = 0 /\ result.firstLineExceedsLimit
          [] ~Fits(content) /\ tooLong /\ ~fromHead ->
                /\ result.lastLinePartial
                /\ result.content = SubSeq(Kept(1), Min(starts), Len(Kept(1)))
          [] OTHER ->
                /\ n \in 1..MaxLines /\ Len(Kept(n)) <= MaxBytes
                /\ result.content = Kept(n)
                /\ n = MaxLines \/ n = Len(lines) \/ Len(Kept(n + 1)) > MaxBytes
                /\ result.truncatedBy = "bytes" <=> n < MaxLines /\ n < Len(lines)

TruncationKeepsWhatFits ==
    LET content == IF job.kind = "read" THEN job.file ELSE stream IN
    /\ KeepsWhatFits(content, TruncateHead(content), TRUE)
    /\ KeepsWhatFits(content, TruncateTail(content), FALSE)

(* A file is read completely by following the notices (read.go:61-64): what   *)
(* has been shown is every line up to the next offset, each once, whatever    *)
(* limit each call had, and the call without a notice shows the last ones.    *)
ReadingIsComplete ==
    job.kind = "read" =>
        LET all == SplitLines(job.file) IN
        /\ job.status = "more" => job.shown = SubSeq(all, job.from, job.offset - 1)
        /\ job.status = "complete" => job.shown = SubSeq(all, job.from, Len(all))
        /\ job.status = "beyond" => job.from > Len(all)
        /\ job.status = "tooLong" => Len(all[job.offset]) > MaxBytes

(* What an edit promises (tools/edit.go:38, "It must be unique in the original *)
(* file", and edit.go:65): an accepted old text occurs in the file once.  The  *)
(* code counts matches that do not overlap (editdiff.go:372-376), and none of  *)
(* a text that is only blanks, so "aa" is accepted in "aaa".                   *)
AcceptedTextIsUnique ==
    job.kind = "edited" /\ job.edited.error = "" =>
        \A k \in DOMAIN LFEdits(job.edits) :
            Cardinality(Occurrences(job.edited.base, LFEdits(job.edits)[k].oldText)) <= 1

(* An accepted edit replaces the text it names (editdiff.go:379-384,           *)
(* tools/edit.go:65): the first match, and no other that is apart from it      *)
(* (matches that overlap, and files of blanks, are AcceptedTextIsUnique's).    *)
(* The replaced regions are disjoint, everything else keeps its bytes, a fuzzy *)
(* match normalizes only lines that an edit touches, the order of the edits    *)
(* does not matter, and the byte-order mark and the line endings stay.         *)
EditReplacesNamedText ==
    job.kind = "edited" /\ job.edited.error = "" =>
        LET content  == job.edited.base
            edits    == LFEdits(job.edits)
            Found(text, e) == Occurrences(text, e.oldText) # {}
            fuzzy    == \E k \in DOMAIN edits : ~Found(content, edits[k])
            base     == IF fuzzy THEN NormalizeForFuzzyMatch(content) ELSE content
            Old(k)   == IF Found(base, edits[k]) THEN edits[k].oldText
                        ELSE NormalizeForFuzzyMatch(edits[k].oldText)
            Start(k) == Min(Occurrences(base, Old(k)))
            Region(k) == Start(k)..(Start(k) + Len(Old(k)) - 1)
            Char(p)  == IF \E k \in DOMAIN edits : p = Start(k)
                        THEN edits[CHOOSE k \in DOMAIN edits : p = Start(k)].newText
                        ELSE IF \E k \in DOMAIN edits : p \in Region(k) THEN <<>> ELSE <<base[p]>>
            spans    == LineSpans(base)
            Line(l)  == LET here == spans[l].first..spans[l].last IN
                        IF fuzzy /\ \A k \in DOMAIN edits : Region(k) \cap here = {}
                        THEN LinesOf(content)[l]
                        ELSE FlattenSeq([i \in 1..Cardinality(here) |-> Char(spans[l].first + i - 1)])
            new      == FlattenSeq([l \in DOMAIN spans |-> Line(l)])
            bom      == IF Head(job.before) = BOM THEN <<BOM>> ELSE <<>>
        IN  /\ NormalizeForFuzzyMatch(content) # <<>> =>
                  \A k \in DOMAIN edits : Occurrences(base, Old(k)) \subseteq Region(k)
            /\ \A k, l \in DOMAIN edits : k # l => Region(k) \cap Region(l) = {}
            /\ job.edited.new = new
            /\ ApplyEdits(content, Reverse(job.edits)).text = new
            /\ job.edited.file = bom \o RestoreLineEndings(new, EndsInCRLF(job.before))

(* The diff of an edit is true (editdiff.go:545-547, 712-719, 866-875): it has *)
(* as few changed lines as a diff can have, the patch turns the old text into  *)
(* the new one, its headers count the lines, and every line of the display     *)
(* diff stands in its file at the number shown.                                *)
PatchTurnsOldIntoNew ==
    job.kind \in {"edited", "diffed"} =>
        LET old == job.diff.old
            new == job.diff.new
            patch == job.diff.patch
            output == job.diff.display.output
            common == CHOOSE n \in {Len(s) : s \in AllSubSeqs(old) \cap AllSubSeqs(new)} :
                        \A s \in AllSubSeqs(old) \cap AllSubSeqs(new) : Len(s) <= n
            Changes(kind) == {i \in DOMAIN output : output[i].kind = kind}
            Side(hunk, kind) == LET kept == SelectSeq(hunk.lines, LAMBDA l : l.kind \in {"same", kind})
                                IN [i \in DOMAIN kept |-> kept[i].line]
            First(start, count) == IF count = 0 THEN start + 1 ELSE start
            Apply(done, h) ==
              LET at == First(h.oldStart, h.oldLines) IN
              [text |-> done.text \o SubSeq(old, done.next, at - 1) \o Side(h, "added"),
               next |-> at + h.oldLines]
            applied == FoldLeft(Apply, [text |-> <<>>, next |-> 1], patch)
        IN  /\ Cardinality(Changes("removed")) = Len(old) - common
            /\ Cardinality(Changes("added")) = Len(new) - common
            /\ applied.text \o SubSeq(old, applied.next, Len(old)) = new
            /\ \A k \in DOMAIN patch :
                  LET h == patch[k] IN
                  /\ Side(h, "removed") = SubSeq(old, First(h.oldStart, h.oldLines),
                                                 First(h.oldStart, h.oldLines) + h.oldLines - 1)
                  /\ Side(h, "added") = SubSeq(new, First(h.newStart, h.newLines),
                                               First(h.newStart, h.newLines) + h.newLines - 1)
            /\ \A i \in Changes("added") : new[output[i].number] = output[i].line
            /\ \A i \in Changes("removed") \cup Changes("same") : old[output[i].number] = output[i].line
            /\ old # new =>
                  LET at == job.diff.display.first IN
                  /\ at \in 1..(Min({Len(old), Len(new)}) + 1)
                  /\ \A i \in 1..(at - 1) : old[i] = new[i]
                  /\ at \in DOMAIN old \cap DOMAIN new => old[at] # new[at]
=============================================================================
