------------------------------ MODULE LineDiff ------------------------------
(***************************************************************************)
(* The diff of tools/editdiff.go: computeLineDiff (Myers, as jsdiff does   *)
(* it), the hunks of the unified patch and the display diff.  A text is a  *)
(* sequence of lines, and a last line with no newline is another value.    *)
(***************************************************************************)
EXTENDS Integers, SequencesExt, FiniteSetsExt

CONSTANT Context    \* lines of unchanged text around a change, four in both diffs

ASSUME ContextAssumption == Context \in Nat \ {0}

-----------------------------------------------------------------------------
(* computeLineDiff.  A path on diagonal d has consumed path.old lines of    *)
(* the old text and path.old - d of the new one, as runs of equal steps.    *)

Run(kind, count) == [kind |-> kind, count |-> count]

\* addToPath
Step(path, kind) ==
    [old  |-> path.old + (IF kind = "removed" THEN 1 ELSE 0),
     runs |-> IF path.runs # <<>> /\ Last(path.runs).kind = kind
              THEN Append(Front(path.runs), Run(kind, Last(path.runs).count + 1))
              ELSE Append(path.runs, Run(kind, 1))]

\* extractCommon
Slide(old, new, path, d) ==
    LET Common(n) == \A i \in 1..n : old[path.old + i] = new[path.old - d + i]
        n == Max({k \in 0..Min({Len(old) - path.old, Len(new) - (path.old - d)}) : Common(k)})
    IN  IF n = 0 THEN path ELSE [old |-> path.old + n, runs |-> Append(path.runs, Run("same", n))]

NoPath == [old |-> -1, runs |-> <<>>]

\* The body of the inner loop
Diagonal(old, new, search, d) ==
    LET remove    == search.best[d - 1]
        add       == search.best[d + 1]
        canAdd    == add # NoPath /\ add.old - (d + 1) \in 0..(Len(new) - 1)
        canRemove == remove # NoPath /\ remove.old < Len(old)
        cleared   == [search.best EXCEPT ![d - 1] = NoPath, ![d] = NoPath]
        path      == Slide(old, new, IF ~canRemove \/ (canAdd /\ remove.old < add.old)
                                     THEN Step(add, "added") ELSE Step(remove, "removed"), d)
        oldDone   == path.old >= Len(old)
        newDone   == path.old - d >= Len(new)
    IN  IF search.found # NoPath THEN search
        ELSE IF ~canAdd /\ ~canRemove THEN [search EXCEPT !.best = cleared]
        ELSE IF oldDone /\ newDone THEN [search EXCEPT !.found = path]
        ELSE [search EXCEPT !.best = [cleared EXCEPT ![d] = path],
                            !.max  = IF oldDone THEN Min({@, d - 1}) ELSE @,
                            !.min  = IF newDone THEN Max({@, d + 1}) ELSE @]

\* The diagonals of one edit length: those between the bounds that hold when it begins
Lanes(search, n) ==
    LET low  == Max({-n, search.min})
        high == Min({n, search.max})
    IN  [k \in 1..((high - low) \div 2 + 1) |-> low + 2 * (k - 1)]

EditLength(old, new, search, n) ==
    FoldLeft(LAMBDA s, d : Diagonal(old, new, s, d), search, Lanes(search, n))

\* The longest edit, and the path with none
Longest(old, new)   == Len(old) + Len(new)
StartPath(old, new) == Slide(old, new, [old |-> 0, runs |-> <<>>], 0)

FirstSearch(old, new) ==
    LET longest == Longest(old, new) IN
    [best |-> [[d \in -(longest + 1)..(longest + 1) |-> NoPath] EXCEPT ![0] = StartPath(old, new)],
     min  |-> -longest, max |-> longest, found |-> NoPath]

\* The outer loop
Searches(old, new) ==
    FoldLeft(LAMBDA s, n : EditLength(old, new, s, n), FirstSearch(old, new),
             [n \in 1..Longest(old, new) |-> n])

\* The runs of the path that the search finds: its panic is an empty one.
ComputeLineDiff(old, new) ==
    LET start == StartPath(old, new) IN
    IF start.old >= Len(old) /\ start.old >= Len(new) THEN start.runs
    ELSE Searches(old, new).found.runs

\* buildDiffValues: the runs with their lines, which are the new text's when equal
AddValue(old, new, done, run) ==
    LET fromOld == run.kind = "removed"
        lines   == IF fromOld THEN SubSeq(old, done.old + 1, done.old + run.count)
                              ELSE SubSeq(new, done.new + 1, done.new + run.count)
    IN  [parts |-> Append(done.parts, [kind |-> run.kind, lines |-> lines]),
         old   |-> done.old + (IF run.kind = "added" THEN 0 ELSE run.count),
         new   |-> done.new + (IF fromOld THEN 0 ELSE run.count)]

BuildDiffValues(runs, old, new) ==
    FoldLeft(LAMBDA done, run : AddValue(old, new, done, run),
             [parts |-> <<>>, old |-> 0, new |-> 0], runs).parts

Parts(old, new) == BuildDiffValues(ComputeLineDiff(old, new), old, new)

-----------------------------------------------------------------------------
(* Rendering.  A rendered line is [kind, line]; an elided run is "...".    *)

FirstOf(lines, n) == SubSeq(lines, 1, Min({n, Len(lines)}))
LastOf(lines, n)  == SubSeq(lines, Max({1, Len(lines) - n + 1}), Len(lines))

Rendered(kind, lines) == [i \in DOMAIN lines |-> [kind |-> kind, line |-> lines[i]]]

\* Plausible bug: the lines of context before a change are not counted in its start.
BugOpen(parts, i, at) ==
    LET before == IF i = 1 THEN <<>> ELSE LastOf(parts[i - 1].lines, Context)
    IN  [at EXCEPT !.open = TRUE, !.oldStart = at.oldLine, !.newStart = at.newLine,
                   !.range = Rendered("same", before)]

\* A changed part opens a hunk with the context before it.
Open(parts, i, at) ==
    LET before == IF i = 1 THEN <<>> ELSE LastOf(parts[i - 1].lines, Context)
    IN  [at EXCEPT !.open = TRUE, !.oldStart = at.oldLine - Len(before),
                   !.newStart = at.newLine - Len(before), !.range = Rendered("same", before)]

\* An unchanged part closes the open hunk with context after it.
Close(at, lines) ==
    LET after == FirstOf(lines, Context)
        hunk  == [oldStart |-> at.oldStart, oldLines |-> at.oldLine - at.oldStart + Len(after),
                  newStart |-> at.newStart, newLines |-> at.newLine - at.newStart + Len(after),
                  lines    |-> at.range \o Rendered("same", after)]
    IN  [at EXCEPT !.open = FALSE, !.hunks = Append(@, hunk)]

\* The body of the loop of buildUnifiedHunks, whose entries end with an empty one
HunkEntry(parts, at, i) ==
    LET part   == IF i > Len(parts) THEN [kind |-> "same", lines |-> <<>>] ELSE parts[i]
        n      == Len(part.lines)
        opened == IF at.open THEN at ELSE Open(parts, i, at)
        passed == [at EXCEPT !.oldLine = @ + n, !.newLine = @ + n]
    IN  CASE part.kind = "added" ->
               [opened EXCEPT !.range = @ \o Rendered("added", part.lines), !.newLine = @ + n]
          [] part.kind = "removed" ->
               [opened EXCEPT !.range = @ \o Rendered("removed", part.lines), !.oldLine = @ + n]
          [] part.kind = "same" /\ ~at.open -> passed
          [] part.kind = "same" /\ at.open /\ n <= 2 * Context /\ i < Len(parts) ->
               [passed EXCEPT !.range = @ \o Rendered("same", part.lines)]
          [] OTHER ->
               LET closed == Close(at, part.lines) IN
               [closed EXCEPT !.oldLine = @ + n, !.newLine = @ + n]

NoHunk == [open |-> FALSE, oldStart |-> 0, newStart |-> 0, range |-> <<>>,
           oldLine |-> 1, newLine |-> 1, hunks |-> <<>>]

BuildUnifiedHunks(parts) ==
    FoldLeft(LAMBDA at, i : HunkEntry(parts, at, i), NoHunk, [i \in 1..(Len(parts) + 1) |-> i]).hunks

\* GenerateUnifiedPatch: an empty side is at the line before it.
GenerateUnifiedPatch(old, new) ==
    LET hunks == BuildUnifiedHunks(Parts(old, new)) IN
    [i \in DOMAIN hunks |-> [hunks[i] EXCEPT !.oldStart = @ - (IF hunks[i].oldLines = 0 THEN 1 ELSE 0),
                                             !.newStart = @ - (IF hunks[i].newLines = 0 THEN 1 ELSE 0)]]

\* The lines of an unchanged part that the display diff shows: the first
\* head ones and the last tail ones, which are all when they meet.
ShownContext(n, afterChange, beforeChange) ==
    LET head == IF afterChange THEN Min({n, Context}) ELSE 0
        tail == IF beforeChange THEN Min({n, Context}) ELSE 0
    IN  IF afterChange /\ beforeChange /\ n <= 2 * Context THEN [head |-> n, tail |-> 0]
        ELSE [head |-> head, tail |-> tail]

Changed(parts, i) == i \in DOMAIN parts /\ parts[i].kind # "same"

Numbered(kind, lines, first) ==
    [i \in DOMAIN lines |-> [kind |-> kind, line |-> lines[i], number |-> first + i - 1]]

Elided == <<[kind |-> "...", line |-> "", number |-> 0]>>

\* An unchanged part beside a change
ShowSame(lines, shown, first) ==
    Numbered("same", FirstOf(lines, shown.head), first)
        \o (IF Len(lines) > shown.head + shown.tail THEN Elided ELSE <<>>)
        \o Numbered("same", LastOf(lines, shown.tail), first + Len(lines) - shown.tail)

\* One part: after and before say whether a change precedes and follows it.
Show(at, part, after, before) ==
    [oldLine |-> at.oldLine + (IF part.kind = "added" THEN 0 ELSE Len(part.lines)),
     newLine |-> at.newLine + (IF part.kind = "removed" THEN 0 ELSE Len(part.lines)),
     first   |-> IF part.kind # "same" /\ at.first = 0 THEN at.newLine ELSE at.first,
     output  |-> at.output \o
       CASE part.kind = "added"   -> Numbered("added", part.lines, at.newLine)
         [] part.kind = "removed" -> Numbered("removed", part.lines, at.oldLine)
         [] part.kind = "same" /\ ~after /\ ~before -> <<>>
         [] OTHER -> ShowSame(part.lines, ShownContext(Len(part.lines), after, before), at.oldLine)]

DisplayDiff(parts) ==
    FoldLeft(LAMBDA at, i : Show(at, parts[i], Changed(parts, i - 1), Changed(parts, i + 1)),
             [oldLine |-> 1, newLine |-> 1, first |-> 0, output |-> <<>>],
             [i \in DOMAIN parts |-> i])

\* GenerateDiffString: the numbered lines
GenerateDiffString(old, new) == DisplayDiff(Parts(old, new))
=============================================================================
