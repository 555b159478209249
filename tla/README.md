# TLA+ models and proofs of the Agent core

This directory holds TLA+ models of the Go library in `src/` (an agent core: a
loop that sends a transcript to a model provider, runs the tools the model asks
for, and persists what happened in a session), the TLC runs that check them, and
TLAPS proofs about them. Every definition is translated from the source;
`PROJECT.json` maps each one to the lines it stands for.

    tlasany PromptLoop.tla
    tlc -workers 2 -config PromptSafety.cfg PromptLoop
    tlapm PromptLoopProofs.tla

## 1. Inventory

**Prompt loop** (`prompt.go`, `event_stream.go`). One goroutine per prompt. State:
the phase, turn counter, `terminated` and `suspended` flags, the events and done
channels, the steer and follow-up channels, the context. Operations: the turn
(request, stream, append), the tool batch (preflight, launch, wait or leak,
collect and persist in source order), the turn-end flush, the hook, steer
injection, automatic continuation, follow-up, `finish`, and the deferred calls.
It shares `Agent.running`, `pendingActiveTools` and the session with the Agent.
Hard: tool goroutines that outlive the loop, the shutdown timeout against late
completions, cancellation at any point, an Append that fails half way. Correct
means: results answer calls, in order and once; no request over an unanswered
call; nothing but bookkeeping after the result; a cancelled prompt always ends.

**Agent** (`agent.go`, `setters.go`, `active_tools.go`, `snapshot.go`). State:
`running`, `current`, `lastSessionID`, the configuration fields and
`pendingActiveTools` under `mu`. Operations: Prompt and Resume (`start`), Stop,
Steer, FollowUp, Context, the setters, Snapshot, Compact. Hard: the start window
between taking the slot and publishing the prompt, the unwinding window between
releasing the slot and the last drain, and SetActiveTools, which persists its
change in one of four ways depending on what it sees. Correct means: one runner;
the prompt in flight is the one the calls address; a change of the active tools
is written exactly once, in the right session.

**Compaction** (`compact.go`, `summarize_retry.go`, `message.go`). Summaries of
transcript ranges, computed while the agent is idle, and their substitution when
a context is built. Hard: the busy check is not a lock, repeated compactions
overlap, cut points between a call and its result, retry bounds. Correct means:
no message is lost or shown twice to the model, and calls keep their results.

**Session repositories** (`session/`). An in-memory log and a JSONL file. Hard:
a crash inside a line, the repair of the trailing newline, records longer than
the scanner's limit. Correct means: what Append accepted, Load returns.

**Bash tool** (`tools/bash.go`, `tools/shell_output.go`, `tools/env_unix.go`). A
throttle with a timer and a mutex, output capture with a spill file, process
group kill. Hard: a timer that fires while the throttle is being stopped,
grandchildren that hold the pipe. Correct means: no update after the last one,
no output lost, Exec returns after a timeout or a cancellation.

**File mutation** (`tools/mutation_queue.go`, `write.go`, `edit.go`,
`editdiff.go`). One mutex per canonical path, never removed. Hard: a path that
does not exist yet has another key than the file it becomes. Correct means:
writers of one file exclude each other, and an edit applies to the text it read.

**Pure algorithms** (`tools/truncate.go`, `tools/editdiff.go`). Boundary cases
of truncation by lines and by bytes, and of matching edits. Correct means: they
agree with a reference definition on every short input.

**Not state machines**: tool registry and schema generation (`tool.go`), skills
(`skill.go`, `piskills/`), events, hooks, errors and configuration types, image
and path helpers, test helpers and examples.

Interactions: `start` launches the loop and publishes it; the loop reports on its
channels, calls SessionRepo, the provider, the tools and the hooks, and gives
`running` back; the setters and Stop reach the loop through `current`,
`pendingActiveTools` and the context; tools call back into the event channel.

## 2. Plan

| order | module | what | state |
| --- | --- | --- | --- |
| 1 | `ToolBatch` | goroutines of one tool batch and their semaphore | done |
| 2 | `PromptLoop` (extends 1) | the loop of one prompt | done |
| 3 | `EventStreamContract` | abstract promise of an EventStream; `PromptLoop` implements it | done |
| 4 | `AgentLifecycle` | successive prompts, SetActiveTools, sessions | done |
| 5 | `PromptLoopProofs`, `AgentLifecycleProofs` | theorems about 1 to 4 | done |
| 6 | `Compaction`, `CompactionProofs` | Compact against Prompt, ranges, `BuildLLMContext`, retry | done |
| 7 | `SessionLog`, `SessionFile`, `SessionFileProofs` | an abstract log, the JSONL file with crash and restart that implements it | done |
| 8 | `MutationQueue`, `MutationQueueProofs` | write and edit, per-file exclusion | done |
| 9 | `Truncation`, `ShellCapture`, `BashTool` (each extends the one before), `BashToolProofs` | capture, spill, throttle, kill and wait of one bash call | done |
| 10 | `EditMatch`, `LineDiff`, `TextTools` (extends both and `ShellCapture`) | truncation, read windows, edits and diffs against reference definitions | done |
| 11 | `TextToolsProofs` (extends 10 and `BashToolProofs`) | theorems about the capture, truncation, reading and line diff of 10 | done |
| 12 | `FoldTheorems` | induction and the fold of a sequence, for the proofs of 6, 7, 9 and 11 | done |

Abstract specifications: the EventStream contract and a session as an atomic log
(both done, and both proved to be implemented, the first without its fairness).
What section 5 leaves to TLC is named at its end.

## 3. The models

### ToolBatch

Follows `executeTools` from the first `go` statement to the deferred
`wg.Done()`. A call is its index in the assistant message. `task[i]` is the
goroutine's progress: waiting for the semaphore, inside the tool, result
recorded, inside `emit`, past it, exited. `outcome[i]` is `results[i]` up to the
marks the loop looks at (Terminate, Suspend, failure). `sema` counts the tokens in
the channel. An emit is two steps with `emitMu` held between them: the event goes
to `ended`, or to `dropped` when the channel stayed full for 100 ms. The progress
reports of a streaming tool take `emitMu` the same way, also after the tool's batch
was leaked or its prompt is over. `executeTools` treats
MaxParallelTools 0 as unbounded and so does the module, although `NewAgent`
replaces 0 by 32, so that the runs use 1 and 2.

### PromptLoop

`pc` is where the loop goroutine is; every early return of `loop`, `runOneTurn`,
`executeTools` and `awaitToolBatch` is an action ending in `Finish`. The deferred
calls are separate steps in the order Go runs them: release the slot, final
flush, close Done, close Events, cancel the context. Other goroutines cancel
(`Cancel`), queue (`Steer`, `FollowUp`, `SetActiveTools`), or are tools.

What is abstracted:

- A message is its type, the turn and the call. `transcript` is what the session
  holds after the transcript that was loaded, and `known` how much of it the
  in-memory copy has too.
- Appending the messages of one turn (or the entries of one flush) is one step; a
  failing Append ends it at any message, whose record may be in the file
  (`jsonl.go:70-74`) while `r.transcript` is not extended. Tool results are appended
  one by one, with other goroutines running in between.
- The loop's own emits, which take `emitMu` and give it back, are left out: what
  matters of them is that an event may be dropped, which no step depends on.
- The provider answers with text or not, up to MaxCalls calls, and a stop reason
  that may be "length".
- An error of the provider, a hook or the SessionRepo may wrap anything in
  `Raisable`, `context.Canceled` and ErrAgentStopped included, whatever the context
  is. `result.raised` records that the error of the result is one of these.
- A hook may fail or stop the prompt after any turn.
- A tool may return any combination of marks, or never.

### EventStreamContract

What the holder of an EventStream may rely on: the log grows while the prompt is
open, the prompt concludes once with the messages of that moment (all but the last
one when appending it failed and the log has it all the same), later entries
are bookkeeping only, Done closes before Events, a cancelled prompt concludes.
`PromptLoop!ImplementsContract` instantiates it with a refinement mapping.

### AgentLifecycle

Prompts go through `stage`: the steps of `start` that touch shared state, the
loop reduced to its turn-end flushes, and the deferred calls. A session is
reduced to its `active_tools_change` entries; a set of active tools is
identified with the call of SetActiveTools that chose it, and 0 is nil. The
critical sections of `mu` are single steps; what the code does after unlocking
(the idle append of a setter, the appends of a flush, the bind-time record) is
later steps. Resume is a start whose tail check is one of the ways it may fail. A
prompt may name any session id, since the repositories load one they have never
seen as an empty session. An Append that fails may have written its entry.
`owner` and `lost` are history variables.

### Compaction

Several calls of Compact (`pc[c]`, one action per step that reads or writes
shared state or calls the provider), beside a prompt that loads the log, loads
the summaries and then appends, a change of the active tools that the prompt does
not see, and summaries written by the embedding program. The busy check is part
of `Begin` only, as in the code. A message is its type and position. Each weighs
one token and KeepRecentTokens ranges over every length, so that `FindCutPoint`
returns every cut that messages of other weights would give. A summary records
its range and, as history, the positions whose content its request held (`saw`).
`BuildLLMContext` is the code's: the exchange sort, the skip of overlapping
summaries, the stripped bookkeeping. The retries of `summarizeWithLLM` are the
attempt number and, while an episode is open, the last phase given to the hook;
delays are left out. An
AppendBranchSummary that fails may have written its record ("unsaved").

### SessionLog and SessionFile

`SessionFile` is one append-only file of `JSONLSession`, as tokens: a record, a
proper prefix of one, or a newline. Append holds the mutex, so one call is in
progress, through repair, record, newline and sync; it may be cut off after any
write or in the middle of a record (an error or a killed process), and the machine
may crash, which keeps what was synced and any prefix of the rest. Bookkeeping
for the property is in `acked` and `durable`. `SessionLog` is what SessionRepo
promises: the log grows at its end in the order of the calls, and only what was
never acknowledged can be lost; `ImplementsLog` maps `log` to what Load returns.
Assumed: one process writes the file; no line exceeds the scanner's limit;
the directory entry of the file survives a crash (the code syncs the file only).

### MutationQueue

The write and edit tools: key, mutex, the reads and the two steps of
`os.WriteFile` (truncate, write), every early return, and the deferred unlock.
Paths, files, links and canonical paths are CONSTANTS; the text of a file is the
sequence of mutations it shows, and `shown` is what it would be if mutations were
atomic. Other programs may remove a file that nobody is mutating.

### Truncation and ShellCapture

A text is a sequence of byte classes: the newline, a continuation byte, and
bytes that begin a character. `Truncation` has `TruncateHead`, `TruncateTail` and
the partial last line, which starts at a character. `ShellCapture` is the capture
behind the pipe: `Observe` is `observeChunk` under its mutex, which sanitizes the
chunk (a character split over two reads becomes replacement characters in both),
counts bytes and lines, starts the spill file with the untrimmed tail when the
output exceeds the limits, and trims the tail to twice the limit. Creating and
writing the spill file may fail, and must fail when the context is done. `stream`
is a history variable, the whole sanitized output.

### BashTool

One call of `ExecuteStream`. `pc` is the goroutine of the tool, through the
select of `OSEnv.Exec`, the wait after a kill, the end of the capture, the final
flush and the deferred stop. Beside it run the goroutine that copies the pipe
(`pump`: between the capture and the throttle another goroutine may step in), the
one in `cmd.Wait`, the deadline, whoever cancels, the callbacks of the throttle's
timers, and the processes that hold the pipe: bash, a background job of its
process group, and a daemon that has left the group. Time is abstract:
`throttle.elapsed` says whether the interval has passed since the last emission.
A timer is named by the chunk that set it; firing and running its callback are
two steps, so that a callback that waits for the mutex cannot be stopped and may
forget a newer timer, as in the code.

### EditMatch, LineDiff and TextTools

`EditMatch` is the matching of the edit tool: line endings and byte-order mark,
exact and fuzzy search, the count of occurrences, the checks of the sorted
matches, and the replacement that keeps the untouched lines of a fuzzily matched
file. Characters are model values; `Plain` maps the fancy ones to what the
normalization makes of them. `LineDiff` is `computeLineDiff` (Myers with the pruned
diagonals of the code), the hunks of the patch and the first changed line;
`Context` is the constant 4 of the code. `TextTools` gives these to TLC as jobs: a
capture fed chunk by chunk, a reader that follows the offsets the read tool's
notices name, an edit with the diff of its effect, and the diff of any two texts.

### MCFiles

`SessionFile`, `MutationQueue` and `TextTools` share nothing. `MCFiles` checks them in
one run: `part` says at the start which of the three a behaviour is of, the other
two rest, and the fairness is that of the calls of `MutationQueue`.

## 4. The runs

| run | shows |
| --- | --- |
| `prompt_safety` | eleven safety and action properties of one prompt |
| `prompt_liveness` | a cancelled prompt ends and unwinds; the contract is implemented |
| `agent_safety` | one runner; queued changes have a drain and are written once |
| `final_drain` | finding: the final drain takes the next prompt's change |
| `bind_record` | finding: a change in the start window is recorded nowhere |
| `compaction` | contexts lose, repeat and move nothing; a Compact writes at most one summary, and one that fails before its append none; retries are closed |
| `compact_twice` | finding: the summary of a second Compact is never shown |
| `files` | acknowledged messages stay readable and the file implements `SessionLog`; mutations of a file exclude each other, none is lost, every call returns; captures, reads, edits and diffs agree with their reference definitions |
| `link_to_new_file` | finding: a file created through a link has two mutexes |
| `bash_tool` | held-back output is shown, the last update is the result, updates follow the stream, a timeout or cancellation returns |
| `stop_precedence` | finding: a stopped prompt may report that its caller cancelled it |
| `unique_text` | finding: an old text that occurs twice is accepted |

**Bounds.** Two calls and one semaphore token give queueing, completion out of
order, and every pair of outcomes. `prompt_safety` has two turns with tools, so
that a leaked batch, a late request or an unanswered call of one turn can meet
the next, and one steer; `prompt_liveness` has one turn with tools and one
follow-up, and `MaxToolTurns` bounds only the turns that may call tools, so that a
follow-up always has its turn. One change and one Append failure are enough for
every pair of exits: after a failure the prompt ends. `prompt_safety` has every
cause; its errors are one of their own kind or `context.Canceled`, which are the two
that differ in what `ErrNamesTheCause` must tell apart. `Texts` is {TRUE} in both:
a turn without text has a message less and no other exit. The properties relate the entries of one turn and its
neighbour. Two prompts are the smallest number that overlap in the unwinding and
start windows; a third one cannot start before the second releases the slot, and
the old drain is the only thing that outlives a release. Two sessions separate
the old prompt's session from the new one's, two changes give a queue with an
order. `compaction` has a log of three entries, which gives cuts 1 and 2 and a cut
after a tool call, two Compacts whose cuts differ, and an imported summary of any
range, so that ranges may nest, overlap or be disjoint; one retry separates the first
attempt, a repeated one and exhaustion; the two Compacts are symmetric and so are
declared so (no liveness is checked there). The sessions of `files` have three failures, so
that a torn line, its repair and a crash of the repaired file meet, and batches
of up to two. Its calls are two edits and a write, the fewest where a lost
update needs a third call in between, an existing file with a link and a new file
that may be removed once. `bash_tool` has four chunks of one line: the first is
shown at once, the second sets a timer, a third can be shown directly while that
timer's callback waits for the mutex, and a fourth sets the timer that the callback
forgets; limits of two lines and four bytes make the third overflow and start the
spill. The jobs of `files` have outputs of up to four chunks, among them a character split
over two reads; the limit of four bytes is the smallest that holds the three bytes
of a replacement character beside another byte, and eight bytes are then kept.
They read every file of up to seven bytes (more than the reach of two pages),
edit every file of up to four characters with one or two edits that match exactly,
fuzzily, twice, overlapping or not at all, and diff every pair of texts of up to five
lines over two lines, with and without a newline at the end. `Context` is 1,
so that five lines hold two hunks, and hunks that touch. The violation runs use the smallest bounds that show the disagreement.

**Fairness** (`PromptLoop!Fairness`): the loop goroutine is scheduled and the hooks
and SessionRepo calls it makes return; the shutdown timer fires; the provider
ends its stream once its context is cancelled (the contract of the provider
interface); an emit ends, after 100 ms at the latest. The fairness of the loop is
strong because `closeEvents` waits for `emitMu`, which a leaked tool may take again
and again for its progress reports: Go's mutex hands itself over to a waiter that
starves. Nothing is assumed of tools or of the rest of their goroutines, of callers,
or of the provider while the context is live, so only a cancelled prompt is shown
to end. `MutationQueue!FairQueueSpec`, and so `files`, assumes that a
goroutine that can step does, mutex included, and that the file system answers.
`BashTool!Fairness` is about the goroutines of the library and its timers; nothing is assumed of the processes of
the command, so that a return is shown only after a timeout or a cancellation, and
only if no process outside the group holds the pipe. Nothing is assumed of the
sessions and text jobs of `files`.

**Deadlock** is checked in every run; a finished system stutters in `Over`.

## 5. The proofs

`PromptLoopProofs` is about one prompt, for all constants. Its first part proves
that the semaphore holds one token for each goroutine between acquire and
release (`SemaCountsHolders`), from the cardinality theorems of finite sets, and
with it `TypeOK` and `ParallelismBounded`. Neither is inductive alone. A launch
overwrites `task`, so the tokens stay equal to the holders only if no goroutine of
an older batch is left: the invariant carries `BatchPhase`, which says that
outside the phases that wait for or have abandoned a batch every goroutine is idle
or done. The result of a leaked batch is the context's cause, which is an error
only when the context is cancelled, so `CausePhase` says that the shutdown phase
has a cause.

`NoSendOnClosedEvents` needs `EmitInv`: at most one goroutine is inside the emit of
its result, it holds `emitMu` as its own, and while anybody holds it the channel is
open. A send found the channel open, and the close waits for the mutex.

Its second part proves what a prompt leaves behind. The argument is what one step
may append to the log (`TranscriptStep`, from `MayAppend`): nothing but an
`active_tools_change` once the result is out, and a tool result only of the batch
being collected. Four invariants carry it: `OutcomeInv` (a result exists exactly
from `finish` on, its error is one that was returned to the loop or the first cause,
and a request sent late means the context is cancelled, so no second one follows),
`ResultInv` (no result of a turn is in the log before its
batch is collected, so that a batch given up has none), `AnnounceInv` (a goroutine
past its emit has had its event sent or dropped, because the channel is still open
while a batch is collected) and `KnownInv` (up to `finish` the prompt knows all of
the log, since a failing Append ends it). The action properties follow.

Its third part proves the refinement of the contract, step by step:
`PromptKeepsContract` is `Spec => Contract!SafeSpec`, the contract without its
fairness. `ContractInv` ties the two channels to the place of the loop among its
deferred calls; `StreamStep` sorts the steps into those of an open prompt, the one
that concludes it and those of the deferred calls, and each maps to one action of
the contract or a stutter.

Its last part proves `ResultsAnswerCalls`, `RequestSeesAllResults` and
`CleanEndExplained`. For the first, a result must find its call behind the results
persisted before it: `AnswerInv` says that while the calls of a turn are open they
stand one after the other in the log, and only entries of the same turn follow
(`CallsStand`), and that while results persist only those of calls already passed
are there (`ResultsBefore`). For the other two, `DanglingInv` says which calls may
be unanswered at each place of the loop: none before a turn, this turn's while its
batch runs, those still to come while results persist, and after that only those
which `terminated` or `suspended` explains; both flags are down everywhere else.

`AgentLifecycleProofs` proves `TypeOK`, `SingleRunner`, `CurrentIsInFlight`,
`LiveContextMeansUnfinished`, `QueueHasADrain` and `ChangeInOnePlace` for any
number of prompts, sessions and changes. `running - 1` stays in {0, 1} only
because of exclusion, so `TypeInv` is `TypeOK` together with `SingleRunner`;
`PublishInv` adds what start has established at each of its stages; `DrainInv` is
about the queue (what a failed start leaves in it is exempt: no prompt is there to
drain it). For `ChangeInOnePlace`, the places of a change are a function of
the queue, of what the flushes hold, of the sessions and of its own call
(`PlacesIn`), and every step that touches one of them moves an occurrence from one
to the next (`TakingMoves`, `AppendingMoves`), puts the first one there, or drops the
one there is into `lost`, of which a failing Append may leave the entry in the
session and nowhere else (`Placed`); `FlushInv` says that entries are in hand only in a flush.

`FoldTheorems` has what proofs about folds rest on. The induction theorems of the
library cannot be instantiated here, so induction is by the least counterexample,
for a set of naturals (`NaturalInduction`, `BoundedInduction`, `StepsStay`), and
that the recursive function by which the community modules define their folds
exists is proved from it (`FoldExists`, `SequenceFoldExists`, `FlatteningExists`).
A proof about a fold unfolds it into its steps once and then argues per step. The
module ends with where elements are in `Front`, `Reverse`, `SubSeq` and
concatenations, and with the ends of a sequence (`IsEnd`).

`CompactionProofs` proves `TypeOK` and the five properties of `Compaction` for any
number of Compacts, retries, entries and imports. `RetryInv` is about one call: a
wait is that of a retry that is counted and was announced. `CountInv` needs that a
call has no result before it returns, and that only finitely many have written a
summary or failed to, since there may be any number of callers. `CoverInv` says that the cut of a call under way
stays inside a log that may grow at any moment (`CutPoint` is about `FindCutPoint`),
and that its request holds the whole range from the start. `NoMessageLost` and
`PromptSeesEverything` are about `BuildLLMContext`. The exchange sort brings in no
summary it was not given (`SortKeeps`); of their order nothing is needed, because
the loop that follows skips what overlaps. It keeps that the parts placed so far tile the log up to where it stands
(`Tiles`) and that each stands for its own positions (`Standing`); the filter of the
bookkeeping removes no message and keeps a call before its result (`Kept`).

`SessionFileProofs` proves `AckedIsReadable` for any number of messages and
failures. Being readable is not inductive: the last record of a file without a
newline is readable until something is written behind it. `FileInv` asks that an
acknowledged record be settled, its newline included, in what was synced; what is
settled survives any append (`SettledAppend`) and any crash that keeps what was
synced, and `EnsureTrailingNewline` makes a record start on a line of its own.
`FileImplementsLog` proves the refinement of `SessionLog`. `Load` is a fold over the
file: `LoadAppend` says what one more token does to what it returns, `LoadExtends`
that a file that continues another one line by line loads to an extension of it.
`LogInv` says that records stand on lines of their own, that messages are in the
order of the calls, and that what was promised is in the synced part, so that a
crash maps to a loss of what was not.

`MutationQueueProofs` proves `SameFileExcluded` and `NoMutationLost` for any
callers, files and paths, under `KeysAreStable`: a path has no symbolic link or
leads to a file that exists for good. Without it both are false, which
`link_to_new_file` shows. `LockInv` says that a key is the canonical path of its
file and that who is inside holds the mutex of its key; `TextInv` that what an edit
has read is still what the file should show.

`BashToolProofs` proves `NewsIsScheduled`, `LastUpdateIsResult`,
`SpillHoldsWholeStream` and `UpdatesFollowStream` for any number of chunks, any
output, any limits and any ends of the command, and `OutputIsTailOfStream` for limits
of at least four bytes. `ThrottleInv` says that a set timer
pointer is to a timer that is armed or whose callback is waiting; a callback that
forgets a newer timer therefore emits what that timer was set for. `EndInv` says that
the end of the pipe means that no process holds it and that the tool goes past its
select only behind that end, so that nothing is read after the final flush.
`SpillInv` says that until the spill starts the output has not overflowed, nothing
was trimmed and the tail is the whole stream, so that what the file is given first
is whole; from then on it gets what the stream gets. `ShownInv` says that what was
last shown is an earlier state of the capture, whose totals only grow
(`CountedFacts`), and that a call refused at its start never shows anything.

That the tail a capture keeps shows what the whole stream would rests on `TailInv`:
the tail is `SuffixWithin` of the whole stream, the totals are those of
`SplitLines` of the whole stream, and the stream has no continuation byte outside a
character. Chunk by chunk this needs that a text may be trimmed before more is added
to it (`TrimmedBefore`), which holds because `Sanitize` makes whole characters of
any chunk (`SanitizedIsText`), and that the lines of two texts are joined at one
line (`LinesOfJoined`). From `TailInv` the report follows by `TailIsEnough`:
`TruncateTail`, which goes from the last line to the first, ends before it could see
where two texts with the same last `MaxBytes + 2` bytes differ. The tail has that many
bytes when it is trimmed at twice `MaxBytes` and gives up at most two bytes for a
character (`SuffixNotShort`), hence `RoomForCharacters`, `MaxBytes >= 4`: with 3, TLC
finds a line of six bytes of whose beginning the tail keeps nothing, so that the
report names the wrong limit. The code's limit is 50 KiB.

`TextToolsProofs` proves `TruncationKeepsWhatFits` (`KeepsAllThatFits`),
`ReadingIsComplete` (`FollowingNoticesReadsAll`) and, over the jobs of `TextTools`,
`OutputIsTailOfStream` (`CaptureIsTrue`) for any texts, chunks and limits.
`TruncateHead` and `TruncateTail` are one loop over the lines in two directions:
`Fitting` says that what is kept is a first part of the lines, that its bytes are those
of the joined lines, and that nothing more was taken only because one more line would
break a limit (`LoopFits`). Reading from the end, the lines kept last first are joined
in reverse (`LastInReverse`), and a last line that alone is too long is cut where
`SuffixWithin` says (`SuffixBegins`). For a reader, `ReaderInv` adds to the property
where the next offset may be. One call shows the lines of a window from the offset
up to the next one (`ReadsOn`), because lines that hold no newline, joined, split into
the same lines again (`SplitOfJoined`) and because a truncated window shows fewer
lines than it has (`WindowShown`), so that the notice of a truncation never names an offset
past the window; two windows that meet are one (`WindowsMeet`). A call whose limit leaves the
window empty names the offset just asked for and shows nothing.

`DiffIsMinimal` is the correctness of `computeLineDiff` for any two texts: it finds an edit
script, and one that keeps as many lines as the texts have in common in order
(`ShareAtMost`, in terms of increasing places in both texts, not of the search). The invariant is that
of Myers' argument, with the pruning the code adds. After the edit length n
(`Searched`), a path on a diagonal of the parity of n is one that n edits lead to
(`On`: a walk through both texts, `Leads`) and is as far as any n edits can get there (`Farthest`),
and the bounds `min` and `max` leave out only diagonals beyond a path that
has reached the end of a text (`Bounded`), on which nothing can come back to the other
end (`NothingOutside`). `Searching` is the same while the diagonals of the
next length are taken from the lowest up: those below already have the new paths,
those above still the old ones, which is why the loop may go over one map. That
the longer of two neighbours gives the farthest path (`FarthestAfterOne`) rests
on `NearSplits`: a shared last line, or one of the two lines not shared. The end
is found when the first length that reaches it is tried (`EditLengthGoes`), at the latest
after all lines of both texts (`SearchFinds`), so the panic after the loop is
unreachable.

The type invariants of `SessionFile`, `MutationQueue` and `BashTool` are proved
(`FileTypeCorrect`, `QueueTypeCorrect`, `BashTypeCorrect`) and need no run.

The assumptions are the named ASSUMEs on the constants, which TLC evaluates
(`ChunkAssumption` says that a read returns a non-empty sequence of bytes, as the copy
loop guarantees; `ReadFileAssumption` that a file is a sequence; `LimitsAreIntegers`
that a limit, when given, is an integer, negative ones included), and two that a theorem states itself: `KeysAreStable`
and `RoomForCharacters`, which the constants of `files` satisfy (and those of
`bash_tool` the second).

**Model-checked only**: liveness (`StopReturns` and the leads-to properties,
`ImplementsContract` with its fairness, every call of `MutationQueue` returning),
because fairness and ENABLED are out of the prover's reach;
`PatchTurnsOldIntoNew`, of which `DiffIsMinimal` proves the search, and not that the hunks,
their headers and the display follow from it; and `EditReplacesNamedText`, whose
loops are folds that `FoldTheorems` applies to, but which needs that the replaced regions,
sorted, tile the text.

## 6. Findings

1. `prompt.go:264-271`: the slot is released before the final drain, so a change
   that SetActiveTools queues while the next prompt is starting can be drained
   into the previous prompt's session, which the comment there rules out.
2. `agent.go:396`: the bind-time record is written before the session is bound, so
   a change in between is recorded nowhere, against `setters.go:89-92`.
3. `compact.go:317`: every summary starts at 0 and `BuildLLMContext` shows the oldest
   of those that overlap, so a second Compact of a session has no effect, against
   `CONTEXT.md:115`.
4. `mutation_queue.go:89`: a path to a file that does not exist yet is keyed with its
   links unresolved, so two calls may mutate the file at once, against
   `mutation_queue.go:12-17` and `CONTEXT.md:62-64`.
5. `prompt.go:250-258`: `asCancellation` looks at the error of a turn and not at the
   cause of the context. A provider, hook or SessionRepo that returns its `ctx.Err()`
   (`context.Canceled`) ends a prompt that Stop cancelled with ErrPromptCancelled,
   against `prompt.go:246-248` and ADR-0004:37. The same test takes such an error
   for a cancellation when nothing is cancelled.
6. `editdiff.go:376`: occurrences are counted without overlap, so "aa" is accepted in
   "aaa", against `edit.go:38` and `edit.go:65`. An old text of blanks is counted as
   the empty text, once per character and once more, and is accepted in a file of
   blanks only.

Also seen while modelling; no run is spent on these:

- `agent.go:313`: Steer and FollowUp return nil after the prompt has ended, against
  `errors.go:17-18`. `config.go:15`: `ToolExecSequential` is read nowhere.
- `bash.go:380`, `bash.go:447`: when the tool returns an error, a callback that was
  waiting for the mutex still emits an update afterwards; on the other paths
  `LastUpdateIsResult` rules it out. `bash.go:443-448`: a late callback forgets a
  newer timer, which then stays armed past the return, with nothing to emit.
- `env_unix.go:41-65`: a bash that has exited may be reported as timed out or
  cancelled when both are ready; after a kill Exec waits for the pipe as long as a
  process outside the group holds it (`StopReturns` names that case).
- `shell_output.go:127`: a character split over two reads becomes replacement
  characters in both.
- `agent.go:183` and `agent.go:412` call the load of a resumed session a check that
  it exists; both repositories load an unknown id as an empty session without an
  error (`agent.go:564-570`, `session/jsonl.go:83-86`, `session/memory.go:62-65`).
- `jsonl.go:70-74`, `jsonl.go:153-156`: a call that returns an error may have written
  its record, so a prompt's messages can lack one that the session has, and a
  Compact that failed can have left its summary.
- `editdiff.go:376`: a text that is unique exactly is refused when it has a second fuzzy
  match; a last line of blanks without a newline makes every fuzzy edit fail on the
  count of lines; mixed line endings are rewritten to the kind of the first.
- `read.go:255`: with limit 0 the notice names the offset just asked for; a first
  line over the limit names none.
- `editdiff.go:873`: the first changed line of a deletion at the end is past the end.

## 7. Not modelled

Streaming deltas, usage and cost; the payloads of messages, hooks and events; the
setters that replace one configuration field under the mutex; Snapshot; the clock,
other than the timers named above. Of the sessions: Create, List, the scanner's line
limit, the two files of Delete, and the in-memory session. Of the mutations: a file
removed while it is mutated, and readers that do not take the mutex. Of Compact: token
estimates, backoff delays, and the window in which a prompt loads the log before,
and the summaries after, a whole Compact (the premise of `PromptSeesEverything`).
Of the bash tool: the wording of notices and statuses, the environment of the
command, what the Prepare hook rewrites, other platforms than Unix, and a killed
process group whose number was used again. Of the texts: characters of more than two
bytes in the input, normalizations that expand one character to several,
lenient decoding of arguments, line numbers and labels of the rendered diff,
images and path expansion. Transcript codec, tool registry, skills, events,
configuration and test helpers have no state machine (section 1).
