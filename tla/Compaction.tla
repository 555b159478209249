----------------------------- MODULE Compaction -----------------------------
(***************************************************************************)
(* Compact and the contexts built from its summaries (compact.go,           *)
(* summarize_retry.go): calls of Compact run beside each other and beside a *)
(* prompt of the same session, because the busy check at their start is not *)
(* a lock; the prompt substitutes the summaries it loaded for the messages  *)
(* they cover.                                                              *)
(*                                                                         *)
(* A message of the log is its type and its position.  It weighs one token: *)
(* KeepRecentTokens ranges over every length of a tail, which gives every   *)
(* cut that messages of other weights would.  Ranges are as in the code:    *)
(* [start, end) in positions counted from 0, so that position p of the log  *)
(* is in it when start < p <= end.                                          *)
(***************************************************************************)
EXTENDS Integers, FiniteSets, SequencesExt

CONSTANTS
  Compactor,     \* calls of Compact
  MaxRetries,    \* SummarizationRetryPolicy.MaxRetries
  MaxLog,        \* bound: entries of the session
  MaxCalls,      \* bound: tool calls of one assistant message
  MaxImports     \* bound: summaries the embedding program writes itself

ASSUME CompactionAssumption ==
  /\ MaxRetries \in Nat
  /\ MaxLog \in Nat \ {0}
  /\ MaxCalls \in Nat \ {0}
  /\ MaxImports \in Nat

VARIABLES
  log,        \* the session: types of its messages
  sums,       \* its branch summaries, oldest first
  imports,    \* summaries written by the embedding program
  stage,      \* the prompt: "none", or what it does
  view,       \* the prompt's transcript
  viewSums,   \* the summaries the prompt loaded
  loaded,     \* history: entries of the log the prompt loaded
  pc,         \* where each Compact is
  cut,        \* its compactionPrep.cutIdx
  saw,        \* positions whose content its requests hold
  call,       \* which of the one or two summaries it is computing
  attempt,    \* retries of that summary
  hook,       \* last phase given to OnSummarizationRetry; closed: finished or none
  result      \* what it returned

sessionVars == <<log, sums, imports>>
promptVars == <<stage, view, viewSums, loaded>>
planVars == <<cut, saw>>
retryVars == <<call, attempt, hook>>
vars == <<sessionVars, promptVars, pc, planVars, retryVars, result>>

Type == {"text", "tool_call", "tool_result", "active_tools_change"}
Summary == [start : 0 .. MaxLog, end : 0 .. MaxLog, saw : SUBSET (1 .. MaxLog)]
PC == {"idle", "load", "plan", "call", "wait", "persist", "done"}
Result == {"none", "nothing", "failed", "unsaved", "compacted"}
Phase == {"closed", "scheduled", "attempt_start"}

-----------------------------------------------------------------------------
(* What a context shows: a message of the transcript (from = to), or a      *)
(* summary standing for from .. to and made from the positions in saw.      *)
Verbatim(from, to) ==
  IF from < to
  THEN [k \in 1 .. to - from |->
          [summary |-> FALSE, from |-> from + k, to |-> from + k, saw |-> {from + k}]]
  ELSE <<>>

Substitute(b) ==
  << [summary |-> TRUE, from |-> b.start + 1, to |-> b.end, saw |-> b.saw] >>

(* The exchange sort of BuildLLMContext: for each place, those after it.    *)
Exchange(s, i, j) ==
  IF s[j].start < s[i].start THEN [s EXCEPT ![i] = s[j], ![j] = s[i]] ELSE s

PlacesAfter(s, i) == [k \in 1 .. Len(s) - i |-> i + k]

ExchangeRest(s, i) ==
  FoldLeft(LAMBDA t, j : Exchange(t, i, j), s, PlacesAfter(s, i))

SortedByStart(s) == FoldLeft(ExchangeRest, s, PlacesAfter(s, 0))

(* Plausible bug: summaries that overlap are shown too.                     *)
BugOverlapShown(transcript, acc, b) ==
  [out |-> acc.out \o Verbatim(acc.lastEnd, b.start) \o Substitute(b),
   lastEnd |-> b.end]

(* Plausible bug: EndIdx taken for the last message of the range.           *)
BugEndInclusive(transcript, acc, b) ==
  IF b.start < acc.lastEnd THEN acc
  ELSE [out |-> acc.out \o Verbatim(acc.lastEnd, b.start) \o Substitute(b),
        lastEnd |-> b.end + 1]

(* One summary takes its place, with the messages before it; one that       *)
(* overlaps what stands there already is left out.                          *)
Place(transcript, acc, b) ==
  IF b.start < acc.lastEnd THEN acc
  ELSE [out |-> (IF b.start <= Len(transcript)
                 THEN acc.out \o Verbatim(acc.lastEnd, b.start)
                 ELSE acc.out) \o Substitute(b),
        lastEnd |-> b.end]

Placed(transcript, summaries) ==
  FoldLeft(LAMBDA acc, b : Place(transcript, acc, b), [out |-> <<>>, lastEnd |-> 0],
           summaries)

(* excludeBookkeeping: what is no message of the conversation is left out.  *)
KeepConversational(transcript, out, e) ==
  IF e.summary \/ transcript[e.from] # "active_tools_change"
  THEN Append(out, e)
  ELSE out

Conversational(transcript, context) ==
  FoldLeft(LAMBDA out, e : KeepConversational(transcript, out, e), <<>>, context)

BuildLLMContext(transcript, summaries) ==
  LET placed == Placed(transcript, SortedByStart(summaries)) IN
  IF summaries = <<>>
  THEN Conversational(transcript, Verbatim(0, Len(transcript)))
  ELSE Conversational(transcript,
                      placed.out \o Verbatim(placed.lastEnd, Len(transcript)))

IsValidCutPoint(type) == type \notin {"tool_result", "active_tools_change"}

(* The cut is the first valid message from the newest one whose tail holds  *)
(* keep tokens, or that message itself; 0 when the log holds fewer.         *)
FindCutPoint(msgs, keep) ==
  LET full == {i \in DOMAIN msgs : Len(msgs) - i + 1 >= keep}
      valid == {j \in DOMAIN msgs : j >= Max(full) /\ IsValidCutPoint(msgs[j])}
  IN  IF full = {} THEN 0
      ELSE IF valid = {} THEN Max(full) - 1
      ELSE Min(valid) - 1

(* Calls of the newest assistant message that have no result yet.           *)
Unanswered(msgs) ==
  LET texts == {i \in DOMAIN msgs : msgs[i] = "text"}
      count(type) == Cardinality({i \in DOMAIN msgs :
                       msgs[i] = type /\ \A j \in texts : j < i})
  IN  count("tool_call") - count("tool_result")

-----------------------------------------------------------------------------
Init ==
  /\ log = <<>> /\ sums = <<>> /\ imports = 0
  /\ stage = "none" /\ view = <<>> /\ viewSums = <<>> /\ loaded = 0
  /\ pc = [c \in Compactor |-> "idle"]
  /\ cut = [c \in Compactor |-> 0]
  /\ saw = [c \in Compactor |-> {}]
  /\ call = [c \in Compactor |-> 1]
  /\ attempt = [c \in Compactor |-> 0]
  /\ hook = [c \in Compactor |-> "closed"]
  /\ result = [c \in Compactor |-> "none"]

Go(c, from, to) == pc[c] = from /\ pc' = [pc EXCEPT ![c] = to]

Keep(c) == UNCHANGED <<planVars, call, attempt, result>>

(* Compact returns, and its locals go; the cut of a success is kept in the  *)
(* CompactResult.                                                           *)
Return(c, from, r) ==
  /\ Go(c, from, "done")
  /\ result' = [result EXCEPT ![c] = r]
  /\ cut' = IF r = "compacted" THEN cut ELSE [cut EXCEPT ![c] = 0]
  /\ saw' = [saw EXCEPT ![c] = {}]
  /\ call' = [call EXCEPT ![c] = 1]
  /\ attempt' = [attempt EXCEPT ![c] = 0]

(* The prompt: running is set, the log and then the summaries are loaded;   *)
(* then it appends to the log and to its own copy.                          *)
PromptStart ==
  /\ stage = "none"
  /\ stage' = "load summaries"
  /\ view' = log /\ loaded' = Len(log)
  /\ UNCHANGED <<sessionVars, viewSums, pc, planVars, retryVars, result>>

PromptLoadSummaries ==
  /\ stage = "load summaries"
  /\ stage' = "loop"
  /\ viewSums' = sums
  /\ UNCHANGED <<sessionVars, view, loaded, pc, planVars, retryVars, result>>

PromptAppend(msgs) ==
  /\ stage = "loop"
  /\ Len(log) + Len(msgs) <= MaxLog
  /\ log' = log \o msgs
  /\ view' = view \o msgs
  /\ UNCHANGED <<sums, imports, stage, viewSums, loaded, pc, planVars, retryVars, result>>

(* A text over unanswered calls is the message of a later prompt, the one   *)
(* that made the calls having been abandoned.                               *)
PromptAppends ==
  \/ PromptAppend(<<"text">>)
  \/ PromptAppend(<<"active_tools_change">>)
  \/ /\ Unanswered(log) = 0
     /\ \E n \in 1 .. MaxCalls : PromptAppend([i \in 1 .. n |-> "tool_call"])
  \/ Unanswered(log) > 0 /\ PromptAppend(<<"tool_result">>)

PromptEnd ==
  /\ stage # "none"
  /\ stage' = "none" /\ view' = <<>> /\ viewSums' = <<>> /\ loaded' = 0
  /\ UNCHANGED <<sessionVars, pc, planVars, retryVars, result>>

(* SetActiveTools on an idle Agent, or the final drain of the prompt before: *)
(* the session grows and the transcript of a prompt in flight does not.     *)
ChangeOutsidePrompt ==
  /\ Len(log) < MaxLog
  /\ log' = Append(log, "active_tools_change")
  /\ UNCHANGED <<sums, imports, promptVars, pc, planVars, retryVars, result>>

(* The embedding program may write a summary through SessionRepo itself,    *)
(* of any range of the log.                                                 *)
ImportSummary ==
  /\ imports < MaxImports
  /\ imports' = imports + 1
  /\ \E start \in 0 .. Len(log) - 1, end \in 1 .. Len(log) :
       /\ start < end
       /\ sums' = Append(sums, [start |-> start, end |-> end,
                                saw |-> start + 1 .. end])
  /\ UNCHANGED <<log, promptVars, pc, planVars, retryVars, result>>

-----------------------------------------------------------------------------
(* Compact.                                                                 *)
Begin(c) ==
  /\ \/ stage # "none" /\ Return(c, "idle", "failed")
     \/ stage = "none" /\ Go(c, "idle", "load") /\ Keep(c)
  /\ UNCHANGED <<sessionVars, promptVars, hook>>

(* Load and prepareCompaction.                                              *)
LoadLog(c) ==
  /\ \/ Return(c, "load", "failed")
     \/ \E k \in {FindCutPoint(log, keep) : keep \in 1 .. MaxLog + 1} :
          \/ k <= 0 /\ Return(c, "load", "nothing")
          \/ /\ k > 0
             /\ Go(c, "load", "plan")
             /\ cut' = [cut EXCEPT ![c] = k]
             /\ UNCHANGED <<saw, call, attempt, result>>
  /\ UNCHANGED <<sessionVars, promptVars, hook>>

(* The cut follows a tool_call: mid-turn, two summaries.                    *)
Split(c) == log[cut[c]] = "tool_call"

(* Plausible bug: an update summarizes only what follows the last summary.  *)
BugUpdateFromLastEnd(c) ==
  /\ Go(c, "plan", "call")
  /\ saw' = [saw EXCEPT ![c] =
       IF sums = <<>> THEN 1 .. cut[c]
       ELSE Last(sums).saw \cup (Last(sums).end + 1 .. cut[c])]
  /\ UNCHANGED <<sessionVars, promptVars, cut, call, attempt, result, hook>>

(* The BeforeCompact hook, which may fail, and summarize: the last summary  *)
(* joins the request, except on a split turn.                               *)
PlanSummary(c) ==
  /\ \/ Return(c, "plan", "failed")
     \/ /\ Go(c, "plan", "call")
        /\ saw' = [saw EXCEPT ![c] =
             (1 .. cut[c]) \cup
             (IF Split(c) \/ sums = <<>> THEN {} ELSE Last(sums).saw)]
        /\ UNCHANGED <<cut, call, attempt, result>>
  /\ UNCHANGED <<sessionVars, promptVars, hook>>

Notify(c, phase) == hook' = [hook EXCEPT ![c] = phase]
CloseEpisode(c) == IF attempt[c] = 0 THEN UNCHANGED hook ELSE Notify(c, "closed")

(* Plausible bug: every summary of a split turn is followed by another.     *)
BugSplitForever(c) ==
  /\ CloseEpisode(c)
  /\ IF Split(c)
     THEN /\ Go(c, "call", "call")
          /\ call' = [call EXCEPT ![c] = @ + 1]
          /\ attempt' = [attempt EXCEPT ![c] = 0]
          /\ UNCHANGED <<planVars, result>>
     ELSE Go(c, "call", "persist") /\ Keep(c)

Summarized(c) ==
  /\ CloseEpisode(c)
  /\ IF Split(c) /\ call[c] = 1
     THEN /\ Go(c, "call", "call")
          /\ call' = [call EXCEPT ![c] = 2]
          /\ attempt' = [attempt EXCEPT ![c] = 0]
          /\ UNCHANGED <<planVars, result>>
     ELSE Go(c, "call", "persist") /\ Keep(c)

RetriesExhausted(c) ==
  IF attempt[c] = 0 THEN MaxRetries = 0 ELSE attempt[c] >= MaxRetries

ScheduleRetry(c) ==
  /\ ~RetriesExhausted(c)
  /\ Go(c, "call", "wait")
  /\ attempt' = [attempt EXCEPT ![c] = @ + 1]
  /\ Notify(c, "scheduled")
  /\ UNCHANGED <<planVars, call, result>>

GiveUp(c) == CloseEpisode(c) /\ Return(c, "call", "failed")

(* summarizeOnce and what summarizeWithLLM does with its outcome: a summary *)
(* that stopped at the output limit is an error, and only a transient error *)
(* is retried.  A cancelled request may fail with DeadlineExceeded, which   *)
(* counts as transient.                                                     *)
SummarizeOnce(c) ==
  /\ pc[c] = "call"
  /\ \E outcome \in {"summary", "fatal", "transient"} :
       \/ outcome = "summary" /\ Summarized(c)
       \/ outcome = "transient" /\ ScheduleRetry(c)
       \/ outcome = "transient" /\ RetriesExhausted(c) /\ GiveUp(c)
       \/ outcome = "fatal" /\ GiveUp(c)
  /\ UNCHANGED <<sessionVars, promptVars>>

RetryWaited(c) ==
  /\ Go(c, "wait", "call")
  /\ Notify(c, "attempt_start")
  /\ Keep(c) /\ UNCHANGED <<sessionVars, promptVars>>

(* Plausible bug: a wait that is cancelled is not reported as finished.     *)
BugCancelledWaitSilent(c) ==
  /\ Return(c, "wait", "failed")
  /\ UNCHANGED <<sessionVars, promptVars, hook>>

(* The context may be cancelled at any moment.                              *)
RetryCancelled(c) ==
  /\ Return(c, "wait", "failed")
  /\ Notify(c, "closed")
  /\ UNCHANGED <<sessionVars, promptVars>>

(* The BranchSummary of a Compact, always of a prefix of the log.           *)
SummaryOf(c) == [start |-> 0, end |-> cut[c], saw |-> saw[c]]

(* Plausible bug: an AppendBranchSummary that reports an error is repeated. *)
BugPersistRetried(c) ==
  /\ Return(c, "persist", "compacted")
  /\ \E times \in 1 .. 2 : sums' = sums \o [i \in 1 .. times |-> SummaryOf(c)]
  /\ UNCHANGED <<log, imports, promptVars, hook>>

(* AppendBranchSummary may report its error, of a newline or of a sync, with *)
(* the record in the file; Compact reports an error either way.             *)
Persist(c) ==
  /\ \/ /\ Return(c, "persist", "compacted")
        /\ sums' = Append(sums, SummaryOf(c))
     \/ /\ Return(c, "persist", "unsaved")
        /\ sums' \in {sums, Append(sums, SummaryOf(c))}
  /\ UNCHANGED <<log, imports, promptVars, hook>>

Compact(c) ==
  \/ LoadLog(c) \/ PlanSummary(c)
  \/ SummarizeOnce(c) \/ RetryWaited(c) \/ RetryCancelled(c) \/ Persist(c)

Next ==
  \/ PromptStart \/ PromptLoadSummaries
  \/ PromptAppends \/ PromptEnd \/ ChangeOutsidePrompt
  \/ ImportSummary
  \/ \E c \in Compactor : Begin(c) \/ Compact(c)

Spec == Init /\ [][Next]_vars

-----------------------------------------------------------------------------
TypeOK ==
  /\ log \in Seq(Type) /\ Len(log) <= MaxLog
  /\ sums \in Seq(Summary)
  /\ imports \in 0 .. MaxImports
  /\ stage \in {"none", "load summaries", "loop"}
  /\ view \in Seq(Type) /\ viewSums \in Seq(Summary) /\ loaded \in 0 .. MaxLog
  /\ pc \in [Compactor -> PC]
  /\ cut \in [Compactor -> 0 .. MaxLog]
  /\ saw \in [Compactor -> SUBSET (1 .. MaxLog)]
  /\ call \in [Compactor -> 1 .. 2]
  /\ attempt \in [Compactor -> Nat]
  /\ hook \in [Compactor -> Phase]
  /\ result \in [Compactor -> Result]

Shows(e, p) == e.from <= p /\ p <= e.to

(* Every conversational message appears in the context once, itself or in   *)
(* one summary, and the context keeps the order of the transcript.          *)
Complete(transcript, summaries) ==
  LET context == BuildLLMContext(transcript, summaries) IN
  /\ \A p \in DOMAIN transcript :
       transcript[p] # "active_tools_change" =>
         Cardinality({k \in DOMAIN context : Shows(context[k], p)}) = 1
  /\ \A k \in DOMAIN context : k > 1 => context[k - 1].to < context[k].from

(* BuildLLMContext (compact.go:197-236) over the session as it is: whatever *)
(* overlapping summaries concurrent Compacts and the embedding program      *)
(* wrote, no conversational message is lost, repeated or moved.             *)
NoMessageLost == Complete(log, sums)

(* The same of the requests of a prompt (prompt.go:424), whose transcript   *)
(* and summaries were loaded one after the other and have missed later      *)
(* entries: unless a summary that came in between covers an entry that came *)
(* in between.                                                              *)
PromptSeesEverything ==
  (stage = "loop" /\ \A i \in DOMAIN viewSums : viewSums[i].end <= loaded)
    => Complete(view, viewSums)

(* A summary that a context shows was made from everything it stands for    *)
(* (summarize, compact.go:414-455): the request of an update repeats the    *)
(* whole prefix, whatever the last summary covered.                         *)
SummaryCoversItsRange ==
  LET context == BuildLLMContext(log, sums) IN
  \A k \in DOMAIN context :
    context[k].summary => context[k].from .. context[k].to \subseteq context[k].saw

Calls(r) == {c \in Compactor : result[c] = r}

(* The session has a summary for every Compact that succeeded, and no more  *)
(* than one for each that got as far as writing it: one that failed before  *)
(* has left none, and neither has half of a split turn (compact.go:311-326, *)
(* 462-481).                                                                *)
OneSummaryPerCompact ==
  LET least == imports + Cardinality(Calls("compacted"))
  IN  least <= Len(sums) /\ Len(sums) <= least + Cardinality(Calls("unsaved"))

(* OnSummarizationRetry (compact.go:503-551): every retry that is announced *)
(* is started or closed, and an episode is closed when Compact returns.     *)
RetryEpisodesClosed ==
  \A c \in Compactor :
    /\ pc[c] = "done" => hook[c] = "closed"
    /\ pc[c] = "wait" <=> hook[c] = "scheduled"
    /\ hook[c] = "attempt_start" => pc[c] = "call" /\ attempt[c] > 0

(* CONTEXT.md:115: Compact "collapses older messages into a BranchSummary": *)
(* once it has, a new context shows none of them.                           *)
CompactCollapses ==
  \A c \in Compactor : result[c] = "compacted" =>
    LET context == BuildLLMContext(log, sums) IN
    \A k \in DOMAIN context : ~context[k].summary => context[k].from > cut[c]
=============================================================================
