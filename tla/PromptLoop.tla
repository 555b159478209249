----------------------------- MODULE PromptLoop -----------------------------
(***************************************************************************)
(* One prompt: the goroutine that promptRun.loop runs (prompt.go), from the *)
(* launch in Agent.start to the last of its deferred calls, with the tool   *)
(* batches of ToolBatch, the queues that Steer, FollowUp and SetActiveTools *)
(* fill, and the cancellation of its context by Stop or by the caller.      *)
(*                                                                         *)
(* The provider, the tools and the hooks are the environment: a provider    *)
(* answers a request with text, tool calls, or an error; a hook may return  *)
(* an error or stop the prompt; a tool may never return.                    *)
(***************************************************************************)
EXTENDS ToolBatch, Sequences

CONSTANTS
  SteerBufferSize,    \* capacity of steerCh and of followUpCh
  Causes,             \* what may cancel the prompt
  Texts,              \* whether an answer of the model has text, cannot, or both
  Raisable,           \* what an error of a provider, hook or SessionRepo may wrap
  MaxToolTurns,       \* bound: turns in which the model may call tools
  MaxSteers,          \* bound: calls of Steer
  MaxFollowUps,       \* bound: calls of FollowUp
  MaxSets,            \* bound: calls of SetActiveTools
  MaxAppendFailures   \* bound: SessionRepo.Append errors

ASSUME LoopAssumption ==
  /\ SteerBufferSize \in Nat \ {0}
  /\ Causes \subseteq {"stopped", "cancelled", "foreign"}
  /\ Texts \subseteq BOOLEAN
  /\ Raisable \subseteq {"error", "stopped", "cancelled"}
  /\ MaxToolTurns \in Nat
  /\ MaxSteers \in Nat
  /\ MaxFollowUps \in Nat
  /\ MaxSets \in Nat
  /\ MaxAppendFailures \in Nat

VARIABLES
  pc,           \* where the loop goroutine is
  phase,        \* promptRun.phase
  cause,        \* context.Cause of the inner context; "none" while it is live
  turn,         \* promptRun.turn
  calls,        \* number of tool calls of the current turn
  next,         \* the call the preflight, then the collection looks at
  immediate,    \* calls of this turn that failed the preflight
  terminated,   \* promptRun.terminated
  suspended,    \* promptRun.suspended
  transcript,   \* what the session holds after the transcript that was loaded
  known,        \* how many of these promptRun.transcript has too
  result,       \* the PromptResult sent on Done
  running,      \* this prompt holds Agent.running
  doneClosed,   \* close(r.done)
  eventsClosed, \* promptRun.eventsClosed
  leaked,       \* calls for which a ToolLeakEvent was emitted
  abandoned,    \* awaitToolBatch reported the batch as leaked
  steered, injected,   \* steers accepted, steers taken from steerCh
  followed, resumed,   \* follow-ups accepted, follow-ups taken
  pending, sets,       \* length of Agent.pendingActiveTools, calls of the setter
  failures,     \* Append errors so far
  lateRequests  \* history: provider requests made on a cancelled context

controlVars == <<pc, phase, turn, calls, next, immediate>>
outcomeVars == <<terminated, suspended, result, leaked, abandoned>>
closingVars == <<running, doneClosed, eventsClosed>>
queueVars   == <<steered, injected, followed, resumed, pending, sets>>
logVars     == <<transcript, known, failures>>

vars == <<batchVars, controlVars, outcomeVars, closingVars, queueVars, logVars,
          cause, lateRequests>>

PC == {"begin", "turn", "request", "stream", "truncated", "execute",
       "preflight", "await", "shutdown", "collect", "persist", "flush",
       "hook", "steer", "continue", "release", "drain", "closeDone",
       "closeEvents", "cancelCtx", "exited"}
Phase == {"idle", "waiting_llm", "executing_tools", "shutting_down", "done"}

(* "foreign" is a cause asCancellation does not map: a deadline of the      *)
(* caller's context, or a cause the caller set on it.  "idle" is            *)
(* ErrNoPromptInFlight.                                                     *)
Cancellation == {"stopped", "cancelled", "foreign"}
Cause == Cancellation \cup {"none", "idle"}
Err == Cancellation \cup {"nil", "error"}

Entry == [type : {"user", "text", "tool_call", "tool_result",
                  "active_tools_change"},
          turn : Nat, call : 0 .. MaxCalls]

(* PromptResult, and as a history whether Err is an error that a provider,  *)
(* a hook or the SessionRepo returned.                                      *)
NoResult == [err |-> "none", raised |-> FALSE, suspended |-> FALSE, messages |-> 0]
PromptResult ==
  [err : Err, raised : BOOLEAN, suspended : BOOLEAN, messages : Nat]

Msg(type) == [type |-> type, turn |-> turn, call |-> 0]
CallMsg(type, i) == [type |-> type, turn |-> turn, call |-> i]
Upto(type, n) == [i \in 1 .. n |-> CallMsg(type, i)]

-----------------------------------------------------------------------------
Init ==
  /\ BatchInit
  /\ pc = "begin"
  /\ phase = "idle"
  /\ cause = "none"
  /\ turn = 0
  /\ calls = 0
  /\ next = 1
  /\ immediate = {}
  /\ terminated = FALSE
  /\ suspended = FALSE
  /\ transcript = <<>>
  /\ known = 0
  /\ result = NoResult
  /\ running = TRUE
  /\ doneClosed = FALSE
  /\ eventsClosed = FALSE
  /\ leaked = {}
  /\ abandoned = FALSE
  /\ steered = 0 /\ injected = 0
  /\ followed = 0 /\ resumed = 0
  /\ pending = 0 /\ sets = 0
  /\ failures = 0
  /\ lateRequests = 0

(* appendTranscript, called once per message: all of them land, or an      *)
(* Append fails and the rest are never tried.  A failing Append may have    *)
(* written its record (jsonl.go:70-74), which r.transcript then lacks.      *)
AppendAll(msgs) ==
  /\ transcript' = transcript \o msgs
  /\ known' = known + Len(msgs)
  /\ UNCHANGED failures

AppendFails(msgs) ==
  /\ failures < MaxAppendFailures
  /\ failures' = failures + 1
  /\ \E n \in 0 .. Len(msgs) - 1, written \in 0 .. 1 :
       /\ transcript' = transcript \o SubSeq(msgs, 1, n + written)
       /\ known' = known + n

(* finish: PhaseDone, AgentEndEvent, then the result on Done.  The loop     *)
(* goroutine goes on to its deferred calls.                                 *)
Conclusion(err, raised) ==
  [err |-> err, raised |-> raised, suspended |-> suspended, messages |-> known']

Finish(from, err, raised) ==
  /\ pc = from /\ pc' = "release"
  /\ phase' = "done"
  /\ result' = Conclusion(err, raised)
  /\ UNCHANGED <<cause, turn, calls, next, immediate, terminated, suspended,
                 leaked, closingVars, lateRequests>>

(* The error of a provider, a hook or the SessionRepo becomes the result's: *)
(* one of its own ("error") or, as it may wrap the error of any context,    *)
(* one that asCancellation or the caller's errors.Is takes for a            *)
(* cancellation, whether or not the prompt is cancelled.                    *)
RaisedErrors == Raisable \cup (IF cause = "foreign" THEN {cause} ELSE {})

FinishRaised(from) == \E err \in RaisedErrors : Finish(from, err, TRUE)

(* A step of the loop that ends neither the prompt nor a deferred call.     *)
Goto(from, to) ==
  /\ pc = from /\ pc' = to
  /\ UNCHANGED <<cause, result, closingVars>>

-----------------------------------------------------------------------------
(* The loop goroutine.                                                      *)

LoadTranscript ==
  /\ Goto("begin", "turn")
  /\ UNCHANGED <<batchVars, phase, turn, calls, next, immediate, terminated,
                 suspended, leaked, abandoned, queueVars, logVars, lateRequests>>

LoadFails ==
  /\ UNCHANGED <<batchVars, abandoned, queueVars, logVars>>
  /\ FinishRaised("begin")

(* Mutant: a turn begins on a cancelled context.                            *)
BugNoContextCheck ==
  /\ Goto("turn", "request")
  /\ phase' = "waiting_llm"
  /\ turn' = turn + 1
  /\ UNCHANGED <<batchVars, calls, next, immediate, terminated, suspended,
                 leaked, abandoned, queueVars, logVars, lateRequests>>

(* runOneTurn up to the context check.                                      *)
BeginTurn ==
  /\ Goto("turn", "request")
  /\ cause = "none"
  /\ phase' = "waiting_llm"
  /\ turn' = turn + 1
  /\ UNCHANGED <<batchVars, calls, next, immediate, terminated, suspended,
                 leaked, abandoned, queueVars, logVars, lateRequests>>

BeginTurnCancelled ==
  /\ cause # "none"
  /\ pc = "turn" /\ pc' = "release"
  /\ phase' = "done"
  /\ turn' = turn + 1
  /\ UNCHANGED <<batchVars, queueVars, logVars>>
  /\ result' = Conclusion(cause, FALSE)
  /\ UNCHANGED <<cause, calls, next, immediate, terminated, suspended, leaked,
                 abandoned, closingVars, lateRequests>>

(* Snapshot, TransformContext and the call of provider.Stream.              *)
SendRequest ==
  /\ Goto("request", "stream")
  /\ lateRequests' = IF cause = "none" THEN lateRequests ELSE lateRequests + 1
  /\ UNCHANGED <<batchVars, phase, turn, calls, next, immediate, terminated,
                 suspended, leaked, abandoned, queueVars, logVars>>

(* A model reference that no longer resolves, or a TransformContext error.  *)
RequestFails ==
  /\ UNCHANGED <<batchVars, abandoned, queueVars, logVars>>
  /\ FinishRaised("request")

(* The stream ends with an error.                                           *)
StreamFails ==
  /\ UNCHANGED <<batchVars, abandoned, queueVars, logVars>>
  /\ FinishRaised("stream")

(* The assistant messages of a turn: the text, then the tool calls.         *)
TurnMessages(text, n) ==
  (IF text THEN <<Msg("text")>> ELSE <<>>) \o Upto("tool_call", n)

(* The model asks for n calls, in the first MaxToolTurns turns only.        *)
MayCall(n) == n > 0 => turn <= MaxToolTurns

(* The stream ends well; the turn's messages are appended one by one and    *)
(* TurnEndEvent is emitted.  A "length" stop makes the calls truncated.     *)
Respond(text, n, stop) ==
  /\ MayCall(n)
  /\ Goto("stream", CASE n = 0 -> "flush"
                      [] n > 0 /\ stop = "length" -> "truncated"
                      [] OTHER -> "execute")
  /\ AppendAll(TurnMessages(text, n))
  /\ calls' = n
  /\ UNCHANGED <<batchVars, phase, turn, next, immediate, terminated,
                 suspended, leaked, abandoned, queueVars, lateRequests>>

RespondAppendFails(text, n) ==
  /\ MayCall(n)
  /\ AppendFails(TurnMessages(text, n))
  /\ UNCHANGED <<batchVars, abandoned, queueVars>>
  /\ FinishRaised("stream")

(* failTruncatedToolCalls: for each call a ToolCallEndEvent and an error    *)
(* result.                                                                  *)
FailTruncated ==
  /\ Goto("truncated", "flush")
  /\ AppendAll(Upto("tool_result", calls))
  /\ UNCHANGED <<batchVars, phase, turn, calls, next, immediate,
                 terminated, suspended, leaked, abandoned, queueVars,
                 lateRequests>>

FailTruncatedAppendFails ==
  /\ AppendFails(Upto("tool_result", calls))
  /\ UNCHANGED <<batchVars, abandoned, queueVars>>
  /\ FinishRaised("truncated")

(* executeTools up to its first context check.                              *)
BeginTools ==
  /\ Goto("execute", "preflight")
  /\ cause = "none"
  /\ phase' = "executing_tools"
  /\ next' = 1
  /\ immediate' = {}
  /\ UNCHANGED <<batchVars, turn, calls, terminated, suspended, leaked,
                 abandoned, queueVars, logVars, lateRequests>>

(* prepareToolCall: the tool is found and BeforeToolCall accepts the call,  *)
(* or the call is immediate.                                                *)
Prepare ==
  /\ Goto("preflight", "preflight")
  /\ next <= calls
  /\ cause = "none"
  /\ next' = next + 1
  /\ immediate' \in {immediate, immediate \cup {next}}
  /\ UNCHANGED <<batchVars, phase, turn, calls, terminated, suspended, leaked,
                 abandoned, queueVars, logVars, lateRequests>>

LaunchBatch ==
  /\ Goto("preflight", "await")
  /\ next > calls
  /\ cause = "none"
  /\ Launch((1 .. calls) \ immediate, immediate)
  /\ next' = 1
  /\ UNCHANGED <<phase, turn, calls, immediate, terminated, suspended,
                 leaked, abandoned, queueVars, logVars, lateRequests>>

(* The context checks of executeTools: nothing is prepared or launched      *)
(* once the prompt is cancelled.                                            *)
ToolsCancelled ==
  /\ cause # "none"
  /\ UNCHANGED <<batchVars, abandoned, queueVars, logVars>>
  /\ \/ Finish("execute", cause, FALSE)
     \/ Finish("preflight", cause, FALSE)

(* awaitToolBatch.                                                          *)
BatchReturns ==
  /\ Goto("await", "collect") \/ Goto("shutdown", "collect")
  /\ WaitGroupDrained
  /\ UNCHANGED <<batchVars, phase, turn, calls, next, immediate, terminated,
                 suspended, leaked, abandoned, queueVars, logVars, lateRequests>>

BeginShutdown ==
  /\ Goto("await", "shutdown")
  /\ cause # "none"
  /\ phase' = "shutting_down"
  /\ UNCHANGED <<batchVars, turn, calls, next, immediate, terminated,
                 suspended, leaked, abandoned, queueVars, logVars, lateRequests>>

(* Mutant: the result is delivered, but the results are read all the same.  *)
BugLeakReadsResults ==
  /\ pc = "shutdown" /\ pc' = "collect"
  /\ abandoned' = TRUE
  /\ leaked' = {i \in (1 .. calls) \ immediate : ~ Completed(i)}
  /\ phase' = "done"
  /\ UNCHANGED <<batchVars, queueVars, logVars>>
  /\ result' = Conclusion(cause, FALSE)
  /\ UNCHANGED <<cause, turn, calls, next, immediate, terminated, suspended,
                 closingVars, lateRequests>>

(* Mutant: no timeout, the shutdown waits for every tool.                   *)
BugShutdownWaits ==
  /\ pc = "shutdown" /\ pc' = "release"
  /\ WaitGroupDrained
  /\ phase' = "done"
  /\ UNCHANGED <<batchVars, queueVars, logVars>>
  /\ result' = Conclusion(cause, FALSE)
  /\ UNCHANGED <<cause, turn, calls, next, immediate, terminated, suspended,
                 leaked, abandoned, closingVars, lateRequests>>

(* Mutant: the abandoned batch returns ctx.Err(), not context.Cause(ctx).   *)
BugLeakLosesCause ==
  /\ pc = "shutdown" /\ pc' = "release"
  /\ abandoned' = TRUE
  /\ leaked' = {i \in (1 .. calls) \ immediate : ~ Completed(i)}
  /\ phase' = "done"
  /\ UNCHANGED <<batchVars, queueVars, logVars>>
  /\ result' = Conclusion("cancelled", FALSE)
  /\ UNCHANGED <<cause, turn, calls, next, immediate, terminated, suspended,
                 closingVars, lateRequests>>

(* ShutdownTimeout elapses: one ToolLeakEvent per call that has not         *)
(* completed, and the batch is given up without reading its results.        *)
LeakBatch ==
  /\ pc = "shutdown" /\ pc' = "release"
  /\ abandoned' = TRUE
  /\ leaked' = {i \in (1 .. calls) \ immediate : ~ Completed(i)}
  /\ phase' = "done"
  /\ UNCHANGED <<batchVars, queueVars, logVars>>
  /\ result' = Conclusion(cause, FALSE)
  /\ UNCHANGED <<cause, turn, calls, next, immediate, terminated, suspended,
                 closingVars, lateRequests>>

Terminates(i) == outcome[i] \in {"terminate", "terminateAndSuspend"}
Suspends(i) == outcome[i] \in {"suspend", "terminateAndSuspend"}

AllTerminate == \A i \in 1 .. calls : Terminates(i)

CollectTerminated ==
  /\ Goto("collect", "flush")
  /\ AllTerminate
  /\ Discard
  /\ terminated' = TRUE
  /\ immediate' = {}
  /\ UNCHANGED <<phase, turn, calls, next, suspended,
                 leaked, abandoned, queueVars, logVars, lateRequests>>

BeginCollect ==
  /\ Goto("collect", "persist")
  /\ ~ AllTerminate
  /\ UNCHANGED <<batchVars, phase, turn, calls, next, immediate, terminated,
                 suspended, leaked, abandoned, queueVars, logVars, lateRequests>>

(* Mutant: the results persist last call first.                             *)
BugPersistReversed ==
  /\ Goto("persist", "persist")
  /\ next <= calls
  /\ next' = next + 1
  /\ IF Suspends(calls + 1 - next)
       THEN UNCHANGED logVars
       ELSE AppendAll(<<CallMsg("tool_result", calls + 1 - next)>>)
  /\ UNCHANGED <<batchVars, phase, turn, calls, immediate, terminated,
                 suspended, leaked, abandoned, queueVars, lateRequests>>

(* One result after the other, in source order; a suspended call has none.  *)
PersistResult ==
  /\ Goto("persist", "persist")
  /\ next <= calls
  /\ next' = next + 1
  /\ IF Suspends(next) THEN UNCHANGED logVars
                       ELSE AppendAll(<<CallMsg("tool_result", next)>>)
  /\ UNCHANGED <<batchVars, phase, turn, calls, immediate, terminated,
                 suspended, leaked, abandoned, queueVars, lateRequests>>

PersistResultFails ==
  /\ next <= calls
  /\ ~ Suspends(next)
  /\ AppendFails(<<CallMsg("tool_result", next)>>)
  /\ Discard
  /\ UNCHANGED <<abandoned, queueVars>>
  /\ FinishRaised("persist")

(* Mutant: the suspension is not recorded.                                  *)
BugSuspendForgotten ==
  /\ Goto("persist", "flush")
  /\ next > calls
  /\ Discard
  /\ immediate' = {}
  /\ UNCHANGED <<phase, turn, calls, next, terminated, suspended,
                 leaked, abandoned, queueVars, logVars, lateRequests>>

EndCollect ==
  /\ Goto("persist", "flush")
  /\ next > calls
  /\ Discard
  /\ suspended' = (suspended \/ \E i \in 1 .. calls : Suspends(i))
  /\ immediate' = {}
  /\ UNCHANGED <<phase, turn, calls, next, terminated,
                 leaked, abandoned, queueVars, logVars, lateRequests>>

ActiveToolsEntries == [i \in 1 .. pending |-> Msg("active_tools_change")]

(* flushPendingActiveTools at the turn-end safe point: the whole queue is   *)
(* taken, then appended entry by entry; an Append error loses the rest.     *)
Flush ==
  /\ Goto("flush", "hook")
  /\ AppendAll(ActiveToolsEntries)
  /\ pending' = 0
  /\ UNCHANGED <<batchVars, phase, turn, calls, next, immediate, terminated,
                 suspended, leaked, abandoned, steered, injected, followed,
                 resumed, sets, lateRequests>>

FlushFails ==
  /\ AppendFails(ActiveToolsEntries)
  /\ pending' = 0
  /\ UNCHANGED <<batchVars, abandoned, steered, injected, followed, resumed, sets>>
  /\ FinishRaised("flush")

(* ShouldStopAfterTurn may end the prompt after any turn; terminate and     *)
(* suspend end it whatever the hook answers.                                *)
EndAfterTurn ==
  /\ UNCHANGED <<batchVars, abandoned, queueVars, logVars>>
  /\ Finish("hook", "nil", FALSE)

(* Mutant: the loop does not look at suspended.                             *)
BugGoOnSuspended ==
  /\ Goto("hook", "steer")
  /\ ~ terminated
  /\ UNCHANGED <<batchVars, phase, turn, calls, next, immediate, terminated,
                 suspended, leaked, abandoned, queueVars, logVars, lateRequests>>

GoOnAfterTurn ==
  /\ Goto("hook", "steer")
  /\ ~ terminated /\ ~ suspended
  /\ UNCHANGED <<batchVars, phase, turn, calls, next, immediate, terminated,
                 suspended, leaked, abandoned, queueVars, logVars, lateRequests>>

(* The post-batch seam: one queued steer is injected before anything else.  *)
InjectSteer ==
  /\ Goto("steer", "turn")
  /\ injected < steered
  /\ injected' = injected + 1
  /\ AppendAll(<<Msg("user")>>)
  /\ UNCHANGED <<batchVars, phase, turn, calls, next, immediate, terminated,
                 suspended, leaked, abandoned, steered, followed, resumed,
                 pending, sets, lateRequests>>

InjectSteerFails ==
  /\ injected < steered
  /\ injected' = injected + 1
  /\ AppendFails(<<Msg("user")>>)
  /\ UNCHANGED <<batchVars, abandoned, steered, followed, resumed, pending, sets>>
  /\ FinishRaised("steer")

NoSteer ==
  /\ Goto("steer", "continue")
  /\ injected = steered
  /\ UNCHANGED <<batchVars, phase, turn, calls, next, immediate, terminated,
                 suspended, leaked, abandoned, queueVars, logVars, lateRequests>>

(* A turn that called tools goes on to the next turn.                       *)
AutoContinue ==
  /\ Goto("continue", "turn")
  /\ calls > 0
  /\ cause = "none"
  /\ UNCHANGED <<batchVars, phase, turn, calls, next, immediate, terminated,
                 suspended, leaked, abandoned, queueVars, logVars, lateRequests>>

(* A text-only turn: one select over followUpCh and ctx.Done, so when both  *)
(* are ready either may be taken.                                           *)
InjectFollowUp ==
  /\ Goto("continue", "turn")
  /\ calls = 0
  /\ resumed < followed
  /\ resumed' = resumed + 1
  /\ AppendAll(<<Msg("user")>>)
  /\ UNCHANGED <<batchVars, phase, turn, calls, next, immediate, terminated,
                 suspended, leaked, abandoned, steered, injected, followed,
                 pending, sets, lateRequests>>

InjectFollowUpFails ==
  /\ calls = 0
  /\ resumed < followed
  /\ resumed' = resumed + 1
  /\ AppendFails(<<Msg("user")>>)
  /\ UNCHANGED <<batchVars, abandoned, steered, injected, followed, pending, sets>>
  /\ FinishRaised("continue")

EndCancelled ==
  /\ cause # "none"
  /\ UNCHANGED <<batchVars, abandoned, queueVars, logVars>>
  /\ Finish("continue", cause, FALSE)

EndNaturally ==
  /\ calls = 0
  /\ resumed = followed
  /\ cause = "none"
  /\ UNCHANGED <<batchVars, abandoned, queueVars, logVars>>
  /\ Finish("continue", "nil", FALSE)

-----------------------------------------------------------------------------
(* The deferred calls of loop, last registered first, and the cancel of the *)
(* goroutine that start launched.                                           *)

Exiting(from, to) ==
  /\ pc = from /\ pc' = to
  /\ UNCHANGED <<batchVars, phase, turn, calls, next, immediate, outcomeVars,
                 lateRequests>>

ReleaseSlot ==
  /\ Exiting("release", "drain")
  /\ running' = FALSE
  /\ UNCHANGED <<cause, doneClosed, eventsClosed, queueVars, logVars>>

FinalFlush ==
  /\ Exiting("drain", "closeDone")
  /\ AppendAll(ActiveToolsEntries) \/ AppendFails(ActiveToolsEntries)
  /\ pending' = 0
  /\ UNCHANGED <<cause, closingVars, steered, injected, followed, resumed, sets>>

(* Mutant: Events is closed before Done.                                    *)
BugCloseEventsFirst ==
  /\ Exiting("closeDone", "closeEvents")
  /\ eventsClosed' = TRUE
  /\ UNCHANGED <<cause, running, doneClosed, queueVars, logVars>>

CloseDone ==
  /\ Exiting("closeDone", "closeEvents")
  /\ doneClosed' = TRUE
  /\ UNCHANGED <<cause, running, eventsClosed, queueVars, logVars>>

(* Mutant: the channel is closed without emitMu.                            *)
BugCloseWithoutLock ==
  /\ Exiting("closeEvents", "cancelCtx")
  /\ eventsClosed' = TRUE
  /\ UNCHANGED <<cause, running, doneClosed, queueVars, logVars>>

(* closeEvents, once no goroutine of a tool is inside emit.                 *)
CloseEvents ==
  /\ Exiting("closeEvents", "cancelCtx")
  /\ emitMu = "free"
  /\ eventsClosed' = TRUE
  /\ UNCHANGED <<cause, running, doneClosed, queueVars, logVars>>

CancelContext ==
  /\ Exiting("cancelCtx", "exited")
  /\ cause' = IF cause = "none" THEN "idle" ELSE cause
  /\ UNCHANGED <<closingVars, queueVars, logVars>>

-----------------------------------------------------------------------------
(* The other goroutines.                                                    *)

Others == UNCHANGED <<controlVars, outcomeVars, closingVars, logVars, lateRequests>>

(* Mutant: the last cause wins.                                             *)
BugLastCauseWins(c) ==
  /\ cause # c
  /\ cause' = c
  /\ Others
  /\ UNCHANGED <<batchVars, queueVars>>

(* Stop and the caller's context: the first cause wins.                     *)
Cancel(c) ==
  /\ cause = "none"
  /\ cause' = c
  /\ Others
  /\ UNCHANGED <<batchVars, queueVars>>

(* Steer and FollowUp send on a buffered channel, and would block on a full *)
(* one.  Agent.current is never reset, so they reach this prompt even when  *)
(* it is over.                                                              *)
Steer ==
  /\ steered < MaxSteers
  /\ steered - injected < SteerBufferSize
  /\ steered' = steered + 1
  /\ Others
  /\ UNCHANGED <<batchVars, cause, injected, followed, resumed, pending, sets>>

FollowUp ==
  /\ followed < MaxFollowUps
  /\ followed - resumed < SteerBufferSize
  /\ followed' = followed + 1
  /\ Others
  /\ UNCHANGED <<batchVars, cause, steered, injected, resumed, pending, sets>>

(* SetActiveTools queues its entry while the prompt holds Agent.running;    *)
(* AgentLifecycle models what it does otherwise.                            *)
SetActiveTools ==
  /\ running
  /\ sets < MaxSets
  /\ sets' = sets + 1
  /\ pending' = pending + 1
  /\ Others
  /\ UNCHANGED <<batchVars, cause, steered, injected, followed, resumed>>

ToolReturns(i) ==
  /\ \E o \in Returned : Complete(i, o)
  /\ Others
  /\ UNCHANGED <<cause, queueVars>>

(* The steps of a call's goroutine that do not wait for the tool.           *)
ToolStep(i) ==
  /\ Acquire(i) \/ BeginReport(i, eventsClosed) \/ Exit(i)
  /\ Others
  /\ UNCHANGED <<cause, queueVars>>

(* A streaming tool reports progress.                                       *)
ToolUpdate ==
  /\ BeginUpdate(eventsClosed)
  /\ Others
  /\ UNCHANGED <<cause, queueVars>>

(* The channel takes the event of a tool's goroutine, or 100 ms are over.   *)
EmitEnds ==
  /\ EndUpdate \/ \E i \in Call : EndReport(i)
  /\ Others
  /\ UNCHANGED <<cause, queueVars>>

(* The prompt is over and so are its tools.                                 *)
Over ==
  /\ pc = "exited"
  /\ WaitGroupDrained
  /\ UNCHANGED vars

(* The answer of the provider.                                              *)
Answer ==
  \/ StreamFails
  \/ \E text \in Texts, n \in 0 .. MaxCalls :
       \/ \E stop \in {"end", "length"} : Respond(text, n, stop)
       \/ RespondAppendFails(text, n)

(* Every other step of the loop goroutine.                                  *)
LoopStep ==
  \/ LoadTranscript \/ LoadFails
  \/ BeginTurn \/ BeginTurnCancelled
  \/ SendRequest \/ RequestFails
  \/ FailTruncated \/ FailTruncatedAppendFails
  \/ BeginTools \/ Prepare \/ LaunchBatch \/ ToolsCancelled
  \/ BatchReturns \/ BeginShutdown \/ LeakBatch
  \/ CollectTerminated \/ BeginCollect
  \/ PersistResult \/ PersistResultFails \/ EndCollect
  \/ Flush \/ FlushFails
  \/ EndAfterTurn \/ GoOnAfterTurn
  \/ InjectSteer \/ InjectSteerFails \/ NoSteer
  \/ AutoContinue \/ InjectFollowUp \/ InjectFollowUpFails
  \/ EndCancelled \/ EndNaturally
  \/ ReleaseSlot \/ FinalFlush \/ CloseDone \/ CloseEvents \/ CancelContext

Next ==
  \/ LoopStep
  \/ Answer
  \/ \E c \in Causes : Cancel(c)
  \/ Steer \/ FollowUp \/ SetActiveTools
  \/ \E i \in Call : ToolReturns(i) \/ ToolStep(i)
  \/ ToolUpdate \/ EmitEnds
  \/ Over

Spec == Init /\ [][Next]_vars

(* The loop goroutine is scheduled, hooks and SessionRepo calls return, the *)
(* shutdown timer fires, a provider ends its stream once the context is     *)
(* cancelled, and an emit ends.  sync.Mutex hands itself over to a waiter   *)
(* that starves, so closeEvents gets emitMu among any number of progress    *)
(* reports: strong fairness.  Nothing is assumed of a tool or the rest of   *)
(* its goroutine.                                                           *)
Fairness ==
  /\ SF_vars(LoopStep)
  /\ WF_vars(cause # "none" /\ Answer)
  /\ WF_vars(EmitEnds)

FairSpec == Spec /\ Fairness

-----------------------------------------------------------------------------
LoopTypeOK ==
  /\ pc \in PC
  /\ phase \in Phase
  /\ cause \in Cause
  /\ turn \in Nat
  /\ calls \in 0 .. MaxCalls
  /\ next \in 1 .. MaxCalls + 1
  /\ immediate \subseteq Call
  /\ terminated \in BOOLEAN /\ suspended \in BOOLEAN
  /\ result \in PromptResult \cup {NoResult}
  /\ running \in BOOLEAN /\ doneClosed \in BOOLEAN /\ eventsClosed \in BOOLEAN
  /\ leaked \subseteq Call /\ abandoned \in BOOLEAN

QueueTypeOK ==
  /\ steered \in Nat /\ injected \in Nat
  /\ followed \in Nat /\ resumed \in Nat
  /\ pending \in Nat /\ sets \in Nat
  /\ failures \in Nat /\ lateRequests \in Nat /\ known \in Nat

(* One type invariant: every variable stays in the range the code gives it. *)
TypeOK ==
  /\ BatchTypeOK
  /\ LoopTypeOK
  /\ QueueTypeOK
  /\ transcript \in Seq(Entry)

IsCall(p) == transcript[p].type = "tool_call"
IsResult(p) == transcript[p].type = "tool_result"
SameCall(p, q) == /\ transcript[p].turn = transcript[q].turn
                  /\ transcript[p].call = transcript[q].call
Positions == DOMAIN transcript

(* The tool calls of this prompt that have no result.                       *)
Dangling ==
  {p \in Positions : IsCall(p) /\ ~ \E q \in Positions : IsResult(q) /\ SameCall(p, q)}

(* Results answer calls: each one follows its call, is the only one, comes  *)
(* in source order although the tools complete in any order                 *)
(* (prompt.go:642-644), and nothing of another turn, no steer and no        *)
(* active_tools_change stands between a call and its result ("never         *)
(* skipping pending tool calls mid-batch", prompt.go:336-339, and "on a     *)
(* turn boundary rather than mid-stream", prompt.go:228-229).               *)
ResultsAnswerCalls ==
  \A q \in Positions : IsResult(q) =>
    /\ \E p \in 1 .. q - 1 :
         /\ IsCall(p) /\ SameCall(p, q)
         /\ \A m \in p .. q : /\ transcript[m].turn = transcript[q].turn
                              /\ transcript[m].type \in {"tool_call", "tool_result"}
    /\ \A r \in 1 .. q - 1 :
         IsResult(r) /\ transcript[r].turn = transcript[q].turn
           => transcript[r].call < transcript[q].call

(* The model never sees an unanswered call of this prompt: when a request   *)
(* is made every earlier tool call has its result, whichever of the exits   *)
(* (suspend, terminate, leak, Append error) a batch took, and the request   *)
(* has every record of the session (prompt.go:210-218, 321-363, 612-616).   *)
RequestSeesAllResults ==
  pc \in {"request", "stream"} => Dangling = {} /\ known = Len(transcript)

(* The event of a result comes before the result: when a result reaches    *)
(* the session its ToolCallEndEvent was sent, or given up after 100 ms of a *)
(* full channel, because the wait group is released only after the emit     *)
(* (prompt.go:155-171, 757-786).  Immediate calls have a ToolErrorEvent     *)
(* instead.                                                                 *)
EventPrecedesResult ==
  [][pc = "persist" =>
       \A p \in Len(transcript) + 1 .. Len(transcript') :
         transcript'[p].call \in ended \cup dropped \cup immediate]_vars

(* A batch given up after ShutdownTimeout persists nothing, however late    *)
(* its goroutines finish: "their late writes are dropped"                   *)
(* (prompt.go:664-668, 790-795).                                            *)
AbandonedPersistsNothing ==
  abandoned => ~ \E q \in Positions : IsResult(q) /\ transcript[q].turn = turn

(* A clean end is explained: a prompt that ends with a nil error leaves a   *)
(* call unanswered only when a result asked to terminate or to suspend, and *)
(* reports Suspended exactly when a suspended call is the suspension point  *)
(* (prompt.go:813-842, PromptResult.Suspended).                             *)
CleanEndExplained ==
  result.err = "nil" =>
    /\ Dangling # {} => (terminated \/ result.suspended)
    /\ result.suspended => Dangling # {}

(* The error of the result tells who ended the prompt: it is one that a     *)
(* provider, a hook or the SessionRepo returned, or else the first cause    *)
(* that cancelled the prompt, at each of the exits that look at the context *)
(* and whatever cancels it later (prompt.go:95, 105, 359, 378, 396,         *)
(* 719-734, 794).                                                           *)
ErrNamesTheCause ==
  result.err \notin {"none", "nil"} => result.raised \/ result.err = cause

(* "Agent-set causes (ErrAgentStopped, ...) are preserved and take          *)
(* precedence" (prompt.go:247-248), and PromptResult.Err "holds             *)
(* context.Cause(internalCtx)" (ADR-0004, consequences): a turn of a        *)
(* stopped prompt does not end as one that the caller's context cancelled.  *)
(* asCancellation looks at the error of the turn, not at the context        *)
(* (prompt.go:250-258), so a provider or a hook that returns its ctx.Err(), *)
(* which is context.Canceled, ends the prompt with ErrPromptCancelled.      *)
TurnPC == {"request", "stream", "truncated", "persist"}

AgentCauseTakesPrecedence ==
  [][cause = "stopped" /\ pc \in TurnPC => result'.err # "cancelled"]_vars

(* Cancelling a prompt ends its requests: at most the one that was already  *)
(* past the context check of its turn is made on a cancelled context        *)
(* (prompt.go:353-362, 395-397).                                            *)
AtMostOneLateRequest == lateRequests <= 1

(* After the result was sent the session gets nothing from this prompt but  *)
(* the active_tools_change entries of the final flush (prompt.go:264-270).  *)
OnlyBookkeepingAfterDone ==
  [][result # NoResult =>
       \A p \in Len(transcript) + 1 .. Len(transcript') :
         transcript'[p].type = "active_tools_change"]_vars

(* No goroutine sends on a closed channel, which would panic: one that      *)
(* found it open and waits for room, to report a result or progress of a    *)
(* tool that may have been leaked long before, holds emitMu until it is     *)
(* done, and the channel is not closed under it (prompt.go:54-58, 155-182). *)
NoSendOnClosedEvents ==
  (\E i \in Call : task[i] = "emitting") \/ emitMu = "update" => ~ eventsClosed

(* Stop or a cancelled caller ends the prompt, its channels and its hold on *)
(* the Agent even when a tool never returns (ADR-0004 deviation 4,          *)
(* prompt.go:664-714).                                                      *)
CancelEndsPrompt == cause # "none" ~> (pc = "exited" /\ eventsClosed /\ ~ running)

(* The loop implements the promise of its EventStream: the mapping reads the *)
(* status off the result and the two channels (event_stream.go, ADR-0004).  *)
EntryIsBookkeeping(e) == e.type = "active_tools_change"
Contract == INSTANCE EventStreamContract WITH
  IsBookkeeping <- EntryIsBookkeeping,
  status <- CASE eventsClosed -> "closed"
              [] doneClosed /\ ~ eventsClosed -> "doneClosed"
              [] result # NoResult /\ ~ doneClosed -> "concluded"
              [] OTHER -> "open",
  cancelled <- cause # "none",
  failed <- result.err \notin {"none", "nil"},
  log <- transcript,
  messages <- IF result = NoResult THEN -1 ELSE result.messages

ImplementsContract == Contract!Spec
=============================================================================
