----------------------------- MODULE ToolBatch -----------------------------
(***************************************************************************)
(* One parallel execution of the tool calls of a turn: the goroutines that *)
(* promptRun.executeTools starts (prompt.go), the counting semaphore that   *)
(* bounds them by MaxParallelTools, and what they leave for the loop        *)
(* goroutine to read.  PromptLoop extends this module with the loop that    *)
(* launches a batch, waits for it and persists its results.                 *)
(*                                                                         *)
(* A call is its position in the assistant message.  At most one batch is   *)
(* alive in a prompt: the loop launches the next one only after the wait    *)
(* group of the previous one has drained, and a leaked batch ends the       *)
(* prompt.                                                                  *)
(***************************************************************************)
EXTENDS Integers, FiniteSets

CONSTANTS
  MaxCalls,         \* bound: the most tool calls a turn may request
  MaxParallelTools  \* AgentConfig.MaxParallelTools; executeTools reads 0 as unbounded

ASSUME BatchAssumption ==
  /\ MaxCalls \in Nat \ {0}
  /\ MaxParallelTools \in Nat

VARIABLES
  task,     \* progress of the goroutine of each call
  outcome,  \* results[i]: what call i left for the loop to read
  sema,     \* number of tokens in the semaphore channel
  ended,    \* calls whose ToolCallEndEvent was sent on the events channel
  dropped,  \* calls whose ToolCallEndEvent the full channel did not take
  emitMu    \* promptRun.emitMu: free, or held for an update or an end event

emitVars == <<ended, dropped, emitMu>>
batchVars == <<task, outcome, sema, emitVars>>

Call == 1 .. MaxCalls

(* What a call leaves behind, up to what the loop distinguishes: the        *)
(* Terminate and Suspend marks of a ToolResult, an error result or a plain  *)
(* one ("plain"), or the per-call failure of an immediate call ("failed").  *)
Returned == {"plain", "terminate", "suspend", "terminateAndSuspend"}
Outcome == Returned \cup {"none", "failed"}

TaskState == {"idle", "queued", "running", "completed", "emitting", "reported",
              "done"}

(* The goroutines between acquiring and releasing a semaphore token.        *)
Holders ==
  {i \in Call : task[i] \in {"running", "completed", "emitting", "reported"}}

Completed(i) == task[i] \in {"completed", "emitting", "reported", "done"}

(* Mutant: batch.wg.Done() before the emit of the ToolCallEndEvent.         *)
BugDoneBeforeEmit == \A i \in Call : task[i] \notin {"queued", "running"}

(* batch.wg.Wait() returns: every goroutine the batch added has exited.     *)
WaitGroupDrained == \A i \in Call : task[i] \in {"idle", "done"}

-----------------------------------------------------------------------------
BatchInit ==
  /\ task = [i \in Call |-> "idle"]
  /\ outcome = [i \in Call |-> "none"]
  /\ sema = 0
  /\ ended = {} /\ dropped = {}
  /\ emitMu = "free"

(* Start one goroutine for each runnable call; an immediate one gets its    *)
(* failure recorded in place and no goroutine.                              *)
Launch(runnable, immediate) ==
  /\ task' = [i \in Call |-> IF i \in runnable THEN "queued" ELSE "idle"]
  /\ outcome' = [i \in Call |-> IF i \in immediate THEN "failed" ELSE "none"]
  /\ ended' = {} /\ dropped' = {}
  /\ UNCHANGED <<sema, emitMu>>

(* Mutant: the token is not put in the channel.                             *)
BugAcquireWithoutToken(i) ==
  /\ task[i] = "queued"
  /\ MaxParallelTools # 0 => sema < MaxParallelTools
  /\ task' = [task EXCEPT ![i] = "running"]
  /\ UNCHANGED <<outcome, sema, emitVars>>

(* Mutant: the channel has room for one token more.                         *)
BugAcquireOffByOne(i) ==
  /\ task[i] = "queued"
  /\ MaxParallelTools # 0 => sema <= MaxParallelTools
  /\ sema' = IF MaxParallelTools = 0 THEN sema ELSE sema + 1
  /\ task' = [task EXCEPT ![i] = "running"]
  /\ UNCHANGED <<outcome, emitVars>>

(* sema <- struct{}{}: the goroutine gets a token and calls the tool.       *)
Acquire(i) ==
  /\ task[i] = "queued"
  /\ MaxParallelTools # 0 => sema < MaxParallelTools
  /\ sema' = IF MaxParallelTools = 0 THEN sema ELSE sema + 1
  /\ task' = [task EXCEPT ![i] = "running"]
  /\ UNCHANGED <<outcome, emitVars>>

(* Execute and AfterToolCall return: results[idx] and completed[idx].       *)
Complete(i, o) ==
  /\ task[i] = "running"
  /\ task' = [task EXCEPT ![i] = "completed"]
  /\ outcome' = [outcome EXCEPT ![i] = o]
  /\ UNCHANGED <<sema, emitVars>>

(* emit takes emitMu for the whole call, so that closeEvents waits for it.   *)
(* A closed channel makes it return at once; an open one takes the event,   *)
(* or stays full for 100 ms and the event is dropped.                       *)

(* emit(ToolCallEndEvent) up to the send.                                   *)
BeginReport(i, eventsClosed) ==
  /\ task[i] = "completed"
  /\ emitMu = "free"
  /\ emitMu' = IF eventsClosed THEN "free" ELSE "end"
  /\ task' = [task EXCEPT ![i] = IF eventsClosed THEN "reported" ELSE "emitting"]
  /\ UNCHANGED <<outcome, sema, ended, dropped>>

EndReport(i) ==
  /\ task[i] = "emitting"
  /\ task' = [task EXCEPT ![i] = "reported"]
  /\ emitMu' = "free"
  /\ \/ ended' = ended \cup {i} /\ UNCHANGED dropped
     \/ dropped' = dropped \cup {i} /\ UNCHANGED ended
  /\ UNCHANGED <<outcome, sema>>

(* emit(ToolUpdateEvent), from the callback that a streaming tool was given *)
(* and may keep calling when its batch is leaked or its prompt is over.     *)
BeginUpdate(eventsClosed) ==
  /\ \E i \in Call : task[i] \notin {"idle", "queued"}
  /\ emitMu = "free"
  /\ ~ eventsClosed
  /\ emitMu' = "update"
  /\ UNCHANGED <<task, outcome, sema, ended, dropped>>

EndUpdate ==
  /\ emitMu = "update"
  /\ emitMu' = "free"
  /\ UNCHANGED <<task, outcome, sema, ended, dropped>>

(* The deferred calls: release the token, then batch.wg.Done().             *)
Exit(i) ==
  /\ task[i] = "reported"
  /\ task' = [task EXCEPT ![i] = "done"]
  /\ sema' = IF MaxParallelTools = 0 THEN sema ELSE sema - 1
  /\ UNCHANGED <<outcome, emitVars>>

(* executeTools returns and its batch goes out of scope.                    *)
Discard ==
  /\ task' = [i \in Call |-> "idle"]
  /\ outcome' = [i \in Call |-> "none"]
  /\ ended' = {} /\ dropped' = {}
  /\ UNCHANGED <<sema, emitMu>>

-----------------------------------------------------------------------------
BatchTypeOK ==
  /\ task \in [Call -> TaskState]
  /\ outcome \in [Call -> Outcome]
  /\ sema \in Nat
  /\ ended \subseteq Call /\ dropped \subseteq Call
  /\ emitMu \in {"free", "update", "end"}

(* The tools of a batch that run at the same time never exceed              *)
(* MaxParallelTools (prompt.go:746-762), queued siblings and leaked         *)
(* goroutines of an abandoned batch included.                               *)
ParallelismBounded ==
  MaxParallelTools # 0 => Cardinality(Holders) <= MaxParallelTools

(* What makes ParallelismBounded inductive: the channel holds exactly one   *)
(* token per goroutine between acquire and release.                         *)
SemaCountsHolders ==
  MaxParallelTools # 0 => /\ sema = Cardinality(Holders)
                          /\ sema <= MaxParallelTools
=============================================================================
