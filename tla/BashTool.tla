------------------------------ MODULE BashTool ------------------------------
(***************************************************************************)
(* One call of the bash tool (tools/bash.go) over OSEnv.Exec               *)
(* (tools/env_unix.go) and the capture: the goroutine of the tool, the     *)
(* goroutine that copies the pipe, the goroutine in cmd.Wait, the          *)
(* callbacks of the throttle's timers, and the processes of the command.   *)
(*                                                                         *)
(* Time is abstract.  throttle.elapsed says whether bashUpdateThrottle has *)
(* passed since lastEmit.  The timer that t.timer points to was set for    *)
(* that moment; one that was forgotten may fire at any time.               *)
(***************************************************************************)
EXTENDS ShellCapture

CONSTANTS
    MaxChunks,  \* bound on the reads of the pipe
    Exits       \* how processes of the command may end: exit codes zero and nonzero, or a signal

ASSUME ChunkBound == MaxChunks \in Nat
ASSUME ExitKinds  == Exits \subseteq {"zero", "nonzero", "signal"}

VARIABLES
    pc,         \* the goroutine of ExecuteStream
    result,     \* what ExecuteStream returns: its kind
    flag,       \* ExecResult's Cancelled or TimedOut
    ctxDone,    \* the context of the call is cancelled
    deadline,   \* Exec's timer: "none", "running" or "fired"
    holders,    \* live processes that hold the write end of the pipe
    exit,       \* how bash ended
    waited,     \* cmd.Wait has returned and done has its value
    pump,       \* the copying goroutine: in the pipe, or between capture and throttle
    chunks,     \* chunks read
    throttle,   \* bashThrottle; timer is the chunk that set it, 0 for nil
    timers,     \* the timers, by the chunk that set them
    shown,      \* the state of the capture that the last update rendered
    updates     \* number of updates

execVars == <<flag, deadline, holders, exit, waited>>
throttleVars == <<throttle, timers, shown, updates>>
vars == <<captureVars, pc, result, ctxDone, execVars, pump, chunks, throttleVars>>

Group    == {"bash", "job"}            \* the process group that Setpgid made
Process  == Group \cup {"daemon"}      \* a daemon has left the group
TimerIds == 1..MaxChunks

Failed == {"refused", "error"}

Init ==
    /\ CaptureInit
    /\ pc = "start" /\ result = "none" /\ flag = "none"
    /\ ctxDone \in BOOLEAN
    /\ deadline \in {"none", "running"}
    /\ holders = {} /\ exit = "running" /\ waited = FALSE
    /\ pump = "reading" /\ chunks = 0
    /\ throttle = [timer |-> 0, dirty |-> FALSE, hasProgress |-> FALSE,
                   elapsed |-> TRUE, settled |-> FALSE]
    /\ timers = [id \in TimerIds |-> "unused"]
    /\ shown = capture
    /\ updates = 0

-----------------------------------------------------------------------------
(* The throttle.  Each operator is the body of a section under t.mu.       *)

\* clearTimerLocked: a callback that already waits for the mutex is not stopped.
Cleared ==
    [id \in TimerIds |->
        IF id = throttle.timer /\ timers[id] = "armed" THEN "stopped" ELSE timers[id]]

\* Plausible bug: what has been shown stays marked as news.
BugEmitStaysDirty(t) ==
    IF t.dirty /\ t.hasProgress
    THEN /\ throttle' = [t EXCEPT !.elapsed = FALSE]
         /\ shown' = capture
         /\ updates' = updates + 1
    ELSE /\ throttle' = t
         /\ UNCHANGED <<shown, updates>>

\* emitLocked with throttle t; the update is the Snapshot of that moment
EmitLocked(t) ==
    IF t.dirty /\ t.hasProgress
    THEN /\ throttle' = [t EXCEPT !.dirty = FALSE, !.elapsed = FALSE]
         /\ shown' = capture
         /\ updates' = updates + 1
    ELSE /\ throttle' = t
         /\ UNCHANGED <<shown, updates>>

\* Plausible bug: an early chunk is marked as news, but no timer is set for it.
BugNoTimer ==
    IF throttle.settled
    THEN UNCHANGED throttleVars
    ELSE LET t == [throttle EXCEPT !.hasProgress = TRUE, !.dirty = TRUE] IN
         IF t.elapsed
         THEN timers' = Cleared /\ EmitLocked([t EXCEPT !.timer = 0])
         ELSE throttle' = t /\ UNCHANGED <<timers, shown, updates>>

\* onChunk and scheduleLocked
Schedule ==
    IF throttle.settled
    THEN UNCHANGED throttleVars
    ELSE LET t == [throttle EXCEPT !.hasProgress = TRUE, !.dirty = TRUE] IN
         IF t.elapsed
         THEN /\ timers' = Cleared
              /\ EmitLocked([t EXCEPT !.timer = 0])
         ELSE /\ IF t.timer = 0
                 THEN /\ timers' = [timers EXCEPT ![chunks] = "armed"]
                      /\ throttle' = [t EXCEPT !.timer = chunks]
                 ELSE /\ throttle' = t
                      /\ UNCHANGED timers
              /\ UNCHANGED <<shown, updates>>

ThrottleElapses ==
    /\ ~throttle.elapsed
    /\ throttle' = [throttle EXCEPT !.elapsed = TRUE]
    /\ UNCHANGED <<captureVars, pc, result, ctxDone, execVars, pump, chunks, timers, shown, updates>>

\* The runtime starts the callback of a timer, which waits for the mutex.
TimerFires(id) ==
    /\ timers[id] = "armed"
    /\ id = throttle.timer => throttle.elapsed
    /\ timers' = [timers EXCEPT ![id] = "fired"]
    /\ UNCHANGED <<captureVars, pc, result, ctxDone, execVars, pump, chunks, throttle, shown, updates>>

\* The callback: it forgets whatever timer is set by now.
Callback(id) ==
    /\ timers[id] = "fired"
    /\ timers' = [timers EXCEPT ![id] = "stopped"]
    /\ EmitLocked([throttle EXCEPT !.timer = 0])
    /\ UNCHANGED <<captureVars, pc, result, ctxDone, execVars, pump, chunks>>

-----------------------------------------------------------------------------
(* The processes, the pipe and cmd.Wait.                                   *)

Spawn(p) ==
    /\ p # "bash" /\ p \notin holders
    /\ holders \cap Group # {}
    /\ holders' = holders \cup {p}
    /\ UNCHANGED <<captureVars, pc, result, ctxDone, flag, deadline, exit, waited, pump, chunks, throttleVars>>

ProcessExits(p) ==
    /\ p \in holders
    /\ holders' = holders \ {p}
    /\ exit' \in IF p = "bash" THEN Exits ELSE {exit}
    /\ UNCHANGED <<captureVars, pc, result, ctxDone, flag, deadline, waited, pump, chunks, throttleVars>>

\* The copying goroutine reads a chunk: chunkWriter.Write, then observeChunk.
ReadChunk(chunk) ==
    /\ pc \in {"exec", "reap"}
    /\ pump = "reading"
    /\ chunks < MaxChunks
    /\ chunks' = chunks + 1
    /\ pump' = "observed"
    /\ Observe(chunk, ctxDone)
    /\ UNCHANGED <<pc, result, ctxDone, execVars, throttleVars>>

\* The rest of the same write: the caller's OnChunk.
NotifyThrottle ==
    /\ pump = "observed"
    /\ pump' = "reading"
    /\ Schedule
    /\ UNCHANGED <<captureVars, pc, result, ctxDone, execVars, chunks>>

EndOfOutput ==
    /\ pc \in {"exec", "reap"}
    /\ pump = "reading" /\ holders = {}
    /\ pump' = "eof"
    /\ UNCHANGED <<captureVars, pc, result, ctxDone, execVars, chunks, throttleVars>>

\* cmd.Wait returns when bash has exited and the copying goroutine has ended.
WaitReturns ==
    /\ ~waited /\ exit # "running" /\ pump = "eof"
    /\ waited' = TRUE
    /\ UNCHANGED <<captureVars, pc, result, ctxDone, flag, deadline, holders, exit, pump, chunks, throttleVars>>

DeadlineFires ==
    /\ pc = "exec"
    /\ deadline = "running"
    /\ deadline' = "fired"
    /\ UNCHANGED <<captureVars, pc, result, ctxDone, flag, holders, exit, waited, pump, chunks, throttleVars>>

CancelContext ==
    /\ ~ctxDone /\ pc # "returned"
    /\ ctxDone' = TRUE
    /\ UNCHANGED <<captureVars, pc, result, execVars, pump, chunks, throttleVars>>

-----------------------------------------------------------------------------
(* The goroutine of the tool.                                              *)

\* An invalid timeout or an error of the Prepare hook: no throttle yet.
Refuse ==
    /\ pc = "start"
    /\ pc' = "returned" /\ result' = "refused"
    /\ UNCHANGED <<captureVars, ctxDone, execVars, pump, chunks, throttleVars>>

StartCommand ==
    /\ pc = "start"
    /\ pc' = "exec"
    /\ holders' = {"bash"}
    /\ UNCHANGED <<captureVars, result, ctxDone, flag, deadline, exit, waited, pump, chunks, throttleVars>>

StartFails ==
    /\ pc = "start"
    /\ pc' = "stop" /\ result' = "error"
    /\ UNCHANGED <<captureVars, ctxDone, execVars, pump, chunks, throttleVars>>

\* The select of Exec, which takes any branch that is ready.
SelectDone ==
    /\ pc = "exec" /\ waited
    /\ pc' = "collect"
    /\ UNCHANGED <<captureVars, result, ctxDone, execVars, pump, chunks, throttleVars>>

\* Plausible bug: only bash is killed, not its process group.
BugKillLeaderOnly(cause) ==
    /\ pc = "exec"
    /\ pc' = "reap"
    /\ flag' = cause
    /\ holders' = holders \ {"bash"}
    /\ exit' = IF "bash" \in holders THEN "signal" ELSE exit
    /\ UNCHANGED <<captureVars, result, ctxDone, deadline, waited, pump, chunks, throttleVars>>

\* killProcessGroup
Kill(cause) ==
    /\ pc = "exec"
    /\ pc' = "reap"
    /\ flag' = cause
    /\ holders' = holders \ Group
    /\ exit' = IF "bash" \in holders THEN "signal" ELSE exit
    /\ UNCHANGED <<captureVars, result, ctxDone, deadline, waited, pump, chunks, throttleVars>>

SelectTimeout == deadline = "fired" /\ Kill("timedOut")
SelectCancel  == ctxDone /\ Kill("cancelled")

Reap ==
    /\ pc = "reap" /\ waited
    /\ pc' = "collect"
    /\ UNCHANGED <<captureVars, result, ctxDone, execVars, pump, chunks, throttleVars>>

\* The end of ExecuteShellWithCapture: an error of the spill hides the outcome.
Collect ==
    /\ pc = "collect"
    /\ IF capture.spillErr
       THEN pc' = "stop" /\ result' = "error"
       ELSE pc' = "flush" /\ UNCHANGED result
    /\ UNCHANGED <<captureVars, ctxDone, execVars, pump, chunks, throttleVars>>

\* How ExecuteStream reports an execution that the capture completed.
Outcome ==
    IF flag # "none" THEN flag
    ELSE CASE exit = "signal"   -> "signal"
           [] exit = "nonzero"  -> "failed"
           [] exit = "zero"     -> "ok"

\* Plausible bug: the final flush leaves the choice to the throttle.
BugFlushThrottled ==
    /\ pc = "flush"
    /\ pc' = "stop" /\ result' = Outcome
    /\ timers' = Cleared
    /\ IF throttle.elapsed
       THEN EmitLocked([throttle EXCEPT !.timer = 0, !.dirty = TRUE, !.hasProgress = TRUE, !.settled = TRUE])
       ELSE /\ throttle' = [throttle EXCEPT !.timer = 0, !.settled = TRUE]
            /\ UNCHANGED <<shown, updates>>
    /\ UNCHANGED <<captureVars, ctxDone, execVars, pump, chunks>>

\* finalFlush, and the result that depends on nothing that changes any more
FinalFlush ==
    /\ pc = "flush"
    /\ pc' = "stop" /\ result' = Outcome
    /\ timers' = Cleared
    /\ EmitLocked([throttle EXCEPT !.timer = 0, !.dirty = TRUE, !.hasProgress = TRUE, !.settled = TRUE])
    /\ UNCHANGED <<captureVars, ctxDone, execVars, pump, chunks>>

\* The deferred stop, and the return: dirty keeps its value.
Stop ==
    /\ pc = "stop"
    /\ pc' = "returned"
    /\ timers' = Cleared
    /\ throttle' = [throttle EXCEPT !.timer = 0, !.settled = TRUE]
    /\ UNCHANGED <<captureVars, result, ctxDone, execVars, pump, chunks, shown, updates>>

-----------------------------------------------------------------------------
ToolStep ==
    StartCommand \/ StartFails \/ Refuse \/ SelectDone \/ SelectTimeout \/ SelectCancel
        \/ Reap \/ Collect \/ FinalFlush \/ Stop

PumpStep == NotifyThrottle \/ EndOfOutput

Next ==
    \/ ToolStep \/ PumpStep \/ WaitReturns
    \/ \E chunk \in Chunks : ReadChunk(chunk)
    \/ \E p \in Process : Spawn(p) \/ ProcessExits(p)
    \/ DeadlineFires \/ CancelContext \/ ThrottleElapses
    \/ \E id \in TimerIds : TimerFires(id) \/ Callback(id)
    \/ pc = "returned" /\ UNCHANGED vars

Spec == Init /\ [][Next]_vars

\* The library's goroutines run and its timers fire.  Nothing is assumed of
\* the processes of the command, or of who cancels.
Fairness ==
    /\ WF_vars(ToolStep) /\ WF_vars(PumpStep) /\ WF_vars(WaitReturns)
    /\ WF_vars(DeadlineFires) /\ WF_vars(ThrottleElapses)
    /\ \A id \in TimerIds : WF_vars(TimerFires(id)) /\ WF_vars(Callback(id))

FairSpec == Spec /\ Fairness

-----------------------------------------------------------------------------
Returned == pc = "returned"

TypeOK ==
    /\ pc \in {"start", "exec", "reap", "collect", "flush", "stop", "returned"}
    /\ result \in Failed \cup {"none", "timedOut", "cancelled", "signal", "failed", "ok"}
    /\ flag \in {"none", "timedOut", "cancelled"}
    /\ ctxDone \in BOOLEAN /\ waited \in BOOLEAN
    /\ deadline \in {"none", "running", "fired"}
    /\ holders \subseteq Process
    /\ exit \in {"running", "zero", "nonzero", "signal"}
    /\ pump \in {"reading", "observed", "eof"}
    /\ chunks \in 0..MaxChunks
    /\ throttle \in [timer : 0..MaxChunks, dirty : BOOLEAN, hasProgress : BOOLEAN,
                      elapsed : BOOLEAN, settled : BOOLEAN]
    /\ timers \in [TimerIds -> {"unused", "armed", "fired", "stopped"}]
    /\ updates \in Nat

(* A chunk that was held back is shown (bash.go:370-374, "make sure exactly   *)
(* one pending timer will emit"): while there is news that no update has      *)
(* shown, some timer or its callback is pending, even when a callback has     *)
(* forgotten a newer timer.                                                   *)
NewsIsScheduled ==
    throttle.dirty /\ ~throttle.settled => \E id \in TimerIds : timers[id] \in {"armed", "fired"}

(* The last update is the result (bash.go:417-427): when the tool returns a   *)
(* capture, what the caller saw last is the capture's final state, all of the *)
(* output has been read, and no callback has anything to add.                 *)
LastUpdateIsResult ==
    Returned /\ result \notin Failed =>
        /\ shown = capture
        /\ updates > 0 /\ ~throttle.dirty
        /\ pump = "eof" /\ holders = {}

(* Updates follow the stream (tool.go:70-74, bash.go:333-339): an update shows *)
(* no less of the output than the one before, and none comes after the tool    *)
(* has returned, unless it returned an error (a callback that waited for the   *)
(* mutex while stop ran still emits then).                                     *)
UpdatesFollowStream ==
    [][updates' # updates =>
          /\ shown'.totalBytes >= shown.totalBytes
          /\ TotalLines(shown') >= TotalLines(shown)
          /\ Returned => result = "error"]_vars

(* Timeout and cancellation end the command (env_unix.go:59-62): after either  *)
(* the tool returns, unless a process that left the process group keeps the    *)
(* pipe open.                                                                  *)
StopReturns ==
    ctxDone \/ deadline = "fired" ~> Returned \/ "daemon" \in holders
=============================================================================
