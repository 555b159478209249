--------------------------- MODULE BashToolProofs ---------------------------
(***************************************************************************)
(* One call of the bash tool: output that the throttle holds back is always *)
(* going to be shown, the last update of a call that returns a capture is   *)
(* its result, no output that overflowed is lost without an error, updates  *)
(* grow, and the few bytes the capture keeps show the tail of the whole     *)
(* output.  For any number and content of chunks, any limits (for the last  *)
(* of these, with room for a character) and any ends of the command.        *)
(***************************************************************************)
EXTENDS BashTool, FoldTheorems

TimerState == {"unused", "armed", "fired", "stopped"}
Pending(id) == timers[id] \in {"armed", "fired"}

ThrottleRecord ==
    [timer : 0..MaxChunks, dirty : BOOLEAN, hasProgress : BOOLEAN, elapsed : BOOLEAN, settled : BOOLEAN]

ThrottleType ==
    /\ throttle \in ThrottleRecord
    /\ timers \in [TimerIds -> TimerState]
    /\ chunks \in 0..MaxChunks
    /\ updates \in Nat

\* A set pointer is to a timer whose callback is still to come; news has a
\* snapshot to show; a chunk that was read has a number.
ThrottleInv ==
    /\ ThrottleType
    /\ throttle.timer # 0 => Pending(throttle.timer)
    /\ throttle.dirty => throttle.hasProgress
    /\ pump = "observed" => chunks > 0
    /\ NewsIsScheduled

-----------------------------------------------------------------------------
THEOREM ThrottleInit == Init => ThrottleInv
<1> SUFFICES ASSUME Init PROVE ThrottleInv
  OBVIOUS
<1> USE ChunkBound
<1>1. ThrottleType
  BY DEF Init, ThrottleType, ThrottleRecord, TimerIds, TimerState
<1> QED
  BY <1>1 DEF Init, ThrottleInv, NewsIsScheduled

LEMMA ClearedType ==
  ASSUME ThrottleInv PROVE Cleared \in [TimerIds -> TimerState]
  <1>1. \A id \in TimerIds : timers[id] \in TimerState
    BY DEF ThrottleInv, ThrottleType
  <1> QED
    BY <1>1 DEF Cleared, TimerState

THEOREM ThrottleStep == ThrottleInv /\ [Next]_vars => ThrottleInv'
<1> SUFFICES ASSUME ThrottleInv, [Next]_vars PROVE ThrottleInv'
  OBVIOUS
<1>0. throttle \in ThrottleRecord /\ updates \in Nat /\ 0 \in 0..MaxChunks
  BY ChunkBound DEF ThrottleInv, ThrottleType
<1> USE ChunkBound DEF TimerIds, ThrottleRecord
<1>1. ASSUME UNCHANGED throttleVars, UNCHANGED <<pump, chunks>> PROVE ThrottleInv'
  BY <1>1 DEF ThrottleInv, ThrottleType, throttleVars, NewsIsScheduled, Pending
<1>2. ASSUME NEW chunk \in Chunks, ReadChunk(chunk) PROVE ThrottleInv'
  BY <1>2 DEF ReadChunk, ThrottleInv, ThrottleType, throttleVars, NewsIsScheduled, Pending
<1>3. CASE NotifyThrottle
  <2> DEFINE t == [throttle EXCEPT !.hasProgress = TRUE, !.dirty = TRUE]
  <2>1. /\ pump' = "reading" /\ chunks' = chunks /\ chunks \in 1..MaxChunks
        /\ Schedule
    BY <1>3 DEF NotifyThrottle, ThrottleInv, ThrottleType
  <2>2. CASE throttle.settled
    BY <2>1, <2>2 DEF Schedule, ThrottleInv, ThrottleType, throttleVars, NewsIsScheduled, Pending
  <2>3. CASE ~throttle.settled /\ t.elapsed
    <3>1. timers' = Cleared /\ EmitLocked([t EXCEPT !.timer = 0])
      BY <2>1, <2>3 DEF Schedule
    <3>2. /\ throttle' = [t EXCEPT !.timer = 0, !.dirty = FALSE, !.elapsed = FALSE]
          /\ updates' = updates + 1
      BY <3>1 DEF EmitLocked, ThrottleInv, ThrottleType
    <3>3. /\ throttle' \in ThrottleRecord
          /\ throttle'.timer = 0 /\ ~throttle'.dirty /\ updates' \in Nat
      <4>1. throttle' \in ThrottleRecord
        BY <1>0, <3>2
      <4>2. throttle'.timer = 0 /\ throttle'.dirty = FALSE
        BY <1>0, <3>2
      <4>3. updates' \in Nat
        BY <1>0, <3>2
      <4> QED
        BY <4>1, <4>2, <4>3
    <3> QED
      BY <2>1, <3>1, <3>3, ClearedType DEF ThrottleInv, ThrottleType, NewsIsScheduled
  <2>4. CASE ~throttle.settled /\ ~t.elapsed /\ t.timer = 0
    <3>1. /\ timers' = [timers EXCEPT ![chunks] = "armed"]
          /\ throttle' = [t EXCEPT !.timer = chunks]
          /\ updates' = updates
      BY <2>1, <2>4 DEF Schedule
    <3>2. timers'[chunks] = "armed" /\ timers' \in [TimerIds -> TimerState]
      BY <2>1, <3>1 DEF ThrottleInv, ThrottleType, TimerState
    <3>3. throttle' \in ThrottleRecord
          /\ throttle'.timer = chunks /\ throttle'.hasProgress
      BY <2>1, <3>1 DEF ThrottleInv, ThrottleType
    <3> QED
      BY <2>1, <3>1, <3>2, <3>3 DEF ThrottleInv, ThrottleType, NewsIsScheduled, Pending
  <2>5. CASE ~throttle.settled /\ ~t.elapsed /\ t.timer # 0
    <3>1. throttle' = t /\ timers' = timers /\ updates' = updates
      BY <2>1, <2>5 DEF Schedule
    <3>2. /\ throttle' \in ThrottleRecord
          /\ throttle'.timer = throttle.timer /\ throttle'.hasProgress
      BY <3>1 DEF ThrottleInv, ThrottleType
    <3>3. throttle.timer \in TimerIds /\ Pending(throttle.timer)
      BY <2>5 DEF ThrottleInv, ThrottleType
    <3> QED
      BY <2>1, <3>1, <3>2, <3>3 DEF ThrottleInv, ThrottleType, NewsIsScheduled, Pending
  <2> QED
    BY <2>2, <2>3, <2>4, <2>5
<1>4. CASE EndOfOutput
  BY <1>4 DEF EndOfOutput, ThrottleInv, ThrottleType, throttleVars, NewsIsScheduled, Pending
<1>5. CASE ThrottleElapses
  <2>1. /\ throttle' = [throttle EXCEPT !.elapsed = TRUE]
        /\ UNCHANGED <<timers, updates, pump, chunks>>
    BY <1>5 DEF ThrottleElapses
  <2>2. /\ throttle' \in ThrottleRecord
        /\ throttle'.timer = throttle.timer /\ throttle'.dirty = throttle.dirty
        /\ throttle'.hasProgress = throttle.hasProgress /\ throttle'.settled = throttle.settled
    BY <2>1 DEF ThrottleInv, ThrottleType
  <2> QED
    BY <2>1, <2>2 DEF ThrottleInv, ThrottleType, NewsIsScheduled, Pending
<1>6. ASSUME NEW id \in TimerIds, TimerFires(id) PROVE ThrottleInv'
  <2>1. /\ timers' = [timers EXCEPT ![id] = "fired"]
        /\ UNCHANGED <<throttle, updates, pump, chunks>>
    BY <1>6 DEF TimerFires
  <2>2. timers' \in [TimerIds -> TimerState] /\ \A j \in TimerIds : Pending(j) => Pending(j)'
    BY <2>1 DEF ThrottleInv, ThrottleType, TimerState, Pending
  <2>3. throttle.timer # 0 => throttle.timer \in TimerIds
    BY DEF ThrottleInv, ThrottleType
  <2> QED
    BY <2>1, <2>2, <2>3 DEF ThrottleInv, ThrottleType, NewsIsScheduled, Pending
<1>7. ASSUME NEW id \in TimerIds, Callback(id) PROVE ThrottleInv'
  <2> DEFINE t == [throttle EXCEPT !.timer = 0]
  <2>1. /\ timers' = [timers EXCEPT ![id] = "stopped"] /\ EmitLocked(t)
        /\ UNCHANGED <<pump, chunks>>
    BY <1>7 DEF Callback
  <2>3. timers' \in [TimerIds -> TimerState]
    BY <2>1 DEF ThrottleInv, ThrottleType, TimerState
  <2>4. CASE throttle.dirty
    <3>1. /\ throttle' = [t EXCEPT !.dirty = FALSE, !.elapsed = FALSE]
          /\ updates' = updates + 1
      BY <2>1, <2>4 DEF EmitLocked, ThrottleInv, ThrottleType
    <3>2. /\ throttle' \in ThrottleRecord
          /\ throttle'.timer = 0 /\ ~throttle'.dirty /\ updates' \in Nat
      <4>1. throttle' \in ThrottleRecord
        BY <1>0, <3>1
      <4>2. throttle'.timer = 0 /\ throttle'.dirty = FALSE
        BY <1>0, <3>1
      <4>3. updates' \in Nat
        BY <1>0, <3>1
      <4> QED
        BY <4>1, <4>2, <4>3
    <3> QED
      BY <2>1, <2>3, <3>2 DEF ThrottleInv, ThrottleType, NewsIsScheduled
  <2>5. CASE ~throttle.dirty
    <3>1. throttle' = t /\ updates' = updates
      BY <2>1, <2>5 DEF EmitLocked
    <3>2. /\ throttle' \in ThrottleRecord
          /\ throttle'.timer = 0 /\ ~throttle'.dirty /\ updates' \in Nat
      BY <3>1, <2>5 DEF ThrottleInv, ThrottleType
    <3> QED
      BY <2>1, <2>3, <3>2 DEF ThrottleInv, ThrottleType, NewsIsScheduled
  <2> QED
    BY <2>4, <2>5
<1>8. CASE FinalFlush
  <2> DEFINE t == [throttle EXCEPT !.timer = 0, !.dirty = TRUE, !.hasProgress = TRUE, !.settled = TRUE]
  <2>1. timers' = Cleared /\ EmitLocked(t) /\ UNCHANGED <<pump, chunks>>
    BY <1>8 DEF FinalFlush
  <2>2. /\ throttle' = [t EXCEPT !.dirty = FALSE, !.elapsed = FALSE]
        /\ updates' = updates + 1
    BY <2>1 DEF EmitLocked, ThrottleInv, ThrottleType
  <2>3. /\ throttle' \in ThrottleRecord
        /\ throttle'.timer = 0 /\ ~throttle'.dirty /\ updates' \in Nat
    <3>1. throttle' \in ThrottleRecord
      BY <1>0, <2>2
    <3>2. throttle'.timer = 0 /\ throttle'.dirty = FALSE
      BY <1>0, <2>2
    <3>3. updates' \in Nat
      BY <1>0, <2>2
    <3> QED
      BY <3>1, <3>2, <3>3
  <2> QED
    BY <2>1, <2>3, ClearedType DEF ThrottleInv, ThrottleType, NewsIsScheduled
<1>9. CASE Stop
  <2>1. /\ timers' = Cleared /\ throttle' = [throttle EXCEPT !.timer = 0, !.settled = TRUE]
        /\ UNCHANGED <<pump, chunks, updates>>
    BY <1>9 DEF Stop
  <2>2. /\ throttle' \in ThrottleRecord
        /\ throttle'.timer = 0 /\ throttle'.settled
        /\ throttle'.dirty = throttle.dirty /\ throttle'.hasProgress = throttle.hasProgress
    BY <1>0, <2>1
  <2> QED
    BY <2>1, <2>2, ClearedType DEF ThrottleInv, ThrottleType, NewsIsScheduled
<1>10. CASE UNCHANGED vars
  BY <1>1, <1>10 DEF vars
<1>11. CASE StartCommand \/ StartFails \/ Refuse \/ SelectDone \/ SelectTimeout \/ SelectCancel
              \/ Reap \/ Collect \/ WaitReturns \/ DeadlineFires \/ CancelContext
  BY <1>1, <1>11 DEF StartCommand, StartFails, Refuse, SelectDone, SelectTimeout, SelectCancel, Kill,
    Reap, Collect, WaitReturns, DeadlineFires, CancelContext
<1>12. ASSUME NEW p \in Process, Spawn(p) \/ ProcessExits(p) PROVE ThrottleInv'
  BY <1>1, <1>12 DEF Spawn, ProcessExits
<1> QED
  BY <1>2, <1>3, <1>4, <1>5, <1>6, <1>7, <1>8, <1>9, <1>10, <1>11, <1>12 DEF Next, ToolStep, PumpStep

(* Output that was held back has a timer or a callback that will show it, on  *)
(* every interleaving of chunks, timers and callbacks (bash.go:371-387).      *)
THEOREM HeldBackIsScheduled == Spec => []NewsIsScheduled
<1>1. ThrottleInv => NewsIsScheduled
  BY DEF ThrottleInv
<1> QED
  BY <1>1, ThrottleInit, ThrottleStep, PTL DEF Spec

-----------------------------------------------------------------------------
\* Once the pipe is at its end no process is left that could write to it, and
\* the tool goes on to its result only after that: from the final flush on
\* nothing is read and nothing is news.
EndInv ==
    /\ ThrottleInv
    /\ pc = "start" => pump = "reading" /\ ~waited
    /\ pump = "eof" => holders = {}
    /\ waited => pump = "eof"
    /\ pc \in {"collect", "flush"} => waited
    /\ pc \in {"stop", "returned"} /\ result \notin Failed =>
           waited /\ shown = capture /\ updates > 0 /\ ~throttle.dirty

THEOREM EndInit == Init => EndInv
<1> SUFFICES ASSUME Init PROVE EndInv
  OBVIOUS
<1> QED
  BY ThrottleInit DEF Init, EndInv

THEOREM EndStep == EndInv /\ [Next]_vars => EndInv'
<1> SUFFICES ASSUME EndInv, [Next]_vars PROVE EndInv'
  OBVIOUS
<1>0. ThrottleInv' /\ updates \in Nat
  BY ThrottleStep DEF EndInv, ThrottleInv, ThrottleType
<1>1. ASSUME UNCHANGED vars PROVE EndInv'
  BY <1>0, <1>1 DEF EndInv, vars, execVars, throttleVars, captureVars
<1>2. CASE StartCommand
  BY <1>0, <1>2 DEF EndInv, StartCommand, throttleVars, captureVars
<1>3. CASE StartFails \/ Refuse
  BY <1>0, <1>3 DEF EndInv, StartFails, Refuse, Failed, execVars, throttleVars, captureVars
<1>4. CASE SelectDone \/ Reap
  BY <1>0, <1>4 DEF EndInv, SelectDone, Reap, execVars, throttleVars, captureVars
<1>5. CASE SelectTimeout \/ SelectCancel
  BY <1>0, <1>5 DEF EndInv, SelectTimeout, SelectCancel, Kill, throttleVars, captureVars
<1>6. CASE Collect
  BY <1>0, <1>6 DEF EndInv, Collect, Failed, execVars, throttleVars, captureVars
<1>7. CASE FinalFlush
  <2> DEFINE t == [throttle EXCEPT !.timer = 0, !.dirty = TRUE, !.hasProgress = TRUE, !.settled = TRUE]
  <2>1. pc = "flush" /\ pc' = "stop" /\ UNCHANGED <<captureVars, execVars, pump>> /\ EmitLocked(t)
    BY <1>7 DEF FinalFlush
  <2>2. throttle \in ThrottleRecord
    BY DEF EndInv, ThrottleInv, ThrottleType
  <2>3. t.dirty = TRUE /\ t.hasProgress = TRUE
    BY <2>2 DEF ThrottleRecord
  <2>4. throttle' = [t EXCEPT !.dirty = FALSE, !.elapsed = FALSE] /\ shown' = capture /\ updates' = updates + 1
    BY <2>1, <2>3 DEF EmitLocked
  <2>5. throttle'.dirty = FALSE
    BY <2>2, <2>4 DEF ThrottleRecord
  <2> QED
    BY <1>0, <2>1, <2>4, <2>5 DEF EndInv, execVars, captureVars
<1>8. CASE Stop
  <2>1. throttle'.dirty = throttle.dirty
    BY <1>8 DEF Stop, EndInv, ThrottleInv, ThrottleType, ThrottleRecord
  <2> QED
    BY <1>0, <1>8, <2>1 DEF EndInv, Stop, execVars, captureVars
<1>9. ASSUME NEW chunk \in Chunks, ReadChunk(chunk) PROVE EndInv'
  BY <1>0, <1>9 DEF EndInv, ReadChunk, execVars, throttleVars
<1>10. CASE NotifyThrottle
  BY <1>0, <1>10 DEF EndInv, NotifyThrottle, execVars, captureVars
<1>11. CASE EndOfOutput
  BY <1>0, <1>11 DEF EndInv, EndOfOutput, execVars, throttleVars, captureVars
<1>12. CASE WaitReturns
  BY <1>0, <1>12 DEF EndInv, WaitReturns, throttleVars, captureVars
<1>13. ASSUME NEW p \in Process, Spawn(p) \/ ProcessExits(p) PROVE EndInv'
  BY <1>0, <1>13 DEF EndInv, Spawn, ProcessExits, throttleVars, captureVars
<1>14. CASE DeadlineFires \/ CancelContext
  BY <1>0, <1>14 DEF EndInv, DeadlineFires, CancelContext, execVars, throttleVars, captureVars
<1>15. CASE ThrottleElapses
  <2>1. throttle'.dirty = throttle.dirty
    BY <1>15 DEF ThrottleElapses, EndInv, ThrottleInv, ThrottleType, ThrottleRecord
  <2> QED
    BY <1>0, <1>15, <2>1 DEF EndInv, ThrottleElapses, execVars, captureVars
<1>16. ASSUME NEW id \in TimerIds, TimerFires(id) PROVE EndInv'
  BY <1>0, <1>16 DEF EndInv, TimerFires, execVars, captureVars
<1>17. ASSUME NEW id \in TimerIds, Callback(id) PROVE EndInv'
  <2> DEFINE t == [throttle EXCEPT !.timer = 0]
  <2>1. /\ EmitLocked(t) /\ UNCHANGED <<captureVars, pc, result, execVars, pump>>
    BY <1>17 DEF Callback
  <2>2. t.dirty = throttle.dirty
    BY DEF EndInv, ThrottleInv, ThrottleType, ThrottleRecord
  <2>3. CASE throttle.dirty
    BY <1>0, <2>1, <2>3 DEF EndInv, execVars, captureVars
  <2>4. CASE ~throttle.dirty
    <3>1. throttle' = t /\ UNCHANGED <<shown, updates>>
      BY <2>1, <2>2, <2>4 DEF EmitLocked
    <3> QED
      BY <1>0, <2>1, <2>2, <3>1 DEF EndInv, execVars, captureVars
  <2> QED
    BY <2>3, <2>4
<1> QED
  BY <1>1, <1>2, <1>3, <1>4, <1>5, <1>6, <1>7, <1>8, <1>9, <1>10, <1>11, <1>12, <1>13, <1>14, <1>15,
     <1>16, <1>17 DEF Next, ToolStep, PumpStep

(* What the caller saw last is what the tool returns: all of the output has   *)
(* been read and no callback adds to it (bash.go:417-427).                     *)
THEOREM LastUpdateHolds == Spec => []LastUpdateIsResult
<1>1. EndInv => LastUpdateIsResult
  BY DEF EndInv, LastUpdateIsResult, Returned
<1> QED
  BY <1>1, EndInit, EndStep, PTL DEF Spec

-----------------------------------------------------------------------------
\* The variables of the tool and its execution.  A command that was waited for
\* has ended in some way, which Outcome names.
ExecTypes ==
    /\ pc \in {"start", "exec", "reap", "collect", "flush", "stop", "returned"}
    /\ result \in Failed \cup {"none", "timedOut", "cancelled", "signal", "failed", "ok"}
    /\ flag \in {"none", "timedOut", "cancelled"}
    /\ ctxDone \in BOOLEAN /\ waited \in BOOLEAN
    /\ deadline \in {"none", "running", "fired"}
    /\ holders \subseteq Process
    /\ exit \in {"running", "zero", "nonzero", "signal"}
    /\ pump \in {"reading", "observed", "eof"}
    /\ waited => exit # "running"

LEMMA ExecTypesStep ==
  ASSUME EndInv, ExecTypes, [Next]_vars PROVE ExecTypes'
<1> USE DEF ExecTypes, Failed
<1>1. CASE StartCommand \/ StartFails \/ Refuse \/ SelectDone \/ Reap \/ Collect \/ Stop
  BY <1>1 DEF Process, Group, StartCommand, StartFails, Refuse, SelectDone, Reap, Collect, Stop, execVars
<1>2. CASE SelectTimeout \/ SelectCancel
  <2>1. /\ pc' = "reap" /\ flag' \in {"timedOut", "cancelled"} /\ holders' \subseteq holders
        /\ exit' \in {exit, "signal"} /\ UNCHANGED <<result, ctxDone, deadline, waited, pump>>
    BY <1>2 DEF SelectTimeout, SelectCancel, Kill
  <2> QED
    BY <2>1
<1>3. CASE FinalFlush
  <2>1. exit \in {"zero", "nonzero", "signal"}
    BY <1>3 DEF FinalFlush, EndInv
  <2>2. Outcome \in {"timedOut", "cancelled", "signal", "failed", "ok"}
    BY <2>1 DEF Outcome
  <2> QED
    BY <1>3, <2>2 DEF FinalFlush, execVars
<1>4. ASSUME NEW chunk \in Chunks, ReadChunk(chunk) PROVE ExecTypes'
  BY <1>4 DEF ReadChunk, execVars
<1>5. ASSUME NEW p \in Process, Spawn(p) \/ ProcessExits(p) PROVE ExecTypes'
  <2>1. holders' \subseteq holders \cup {p} /\ UNCHANGED <<pc, result, ctxDone, flag, deadline, waited, pump>>
    BY <1>5 DEF Spawn, ProcessExits
  <2>2. exit' \in Exits \cup {exit} /\ (waited => exit' # "running")
    BY <1>5, ExitKinds DEF Spawn, ProcessExits
  <2> QED
    BY <1>5, <2>1, <2>2, ExitKinds
<1>6. CASE NotifyThrottle \/ EndOfOutput
  BY <1>6 DEF NotifyThrottle, EndOfOutput, execVars
<1>9. CASE WaitReturns
  BY <1>9 DEF WaitReturns
<1>10. CASE DeadlineFires
  BY <1>10 DEF DeadlineFires
<1>11. CASE CancelContext
  BY <1>11 DEF CancelContext, execVars
<1>7. ASSUME NEW id \in TimerIds, TimerFires(id) \/ Callback(id) PROVE ExecTypes'
  BY <1>7 DEF TimerFires, Callback, execVars
<1>8. CASE ThrottleElapses \/ UNCHANGED vars
  BY <1>8 DEF ThrottleElapses, vars, execVars
<1> QED
  BY <1>1, <1>2, <1>3, <1>4, <1>5, <1>6, <1>7, <1>8, <1>9, <1>10, <1>11 DEF Next, ToolStep, PumpStep

(* The variables of ExecuteStream and Exec keep their types; the result names *)
(* one of the ways a call can end (bash.go:166-203).                           *)
THEOREM BashTypeCorrect == Spec => []TypeOK
<1>1. Init => EndInv /\ ExecTypes
  BY EndInit DEF Init, ExecTypes, Process
<1>2. EndInv /\ ExecTypes /\ [Next]_vars => (EndInv /\ ExecTypes)'
  BY EndStep, ExecTypesStep
<1>3. EndInv /\ ExecTypes => TypeOK
  BY DEF EndInv, ExecTypes, ThrottleInv, ThrottleType, ThrottleRecord, TimerState, TypeOK
<1> QED
  BY <1>1, <1>2, <1>3, PTL DEF Spec

-----------------------------------------------------------------------------
(* The capture.                                                             *)

\* What a read may return, and what Sanitize puts in its place.
ReadByte == UNION {Range(chunk) : chunk \in Chunks}
MadeByte == {Lead, Cont, "fffd"}
Byte     == ReadByte \cup MadeByte

CaptureFields ==
  {"tail", "totalBytes", "completedLines", "currentLineBytes", "started", "path", "spillErr"}

CaptureType ==
  /\ stream \in Seq(Byte) /\ capture.tail \in Seq(Byte)
  /\ DOMAIN capture = CaptureFields
  /\ capture.completedLines \in Nat /\ capture.currentLineBytes \in Nat
  /\ capture.totalBytes = Len(stream)

\* Until the spill starts nothing was trimmed, so what the file is given first
\* is the whole stream; from then on it is given what the stream is given.
SpillInv ==
  /\ CaptureType
  /\ ~capture.spillErr /\ ~capture.started =>
       ~Overflowing(capture) /\ spillFile = <<>> /\ capture.tail = stream
  /\ ~capture.spillErr /\ capture.started => capture.path /\ spillFile = stream

(* One more byte keeps the lines of a text a sequence of sequences that is   *)
(* not empty.                                                               *)
Lines(S) == Seq(Seq(S)) \ {<<>>}

LEMMA AddByteTyped ==
  ASSUME NEW S, NEW lines \in Lines(S), NEW b \in S
  PROVE  AddByte(lines, b) \in Lines(S)
<1>1. lines \in Seq(Seq(S)) /\ Len(lines) \in Nat \ {0}
  BY DEF Lines
<1>2. Append(lines, <<>>) \in Lines(S)
  <2>1. <<>> \in Seq(S)
    OBVIOUS
  <2>2. Len(Append(lines, <<>>)) = Len(lines) + 1 /\ Append(lines, <<>>) \in Seq(Seq(S))
    BY <1>1, <2>1
  <2> QED
    BY <1>1, <2>2 DEF Lines
<1>3. Front(lines) \o <<Append(Last(lines), b)>> \in Lines(S)
  <2>1. Last(lines) \in Seq(S)
    BY <1>1 DEF Last
  <2>2. Append(Last(lines), b) \in Seq(S)
    BY <2>1
  <2>3. Front(lines) \in Seq(Seq(S))
    BY <1>1 DEF Front
  <2> DEFINE e == Append(Last(lines), b)
  <2> HIDE DEF e
  <2>4. /\ Len(Front(lines) \o <<e>>) = Len(Front(lines)) + 1
        /\ Front(lines) \o <<e>> \in Seq(Seq(S)) /\ Len(Front(lines)) \in Nat
    BY <2>2, <2>3 DEF e
  <2> QED
    BY <2>4 DEF Lines, e
<1> QED
  BY <1>2, <1>3 DEF AddByte

(* The lines of a text, byte by byte.                                       *)
LEMMA LineSteps ==
  ASSUME NEW S, NEW text \in Seq(S)
  PROVE  \E h : /\ h[0] = << <<>> >>
                /\ \A i \in 1 .. Len(text) : h[i] = AddByte(h[i - 1], text[i])
                /\ SplitLines(text) = h[Len(text)]
<1> DEFINE n == Len(text)
           base == << <<>> >>
           step == [x \in (1 .. n) \X Lines(S) |-> AddByte(x[2], text[x[1]])]
           Sol(g) == g = [t \in SUBSET (1 .. n) |->
                        IF t = {} THEN base ELSE AddByte(g[t \ {Max(t)}], text[Max(t)])]
           iter == CHOOSE g : Sol(g)
<1>1. n \in Nat /\ DOMAIN text = 1 .. n /\ base \in Lines(S)
  BY DEF Lines
<1>2. step \in [(1 .. n) \X Lines(S) -> Lines(S)]
  BY <1>1, AddByteTyped
<1>3. \E g : Sol(g)
  <2> HIDE DEF base, step, n
  <2>1. PICK g \in [SUBSET (1 .. n) -> Lines(S)] : IsSequenceFold(g, n, base, step)
    BY <1>1, <1>2, SequenceFoldExists
  <2>2. ASSUME NEW t \in SUBSET (1 .. n), t # {}
        PROVE  step[<<Max(t), g[t \ {Max(t)}]>>] = AddByte(g[t \ {Max(t)}], text[Max(t)])
    <3>1. Max(t) \in 1 .. n
      BY <1>1, <2>2, LargestElement
    <3>2. g[t \ {Max(t)}] \in Lines(S)
      BY <2>1
    <3> QED
      BY <3>1, <3>2 DEF step
  <2>3. Sol(g)
    BY <2>1, <2>2 DEF IsSequenceFold
  <2> QED
    BY <2>3
<1>4. Sol(iter)
  <2> HIDE DEF Sol
  <2> QED
    BY <1>3
<1>5. SplitLines(text) = iter[1 .. n]
  <2>1. SplitLines(text) = iter[DOMAIN text]
    BY <1>1 DEF SplitLines, FoldLeft, MapThenFoldSet
  <2> QED
    BY <1>1, <2>1
<1> HIDE DEF iter
<1> DEFINE h == [i \in 0 .. n |-> iter[1 .. i]]
<1>6. h[0] = base
  BY <1>1, <1>4, PrefixIntervals
<1>7. ASSUME NEW i \in 1 .. n
      PROVE  h[i] = AddByte(h[i - 1], text[i])
  <2>1. /\ 1 .. i \in SUBSET (1 .. n) /\ 1 .. i # {}
        /\ Max(1 .. i) = i /\ (1 .. i) \ {i} = 1 .. i - 1
    BY <1>1, PrefixIntervals
  <2>2. iter[1 .. i] = AddByte(iter[1 .. i - 1], text[i])
    BY <1>4, <2>1
  <2> QED
    BY <1>1, <2>2
<1>8. h[n] = iter[1 .. n]
  BY <1>1
<1> HIDE DEF h
<1> QED
  BY <1>5, <1>6, <1>7, <1>8

LEMMA LinesTyped ==
  ASSUME NEW S, NEW text \in Seq(S)
  PROVE  SplitLines(text) \in Lines(S)
<1>1. PICK h : /\ h[0] = << <<>> >>
               /\ \A i \in 1 .. Len(text) : h[i] = AddByte(h[i - 1], text[i])
               /\ SplitLines(text) = h[Len(text)]
  BY LineSteps
<1>2. h[0] \in Lines(S) /\ Len(text) \in Nat
  BY <1>1 DEF Lines
<1>3. \A i \in 1 .. Len(text) : h[i - 1] \in Lines(S) => h[i] \in Lines(S)
  BY <1>1, AddByteTyped
<1>4. \A i \in 0 .. Len(text) : h[i] \in Lines(S)
  BY <1>2, <1>3, StepsStay
<1> QED
  BY <1>1, <1>2, <1>4

LEMMA LastLineLength ==
  ASSUME NEW S, NEW text \in Seq(S)
  PROVE  Len(Last(SplitLines(text))) \in Nat
<1>1. SplitLines(text) \in Seq(Seq(S)) /\ Len(SplitLines(text)) \in Nat \ {0}
  BY LinesTyped DEF Lines
<1>2. Last(SplitLines(text)) \in Seq(S)
  BY <1>1 DEF Last
<1> QED
  BY <1>2

LEMMA SanitizedIsSequence ==
  ASSUME NEW chunk \in Chunks
  PROVE  Sanitize(chunk) \in Seq(Byte)
<1> DEFINE n == Len(chunk)
           Rune(i) ==
             CASE chunk[i] \in {CR, Control} -> <<>>
               [] chunk[i] = Lead -> IF i < Len(chunk) /\ chunk[i + 1] = Cont
                                     THEN <<Lead, Cont>> ELSE Replacement
               [] chunk[i] = Cont -> IF i > 1 /\ chunk[i - 1] = Lead
                                     THEN <<>> ELSE Replacement
               [] OTHER -> <<chunk[i]>>
           runes == [i \in DOMAIN chunk |-> Rune(i)]
<1>1. chunk \in Seq(Range(chunk)) /\ n \in Nat /\ DOMAIN chunk = 1 .. n
  BY ChunkAssumption
<1>2. /\ <<>> \in Seq(Byte) /\ <<Lead, Cont>> \in Seq(Byte) /\ Replacement \in Seq(Byte)
  <2>1. Lead \in Byte /\ Cont \in Byte /\ "fffd" \in Byte
    BY DEF Byte, MadeByte
  <2>2. ASSUME NEW a \in Byte, NEW b \in Byte
        PROVE  <<a, b>> \in Seq(Byte) /\ <<a, b, b>> \in Seq(Byte)
    OBVIOUS
  <2> QED
    BY <2>1, <2>2 DEF Replacement
<1>3. ASSUME NEW i \in 1 .. n
      PROVE  Rune(i) \in Seq(Byte)
  <2>1. chunk[i] \in Byte
    BY <1>1 DEF Byte, ReadByte, Range
  <2>2. <<chunk[i]>> \in Seq(Byte)
    BY <2>1
  <2> QED
    BY <1>2, <2>2, Zenon
<1>4. runes \in [1 .. n -> Seq(Byte)]
  <2> HIDE DEF Rune
  <2> QED
    BY <1>1, <1>3
<1>5. runes \in Seq(Seq(Byte))
  <2> HIDE DEF runes
  <2> QED
    BY <1>1, <1>4
<1>6. Sanitize(chunk) = FlattenSeq(runes)
  BY DEF Sanitize
<1> HIDE DEF runes
<1> QED
  BY <1>5, <1>6, FlattenedIsSequence

\* What observeChunk makes of the capture before it looks at the spill file.
LEMMA CountedFacts ==
  ASSUME CaptureType, NEW text \in Seq(Byte)
  PROVE  LET c == Counted(text) IN
         /\ DOMAIN c = CaptureFields
         /\ \A field \in {"tail", "started", "path", "spillErr"} : c[field] = capture[field]
         /\ c.completedLines \in Nat /\ c.currentLineBytes \in Nat
         /\ c.totalBytes = Len(stream \o text)
         /\ TotalLines(capture) \in Nat
         /\ TotalLines(c) \in Nat /\ TotalLines(c) >= TotalLines(capture)
<1> DEFINE newlines == {i \in DOMAIN text : text[i] = NL}
           last == Len(Last(SplitLines(text)))
           c == Counted(text)
<1>1. IsFiniteSet(newlines) /\ Cardinality(newlines) \in Nat
      /\ (newlines # {} => Cardinality(newlines) > 0)
  <2>1. newlines \in SUBSET (1 .. Len(text)) /\ Len(text) \in Nat
    OBVIOUS
  <2>2. IsFiniteSet(newlines)
    BY <2>1, FS_Interval, FS_Subset
  <2> QED
    BY <2>2, FS_CardinalityType, FS_EmptySet
<1>2. last \in Nat
  BY LastLineLength
<1>3. c = [capture EXCEPT
             !.totalBytes = capture.totalBytes + Len(text),
             !.completedLines = capture.completedLines + Cardinality(newlines),
             !.currentLineBytes = IF newlines = {} THEN capture.currentLineBytes + Len(text)
                                  ELSE last]
  BY DEF Counted
<1> HIDE DEF newlines, last, c
<1>4. DOMAIN c = CaptureFields
  BY <1>3 DEF CaptureType
<1>5. \A field \in {"tail", "started", "path", "spillErr"} : c[field] = capture[field]
  BY <1>3 DEF CaptureType, CaptureFields
<1>6. /\ c.totalBytes = capture.totalBytes + Len(text)
      /\ c.completedLines = capture.completedLines + Cardinality(newlines)
      /\ c.currentLineBytes = IF newlines = {} THEN capture.currentLineBytes + Len(text) ELSE last
  BY <1>3 DEF CaptureType, CaptureFields
<1>7. c.totalBytes = Len(stream \o text) /\ Len(text) \in Nat
  BY <1>6, Concatenation DEF CaptureType
<1>8. c.completedLines \in Nat /\ c.currentLineBytes \in Nat
  BY <1>1, <1>2, <1>6, <1>7 DEF CaptureType
<1>9. /\ TotalLines(capture) \in Nat /\ TotalLines(c) \in Nat
      /\ TotalLines(c) >= TotalLines(capture)
  <2>1. newlines = {} => Cardinality(newlines) = 0
    BY FS_EmptySet
  <2>2. capture.completedLines \in Nat /\ capture.currentLineBytes \in Nat
    BY DEF CaptureType
  <2>3. CASE newlines = {}
    BY <1>6, <1>7, <1>8, <2>1, <2>2, <2>3 DEF TotalLines
  <2>4. CASE newlines # {}
    BY <1>1, <1>6, <1>8, <2>2, <2>4 DEF TotalLines
  <2> QED
    BY <2>3, <2>4
<1> QED
  BY <1>4, <1>5, <1>7, <1>8, <1>9 DEF c

(* What SuffixWithin promises.                                              *)
Within(s, n, v) ==
  /\ IsEnd(v, s)
  /\ Len(s) <= n => Len(v) = Len(s)
  /\ Len(s) > n =>
       /\ Len(v) <= n
       /\ Len(v) = 0 \/ v[1] # Cont
       /\ \A j \in Len(s) - n + 1 .. Len(s) - Len(v) : s[j] = Cont

(* SuffixWithin is the longest end of the text that keeps within the limit  *)
(* and does not begin inside a character.                                   *)
LEMMA SuffixIsWithin ==
  ASSUME NEW S, NEW s \in Seq(S), NEW n \in Nat
  PROVE  SuffixWithin(s, n) \in Seq(S) /\ Within(s, n, SuffixWithin(s, n))
<1> DEFINE starts == {i \in (Len(s) - n + 1)..Len(s) : s[i] # Cont}
           first == CHOOSE i \in starts : \A j \in starts : i <= j
<1>0. Len(s) \in Nat
  OBVIOUS
<1>1. CASE Len(s) <= n
  <2>1. SuffixWithin(s, n) = s
    BY <1>1 DEF SuffixWithin
  <2> QED
    BY <1>0, <1>1, <2>1 DEF Within, IsEnd
<1>2. CASE Len(s) > n /\ starts = {}
  <2>1. SuffixWithin(s, n) = <<>>
    BY <1>2 DEF SuffixWithin
  <2>2. <<>> \in Seq(S) /\ Len(<<>>) = 0
    OBVIOUS
  <2>3. \A j \in Len(s) - n + 1 .. Len(s) : s[j] = Cont
    BY <1>2
  <2>4. Within(s, n, <<>>)
    BY <1>0, <1>2, <2>2, <2>3 DEF Within, IsEnd
  <2> QED
    BY <2>1, <2>2, <2>4
<1>3. CASE Len(s) > n /\ starts # {}
  <2>1. starts \in SUBSET Nat /\ starts \in SUBSET (1 .. Len(s))
    BY <1>0, <1>3
  <2>2. first = Min(starts)
    BY DEF Min
  <2>3. first \in starts /\ \A y \in starts : first <= y
    BY <1>3, <2>1, <2>2, LeastElement
  <2>4. SuffixWithin(s, n) = SubSeq(s, first, Len(s))
    <3>1. SuffixWithin(s, n) = IF Len(s) <= n THEN s ELSE IF starts = {} THEN <<>>
                               ELSE SubSeq(s, first, Len(s))
      BY Zenon DEF SuffixWithin
    <3>2. ~ (Len(s) <= n)
      BY <1>0, <1>3
    <3> QED
      BY <1>3, <3>1, <3>2, Zenon
  <2>5. first \in Len(s) - n + 1 .. Len(s) /\ s[first] # Cont /\ first \in 1 .. Len(s)
    BY <2>1, <2>3
  <2>6. \A j \in Len(s) - n + 1 .. first - 1 : s[j] = Cont
    <3> SUFFICES ASSUME NEW j \in Len(s) - n + 1 .. first - 1, s[j] # Cont PROVE FALSE
      OBVIOUS
    <3>1. j \in starts
      BY <1>0, <2>5
    <3>2. first <= j
      BY <2>3, <3>1
    <3> QED
      BY <1>0, <2>5, <3>2
  <2> DEFINE v == SubSeq(s, first, Len(s))
  <2> HIDE DEF first, starts
  <2>7. v \in Seq(S) /\ Len(v) = Len(s) - first + 1
        /\ \A k \in 1 .. Len(s) - first + 1 : v[k] = s[first + k - 1]
    BY <2>5, SubSeqToEnd
  <2> HIDE DEF v
  <2>8. IsEnd(v, s)
    <3>1. Len(v) <= Len(s)
      BY <1>0, <2>5, <2>7
    <3>2. ASSUME NEW k \in 1 .. Len(v) PROVE v[k] = s[Len(s) - Len(v) + k]
      <4>1. k \in 1 .. Len(s) - first + 1 /\ first + k - 1 = Len(s) - Len(v) + k
        BY <1>0, <2>5, <2>7
      <4> QED
        BY <2>7, <4>1
    <3> QED
      BY <3>1, <3>2 DEF IsEnd
  <2>9. v[1] # Cont /\ Len(v) <= n
    <3>1. 1 \in 1 .. Len(s) - first + 1 /\ first + 1 - 1 = first
      BY <1>0, <2>5
    <3> QED
      BY <1>0, <2>5, <2>7, <3>1
  <2>10. \A j \in Len(s) - n + 1 .. Len(s) - Len(v) : s[j] = Cont
    BY <1>0, <2>5, <2>6, <2>7
  <2>11. Within(s, n, v)
    BY <1>0, <1>3, <2>8, <2>9, <2>10 DEF Within
  <2> QED
    BY <2>4, <2>7, <2>11 DEF v
<1> QED
  BY <1>0, <1>1, <1>2, <1>3

(* A suffix is a text over the same bytes, and all of a text that fits.     *)
LEMMA SuffixTyped ==
  ASSUME NEW S, NEW s \in Seq(S), NEW n \in Nat
  PROVE  SuffixWithin(s, n) \in Seq(S) /\ (Len(s) <= n => SuffixWithin(s, n) = s)
<1>1. SuffixWithin(s, n) \in Seq(S)
  BY SuffixIsWithin
<1>2. Len(s) <= n => SuffixWithin(s, n) = s
  BY DEF SuffixWithin
<1> QED
  BY <1>1, <1>2

(* A chunk grows the capture's totals, and keeps what the spill promises.   *)
LEMMA ObserveKeeps ==
  ASSUME SpillInv, NEW chunk \in Chunks, NEW done, Observe(chunk, done)
  PROVE  /\ SpillInv'
         /\ capture'.totalBytes >= capture.totalBytes
         /\ TotalLines(capture') >= TotalLines(capture)
<1> DEFINE text == Sanitize(chunk)
           c == Counted(text)
           whole == capture.tail \o text
           kept == SuffixWithin(whole, MaxTailBytes)
           spilling == ~capture.spillErr /\ (capture.started \/ Overflowing(c))
<1>1. text \in Seq(Byte)
  BY SanitizedIsSequence
<1>2. CaptureType
  BY DEF SpillInv
<1>3. /\ DOMAIN c = CaptureFields
      /\ \A field \in {"tail", "started", "path", "spillErr"} : c[field] = capture[field]
      /\ c.completedLines \in Nat /\ c.currentLineBytes \in Nat
      /\ c.totalBytes = Len(stream \o text)
      /\ TotalLines(capture) \in Nat
      /\ TotalLines(c) \in Nat /\ TotalLines(c) >= TotalLines(capture)
  BY <1>1, <1>2, CountedFacts
<1>4. PICK outcome \in IF spilling THEN SpillOutcomes(capture.started, done) ELSE {"none"} :
        /\ stream' = stream \o text
        /\ capture' = [c EXCEPT
                         !.tail = kept,
                         !.started = c.started \/ spilling,
                         !.path = c.path \/ (spilling /\ outcome # "noFile"),
                         !.spillErr = c.spillErr \/ outcome \in {"noFile", "notWritten"}]
        /\ spillFile' = IF outcome # "written" THEN spillFile
                        ELSE spillFile \o (IF capture.started THEN text ELSE whole)
  BY DEF Observe
<1>5. MaxTailBytes \in Nat /\ MaxBytes <= MaxTailBytes /\ MaxBytes \in Nat
  BY LimitAssumption DEF MaxTailBytes
<1>6. whole \in Seq(Byte) /\ stream \in Seq(Byte)
  BY <1>1, <1>2 DEF CaptureType
<1>7. kept \in Seq(Byte) /\ (Len(whole) <= MaxTailBytes => kept = whole)
  BY <1>5, <1>6, SuffixTyped
<1>8. /\ outcome \in {"none", "noFile", "notWritten", "written"}
      /\ outcome = "none" <=> ~spilling
  <2> HIDE DEF spilling
  <2> QED
    BY <1>4 DEF SpillOutcomes
<1>9. /\ stream' \in Seq(Byte) /\ Len(stream') >= Len(stream)
      /\ Len(stream) \in Nat /\ Len(stream') \in Nat
  BY <1>1, <1>4, <1>6, Concatenation
<1> HIDE DEF text, c, whole, kept
<1>10. /\ DOMAIN capture' = CaptureFields
       /\ capture'.tail = kept
       /\ capture'.totalBytes = c.totalBytes
       /\ capture'.completedLines = c.completedLines
       /\ capture'.currentLineBytes = c.currentLineBytes
  <2> HIDE DEF spilling
  <2> QED
    BY <1>3, <1>4 DEF CaptureFields
<1>11. /\ capture'.started = (c.started \/ spilling)
       /\ capture'.path = (c.path \/ (spilling /\ outcome # "noFile"))
       /\ capture'.spillErr = (c.spillErr \/ outcome \in {"noFile", "notWritten"})
  <2> HIDE DEF spilling
  <2> QED
    BY <1>3, <1>4 DEF CaptureFields
<1>12. c.started = capture.started /\ c.path = capture.path /\ c.spillErr = capture.spillErr
  BY <1>3
<1>13. CaptureType'
  BY <1>3, <1>4, <1>7, <1>9, <1>10 DEF CaptureType
<1>14. TotalLines(capture') = TotalLines(c) /\ Overflowing(capture') = Overflowing(c)
  BY <1>10 DEF TotalLines, Overflowing
<1>15. (~capture.spillErr /\ ~capture.started =>
          ~Overflowing(capture) /\ spillFile = <<>> /\ capture.tail = stream)'
  <2> SUFFICES ASSUME ~capture'.spillErr, ~capture'.started
               PROVE  ~Overflowing(capture') /\ spillFile' = <<>> /\ capture'.tail = stream'
    OBVIOUS
  <2>1. ~capture.spillErr /\ ~capture.started /\ ~spilling
    BY <1>11, <1>12
  <2>2. ~Overflowing(c) /\ outcome = "none"
    BY <1>8, <2>1
  <2>3. spillFile = <<>> /\ capture.tail = stream
    BY <2>1 DEF SpillInv
  <2>4. whole = stream' /\ Len(whole) <= MaxBytes
    BY <1>3, <1>4, <1>5, <1>9, <2>2, <2>3 DEF whole, Overflowing
  <2>5. kept = whole
    BY <1>5, <1>7, <1>9, <2>4
  <2> QED
    BY <1>4, <1>10, <1>14, <2>2, <2>3, <2>4, <2>5
<1>16. (~capture.spillErr /\ capture.started => capture.path /\ spillFile = stream)'
  <2> SUFFICES ASSUME ~capture'.spillErr, capture'.started
               PROVE  capture'.path /\ spillFile' = stream'
    OBVIOUS
  <2>1. ~capture.spillErr /\ (capture.started \/ spilling) /\ outcome \notin {"noFile", "notWritten"}
    BY <1>11, <1>12
  <2>2. spilling /\ outcome = "written"
    BY <1>8, <2>1
  <2>3. capture'.path
    BY <1>11, <2>2
  <2>4. CASE capture.started
    BY <1>4, <2>1, <2>2, <2>3, <2>4 DEF SpillInv
  <2>5. CASE ~capture.started
    <3>1. spillFile = <<>> /\ capture.tail = stream
      BY <2>1, <2>5 DEF SpillInv
    <3>2. spillFile' = <<>> \o whole /\ whole = stream'
      BY <1>4, <2>2, <2>5, <3>1 DEF whole
    <3> QED
      BY <1>6, <2>3, <3>2
  <2> QED
    BY <2>4, <2>5
<1> QED
  BY <1>2, <1>3, <1>4, <1>9, <1>10, <1>13, <1>14, <1>15, <1>16 DEF SpillInv, CaptureType

\* Nothing has been read.
LEMMA CaptureBegins == CaptureInit => SpillInv
<1> SUFFICES ASSUME CaptureInit PROVE SpillInv
  OBVIOUS
<1> USE DEF CaptureInit
<1>1. <<>> \in Seq(Byte) /\ Len(<<>>) = 0
  OBVIOUS
<1>2. CaptureType
  BY <1>1 DEF CaptureType, CaptureFields
<1>3. ~Overflowing(capture)
  BY LimitAssumption DEF Overflowing, TotalLines
<1> QED
  BY <1>2, <1>3 DEF SpillInv

\* A step that leaves the capture alone.
LEMMA CaptureLeft == SpillInv /\ UNCHANGED captureVars => SpillInv'
BY DEF captureVars, SpillInv, CaptureType, Overflowing, TotalLines

THEOREM SpillInit == Init => SpillInv
BY CaptureBegins DEF Init

\* Only the copying goroutine touches the capture.
LEMMA OnlyReadsObserve ==
  ASSUME [Next]_vars
  PROVE  \/ UNCHANGED captureVars
         \/ \E chunk \in Chunks : ReadChunk(chunk)
<1>1. CASE ToolStep
  BY <1>1 DEF ToolStep, StartCommand, StartFails, Refuse, SelectDone, SelectTimeout, SelectCancel,
     Kill, Reap, Collect, FinalFlush, Stop
<1>2. CASE PumpStep \/ WaitReturns \/ DeadlineFires \/ CancelContext \/ ThrottleElapses
  BY <1>2 DEF PumpStep, NotifyThrottle, EndOfOutput, WaitReturns, DeadlineFires, CancelContext,
     ThrottleElapses
<1>3. ASSUME NEW p \in Process, Spawn(p) \/ ProcessExits(p) PROVE UNCHANGED captureVars
  BY <1>3 DEF Spawn, ProcessExits
<1>4. ASSUME NEW id \in TimerIds, TimerFires(id) \/ Callback(id) PROVE UNCHANGED captureVars
  BY <1>4 DEF TimerFires, Callback
<1>5. CASE UNCHANGED vars
  BY <1>5 DEF vars
<1> QED
  BY <1>1, <1>2, <1>3, <1>4, <1>5 DEF Next

THEOREM SpillStep == SpillInv /\ [Next]_vars => SpillInv'
<1> SUFFICES ASSUME SpillInv, [Next]_vars PROVE SpillInv'
  OBVIOUS
<1>1. CASE UNCHANGED captureVars
  BY <1>1, CaptureLeft
<1>2. ASSUME NEW chunk \in Chunks, ReadChunk(chunk) PROVE SpillInv'
  BY <1>2, ObserveKeeps DEF ReadChunk
<1> QED
  BY <1>1, <1>2, OnlyReadsObserve

(* Whatever is read and whenever a file operation fails, no byte of an       *)
(* output that overflowed is lost without an error: the file that the result *)
(* names holds all of it (observeChunk, shell_output.go:144-176).             *)
THEOREM SpillIsWhole == Spec => []SpillHoldsWholeStream
<1>1. SpillInv => SpillHoldsWholeStream
  BY DEF SpillInv, SpillHoldsWholeStream
<1> QED
  BY <1>1, SpillInit, SpillStep, PTL DEF Spec

-----------------------------------------------------------------------------
(* The updates.                                                             *)

\* What was shown is an earlier state of the capture; a call that was refused
\* never had a throttle, so no update follows it.
ShownInv ==
  /\ EndInv /\ ExecTypes /\ SpillInv
  /\ shown.totalBytes \in Nat /\ TotalLines(shown) \in Nat
  /\ shown.totalBytes <= capture.totalBytes
  /\ TotalLines(shown) <= TotalLines(capture)
  /\ result = "refused" => Returned
  /\ pc = "start" \/ result = "refused" => pump = "reading" /\ ~throttle.dirty

LEMMA CaptureTotals ==
  ASSUME SpillInv PROVE capture.totalBytes \in Nat /\ TotalLines(capture) \in Nat
<1>1. Len(stream) \in Nat
  BY DEF SpillInv, CaptureType
<1> QED
  BY <1>1 DEF SpillInv, CaptureType, TotalLines

LEMMA EmitShows ==
  ASSUME NEW t \in ThrottleRecord, EmitLocked(t)
  PROVE  /\ \/ UNCHANGED <<shown, updates>>
            \/ t.dirty /\ shown' = capture
         /\ throttle'.dirty => t.dirty
  BY DEF EmitLocked, ThrottleRecord

(* A step makes no update, or one that shows the capture as it is.          *)
LEMMA UpdateShows ==
  ASSUME ShownInv, [Next]_vars
  PROVE  \/ UNCHANGED <<shown, updates>>
         \/ /\ shown' = capture /\ UNCHANGED captureVars
            /\ Returned => result = "error"
<1>0. throttle \in ThrottleRecord /\ EndInv
  BY DEF ShownInv, EndInv, ThrottleInv, ThrottleType
<1>1. CASE StartCommand \/ StartFails \/ Refuse \/ SelectDone \/ SelectTimeout \/ SelectCancel
           \/ Reap \/ Collect \/ Stop
  BY <1>1 DEF throttleVars, StartCommand, StartFails, Refuse, SelectDone, SelectTimeout,
     SelectCancel, Kill, Reap, Collect, Stop
<1>2. CASE FinalFlush
  BY <1>2 DEF FinalFlush, EmitLocked, Returned
<1>3. CASE EndOfOutput \/ WaitReturns \/ DeadlineFires \/ CancelContext \/ ThrottleElapses
  BY <1>3 DEF throttleVars, EndOfOutput, WaitReturns, DeadlineFires, CancelContext, ThrottleElapses
<1>4. CASE NotifyThrottle
  <2>1. pump = "observed" /\ Schedule /\ UNCHANGED captureVars
    BY <1>4 DEF NotifyThrottle
  <2>2. Returned => result = "error"
    BY <2>1 DEF ShownInv, EndInv, Returned, Failed
  <2>3. UNCHANGED <<shown, updates>> \/ shown' = capture
    BY <2>1 DEF Schedule, EmitLocked, throttleVars
  <2> QED
    BY <2>1, <2>2, <2>3
<1>5. ASSUME NEW p \in Process, Spawn(p) \/ ProcessExits(p)
      PROVE  UNCHANGED <<shown, updates>>
  BY <1>5 DEF Spawn, ProcessExits, throttleVars
<1>6. ASSUME NEW id \in TimerIds, TimerFires(id)
      PROVE  UNCHANGED <<shown, updates>>
  BY <1>6 DEF TimerFires
<1>7. ASSUME NEW id \in TimerIds, Callback(id)
      PROVE  \/ UNCHANGED <<shown, updates>>
             \/ /\ shown' = capture /\ UNCHANGED captureVars
                /\ Returned => result = "error"
  <2> DEFINE t == [throttle EXCEPT !.timer = 0]
  <2>1. t \in ThrottleRecord /\ t.dirty = throttle.dirty
    BY <1>0, ChunkBound DEF ThrottleRecord
  <2>2. EmitLocked(t) /\ UNCHANGED captureVars
    BY <1>7 DEF Callback
  <2>3. throttle.dirty /\ Returned => result = "error"
    BY DEF ShownInv, EndInv, Returned, Failed
  <2> HIDE DEF t
  <2> QED
    BY <2>1, <2>2, <2>3, EmitShows
<1>8. ASSUME NEW chunk \in Chunks, ReadChunk(chunk)
      PROVE  UNCHANGED <<shown, updates>>
  BY <1>8 DEF ReadChunk, throttleVars
<1>9. CASE UNCHANGED vars
  BY <1>9 DEF vars, throttleVars
<1> QED
  BY <1>1, <1>2, <1>3, <1>4, <1>5, <1>6, <1>7, <1>8, <1>9 DEF Next, ToolStep, PumpStep

LEMMA RefusedStaysSilent ==
  ASSUME ShownInv, [Next]_vars
  PROVE  (/\ result = "refused" => Returned
          /\ pc = "start" \/ result = "refused" => pump = "reading" /\ ~throttle.dirty)'
<1>0. throttle \in ThrottleRecord /\ EndInv /\ ExecTypes
  BY DEF ShownInv, EndInv, ThrottleInv, ThrottleType
<1> USE DEF ShownInv, Returned
<1>1. CASE StartCommand \/ StartFails \/ SelectDone \/ SelectTimeout \/ SelectCancel
           \/ Reap \/ Collect
  BY <1>1 DEF throttleVars, StartCommand, StartFails, SelectDone, SelectTimeout,
     SelectCancel, Kill, Reap, Collect
<1>2. CASE Refuse
  BY <1>2 DEF throttleVars, Refuse
<1>10. CASE Stop
  BY <1>0, <1>10 DEF Stop, ThrottleRecord
<1>11. CASE FinalFlush
  <2>1. exit \in {"zero", "nonzero", "signal"} /\ flag \in {"none", "timedOut", "cancelled"}
    BY <1>0, <1>11 DEF FinalFlush, EndInv, ExecTypes
  <2>2. Outcome # "refused"
    BY <2>1 DEF Outcome
  <2> QED
    BY <1>11, <2>2 DEF FinalFlush
<1>3. CASE EndOfOutput \/ WaitReturns \/ DeadlineFires \/ CancelContext
  BY <1>3 DEF throttleVars, EndOfOutput, WaitReturns, DeadlineFires, CancelContext
<1>12. CASE ThrottleElapses
  BY <1>0, <1>12 DEF ThrottleElapses, ThrottleRecord
<1>4. CASE NotifyThrottle
  BY <1>4 DEF NotifyThrottle
<1>5. ASSUME NEW p \in Process, Spawn(p) \/ ProcessExits(p)
      PROVE  UNCHANGED <<pc, result, pump, throttle>>
  BY <1>5 DEF Spawn, ProcessExits, throttleVars
<1>6. ASSUME NEW id \in TimerIds, TimerFires(id)
      PROVE  UNCHANGED <<pc, result, pump, throttle>>
  BY <1>6 DEF TimerFires
<1>7. ASSUME NEW id \in TimerIds, Callback(id)
      PROVE  UNCHANGED <<pc, result, pump>> /\ (throttle'.dirty => throttle.dirty)
  <2> DEFINE t == [throttle EXCEPT !.timer = 0]
  <2>1. t \in ThrottleRecord /\ t.dirty = throttle.dirty
    BY <1>0, ChunkBound DEF ThrottleRecord
  <2>2. EmitLocked(t) /\ UNCHANGED <<pc, result, pump>>
    BY <1>7 DEF Callback
  <2> HIDE DEF t
  <2> QED
    BY <2>1, <2>2, EmitShows
<1>8. ASSUME NEW chunk \in Chunks, ReadChunk(chunk)
      PROVE  pc \in {"exec", "reap"} /\ UNCHANGED <<pc, result>>
  BY <1>8 DEF ReadChunk
<1>9. CASE UNCHANGED vars
  BY <1>9 DEF vars, throttleVars
<1> QED
  BY <1>1, <1>2, <1>3, <1>4, <1>5, <1>6, <1>7, <1>8, <1>9, <1>10, <1>11, <1>12
     DEF Next, ToolStep, PumpStep

THEOREM ShownInit == Init => ShownInv
<1> SUFFICES ASSUME Init PROVE ShownInv
  OBVIOUS
<1>1. EndInv /\ SpillInv
  BY EndInit, SpillInit
<1>2. ExecTypes
  BY DEF Init, ExecTypes, Process
<1>3. shown = capture
  BY DEF Init
<1>4. pc = "start" /\ result = "none" /\ pump = "reading" /\ ~throttle.dirty
  BY DEF Init
<1> QED
  BY <1>1, <1>2, <1>3, <1>4, CaptureTotals DEF ShownInv

THEOREM ShownStep == ShownInv /\ [Next]_vars => ShownInv'
<1> SUFFICES ASSUME ShownInv, [Next]_vars PROVE ShownInv'
  OBVIOUS
<1>1. EndInv' /\ ExecTypes' /\ SpillInv'
  BY EndStep, ExecTypesStep, SpillStep DEF ShownInv
<1>2. /\ capture.totalBytes \in Nat /\ TotalLines(capture) \in Nat
      /\ capture'.totalBytes \in Nat /\ TotalLines(capture') \in Nat
  <2>1. capture.totalBytes \in Nat /\ TotalLines(capture) \in Nat
    BY CaptureTotals DEF ShownInv
  <2>2. (capture.totalBytes \in Nat /\ TotalLines(capture) \in Nat)'
    BY <1>1 DEF SpillInv, CaptureType, TotalLines
  <2> QED
    BY <2>1, <2>2 DEF TotalLines
<1>3. capture'.totalBytes >= capture.totalBytes /\ TotalLines(capture') >= TotalLines(capture)
  <2>1. CASE UNCHANGED captureVars
    BY <1>2, <2>1 DEF captureVars, TotalLines
  <2>2. ASSUME NEW chunk \in Chunks, ReadChunk(chunk)
        PROVE  /\ capture'.totalBytes >= capture.totalBytes
               /\ TotalLines(capture') >= TotalLines(capture)
    BY <2>2, ObserveKeeps DEF ReadChunk, ShownInv
  <2> QED
    BY <2>1, <2>2, OnlyReadsObserve
<1>4. shown' = shown \/ (shown' = capture /\ capture' = capture)
  BY UpdateShows DEF captureVars
<1>5. /\ shown'.totalBytes \in Nat /\ TotalLines(shown') \in Nat
      /\ shown'.totalBytes <= capture'.totalBytes
      /\ TotalLines(shown') <= TotalLines(capture')
  <2>1. CASE shown' = shown
    BY <1>2, <1>3, <2>1 DEF ShownInv, TotalLines
  <2>2. CASE shown' = capture /\ capture' = capture
    BY <1>2, <2>2 DEF TotalLines
  <2> QED
    BY <1>4, <2>1, <2>2
<1> QED
  BY <1>1, <1>5, RefusedStaysSilent DEF ShownInv, TotalLines

(* An update shows no less of the output than the one before, and none comes *)
(* after a return other than with an error, whichever callback was waiting   *)
(* for the mutex (bash.go:333-339, 380, 440-453).                            *)
THEOREM UpdatesGrow == Spec => UpdatesFollowStream
<1>1. ASSUME ShownInv, [Next]_vars, updates' # updates
      PROVE  /\ shown'.totalBytes >= shown.totalBytes
             /\ TotalLines(shown') >= TotalLines(shown)
             /\ Returned => result = "error"
  <2>1. shown' = capture /\ (Returned => result = "error")
    BY <1>1, UpdateShows
  <2>2. TotalLines(shown') = TotalLines(capture)
    BY <2>1 DEF TotalLines
  <2> QED
    BY <1>1, <2>1, <2>2, CaptureTotals DEF ShownInv
<1> QED
  BY <1>1, ShownInit, ShownStep, PTL DEF Spec, UpdatesFollowStream

-----------------------------------------------------------------------------
(* Lines and newlines.  SplitLines goes byte by byte, and what it makes of two*)
(* texts is what it makes of the one, continued with the other.             *)

(* One more byte ends the last line, or is added to it.                     *)
Grown(lines, out, b) ==
  /\ b = NL => /\ Len(out) = Len(lines) + 1 /\ out[Len(lines) + 1] = <<>>
               /\ \A k \in 1 .. Len(lines) : out[k] = lines[k]
  /\ b # NL => /\ Len(out) = Len(lines) /\ out[Len(lines)] = Append(lines[Len(lines)], b)
               /\ \A k \in 1 .. Len(lines) - 1 : out[k] = lines[k]

(* What the lines of a text are, and that there is one at least.            *)
LEMMA LinesFacts ==
  ASSUME NEW S, NEW lines \in Lines(S)
  PROVE  /\ lines \in Seq(Seq(S)) /\ Len(lines) \in Nat \ {0}
         /\ \A k \in 1 .. Len(lines) : lines[k] \in Seq(S) /\ Len(lines[k]) \in Nat
<1>1. lines \in Seq(Seq(S)) /\ Len(lines) \in Nat \ {0}
  BY DEF Lines
<1>2. \A k \in 1 .. Len(lines) : lines[k] \in Seq(S)
  BY <1>1
<1> QED
  BY <1>1, <1>2

(* AddByte ends the last line or adds to it, and leaves the others alone.   *)
LEMMA AddByteGrows ==
  ASSUME NEW S, NEW lines \in Lines(S), NEW b \in S
  PROVE  Grown(lines, AddByte(lines, b), b)
<1> DEFINE out == AddByte(lines, b)
           n == Len(lines)
<1>1. lines \in Seq(Seq(S)) /\ n \in Nat \ {0} /\ \A k \in 1 .. n : lines[k] \in Seq(S)
  BY LinesFacts
<1>3. CASE b = NL
  <2>1. <<>> \in Seq(S)
    OBVIOUS
  <2>2. out = Append(lines, <<>>)
    BY <1>3 DEF AddByte
  <2>3. /\ Len(Append(lines, <<>>)) = n + 1 /\ Append(lines, <<>>)[n + 1] = <<>>
        /\ \A k \in 1 .. n : Append(lines, <<>>)[k] = lines[k]
    BY <1>1, <2>1
  <2> HIDE DEF out, n
  <2> QED
    BY <1>3, <2>2, <2>3 DEF Grown, n, out
<1>4. CASE b # NL
  <2> DEFINE e == Append(Last(lines), b)
             f == Front(lines)
  <2>1. f \in Seq(Seq(S)) /\ Len(f) = n - 1 /\ \A k \in 1 .. n - 1 : f[k] = lines[k]
    <3>1. n > 0
      BY <1>1
    <3> QED
      BY <1>1, <3>1, FrontFacts
  <2>2. e = Append(lines[n], b) /\ e \in Seq(S)
    BY <1>1 DEF Last
  <2>3. out = f \o <<e>>
    BY <1>4 DEF AddByte
  <2> HIDE DEF e, f
  <2>4. /\ Len(f \o <<e>>) = Len(f) + 1
        /\ (f \o <<e>>)[Len(f) + 1] = e
        /\ \A k \in 1 .. Len(f) : (f \o <<e>>)[k] = f[k]
    BY <2>1, <2>2, OneMore
  <2>5. Len(out) = n /\ out[n] = e
    BY <1>1, <2>1, <2>3, <2>4
  <2>6. \A k \in 1 .. n - 1 : out[k] = f[k]
    BY <1>1, <2>1, <2>3, <2>4
  <2> HIDE DEF n, out
  <2> QED
    BY <1>4, <2>1, <2>2, <2>5, <2>6 DEF Grown, n, out
<1> QED
  BY <1>3, <1>4

(* The lines of two texts joined: the last line of the one continues with   *)
(* the first line of the other.                                             *)
Joined(A, B, C) ==
  /\ Len(C) = Len(A) + Len(B) - 1
  /\ \A k \in 1 .. Len(A) - 1 : C[k] = A[k]
  /\ C[Len(A)] = A[Len(A)] \o B[1]
  /\ \A j \in 2 .. Len(B) : C[Len(A) + j - 1] = B[j]

(* Lines that are joined stay so with one byte more.                        *)
LEMMA JoinedGrows ==
  ASSUME NEW S, NEW A \in Lines(S), NEW B \in Lines(S), NEW C \in Lines(S), NEW b \in S,
         Joined(A, B, C)
  PROVE  Joined(A, AddByte(B, b), AddByte(C, b))
<1> DEFINE P == AddByte(B, b)
           Q == AddByte(C, b)
           n == Len(A)
           m == Len(B)
           r == Len(C)
<1>1. /\ n \in Nat \ {0} /\ A[n] \in Seq(S)
  BY LinesFacts
<1>a. m \in Nat \ {0} /\ B[1] \in Seq(S) /\ B[m] \in Seq(S)
  BY LinesFacts
<1>b. r \in Nat \ {0}
  BY LinesFacts
<1>c. Grown(B, P, b) /\ Grown(C, Q, b)
  BY AddByteGrows
<1>2. /\ m \in Nat \ {0} /\ B[1] \in Seq(S) /\ B[m] \in Seq(S)
      /\ b = NL => Len(P) = m + 1 /\ P[m + 1] = <<>> /\ \A k \in 1 .. m : P[k] = B[k]
      /\ b # NL => /\ Len(P) = m /\ P[m] = Append(B[m], b)
                   /\ \A k \in 1 .. m - 1 : P[k] = B[k]
  BY <1>a, <1>c DEF Grown
<1>3. /\ r \in Nat \ {0}
      /\ b = NL => Len(Q) = r + 1 /\ Q[r + 1] = <<>> /\ \A k \in 1 .. r : Q[k] = C[k]
      /\ b # NL => /\ Len(Q) = r /\ Q[r] = Append(C[r], b)
                   /\ \A k \in 1 .. r - 1 : Q[k] = C[k]
  BY <1>b, <1>c DEF Grown
<1>4. /\ r = n + m - 1
      /\ \A k \in 1 .. n - 1 : C[k] = A[k]
      /\ C[n] = A[n] \o B[1]
      /\ \A j \in 2 .. m : C[n + j - 1] = B[j]
  BY DEF Joined
<1> HIDE DEF P, Q, n, m, r
<1>5. CASE b = NL
  <2>1. \A j \in 2 .. m + 1 : Q[n + j - 1] = P[j]
    <3> SUFFICES ASSUME NEW j \in 2 .. m + 1 PROVE Q[n + j - 1] = P[j]
      OBVIOUS
    <3>1. CASE j = m + 1
      BY <1>1, <1>2, <1>3, <1>4, <1>5, <3>1
    <3>2. CASE j \in 2 .. m
      <4>1. n + j - 1 \in 1 .. r /\ j \in 1 .. m
        BY <1>1, <1>2, <1>4, <3>2
      <4> QED
        BY <1>2, <1>3, <1>4, <1>5, <3>2, <4>1
    <3> QED
      BY <1>2, <3>1, <3>2
  <2>2. Q[n] = A[n] \o P[1]
    <3>1. n \in 1 .. r /\ 1 \in 1 .. m
      BY <1>1, <1>2, <1>4
    <3> QED
      BY <1>2, <1>3, <1>4, <1>5, <3>1
  <2>3. \A k \in 1 .. n - 1 : Q[k] = A[k]
    BY <1>1, <1>2, <1>3, <1>4, <1>5
  <2>4. Len(Q) = n + Len(P) - 1
    BY <1>1, <1>2, <1>3, <1>4, <1>5
  <2>5. Len(P) = m + 1
    BY <1>2, <1>5
  <2> QED
    BY <2>1, <2>2, <2>3, <2>4, <2>5 DEF Joined, P, Q, n
<1>6. CASE b # NL /\ m = 1
  <2>1. r = n /\ Len(P) = 1 /\ P[1] = Append(B[1], b) /\ Len(Q) = n
    BY <1>1, <1>2, <1>3, <1>4, <1>6
  <2>2. Q[n] = Append(A[n] \o B[1], b) /\ \A k \in 1 .. n - 1 : Q[k] = C[k]
    BY <1>3, <1>4, <1>6, <2>1
  <2>3. Append(A[n] \o B[1], b) = A[n] \o Append(B[1], b)
    <3> DEFINE x == A[n]
               y == B[1]
    <3>1. x \in Seq(S) /\ y \in Seq(S) /\ b \in S
      BY <1>1, <1>2
    <3> HIDE DEF x, y
    <3>2. x \o y \in Seq(S) /\ <<b>> \in Seq(S)
      BY <3>1
    <3>3. Append(x \o y, b) = (x \o y) \o <<b>> /\ Append(y, b) = y \o <<b>>
      BY <3>1, <3>2, AppendIsConcat
    <3>4. (x \o y) \o <<b>> = x \o (y \o <<b>>)
      BY <3>1, <3>2, ConcatAssociative
    <3> QED
      BY <3>3, <3>4 DEF x, y
  <2>4. \A k \in 1 .. n - 1 : Q[k] = A[k]
    BY <1>4, <2>2
  <2> QED
    BY <1>1, <2>1, <2>2, <2>3, <2>4 DEF Joined, P, Q, n
<1>7. CASE b # NL /\ m # 1
  <2>1. Len(P) = m /\ Len(Q) = r /\ P[1] = B[1]
    BY <1>2, <1>3, <1>7
  <2>2. \A j \in 2 .. m : Q[n + j - 1] = P[j]
    <3> SUFFICES ASSUME NEW j \in 2 .. m PROVE Q[n + j - 1] = P[j]
      OBVIOUS
    <3>1. CASE j = m
      <4>1. n + j - 1 = r /\ C[r] = B[m]
        BY <1>1, <1>2, <1>4, <3>1
      <4> QED
        BY <1>2, <1>3, <1>7, <3>1, <4>1
    <3>2. CASE j # m
      <4>1. n + j - 1 \in 1 .. r - 1 /\ j \in 1 .. m - 1
        BY <1>1, <1>2, <1>4, <3>2
      <4> QED
        BY <1>2, <1>3, <1>4, <1>7, <3>2, <4>1
    <3> QED
      BY <3>1, <3>2
  <2>3. Q[n] = A[n] \o P[1] /\ \A k \in 1 .. n - 1 : Q[k] = A[k]
    <3>1. n \in 1 .. r - 1 /\ \A k \in 1 .. n - 1 : k \in 1 .. r - 1
      BY <1>1, <1>2, <1>4, <1>7
    <3> QED
      BY <1>3, <1>4, <1>7, <2>1, <3>1
  <2> QED
    BY <1>4, <2>1, <2>2, <2>3 DEF Joined, P, Q, n, m
<1> QED
  BY <1>5, <1>6, <1>7

(* The lines of two texts, one after the other, are their lines joined.     *)
LEMMA LinesOfJoined ==
  ASSUME NEW S, NEW a \in Seq(S), NEW b \in Seq(S)
  PROVE  Joined(SplitLines(a), SplitLines(b), SplitLines(a \o b))
<1> DEFINE A == SplitLines(a)
           c == a \o b
           n == Len(a)
           m == Len(b)
<1>0. /\ n \in Nat /\ m \in Nat /\ c \in Seq(S) /\ Len(c) = n + m
      /\ \A k \in 1 .. n : c[k] = a[k]
      /\ \A k \in 1 .. m : c[n + k] = b[k]
  BY Concatenation
<1>1. PICK f : /\ f[0] = << <<>> >>
               /\ \A i \in 1 .. n : f[i] = AddByte(f[i - 1], a[i])
               /\ A = f[n]
  BY LineSteps
<1>2. PICK g : /\ g[0] = << <<>> >>
               /\ \A i \in 1 .. m : g[i] = AddByte(g[i - 1], b[i])
               /\ SplitLines(b) = g[m]
  BY LineSteps
<1>3. PICK h : /\ h[0] = << <<>> >>
               /\ \A i \in 1 .. Len(c) : h[i] = AddByte(h[i - 1], c[i])
               /\ SplitLines(c) = h[Len(c)]
  BY <1>0, LineSteps
<1>4. A \in Lines(S)
  BY LinesTyped
<1> HIDE DEF A, c, n, m
<1>5. h[n] = A
  <2> DEFINE Same == {i \in 0 .. n : h[i] = f[i]}
  <2>1. 0 \in Same /\ Same \in SUBSET (0 .. n)
    <3>1. 0 \in 0 .. n /\ h[0] = f[0]
      BY <1>0, <1>1, <1>3
    <3> QED
      BY <3>1
  <2>2. ASSUME NEW i \in 1 .. n, i - 1 \in Same
        PROVE  i \in Same
    <3>1. i \in 1 .. Len(c) /\ c[i] = a[i]
      BY <1>0
    <3>2. h[i] = AddByte(h[i - 1], a[i]) /\ f[i] = AddByte(f[i - 1], a[i]) /\ h[i - 1] = f[i - 1]
      BY <1>1, <1>3, <2>2, <3>1
    <3> QED
      BY <3>2
  <2> HIDE DEF Same
  <2>3. Same = 0 .. n
    BY <1>0, <2>1, <2>2, BoundedInduction
  <2>4. n \in Same
    BY <1>0, <2>3
  <2> QED
    BY <1>1, <2>4 DEF Same
<1>6. \A i \in 0 .. m : g[i] \in Lines(S) /\ h[n + i] \in Lines(S) /\ Joined(A, g[i], h[n + i])
  <2> DEFINE Good == {i \in 0 .. m : /\ g[i] \in Lines(S) /\ h[n + i] \in Lines(S)
                                     /\ Joined(A, g[i], h[n + i])}
  <2>1. 0 \in Good /\ Good \in SUBSET (0 .. m)
    <3>1. << <<>> >> \in Lines(S)
      BY DEF Lines
    <3>2. A \in Seq(Seq(S)) /\ Len(A) \in Nat \ {0} /\ A[Len(A)] \in Seq(S)
      BY <1>4 DEF Lines
    <3>3. A[Len(A)] \o <<>> = A[Len(A)]
      BY <3>2
    <3>4. Joined(A, << <<>> >>, A)
      BY <3>2, <3>3 DEF Joined
    <3>5. 0 \in 0 .. m /\ n + 0 = n
      BY <1>0
    <3>6. g[0] \in Lines(S) /\ h[n + 0] \in Lines(S) /\ Joined(A, g[0], h[n + 0])
      BY <1>2, <1>4, <1>5, <3>1, <3>4, <3>5
    <3> QED
      BY <3>5, <3>6
  <2>2. ASSUME NEW i \in 1 .. m, i - 1 \in Good
        PROVE  i \in Good
    <3>1. n + i \in 1 .. Len(c) /\ c[n + i] = b[i] /\ (n + i) - 1 = n + (i - 1)
      BY <1>0
    <3>2. h[n + i] = AddByte(h[n + (i - 1)], b[i]) /\ g[i] = AddByte(g[i - 1], b[i]) /\ b[i] \in S
      BY <1>2, <1>3, <3>1 DEF m
    <3>3. /\ g[i - 1] \in Lines(S) /\ h[n + (i - 1)] \in Lines(S)
          /\ Joined(A, g[i - 1], h[n + (i - 1)])
      BY <2>2
    <3>4. AddByte(g[i - 1], b[i]) \in Lines(S) /\ AddByte(h[n + (i - 1)], b[i]) \in Lines(S)
      BY <3>2, <3>3, AddByteTyped
    <3>5. Joined(A, AddByte(g[i - 1], b[i]), AddByte(h[n + (i - 1)], b[i]))
      BY <1>4, <3>2, <3>3, JoinedGrows
    <3>6. g[i] \in Lines(S) /\ h[n + i] \in Lines(S) /\ Joined(A, g[i], h[n + i])
      BY <3>2, <3>4, <3>5
    <3> QED
      BY <3>6
  <2> HIDE DEF Good
  <2>3. Good = 0 .. m
    BY <1>0, <2>1, <2>2, BoundedInduction
  <2> QED
    BY <2>3 DEF Good
<1> QED
  BY <1>0, <1>2, <1>3, <1>6 DEF A, c

(* Where the lines of a text of n bytes begin, had it a newline at the end.  *)
Spans(lines, p, n) ==
  /\ \A j \in 1 .. Len(lines) + 1 : p[j] \in Nat
  /\ p[1] = 0 /\ p[Len(lines) + 1] = n + 1
  /\ \A j \in 1 .. Len(lines) : p[j + 1] = p[j] + Len(lines[j]) + 1

\* The newlines among the first n bytes.
NewlinesUpTo(text, n) == {k \in 1 .. n : text[k] = NL}

(* What SplitLines makes of n bytes.                                        *)
SplitInto(lines, text, n) ==
  /\ \E p : Spans(lines, p, n)
  /\ IsFiniteSet(NewlinesUpTo(text, n))
  /\ Len(lines) = Cardinality(NewlinesUpTo(text, n)) + 1
  /\ lines[Len(lines)] = <<>> <=> n = 0 \/ text[n] = NL

(* The lines still span the text with one byte more.                        *)
LEMMA SpansGrow ==
  ASSUME NEW S, NEW lines \in Lines(S), NEW b \in S, NEW n \in Nat \ {0},
         \E p : Spans(lines, p, n - 1)
  PROVE  \E p : Spans(AddByte(lines, b), p, n)
<1> DEFINE out == AddByte(lines, b)
           m == Len(lines)
<1>1. PICK p : Spans(lines, p, n - 1)
  OBVIOUS
<1>2. m \in Nat \ {0} /\ \A k \in 1 .. m : lines[k] \in Seq(S) /\ Len(lines[k]) \in Nat
  BY LinesFacts
<1>3. Grown(lines, out, b)
  BY AddByteGrows
<1>4. /\ \A j \in 1 .. m + 1 : p[j] \in Nat
      /\ p[1] = 0 /\ p[m + 1] = n
      /\ \A j \in 1 .. m : p[j + 1] = p[j] + Len(lines[j]) + 1
  BY <1>1 DEF Spans
<1> HIDE DEF out, m
<1>5. CASE b = NL
  <2> DEFINE q == [j \in 1 .. m + 2 |-> IF j = m + 2 THEN n + 1 ELSE p[j]]
  <2>1. Len(out) = m + 1 /\ out[m + 1] = <<>> /\ \A k \in 1 .. m : out[k] = lines[k]
    BY <1>3, <1>5 DEF Grown, m
  <2>2. /\ q[m + 2] = n + 1 /\ \A j \in 1 .. m + 1 : q[j] = p[j]
    BY <1>2
  <2> HIDE DEF q
  <2>3. \A j \in 1 .. m + 2 : q[j] \in Nat
    <3> SUFFICES ASSUME NEW j \in 1 .. m + 2 PROVE q[j] \in Nat
      OBVIOUS
    <3>1. CASE j = m + 2
      <4>1. n + 1 \in Nat
        OBVIOUS
      <4> QED
        BY <2>2, <3>1, <4>1
    <3>2. CASE j \in 1 .. m + 1
      BY <1>4, <2>2, <3>2
    <3> QED
      BY <1>2, <3>1, <3>2
  <2>4. q[1] = 0
    BY <1>2, <1>4, <2>2
  <2>5. ASSUME NEW j \in 1 .. m + 1
        PROVE  q[j + 1] = q[j] + Len(out[j]) + 1
    <3>1. CASE j = m + 1
      BY <1>2, <1>4, <2>1, <2>2, <3>1
    <3>2. CASE j \in 1 .. m
      <4>1. j + 1 \in 1 .. m + 1 /\ j \in 1 .. m + 1
        BY <1>2, <3>2
      <4> QED
        BY <1>4, <2>1, <2>2, <3>2, <4>1
    <3> QED
      BY <1>2, <3>1, <3>2
  <2>6. Spans(out, q, n)
    <3>1. Len(out) + 1 = m + 2
      BY <1>2, <2>1
    <3> QED
      BY <2>1, <2>2, <2>3, <2>4, <2>5, <3>1 DEF Spans
  <2> QED
    BY <2>6 DEF out
<1>6. CASE b # NL
  <2> DEFINE q == [j \in 1 .. m + 1 |-> IF j = m + 1 THEN n + 1 ELSE p[j]]
  <2>1. /\ Len(out) = m /\ out[m] = Append(lines[m], b)
        /\ \A k \in 1 .. m - 1 : out[k] = lines[k]
    BY <1>3, <1>6 DEF Grown, m
  <2>2. /\ q[m + 1] = n + 1 /\ \A j \in 1 .. m : q[j] = p[j]
    BY <1>2
  <2> HIDE DEF q
  <2>3. \A j \in 1 .. m + 1 : q[j] \in Nat
    BY <1>2, <1>4, <2>2
  <2>4. q[1] = 0
    BY <1>2, <1>4, <2>2
  <2>5. ASSUME NEW j \in 1 .. m
        PROVE  q[j + 1] = q[j] + Len(out[j]) + 1
    <3>1. CASE j = m
      <4>1. lines[m] \in Seq(S) /\ Len(lines[m]) \in Nat
        BY <1>2
      <4>2. Len(out[m]) = Len(lines[m]) + 1
        BY <2>1, <4>1, AppendedLength
      <4>3. p[m + 1] = p[m] + Len(lines[m]) + 1 /\ q[m] = p[m] /\ p[m] \in Nat
        BY <1>2, <1>4, <2>2
      <4> QED
        BY <1>2, <1>4, <2>2, <3>1, <4>1, <4>2, <4>3
    <3>2. CASE j # m
      <4>1. j + 1 \in 1 .. m /\ j \in 1 .. m - 1
        BY <1>2, <3>2
      <4> QED
        BY <1>4, <2>1, <2>2, <4>1
    <3> QED
      BY <3>1, <3>2
  <2>6. Spans(out, q, n)
    BY <2>1, <2>2, <2>3, <2>4, <2>5 DEF Spans
  <2> QED
    BY <2>6 DEF out
<1> QED
  BY <1>5, <1>6

(* One byte more is a newline more, or none.                                *)
LEMMA NewlinesGrow ==
  ASSUME NEW text, NEW n \in Nat \ {0}, IsFiniteSet(NewlinesUpTo(text, n - 1))
  PROVE  /\ IsFiniteSet(NewlinesUpTo(text, n))
         /\ Cardinality(NewlinesUpTo(text, n - 1)) \in Nat
         /\ Cardinality(NewlinesUpTo(text, n)) =
              Cardinality(NewlinesUpTo(text, n - 1)) + (IF text[n] = NL THEN 1 ELSE 0)
<1> DEFINE X == NewlinesUpTo(text, n - 1)
<1>0. X = {k \in 1 .. n - 1 : text[k] = NL}
  BY DEF NewlinesUpTo
<1>1. 1 .. n = (1 .. n - 1) \cup {n}
  OBVIOUS
<1>2. n \notin X
  BY <1>0
<1>3. CASE text[n] = NL
  <2>1. NewlinesUpTo(text, n) = X \cup {n}
    BY <1>0, <1>1, <1>3 DEF NewlinesUpTo
  <2> HIDE DEF X
  <2> QED
    BY <1>2, <1>3, <2>1, FS_AddElement, FS_CardinalityType DEF X
<1>4. CASE text[n] # NL
  <2>1. NewlinesUpTo(text, n) = X
    BY <1>0, <1>1, <1>4 DEF NewlinesUpTo
  <2> HIDE DEF X
  <2>2. Cardinality(X) \in Nat
    BY FS_CardinalityType DEF X
  <2> QED
    BY <1>4, <2>1, <2>2 DEF X
<1> QED
  BY <1>3, <1>4

(* One byte more keeps the lines those of the text.                         *)
LEMMA LinesOfGrow ==
  ASSUME NEW S, NEW text, NEW n \in Nat \ {0}, text[n] \in S, NEW lines \in Lines(S),
         SplitInto(lines, text, n - 1)
  PROVE  SplitInto(AddByte(lines, text[n]), text, n)
<1> DEFINE b == text[n]
           out == AddByte(lines, b)
           m == Len(lines)
           c == Cardinality(NewlinesUpTo(text, n - 1))
<1>1. m \in Nat \ {0} /\ \A k \in 1 .. m : lines[k] \in Seq(S)
  BY LinesFacts
<1>2. Grown(lines, out, b)
  BY AddByteGrows
<1>3. \E p : Spans(out, p, n)
  BY SpansGrow DEF SplitInto
<1>4. /\ IsFiniteSet(NewlinesUpTo(text, n)) /\ c \in Nat
      /\ Cardinality(NewlinesUpTo(text, n)) = c + (IF b = NL THEN 1 ELSE 0)
  BY NewlinesGrow DEF SplitInto
<1>5. m = c + 1
  BY DEF SplitInto
<1> HIDE DEF b, m, c, out
<1>6. Len(out) = Cardinality(NewlinesUpTo(text, n)) + 1
  BY <1>1, <1>2, <1>4, <1>5 DEF Grown, m
<1>7. out[Len(out)] = <<>> <=> n = 0 \/ b = NL
  <2>1. CASE b = NL
    BY <1>2, <2>1 DEF Grown
  <2>2. CASE b # NL
    <3>1. out[Len(out)] = Append(lines[m], b)
      BY <1>2, <2>2 DEF Grown, m
    <3>2. lines[m] \in Seq(S) /\ b \in S
      BY <1>1 DEF b
    <3>3. Append(lines[m], b) # <<>>
      BY <3>2, AppendedLength
    <3> QED
      BY <2>2, <3>1, <3>3
  <2> QED
    BY <2>1, <2>2
<1> QED
  BY <1>3, <1>4, <1>6, <1>7 DEF SplitInto, out, b

(* SplitLines makes one line more than there are newlines; together they    *)
(* span the text, and the last one is empty only at the very end of a line. *)
LEMMA LinesOfText ==
  ASSUME NEW S, NEW text \in Seq(S)
  PROVE  SplitInto(SplitLines(text), text, Len(text))
<1> DEFINE n == Len(text)
<1>0. n \in Nat /\ \A i \in 1 .. n : text[i] \in S
  OBVIOUS
<1>1. PICK h : /\ h[0] = << <<>> >>
               /\ \A i \in 1 .. n : h[i] = AddByte(h[i - 1], text[i])
               /\ SplitLines(text) = h[n]
  BY LineSteps
<1> HIDE DEF n
<1> DEFINE Good == {i \in 0 .. n : h[i] \in Lines(S) /\ SplitInto(h[i], text, i)}
<1>2. 0 \in Good /\ Good \in SUBSET (0 .. n)
  <2> DEFINE base == << <<>> >>
             p == [j \in 1 .. 2 |-> j - 1]
  <2>1. base \in Lines(S) /\ Len(base) = 1 /\ base[1] = <<>>
    BY DEF Lines
  <2> HIDE DEF base
  <2>2. Spans(base, p, 0)
    BY <2>1 DEF Spans
  <2>3. NewlinesUpTo(text, 0) = {}
    BY DEF NewlinesUpTo
  <2>4. IsFiniteSet({}) /\ Cardinality({}) = 0
    BY FS_EmptySet
  <2> HIDE DEF p
  <2>a. \E x : Spans(base, x, 0)
    BY <2>2
  <2>b. base[Len(base)] = <<>> /\ Len(base) = Cardinality({}) + 1
    BY <2>1, <2>4
  <2>5. SplitInto(base, text, 0)
    BY <2>a, <2>b, <2>3, <2>4 DEF SplitInto
  <2>6. 0 \in 0 .. n /\ h[0] = base
    BY <1>0, <1>1 DEF base
  <2> QED
    BY <2>1, <2>5, <2>6
<1>3. ASSUME NEW i \in 1 .. n, i - 1 \in Good
      PROVE  i \in Good
  <2>1. h[i - 1] \in Lines(S) /\ SplitInto(h[i - 1], text, i - 1)
    BY <1>3
  <2>2. h[i] = AddByte(h[i - 1], text[i]) /\ text[i] \in S /\ i \in Nat \ {0}
    BY <1>0, <1>1
  <2>3. AddByte(h[i - 1], text[i]) \in Lines(S)
    BY <2>1, <2>2, AddByteTyped
  <2>4. SplitInto(AddByte(h[i - 1], text[i]), text, i)
    BY <2>1, <2>2, LinesOfGrow
  <2>5. h[i] \in Lines(S) /\ SplitInto(h[i], text, i) /\ i \in 0 .. n
    BY <2>2, <2>3, <2>4
  <2> QED
    BY <2>5
<1> HIDE DEF Good
<1>4. Good = 0 .. n
  BY <1>0, <1>2, <1>3, BoundedInduction
<1>5. n \in Good
  BY <1>0, <1>4
<1> QED
  BY <1>1, <1>5 DEF Good, n

-----------------------------------------------------------------------------
(* Suffixes.  A text may be trimmed before more is added to it.             *)

(* Of two ends that keep within the limit none is the longer one.           *)
LEMMA WithinNotLonger ==
  ASSUME NEW S, NEW s \in Seq(S), NEW n \in Nat, NEW v \in Seq(S), NEW w \in Seq(S),
         Within(s, n, v), Within(s, n, w)
  PROVE  Len(w) <= Len(v)
<1> SUFFICES ASSUME Len(w) > Len(v) PROVE FALSE
  OBVIOUS
<1>1. Len(s) \in Nat /\ Len(v) \in Nat /\ Len(w) \in Nat
  OBVIOUS
<1>2. Len(s) > n
  BY <1>1 DEF Within
<1>3. /\ Len(w) <= n /\ w[1] # Cont
      /\ \A j \in Len(s) - n + 1 .. Len(s) - Len(v) : s[j] = Cont
  BY <1>1, <1>2 DEF Within
<1>4. Len(w) <= Len(s) /\ w[1] = s[Len(s) - Len(w) + 1]
  BY <1>1 DEF Within, IsEnd
<1>5. Len(s) - Len(w) + 1 \in Len(s) - n + 1 .. Len(s) - Len(v)
  BY <1>1, <1>2, <1>3
<1> QED
  BY <1>3, <1>4, <1>5

(* There is one such end, and SuffixWithin is it.                           *)
LEMMA WithinIsOne ==
  ASSUME NEW S, NEW s \in Seq(S), NEW n \in Nat, NEW v \in Seq(S), Within(s, n, v)
  PROVE  SuffixWithin(s, n) = v
<1> DEFINE w == SuffixWithin(s, n)
<1>1. w \in Seq(S) /\ Within(s, n, w)
  BY SuffixIsWithin
<1> HIDE DEF w
<1>2. Len(w) <= Len(v) /\ Len(v) <= Len(w)
  BY <1>1, WithinNotLonger
<1>3. Len(w) = Len(v)
  BY <1>1, <1>2
<1> QED
  BY <1>1, <1>3, OneEnd DEF Within, w

(* What precedes the last n bytes does not matter if there are more.        *)
LEMMA SuffixOfEnd ==
  ASSUME NEW S, NEW s \in Seq(S), NEW u \in Seq(S), NEW n \in Nat, IsEnd(u, s), Len(u) > n
  PROVE  SuffixWithin(s, n) = SuffixWithin(u, n)
<1> DEFINE w == SuffixWithin(u, n)
<1>1. w \in Seq(S) /\ Within(u, n, w)
  BY SuffixIsWithin
<1> HIDE DEF w
<1>2. Len(s) \in Nat /\ Len(u) \in Nat /\ Len(w) \in Nat /\ Len(u) <= Len(s)
  BY <1>1 DEF IsEnd
<1>3. IsEnd(w, s)
  BY <1>1, EndOfEnd DEF Within
<1>4. /\ Len(w) <= n /\ (Len(w) = 0 \/ w[1] # Cont)
      /\ \A j \in Len(u) - n + 1 .. Len(u) - Len(w) : u[j] = Cont
  BY <1>1, <1>2 DEF Within
<1>5. ASSUME NEW j \in Len(s) - n + 1 .. Len(s) - Len(w)
      PROVE  s[j] = Cont
  <2> DEFINE k == j - (Len(s) - Len(u))
  <2>1. /\ k \in Len(u) - n + 1 .. Len(u) - Len(w) /\ k \in 1 .. Len(u)
        /\ Len(s) - Len(u) + k = j
    BY <1>2, <1>4
  <2> HIDE DEF k
  <2>2. u[k] = s[j]
    BY <2>1 DEF IsEnd
  <2> QED
    BY <1>4, <2>1, <2>2
<1>6. Within(s, n, w)
  BY <1>2, <1>3, <1>4, <1>5 DEF Within
<1> QED
  BY <1>1, <1>6, WithinIsOne DEF w

(* A text may be trimmed before more is added to it.                        *)
LEMMA TrimmedBefore ==
  ASSUME NEW S, NEW s \in Seq(S), NEW t \in Seq(S), NEW n \in Nat, Len(t) = 0 \/ t[1] # Cont
  PROVE  SuffixWithin(SuffixWithin(s, n) \o t, n) = SuffixWithin(s \o t, n)
<1> DEFINE u == SuffixWithin(s, n)
           x == s \o t
           y == u \o t
<1>1. u \in Seq(S) /\ Within(s, n, u)
  BY SuffixIsWithin
<1> HIDE DEF u
<1>2. /\ Len(s) \in Nat /\ Len(t) \in Nat /\ x \in Seq(S) /\ Len(x) = Len(s) + Len(t)
      /\ \A k \in 1 .. Len(s) : x[k] = s[k]
  BY Concatenation
<1>3. /\ Len(u) \in Nat /\ y \in Seq(S) /\ Len(y) = Len(u) + Len(t)
      /\ \A k \in 1 .. Len(u) : y[k] = u[k]
      /\ \A k \in 1 .. Len(t) : y[Len(u) + k] = t[k]
  BY <1>1, Concatenation
<1>4. IsEnd(y, x) /\ Len(u) <= Len(s)
  BY <1>1, EndJoined DEF Within, IsEnd
<1> HIDE DEF x, y
<1>5. CASE Len(y) > n
  <2>1. SuffixWithin(x, n) = SuffixWithin(y, n)
    BY <1>2, <1>3, <1>4, <1>5, SuffixOfEnd
  <2> QED
    BY <2>1 DEF u, x, y
<1>6. CASE Len(x) <= n
  <2>1. Len(u) = Len(s)
    BY <1>1, <1>2, <1>6 DEF Within
  <2>2. Len(y) = Len(x)
    BY <1>2, <1>3, <2>1
  <2>3. IsEnd(x, x)
    BY <1>2 DEF IsEnd
  <2>4. x = y
    BY <1>2, <1>3, <1>4, <2>2, <2>3, OneEnd
  <2> QED
    BY <2>4 DEF u, x, y
<1>7. CASE Len(y) <= n /\ Len(x) > n
  <2>1. Len(u) < Len(s) /\ Len(s) > n
    BY <1>1, <1>2, <1>3, <1>4, <1>7 DEF Within
  <2>2. /\ Len(u) = 0 \/ u[1] # Cont
        /\ \A j \in Len(s) - n + 1 .. Len(s) - Len(u) : s[j] = Cont
    BY <1>1, <1>2, <2>1 DEF Within
  <2>3. Len(y) = 0 \/ y[1] # Cont
    <3>1. CASE Len(u) = 0
      <4>1. Len(t) # 0 => y[Len(u) + 1] = t[1] /\ Len(u) + 1 = 1
        BY <1>2, <1>3, <3>1
      <4> QED
        BY <1>2, <1>3, <3>1, <4>1
    <3>2. CASE Len(u) # 0
      <4>1. y[1] = u[1]
        BY <1>3, <3>2
      <4> QED
        BY <2>2, <3>2, <4>1
    <3> QED
      BY <3>1, <3>2
  <2>4. ASSUME NEW j \in Len(x) - n + 1 .. Len(x) - Len(y)
        PROVE  x[j] = Cont
    <3>1. j \in Len(s) - n + 1 .. Len(s) - Len(u) /\ j \in 1 .. Len(s)
      BY <1>2, <1>3, <2>1, <1>7
    <3> QED
      BY <1>2, <2>2, <3>1
  <2>5. Within(x, n, y)
    BY <1>2, <1>3, <1>4, <1>7, <2>3, <2>4 DEF Within
  <2>6. SuffixWithin(x, n) = y
    BY <1>2, <1>3, <2>5, WithinIsOne
  <2>7. SuffixWithin(y, n) = y
    BY <1>7 DEF SuffixWithin
  <2> QED
    BY <2>6, <2>7 DEF u, x, y
<1> QED
  BY <1>2, <1>3, <1>5, <1>6, <1>7

-----------------------------------------------------------------------------
(* The loop of TruncateTail, from the last line on: it looks at no line that*)
(* begins more than MaxBytes before the end.                                *)

(* What the loop over the lines has kept.                                   *)
Keeping(S) == [lines : Seq(Seq(S)), bytes : Nat, hitBytes : BOOLEAN]

(* The loop has ended, by one of its two limits.                            *)
Ended(kept) == kept.hitBytes \/ Len(kept.lines) >= MaxLines

(* The bytes that a line takes.                                             *)
Size(kept, line) == Len(line) + (IF kept.lines = <<>> THEN 0 ELSE 1)

(* What the next turn of the loop does.                                     *)
Turns(kept, line, next) ==
  /\ Ended(kept) => next = kept
  /\ ~Ended(kept) /\ kept.bytes + Size(kept, line) > MaxBytes =>
       next = [kept EXCEPT !.hitBytes = TRUE]
  /\ ~Ended(kept) /\ kept.bytes + Size(kept, line) <= MaxBytes =>
       /\ next.lines = Append(kept.lines, line)
       /\ next.bytes = kept.bytes + Size(kept, line)
       /\ next.hitBytes = FALSE

(* KeepLine is a turn of the loop.                                          *)
LEMMA KeepLineTurns ==
  ASSUME NEW S, NEW kept \in Keeping(S), NEW line \in Seq(S)
  PROVE  /\ KeepLine(kept, line) \in Keeping(S)
         /\ Size(kept, line) \in Nat
         /\ Turns(kept, line, KeepLine(kept, line))
<1> DEFINE size == Size(kept, line)
<1>1. /\ kept.lines \in Seq(Seq(S)) /\ kept.bytes \in Nat /\ kept.hitBytes \in BOOLEAN
      /\ DOMAIN kept = {"lines", "bytes", "hitBytes"} /\ Len(line) \in Nat
      /\ Len(kept.lines) \in Nat
  BY DEF Keeping
<1>2. size \in Nat
  BY <1>1 DEF Size
<1>3. KeepLine(kept, line) =
        IF Ended(kept) THEN kept
        ELSE IF kept.bytes + size > MaxBytes THEN [kept EXCEPT !.hitBytes = TRUE]
        ELSE [lines |-> Append(kept.lines, line), bytes |-> kept.bytes + size,
              hitBytes |-> FALSE]
  BY DEF KeepLine, Ended, Size
<1> HIDE DEF size
<1>4. CASE Ended(kept)
  <2>1. KeepLine(kept, line) = kept
    BY <1>3, <1>4
  <2> QED
    BY <1>2, <1>4, <2>1 DEF size, Turns
<1>5. CASE ~Ended(kept) /\ kept.bytes + size > MaxBytes
  <2>1. KeepLine(kept, line) = [kept EXCEPT !.hitBytes = TRUE]
    BY <1>3, <1>5
  <2>2. [kept EXCEPT !.hitBytes = TRUE] \in Keeping(S)
    BY DEF Keeping
  <2>3. ~ (kept.bytes + size <= MaxBytes)
    BY <1>1, <1>2, <1>5, LimitAssumption
  <2> QED
    BY <1>2, <1>5, <2>1, <2>2, <2>3 DEF size, Turns
<1>6. CASE ~Ended(kept) /\ ~ (kept.bytes + size > MaxBytes)
  <2> DEFINE new == [lines |-> Append(kept.lines, line), bytes |-> kept.bytes + size,
                     hitBytes |-> FALSE]
  <2>1. KeepLine(kept, line) = new
    BY <1>3, <1>6
  <2>2. Append(kept.lines, line) \in Seq(Seq(S)) /\ kept.bytes + size \in Nat
    BY <1>1, <1>2
  <2>3. new \in Keeping(S)
    BY <2>2 DEF Keeping
  <2> QED
    BY <1>2, <1>6, <2>1, <2>3 DEF size, Turns
<1> QED
  BY <1>4, <1>5, <1>6

(* The loop line by line.                                                   *)
RunOf(h, lines, S) ==
  /\ h[0] = NothingKept
  /\ \A i \in 1 .. Len(lines) : h[i] = KeepLine(h[i - 1], lines[i])
  /\ \A i \in 0 .. Len(lines) : h[i] \in Keeping(S)
  /\ FoldLeft(KeepLine, NothingKept, lines) = h[Len(lines)]

(* The fold takes the turns of the loop one line after the other.           *)
LEMMA KeepRuns ==
  ASSUME NEW S, NEW lines \in Seq(Seq(S))
  PROVE  \E h : RunOf(h, lines, S)
<1> DEFINE n == Len(lines)
           step == [x \in (1 .. n) \X Keeping(S) |-> KeepLine(x[2], lines[x[1]])]
           Sol(g) == g = [t \in SUBSET (1 .. n) |->
                        IF t = {} THEN NothingKept
                        ELSE KeepLine(g[t \ {Max(t)}], lines[Max(t)])]
           iter == CHOOSE g : Sol(g)
<1>1. /\ n \in Nat /\ DOMAIN lines = 1 .. n /\ NothingKept \in Keeping(S)
      /\ \A i \in 1 .. n : lines[i] \in Seq(S)
  <2>1. <<>> \in Seq(Seq(S)) /\ 0 \in Nat
    OBVIOUS
  <2> QED
    BY <2>1 DEF NothingKept, Keeping
<1>2. step \in [(1 .. n) \X Keeping(S) -> Keeping(S)]
  <2>1. \A x \in (1 .. n) \X Keeping(S) : KeepLine(x[2], lines[x[1]]) \in Keeping(S)
    BY <1>1, KeepLineTurns
  <2> QED
    BY <2>1
<1>3. \E g : Sol(g)
  <2> HIDE DEF step, n
  <2>1. PICK g \in [SUBSET (1 .. n) -> Keeping(S)] : IsSequenceFold(g, n, NothingKept, step)
    BY <1>1, <1>2, SequenceFoldExists
  <2>2. ASSUME NEW t \in SUBSET (1 .. n), t # {}
        PROVE  step[<<Max(t), g[t \ {Max(t)}]>>] = KeepLine(g[t \ {Max(t)}], lines[Max(t)])
    <3>1. Max(t) \in 1 .. n
      BY <1>1, <2>2, LargestElement
    <3>2. g[t \ {Max(t)}] \in Keeping(S)
      BY <2>1
    <3> QED
      BY <3>1, <3>2 DEF step
  <2>3. Sol(g)
    BY <2>1, <2>2 DEF IsSequenceFold
  <2> QED
    BY <2>3
<1>4. Sol(iter)
  <2> HIDE DEF Sol
  <2> QED
    BY <1>3
<1>5. FoldLeft(KeepLine, NothingKept, lines) = iter[1 .. n]
  <2>1. FoldLeft(KeepLine, NothingKept, lines) = iter[DOMAIN lines]
    BY <1>1 DEF FoldLeft, MapThenFoldSet
  <2> QED
    BY <1>1, <2>1
<1> HIDE DEF iter
<1> DEFINE h == [i \in 0 .. n |-> iter[1 .. i]]
<1>6. h[0] = NothingKept
  BY <1>1, <1>4, PrefixIntervals
<1>7. ASSUME NEW i \in 1 .. n
      PROVE  h[i] = KeepLine(h[i - 1], lines[i])
  <2>1. /\ 1 .. i \in SUBSET (1 .. n) /\ 1 .. i # {}
        /\ Max(1 .. i) = i /\ (1 .. i) \ {i} = 1 .. i - 1
    BY <1>1, PrefixIntervals
  <2>2. iter[1 .. i] = KeepLine(iter[1 .. i - 1], lines[i])
    BY <1>4, <2>1
  <2> QED
    BY <1>1, <2>2
<1>8. h[n] = iter[1 .. n]
  BY <1>1
<1> HIDE DEF h
<1>9. \A i \in 0 .. n : h[i] \in Keeping(S)
  <2>1. ASSUME NEW i \in 1 .. n, h[i - 1] \in Keeping(S)
        PROVE  h[i] \in Keeping(S)
    <3>1. lines[i] \in Seq(S)
      BY <1>1
    <3>2. KeepLine(h[i - 1], lines[i]) \in Keeping(S)
      BY <2>1, <3>1, KeepLineTurns
    <3> QED
      BY <1>7, <3>2
  <2>2. h[0] \in Keeping(S)
    BY <1>1, <1>6
  <2> HIDE DEF n
  <2> QED
    BY <1>1, <2>1, <2>2, StepsStay
<1>10. RunOf(h, lines, S)
  BY <1>5, <1>6, <1>7, <1>8, <1>9 DEF RunOf
<1> QED
  BY <1>10

(* Where the lines of a text begin, and that all of them are too many.      *)
TooLong(K, p) ==
  /\ \A j \in 1 .. Len(K) + 1 : p[j] \in Nat
  /\ p[1] = 0 /\ p[Len(K) + 1] > MaxBytes + 1
  /\ \A j \in 1 .. Len(K) : p[j + 1] = p[j] + Len(K[j]) + 1

(* L has the lines of K at its end, of the first one perhaps more.          *)
EndsLike(K, L) ==
  /\ Len(K) > 0 /\ Len(K) <= Len(L)
  /\ \A j \in 2 .. Len(K) : L[Len(L) - Len(K) + j] = K[j]
  /\ IsEnd(K[1], L[Len(L) - Len(K) + 1])

(* As far as the loop has come, from the end.                               *)
Progress(k, i, p, m) ==
  /\ Len(k.lines) = i
  /\ k.bytes = IF i = 0 THEN 0 ELSE p[m + 1] - p[m - i + 1] - 1

(* A turn of the loop ends it or takes the line; the line that no longer    *)
(* fits is the first one at the latest.                                     *)
LEMMA ProgressStep ==
  ASSUME NEW S, NEW K \in Seq(Seq(S)), NEW p, TooLong(K, p), NEW i \in 1 .. Len(K),
         NEW k \in Keeping(S), Ended(k) \/ Progress(k, i - 1, p, Len(K))
  PROVE  LET next == KeepLine(k, K[Len(K) - i + 1]) IN
         /\ Ended(next) \/ Progress(next, i, p, Len(K))
         /\ ~Ended(k) /\ i = Len(K) => k.bytes + Size(k, K[1]) > MaxBytes
<1> DEFINE m == Len(K)
           line == K[m - i + 1]
           next == KeepLine(k, line)
<1>1. m \in Nat /\ m - i + 1 \in 1 .. m /\ line \in Seq(S) /\ Len(line) \in Nat
  <2>1. m \in Nat /\ m - i + 1 \in 1 .. m
    OBVIOUS
  <2>2. line \in Seq(S)
    BY <2>1
  <2> QED
    BY <2>1, <2>2
<1>2. next \in Keeping(S) /\ Size(k, line) \in Nat /\ Turns(k, line, next)
  BY <1>1, KeepLineTurns
<1>3. k.lines \in Seq(Seq(S)) /\ k.bytes \in Nat /\ "hitBytes" \in DOMAIN k
  BY DEF Keeping
<1>4. /\ p[m - i + 1] \in Nat /\ p[m - i + 2] \in Nat /\ p[m + 1] \in Nat
      /\ p[m - i + 2] = p[m - i + 1] + Len(line) + 1
  <2>1. m - i + 1 \in 1 .. Len(K) + 1 /\ m - i + 2 \in 1 .. Len(K) + 1 /\ m + 1 \in 1 .. Len(K) + 1
    BY <1>1
  <2>2. (m - i + 1) + 1 = m - i + 2
    BY <1>1
  <2> QED
    BY <1>1, <2>1, <2>2 DEF TooLong
<1> HIDE DEF line, next, m
<1>5. CASE Ended(k)
  <2>1. Ended(next)
    BY <1>2, <1>5 DEF Turns
  <2> QED
    BY <1>5, <2>1 DEF next, line, m
<1>6. CASE ~Ended(k)
  <2>1. Len(k.lines) = i - 1 /\ k.bytes = IF i - 1 = 0 THEN 0 ELSE p[m + 1] - p[m - (i - 1) + 1] - 1
    BY <1>6 DEF Progress, m
  <2>2. Size(k, line) = Len(line) + (IF i = 1 THEN 0 ELSE 1)
    <3>1. k.lines = <<>> <=> i = 1
      BY <1>3, <2>1
    <3> QED
      BY <3>1 DEF Size
  <2>3. k.bytes + Size(k, line) = p[m + 1] - p[m - i + 1] - 1
    <3>1. CASE i = 1
      <4>1. m - i + 2 = m + 1 /\ k.bytes = 0
        BY <1>1, <2>1, <3>1
      <4> QED
        BY <1>1, <1>3, <1>4, <2>2, <3>1, <4>1
    <3>2. CASE i # 1
      <4>1. m - (i - 1) + 1 = m - i + 2
        BY <1>1
      <4>2. k.bytes = p[m + 1] - p[m - i + 2] - 1
        BY <2>1, <3>2, <4>1
      <4>3. Size(k, line) = Len(line) + 1
        BY <2>2, <3>2
      <4> DEFINE a == p[m + 1]
                 b == p[m - i + 1]
                 c == p[m - i + 2]
                 x == Len(line)
      <4>4. a \in Nat /\ b \in Nat /\ c \in Nat /\ x \in Nat /\ c = b + x + 1
        BY <1>1, <1>4
      <4>5. k.bytes = a - c - 1 /\ Size(k, line) = x + 1
        BY <4>2, <4>3
      <4> HIDE DEF a, b, c, x
      <4>6. k.bytes + Size(k, line) = a - b - 1
        BY <4>4, <4>5
      <4> QED
        BY <4>6 DEF a, b
    <3> QED
      BY <3>1, <3>2
  <2>4. Ended(next) \/ Progress(next, i, p, Len(K))
    <3>1. CASE k.bytes + Size(k, line) > MaxBytes
      <4>1. next = [k EXCEPT !.hitBytes = TRUE]
        BY <1>2, <1>6, <3>1 DEF Turns
      <4>2. next.hitBytes
        BY <1>3, <4>1
      <4> QED
        BY <4>2 DEF Ended
    <3>2. CASE ~ (k.bytes + Size(k, line) > MaxBytes)
      <4>1. k.bytes + Size(k, line) <= MaxBytes
        BY <1>2, <1>3, <3>2, LimitAssumption
      <4>2. next.lines = Append(k.lines, line) /\ next.bytes = k.bytes + Size(k, line)
        BY <1>2, <1>6, <4>1 DEF Turns
      <4>3. Len(next.lines) = i
        BY <1>1, <1>3, <2>1, <4>2, AppendedLength
      <4>4. i # 0
        BY <1>1
      <4> QED
        BY <2>3, <4>2, <4>3, <4>4 DEF Progress, m
    <3> QED
      BY <3>1, <3>2
  <2>5. ASSUME i = Len(K) PROVE k.bytes + Size(k, K[1]) > MaxBytes
    <3>1. m - i + 1 = 1 /\ line = K[1]
      BY <1>1, <2>5 DEF m, line
    <3>2. p[1] = 0 /\ p[m + 1] > MaxBytes + 1
      BY DEF TooLong, m
    <3> QED
      BY <1>4, <2>3, <3>1, <3>2, LimitAssumption
  <2> QED
    BY <2>4, <2>5 DEF next, line, m
<1> QED
  BY <1>5, <1>6

(* The loop, which goes from the last line to the first, ends before it     *)
(* could see where K and L differ.                                          *)
LEMMA KeptAlike ==
  ASSUME NEW S, NEW K \in Seq(Seq(S)), NEW L \in Seq(Seq(S)), NEW p,
         TooLong(K, p), EndsLike(K, L)
  PROVE  FoldLeft(KeepLine, NothingKept, Reverse(K)) = FoldLeft(KeepLine, NothingKept, Reverse(L))
<1> DEFINE m == Len(K)
           n == Len(L)
           RK == Reverse(K)
           RL == Reverse(L)
<1>1. m \in Nat \ {0} /\ n \in Nat /\ m <= n
  BY DEF EndsLike
<1>2. /\ RK \in Seq(Seq(S)) /\ Len(RK) = m
      /\ \A i \in 1 .. m : RK[i] = K[m - i + 1]
  BY ReverseFacts
<1>3. /\ RL \in Seq(Seq(S)) /\ Len(RL) = n
      /\ \A i \in 1 .. n : RL[i] = L[n - i + 1]
  BY ReverseFacts
<1> HIDE DEF RK, RL
<1>a. PICK g : RunOf(g, RK, S)
  BY <1>2, KeepRuns
<1>4. /\ g[0] = NothingKept
      /\ \A i \in 1 .. m : g[i] = KeepLine(g[i - 1], RK[i])
      /\ \A i \in 0 .. m : g[i] \in Keeping(S)
      /\ FoldLeft(KeepLine, NothingKept, RK) = g[m]
  BY <1>2, <1>a DEF RunOf
<1>b. PICK h : RunOf(h, RL, S)
  BY <1>3, KeepRuns
<1>5. /\ h[0] = NothingKept
      /\ \A i \in 1 .. n : h[i] = KeepLine(h[i - 1], RL[i])
      /\ \A i \in 0 .. n : h[i] \in Keeping(S)
      /\ FoldLeft(KeepLine, NothingKept, RL) = h[n]
  BY <1>3, <1>b DEF RunOf
<1> HIDE DEF m, n
<1>6. \A i \in 0 .. m - 1 : g[i] = h[i]
  <2> DEFINE Same == {i \in 0 .. m - 1 : g[i] = h[i]}
  <2>1. 0 \in Same /\ Same \in SUBSET (0 .. m - 1)
    <3>1. 0 \in 0 .. m - 1 /\ g[0] = h[0]
      BY <1>1, <1>4, <1>5
    <3> QED
      BY <3>1
  <2>2. ASSUME NEW i \in 1 .. m - 1, i - 1 \in Same
        PROVE  i \in Same
    <3>1. i \in 1 .. m /\ i \in 1 .. n /\ i \in 0 .. m - 1
      BY <1>1
    <3>2. RK[i] = K[m - i + 1] /\ RL[i] = L[n - i + 1]
      BY <1>2, <1>3, <3>1
    <3>3. m - i + 1 \in 2 .. m /\ n - m + (m - i + 1) = n - i + 1
      BY <1>1
    <3>4. RK[i] = RL[i]
      BY <3>2, <3>3 DEF EndsLike, m, n
    <3>5. g[i - 1] = h[i - 1]
      BY <2>2
    <3>6. g[i] = h[i]
      BY <1>4, <1>5, <3>1, <3>4, <3>5
    <3> QED
      BY <3>1, <3>6
  <2> HIDE DEF Same
  <2>3. Same = 0 .. m - 1
    BY <1>1, <2>1, <2>2, BoundedInduction
  <2> QED
    BY <2>3 DEF Same
<1>7. \A i \in 0 .. m : Ended(g[i]) \/ Progress(g[i], i, p, m)
  <2> DEFINE Fine == {i \in 0 .. m : Ended(g[i]) \/ Progress(g[i], i, p, m)}
  <2>1. 0 \in Fine /\ Fine \in SUBSET (0 .. m)
    <3>1. Progress(NothingKept, 0, p, m)
      BY DEF Progress, NothingKept
    <3>2. 0 \in 0 .. m /\ g[0] = NothingKept
      BY <1>1, <1>4
    <3> QED
      BY <3>1, <3>2
  <2>2. ASSUME NEW i \in 1 .. m, i - 1 \in Fine
        PROVE  i \in Fine
    <3>1. g[i - 1] \in Keeping(S) /\ (Ended(g[i - 1]) \/ Progress(g[i - 1], i - 1, p, m))
      BY <1>1, <1>4, <2>2
    <3>2. g[i] = KeepLine(g[i - 1], K[m - i + 1])
      BY <1>2, <1>4
    <3>3. /\ Ended(KeepLine(g[i - 1], K[m - i + 1]))
             \/ Progress(KeepLine(g[i - 1], K[m - i + 1]), i, p, m)
      BY <3>1, ProgressStep DEF m
    <3>4. i \in 0 .. m
      BY <1>1
    <3> QED
      BY <3>2, <3>3, <3>4
  <2> HIDE DEF Fine
  <2>3. Fine = 0 .. m
    BY <1>1, <2>1, <2>2, BoundedInduction
  <2> QED
    BY <2>3 DEF Fine
<1> DEFINE q == g[m - 1]
<1>8. /\ q \in Keeping(S) /\ q = h[m - 1] /\ RK[m] = K[1] /\ RL[m] = L[n - m + 1]
      /\ g[m] = KeepLine(q, RK[m]) /\ h[m] = KeepLine(q, RL[m])
      /\ RK[m] \in Seq(S) /\ RL[m] \in Seq(S)
  <2>1. m \in 1 .. m /\ m \in 1 .. n /\ m - 1 \in 0 .. m - 1 /\ m - 1 \in 0 .. m /\ m - m + 1 = 1
    BY <1>1
  <2>2. RK[m] = K[1] /\ RL[m] = L[n - m + 1]
    BY <1>2, <1>3, <2>1
  <2>3. RK[m] \in Seq(S) /\ RL[m] \in Seq(S)
    BY <1>2, <1>3, <2>1
  <2> QED
    BY <1>4, <1>5, <1>6, <2>1, <2>2, <2>3
<1>9. Ended(q) \/ q.bytes + Size(q, K[1]) > MaxBytes
  <2>1. m \in 1 .. m /\ m - 1 \in 0 .. m
    BY <1>1
  <2>2. Ended(q) \/ Progress(q, m - 1, p, m)
    BY <1>7, <2>1
  <2> HIDE DEF q
  <2> QED
    BY <1>8, <2>1, <2>2, ProgressStep DEF m
<1>10. Len(K[1]) <= Len(L[n - m + 1])
  BY DEF EndsLike, IsEnd, m, n
<1> HIDE DEF q
<1>11. Size(q, RK[m]) <= Size(q, RL[m]) /\ q.bytes \in Nat
       /\ Size(q, RK[m]) \in Nat /\ Size(q, RL[m]) \in Nat
  <2>1. Len(RK[m]) \in Nat /\ Len(RL[m]) \in Nat
    BY <1>8
  <2>2. q.bytes \in Nat
    BY <1>8 DEF Keeping
  <2>3. Len(RK[m]) <= Len(RL[m])
    BY <1>8, <1>10
  <2> DEFINE more == IF q.lines = <<>> THEN 0 ELSE 1
  <2>4. Size(q, RK[m]) = Len(RK[m]) + more /\ Size(q, RL[m]) = Len(RL[m]) + more
    BY DEF Size
  <2>5. more \in Nat
    OBVIOUS
  <2> HIDE DEF more
  <2> QED
    BY <2>1, <2>2, <2>3, <2>4, <2>5
<1>12. h[m] = g[m] /\ Ended(h[m])
  <2>0. Turns(q, RK[m], g[m]) /\ Turns(q, RL[m], h[m])
    BY <1>8, KeepLineTurns
  <2>1. CASE Ended(q)
    BY <2>0, <2>1 DEF Turns
  <2>2. CASE ~Ended(q)
    <3>1. q.bytes + Size(q, RK[m]) > MaxBytes
      BY <1>8, <1>9, <2>2
    <3>2. q.bytes + Size(q, RL[m]) > MaxBytes
      BY <1>11, <3>1, LimitAssumption
    <3>3. g[m] = [q EXCEPT !.hitBytes = TRUE] /\ h[m] = [q EXCEPT !.hitBytes = TRUE]
      BY <2>0, <2>2, <3>1, <3>2 DEF Turns
    <3>4. h[m].hitBytes
      BY <1>8, <3>3 DEF Keeping
    <3> QED
      BY <3>3, <3>4 DEF Ended
  <2> QED
    BY <2>1, <2>2
<1>13. h[n] = h[m]
  <2> DEFINE d == n - m
             Still == {i \in 0 .. d : h[m + i] = h[m]}
  <2>1. 0 \in Still /\ Still \in SUBSET (0 .. d) /\ d \in Nat
    <3>1. 0 \in 0 .. d /\ m + 0 = m
      BY <1>1
    <3> QED
      BY <1>1, <3>1
  <2>2. ASSUME NEW i \in 1 .. d, i - 1 \in Still
        PROVE  i \in Still
    <3>1. /\ m + i \in 1 .. n /\ (m + i) - 1 = m + (i - 1) /\ i \in 0 .. d
          /\ m + (i - 1) \in 0 .. n
      BY <1>1
    <3>2. h[m + i] = KeepLine(h[m + (i - 1)], RL[m + i]) /\ h[m + (i - 1)] = h[m]
      BY <1>5, <2>2, <3>1
    <3>3. RL[m + i] \in Seq(S) /\ h[m] \in Keeping(S)
      BY <1>3, <1>5, <3>1, <3>2
    <3>4. KeepLine(h[m], RL[m + i]) = h[m]
      BY <1>12, <3>3, KeepLineTurns DEF Turns
    <3> QED
      BY <3>1, <3>2, <3>4
  <2> HIDE DEF Still, d
  <2>3. Still = 0 .. d
    BY <2>1, <2>2, BoundedInduction
  <2>4. d \in Still /\ m + d = n
    BY <1>1, <2>1, <2>3 DEF d
  <2> QED
    BY <2>4 DEF Still
<1> QED
  BY <1>4, <1>5, <1>12, <1>13 DEF RK, RL

(* The lines that are counted of a text that is not empty.                  *)
LEMMA CountedOfText ==
  ASSUME NEW S, NEW u \in Seq(S), Len(u) > 0
  PROVE  /\ CountedLines(u) =
              IF u[Len(u)] = NL THEN Front(SplitLines(u)) ELSE SplitLines(u)
         /\ CountedLines(u) \in Seq(Seq(S))
<1>1. u # <<>> /\ Last(u) = u[Len(u)]
  BY DEF Last
<1>2. SplitLines(u) \in Lines(S)
  BY LinesTyped
<1>3. SplitLines(u) \in Seq(Seq(S)) /\ Len(SplitLines(u)) > 0
  BY <1>2, LinesFacts
<1>4. Front(SplitLines(u)) \in Seq(Seq(S))
  BY <1>3, FrontFacts
<1>5. CountedLines(u) = IF u[Len(u)] = NL THEN Front(SplitLines(u)) ELSE SplitLines(u)
  BY <1>1 DEF CountedLines
<1> QED
  BY <1>3, <1>4, <1>5

(* What TruncateTail looks at is at the end of the text.                    *)
LEMMA TailLines ==
  ASSUME NEW S, NEW x \in Seq(S), NEW u \in Seq(S), Len(u) > MaxBytes + 1
  PROVE  /\ CountedLines(u) \in Seq(Seq(S)) /\ CountedLines(x \o u) \in Seq(Seq(S))
         /\ \E p : TooLong(CountedLines(u), p)
         /\ EndsLike(CountedLines(u), CountedLines(x \o u))
<1> DEFINE s == x \o u
           A == SplitLines(x)
           B == SplitLines(u)
           C == SplitLines(s)
           a == Len(A)
           b == Len(B)
           c == Len(C)
           K == CountedLines(u)
           L == CountedLines(s)
<1>1. /\ Len(x) \in Nat /\ Len(u) \in Nat /\ s \in Seq(S) /\ Len(s) = Len(x) + Len(u)
      /\ \A k \in 1 .. Len(u) : s[Len(x) + k] = u[k]
  BY Concatenation
<1>2. Len(u) > 0 /\ Len(s) > 0 /\ s[Len(s)] = u[Len(u)]
  BY <1>1, LimitAssumption
<1> HIDE DEF s
<1>3. /\ K = IF u[Len(u)] = NL THEN Front(B) ELSE B
      /\ L = IF u[Len(u)] = NL THEN Front(C) ELSE C
      /\ K \in Seq(Seq(S)) /\ L \in Seq(Seq(S))
  BY <1>1, <1>2, CountedOfText
<1>4. A \in Lines(S) /\ B \in Lines(S) /\ C \in Lines(S)
  BY <1>1, LinesTyped
<1>5. Joined(A, B, C)
  BY LinesOfJoined DEF s
<1>6. SplitInto(B, u, Len(u))
  BY LinesOfText
<1> HIDE DEF A, B, C, K, L
<1>7. /\ a \in Nat \ {0} /\ b \in Nat \ {0} /\ c \in Nat \ {0}
      /\ A[a] \in Seq(S) /\ B[1] \in Seq(S)
  BY <1>4, LinesFacts
<1>a. B \in Seq(Seq(S)) /\ C \in Seq(Seq(S))
  BY <1>4, LinesFacts
<1> HIDE DEF a, b, c
<1>8. /\ c = a + b - 1 /\ C[a] = A[a] \o B[1]
      /\ \A j \in 2 .. b : C[a + j - 1] = B[j]
  BY <1>5 DEF Joined, a, b, c
<1>9. IsEnd(B[1], C[a])
  BY <1>7, <1>8, EndIsSuffix
<1>10. PICK p : Spans(B, p, Len(u))
  BY <1>6 DEF SplitInto
<1>11. /\ \A j \in 1 .. b + 1 : p[j] \in Nat
       /\ p[1] = 0 /\ p[b + 1] = Len(u) + 1
       /\ \A j \in 1 .. b : p[j + 1] = p[j] + Len(B[j]) + 1
  BY <1>10 DEF Spans, b
<1>12. CASE u[Len(u)] = NL
  <2>1. K = Front(B) /\ L = Front(C)
    BY <1>3, <1>12
  <2>2. /\ Len(B) > 0 /\ Len(C) > 0
    BY <1>7 DEF b, c
  <2>3. Len(K) = b - 1 /\ \A j \in 1 .. b - 1 : K[j] = B[j]
    BY <1>a, <2>1, <2>2, FrontFacts DEF b
  <2>4. Len(L) = c - 1 /\ \A j \in 1 .. c - 1 : L[j] = C[j]
    BY <1>a, <2>1, <2>2, FrontFacts DEF c
  <2>5. B[b] = <<>>
    BY <1>6, <1>12 DEF SplitInto, b
  <2>6. p[b] = Len(u) /\ p[b] \in Nat
    <3>1. p[b + 1] = p[b] + 0 + 1 /\ p[b] \in Nat
      BY <1>7, <1>11, <2>5
    <3> QED
      BY <1>1, <1>11, <3>1
  <2>7. b # 1
    BY <1>2, <1>11, <2>6
  <2>8. TooLong(K, p)
    <3>1. Len(K) + 1 = b
      BY <1>7, <2>3
    <3>2. p[Len(K) + 1] > MaxBytes + 1
      BY <2>6, <3>1
    <3>3. ASSUME NEW j \in 1 .. Len(K) PROVE p[j + 1] = p[j] + Len(K[j]) + 1
      <4>1. j \in 1 .. b - 1
        BY <2>3
      <4>2. j \in 1 .. b
        BY <1>7, <4>1
      <4>3. p[j + 1] = p[j] + Len(B[j]) + 1
        BY <1>11, <4>2
      <4>4. K[j] = B[j]
        BY <2>3, <4>1
      <4> QED
        BY <4>3, <4>4
    <3>4. \A j \in 1 .. Len(K) + 1 : p[j] \in Nat
      BY <1>7, <1>11, <3>1
    <3> QED
      BY <1>11, <3>2, <3>3, <3>4 DEF TooLong
  <2>9. EndsLike(K, L)
    <3>1. Len(K) > 0 /\ Len(K) <= Len(L) /\ Len(L) - Len(K) = a - 1
      BY <1>7, <1>8, <2>3, <2>4, <2>7
    <3>2. ASSUME NEW j \in 2 .. Len(K) PROVE L[Len(L) - Len(K) + j] = K[j]
      <4>0. j \in 2 .. b - 1 /\ a - 1 + j = a + j - 1
        BY <1>7, <2>3
      <4>1. /\ Len(L) - Len(K) + j = a + j - 1 /\ a + j - 1 \in 1 .. c - 1
            /\ j \in 2 .. b /\ j \in 1 .. b - 1
        <5>1. Len(L) - Len(K) + j = a + j - 1
          BY <3>1, <4>0
        <5>2. a + j - 1 \in 1 .. c - 1 /\ j \in 2 .. b /\ j \in 1 .. b - 1
          BY <1>7, <1>8, <4>0
        <5> QED
          BY <5>1, <5>2
      <4> QED
        BY <1>8, <2>3, <2>4, <4>1
    <3>3. Len(L) - Len(K) + 1 = a /\ a \in 1 .. c - 1 /\ 1 \in 1 .. b - 1
      BY <1>7, <1>8, <2>7, <3>1
    <3>4. L[Len(L) - Len(K) + 1] = C[a] /\ K[1] = B[1]
      BY <2>3, <2>4, <3>3
    <3> QED
      BY <1>9, <3>1, <3>2, <3>4 DEF EndsLike
  <2> QED
    BY <1>3, <2>8, <2>9 DEF K, L, s
<1>13. CASE u[Len(u)] # NL
  <2>1. K = B /\ L = C /\ Len(K) = b /\ Len(L) = c
    BY <1>3, <1>13 DEF b, c
  <2>2. TooLong(K, p)
    <3>1. p[b + 1] > MaxBytes + 1
      BY <1>1, <1>11, LimitAssumption
    <3> QED
      BY <1>11, <2>1, <3>1 DEF TooLong
  <2>3. EndsLike(K, L)
    <3>1. c - b + 1 = a /\ b > 0 /\ b <= c
      BY <1>7, <1>8
    <3>2. \A j \in 2 .. b : c - b + j = a + j - 1
      BY <1>7, <1>8
    <3> QED
      BY <1>8, <1>9, <2>1, <3>1, <3>2 DEF EndsLike
  <2> QED
    BY <1>3, <2>2, <2>3 DEF K, L, s
<1> QED
  BY <1>12, <1>13

(* A text and a tail of it that is longer than what may be shown have the   *)
(* same TruncateTail.                                                       *)
LEMMA TailIsEnough ==
  ASSUME NEW S, NEW x \in Seq(S), NEW u \in Seq(S), Len(u) > MaxBytes + 1
  PROVE  TruncateTail(x \o u) = TruncateTail(u) /\ TruncateTail(u).truncatedBy # ""
<1> DEFINE s == x \o u
           K == CountedLines(u)
           L == CountedLines(s)
           kept == FoldLeft(KeepLine, NothingKept, Reverse(K))
           keptL == FoldLeft(KeepLine, NothingKept, Reverse(L))
           partial == kept.hitBytes /\ kept.lines = <<>>
<1>1. Len(x) \in Nat /\ Len(u) \in Nat /\ s \in Seq(S) /\ Len(s) = Len(x) + Len(u)
  BY Concatenation
<1>2. ~Fits(u) /\ ~Fits(s)
  BY <1>1, LimitAssumption DEF Fits
<1>3. /\ K \in Seq(Seq(S)) /\ L \in Seq(Seq(S)) /\ EndsLike(K, L)
  BY TailLines
<1>4. PICK p : TooLong(K, p)
  BY TailLines
<1> HIDE DEF s, K, L
<1>5. kept = keptL
  BY <1>3, <1>4, KeptAlike
<1>6. SuffixWithin(Last(K), MaxBytes) = SuffixWithin(Last(L), MaxBytes)
  <2>1. /\ Len(K) \in Nat \ {0} /\ Len(L) \in Nat \ {0}
        /\ K[1] \in Seq(S) /\ L[Len(L)] \in Seq(S)
    BY <1>3 DEF EndsLike
  <2>2. Last(K) = K[Len(K)] /\ Last(L) = L[Len(L)]
    BY DEF Last
  <2>3. CASE Len(K) = 1
    <3>1. Len(L) - Len(K) + 1 = Len(L)
      BY <2>1, <2>3
    <3>2. IsEnd(K[1], L[Len(L)])
      BY <1>3, <3>1 DEF EndsLike
    <3>3. p[1] = 0 /\ p[1 + 1] = p[1] + Len(K[1]) + 1 /\ p[1 + 1] > MaxBytes + 1
      BY <1>4, <2>3 DEF TooLong
    <3>4. Len(K[1]) > MaxBytes
      BY <2>1, <3>3, LimitAssumption
    <3>5. SuffixWithin(L[Len(L)], MaxBytes) = SuffixWithin(K[1], MaxBytes)
      BY <2>1, <3>2, <3>4, SuffixOfEnd, LimitAssumption
    <3> QED
      BY <2>2, <2>3, <3>5
  <2>4. CASE Len(K) # 1
    <3>1. Len(K) \in 2 .. Len(K) /\ Len(L) - Len(K) + Len(K) = Len(L)
      <4> DEFINE k == Len(K)
                 l == Len(L)
      <4>1. k \in Nat \ {0} /\ l \in Nat \ {0} /\ k # 1
        BY <2>1, <2>4
      <4> HIDE DEF k, l
      <4>2. k \in 2 .. k /\ l - k + k = l
        BY <4>1
      <4> QED
        BY <4>2 DEF k, l
    <3>2. L[Len(L)] = K[Len(K)]
      BY <1>3, <3>1 DEF EndsLike
    <3> QED
      BY <2>2, <3>2
  <2> QED
    BY <2>3, <2>4
<1> DEFINE displayed == IF partial THEN <<SuffixWithin(Last(K), MaxBytes)>> ELSE kept.lines
           res == [content |-> JoinLines(Reverse(displayed)),
                   truncatedBy |-> TruncatedBy([kept EXCEPT !.lines = displayed]),
                   outputLines |-> Len(displayed),
                   firstLineExceedsLimit |-> FALSE, lastLinePartial |-> partial]
<1>7. TruncateTail(u) = res
  BY <1>2 DEF TruncateTail, K
<1>8. TruncateTail(s) = res
  <2>1. TruncateTail(s) =
          LET partialL == keptL.hitBytes /\ keptL.lines = <<>>
              displayedL == IF partialL THEN <<SuffixWithin(Last(L), MaxBytes)>> ELSE keptL.lines
          IN  [content |-> JoinLines(Reverse(displayedL)),
               truncatedBy |-> TruncatedBy([keptL EXCEPT !.lines = displayedL]),
               outputLines |-> Len(displayedL),
               firstLineExceedsLimit |-> FALSE, lastLinePartial |-> partialL]
    BY <1>2 DEF TruncateTail, L
  <2> HIDE DEF kept, keptL
  <2> QED
    BY <1>5, <1>6, <2>1
<1>9. res.truncatedBy # ""
  <2>1. res.truncatedBy = TruncatedBy([kept EXCEPT !.lines = displayed])
    OBVIOUS
  <2> HIDE DEF res, kept, displayed
  <2> QED
    BY <2>1 DEF TruncatedBy
<1> HIDE DEF res
<1> QED
  BY <1>7, <1>8, <1>9 DEF s

-----------------------------------------------------------------------------
(* Characters.  What Sanitize makes has no continuation byte of its own.    *)

\* A continuation byte follows a byte that begins a character, or the first
\* continuation byte after one.
Characters(t) ==
  \A i \in 1 .. Len(t) : t[i] = Cont =>
    i > 1 /\ (t[i - 1] # Cont \/ (i > 2 /\ t[i - 2] # Cont))

\* The texts whose characters are whole.
CharText(S) == {t \in Seq(S) : Characters(t)}

(* Characters stay whole when texts are joined.                             *)
LEMMA CharactersJoined ==
  ASSUME NEW S, NEW a \in CharText(S), NEW b \in CharText(S)
  PROVE  a \o b \in CharText(S)
<1> DEFINE c == a \o b
           n == Len(a)
<1>1. /\ a \in Seq(S) /\ b \in Seq(S) /\ Characters(a) /\ Characters(b)
  BY DEF CharText
<1>2. /\ c \in Seq(S) /\ Len(c) = n + Len(b) /\ n \in Nat /\ Len(b) \in Nat
      /\ \A k \in 1 .. n : c[k] = a[k]
      /\ \A k \in 1 .. Len(b) : c[n + k] = b[k]
  BY <1>1, Concatenation
<1> HIDE DEF c, n
<1>3. ASSUME NEW i \in 1 .. Len(c), c[i] = Cont
      PROVE  i > 1 /\ (c[i - 1] # Cont \/ (i > 2 /\ c[i - 2] # Cont))
  <2>1. CASE i \in 1 .. n
    <3>1. i > 1 /\ (a[i - 1] # Cont \/ (i > 2 /\ a[i - 2] # Cont))
      BY <1>1, <1>2, <1>3, <2>1 DEF Characters, n
    <3>2. c[i - 1] = a[i - 1] /\ (i > 2 => c[i - 2] = a[i - 2])
      BY <1>2, <2>1, <3>1
    <3> QED
      BY <3>1, <3>2
  <2>2. CASE i > n
    <3> DEFINE k == i - n
    <3>1. k \in 1 .. Len(b) /\ n + k = i
      BY <1>2, <2>2
    <3> HIDE DEF k
    <3>2. b[k] = Cont
      BY <1>2, <1>3, <3>1
    <3>3. k > 1 /\ (b[k - 1] # Cont \/ (k > 2 /\ b[k - 2] # Cont))
      BY <1>1, <3>1, <3>2 DEF Characters
    <3>4. k - 1 \in 1 .. Len(b) /\ n + (k - 1) = i - 1
      BY <1>2, <3>1, <3>3
    <3>5. k > 2 => k - 2 \in 1 .. Len(b) /\ n + (k - 2) = i - 2 /\ i > 2
      BY <1>2, <3>1
    <3>6. c[i - 1] = b[k - 1] /\ (k > 2 => c[i - 2] = b[k - 2] /\ i > 2)
      BY <1>2, <3>4, <3>5
    <3>7. i > 1
      BY <1>2, <3>1, <3>3
    <3> QED
      BY <3>3, <3>6, <3>7
  <2> QED
    BY <1>2, <2>1, <2>2
<1>4. Characters(c)
  BY <1>3 DEF Characters
<1> QED
  BY <1>2, <1>4 DEF CharText, c

(* A text does not begin inside a character.                                *)
LEMMA FirstByte ==
  ASSUME NEW S, NEW t \in CharText(S)
  PROVE  t \in Seq(S) /\ Characters(t) /\ (Len(t) = 0 \/ t[1] # Cont)
  BY DEF CharText, Characters

(* At most two bytes are given up for a character that the cut meets.       *)
LEMMA SuffixNotShort ==
  ASSUME NEW S, NEW s \in CharText(S), NEW n \in Nat, n > 2, Len(s) > n
  PROVE  Len(SuffixWithin(s, n)) >= n - 2
<1> DEFINE v == SuffixWithin(s, n)
           m == Len(s)
<1>1. s \in Seq(S) /\ Characters(s) /\ m \in Nat
  BY FirstByte
<1>2. v \in Seq(S) /\ Within(s, n, v) /\ Len(v) \in Nat
  BY <1>1, SuffixIsWithin
<1>3. \A j \in m - n + 1 .. m - Len(v) : s[j] = Cont
  BY <1>2 DEF Within
<1> HIDE DEF v
<1> SUFFICES ASSUME Len(v) < n - 2 PROVE FALSE
  BY <1>1, <1>2 DEF v
<1> DEFINE i == m - n + 3
<1>4. /\ i \in 1 .. m /\ i > 2
      /\ i \in m - n + 1 .. m - Len(v) /\ i - 1 \in m - n + 1 .. m - Len(v)
      /\ i - 2 \in m - n + 1 .. m - Len(v)
  BY <1>1, <1>2
<1> HIDE DEF i
<1>5. s[i] = Cont /\ s[i - 1] = Cont /\ s[i - 2] = Cont
  BY <1>3, <1>4
<1> QED
  BY <1>1, <1>4, <1>5 DEF Characters, m

(* Sanitize makes whole characters of any chunk.                            *)
LEMMA SanitizedIsText ==
  ASSUME NEW chunk \in Chunks
  PROVE  Sanitize(chunk) \in CharText(Byte)
<1> DEFINE n == Len(chunk)
           Rune(i) ==
             CASE chunk[i] \in {CR, Control} -> <<>>
               [] chunk[i] = Lead -> IF i < Len(chunk) /\ chunk[i + 1] = Cont
                                     THEN <<Lead, Cont>> ELSE Replacement
               [] chunk[i] = Cont -> IF i > 1 /\ chunk[i - 1] = Lead
                                     THEN <<>> ELSE Replacement
               [] OTHER -> <<chunk[i]>>
           runes == [i \in DOMAIN chunk |-> Rune(i)]
           A == CharText(Byte)
<1>1. chunk \in Seq(Range(chunk)) /\ n \in Nat /\ DOMAIN chunk = 1 .. n
  BY ChunkAssumption
<1>2. /\ <<>> \in A /\ <<Lead, Cont>> \in A /\ Replacement \in A
  <2>1. Lead \in Byte /\ Cont \in Byte /\ "fffd" \in Byte
    BY DEF Byte, MadeByte
  <2>2. ASSUME NEW a \in Byte, NEW b \in Byte
        PROVE  /\ <<a, b>> \in Seq(Byte) /\ Len(<<a, b>>) = 2
               /\ <<a, b>>[1] = a /\ <<a, b>>[2] = b
               /\ <<a, b, b>> \in Seq(Byte) /\ Len(<<a, b, b>>) = 3
               /\ <<a, b, b>>[1] = a /\ <<a, b, b>>[2] = b /\ <<a, b, b>>[3] = b
    OBVIOUS
  <2>3. Lead # Cont /\ "fffd" # Cont
    BY DEF Lead, Cont
  <2>4. <<>> \in A
    BY DEF CharText, Characters
  <2>5. ASSUME NEW a \in Byte, NEW b \in Byte, a # Cont
        PROVE  <<a, b>> \in A
    <3> DEFINE t == <<a, b>>
    <3>1. t \in Seq(Byte) /\ Len(t) = 2 /\ t[1] = a
      BY <2>2
    <3> HIDE DEF t
    <3>2. Characters(t)
      BY <2>5, <3>1 DEF Characters
    <3> QED
      BY <3>1, <3>2 DEF CharText, t
  <2>6. ASSUME NEW a \in Byte, NEW b \in Byte, a # Cont
        PROVE  <<a, b, b>> \in A
    <3> DEFINE t == <<a, b, b>>
    <3>1. t \in Seq(Byte) /\ Len(t) = 3 /\ t[1] = a
      BY <2>2
    <3> HIDE DEF t
    <3>2. Characters(t)
      BY <2>6, <3>1 DEF Characters
    <3> QED
      BY <3>1, <3>2 DEF CharText, t
  <2> QED
    BY <2>1, <2>3, <2>4, <2>5, <2>6 DEF Replacement
<1>3. ASSUME NEW i \in 1 .. n
      PROVE  Rune(i) \in A
  <2>1. chunk[i] \in Byte
    BY <1>1 DEF Byte, ReadByte, Range
  <2>2. chunk[i] # Cont => <<chunk[i]>> \in A
    <3> SUFFICES ASSUME chunk[i] # Cont PROVE <<chunk[i]>> \in A
      OBVIOUS
    <3> DEFINE t == <<chunk[i]>>
    <3>1. t \in Seq(Byte) /\ Len(t) = 1 /\ t[1] # Cont
      BY <2>1
    <3> HIDE DEF t
    <3> QED
      BY <3>1 DEF CharText, Characters, t
  <2> HIDE DEF A
  <2> QED
    BY <1>2, <2>2, Zenon
<1> HIDE DEF A
<1>4. runes \in [1 .. n -> A]
  <2> HIDE DEF Rune
  <2> QED
    BY <1>1, <1>3
<1>5. runes \in Seq(A)
  <2> HIDE DEF runes
  <2> QED
    BY <1>1, <1>4
<1>6. Sanitize(chunk) = FlattenSeq(runes)
  BY DEF Sanitize
<1>7. A \in SUBSET Seq(Byte) /\ \A a, b \in A : a \o b \in A
  BY CharactersJoined DEF A, CharText
<1> HIDE DEF runes
<1>8. FlattenSeq(runes) \in A
  BY <1>2, <1>5, <1>7, FlattenedIsIn
<1> QED
  BY <1>6, <1>8 DEF A

-----------------------------------------------------------------------------
(* What the capture shows.                                                  *)

\* What the capture keeps, in terms of the whole stream.
TailInv ==
  /\ SpillInv
  /\ Characters(stream)
  /\ capture.tail = SuffixWithin(stream, MaxTailBytes)
  /\ capture.completedLines = Len(SplitLines(stream)) - 1
  /\ capture.currentLineBytes = Len(Last(SplitLines(stream)))

(* A text without a byte has one line, which is empty.                      *)
LEMMA EmptyLines ==
  SplitLines(<<>>) = << <<>> >>
<1>1. <<>> \in Seq({}) /\ Len(<<>>) = 0
  OBVIOUS
<1>2. PICK h : /\ h[0] = << <<>> >>
               /\ SplitLines(<<>>) = h[Len(<<>>)]
  BY <1>1, LineSteps
<1> QED
  BY <1>1, <1>2

(* The last line of a text.                                                 *)
LEMMA LastOfLines ==
  ASSUME NEW S, NEW text \in Seq(S)
  PROVE  LET lines == SplitLines(text) IN
         /\ Len(lines) \in Nat \ {0} /\ Last(lines) = lines[Len(lines)]
         /\ Last(lines) \in Seq(S) /\ Len(Last(lines)) \in Nat
<1> DEFINE lines == SplitLines(text)
<1>1. lines \in Lines(S)
  BY LinesTyped
<1> HIDE DEF lines
<1>2. /\ Len(lines) \in Nat \ {0}
      /\ \A k \in 1 .. Len(lines) : lines[k] \in Seq(S) /\ Len(lines[k]) \in Nat
  BY <1>1, LinesFacts
<1>3. Last(lines) = lines[Len(lines)] /\ Len(lines) \in 1 .. Len(lines)
  BY <1>2 DEF Last
<1> QED
  BY <1>2, <1>3 DEF lines

(* What Counted adds to the totals is what SplitLines would count.          *)
LEMMA CountedIsSplit ==
  ASSUME NEW S, NEW s \in Seq(S), NEW text \in Seq(S)
  PROVE  LET newlines == {i \in DOMAIN text : text[i] = NL} IN
         /\ Len(SplitLines(s \o text)) = Len(SplitLines(s)) + Cardinality(newlines)
         /\ Len(Last(SplitLines(s \o text))) =
              IF newlines = {} THEN Len(Last(SplitLines(s))) + Len(text)
              ELSE Len(Last(SplitLines(text)))
         /\ Cardinality(newlines) \in Nat
<1> DEFINE A == SplitLines(s)
           B == SplitLines(text)
           C == SplitLines(s \o text)
           a == Len(A)
           b == Len(B)
           c == Len(C)
           newlines == {i \in DOMAIN text : text[i] = NL}
<1>0. s \o text \in Seq(S) /\ Len(text) \in Nat /\ DOMAIN text = 1 .. Len(text)
  BY Concatenation
<1>1. /\ a \in Nat \ {0} /\ Last(A) = A[a] /\ A[a] \in Seq(S)
  BY LastOfLines
<1>2. /\ b \in Nat \ {0} /\ Last(B) = B[b] /\ B[b] \in Seq(S)
  BY LastOfLines
<1>3. /\ c \in Nat \ {0} /\ Last(C) = C[c] /\ C[c] \in Seq(S)
  BY <1>0, LastOfLines
<1>4. Joined(A, B, C)
  BY LinesOfJoined
<1>5. SplitInto(B, text, Len(text))
  BY LinesOfText
<1>6. newlines = NewlinesUpTo(text, Len(text))
  BY <1>0 DEF NewlinesUpTo
<1>7. IsFiniteSet(newlines) /\ b = Cardinality(newlines) + 1 /\ \E p : Spans(B, p, Len(text))
  BY <1>5, <1>6 DEF SplitInto
<1>8. Cardinality(newlines) \in Nat /\ (newlines = {} <=> b = 1)
  <2> HIDE DEF newlines, b
  <2>1. Cardinality(newlines) \in Nat /\ (Cardinality(newlines) = 0 <=> newlines = {})
    BY <1>7, FS_CardinalityType, FS_EmptySet
  <2> QED
    BY <1>7, <2>1
<1> HIDE DEF A, B, C, newlines
<1> HIDE DEF a, b, c
<1>9. /\ c = a + b - 1 /\ C[a] = A[a] \o B[1]
      /\ \A j \in 2 .. b : C[a + j - 1] = B[j]
  BY <1>4 DEF Joined, a, b, c
<1>10. c = a + Cardinality(newlines)
  BY <1>1, <1>7, <1>8, <1>9
<1>11. CASE newlines = {}
  <2>1. b = 1 /\ c = a
    BY <1>1, <1>8, <1>9, <1>11
  <2>2. PICK p : Spans(B, p, Len(text))
    BY <1>7
  <2>3. p[1] = 0 /\ p[1 + 1] = Len(text) + 1 /\ p[1 + 1] = p[1] + Len(B[1]) + 1
    BY <2>1, <2>2 DEF Spans, b
  <2>4. Len(B[1]) \in Nat /\ B[1] \in Seq(S)
    BY <1>2, <2>1
  <2>5. Len(B[1]) = Len(text)
    BY <1>0, <2>3, <2>4
  <2>6. Len(A[a] \o B[1]) = Len(A[a]) + Len(B[1])
    BY <1>1, <2>4, Concatenation
  <2>7. Len(Last(C)) = Len(Last(A)) + Len(text)
    BY <1>1, <1>3, <1>9, <2>1, <2>5, <2>6
  <2> QED
    BY <1>8, <1>10, <1>11, <2>7 DEF A, C, a, c, newlines
<1>12. CASE newlines # {}
  <2>1. b \in 2 .. b
    BY <1>2, <1>8, <1>12
  <2>2. C[a + b - 1] = B[b]
    BY <1>9, <2>1
  <2>3. Last(C) = Last(B)
    BY <1>2, <1>3, <1>9, <2>2
  <2> QED
    BY <1>8, <1>10, <1>12, <2>3 DEF A, B, C, a, c, newlines
<1> QED
  BY <1>11, <1>12

(* Nothing has been read, and nothing is kept.                              *)
LEMMA TailBegins == CaptureInit => TailInv
<1> SUFFICES ASSUME CaptureInit PROVE TailInv
  OBVIOUS
<1>1. SpillInv
  BY CaptureBegins
<1>2. /\ stream = <<>> /\ capture.tail = <<>> /\ capture.completedLines = 0
      /\ capture.currentLineBytes = 0
  BY DEF CaptureInit
<1>3. Len(<<>>) = 0 /\ Len(<< <<>> >>) = 1 /\ << <<>> >>[1] = <<>>
  OBVIOUS
<1>4. Characters(stream)
  BY <1>2, <1>3 DEF Characters
<1>5. SuffixWithin(stream, MaxTailBytes) = <<>>
  BY <1>2, <1>3, LimitAssumption DEF SuffixWithin, MaxTailBytes
<1>6. Len(SplitLines(stream)) = 1 /\ Len(Last(SplitLines(stream))) = 0
  BY <1>2, <1>3, EmptyLines DEF Last
<1> QED
  BY <1>1, <1>2, <1>4, <1>5, <1>6 DEF TailInv

(* A chunk leaves in the capture what the whole stream would.               *)
LEMMA ObserveKeepsTail ==
  ASSUME TailInv, NEW chunk \in Chunks, NEW done, Observe(chunk, done)
  PROVE  TailInv'
<1> DEFINE text == Sanitize(chunk)
           newlines == {i \in DOMAIN text : text[i] = NL}
           kept == SuffixWithin(capture.tail \o text, MaxTailBytes)
           S == SplitLines(stream)
           N == SplitLines(stream \o text)
<1>1. SpillInv' /\ SpillInv /\ CaptureType
  BY ObserveKeeps DEF TailInv, SpillInv
<1>2. /\ stream \in Seq(Byte) /\ capture.completedLines \in Nat /\ capture.currentLineBytes \in Nat
      /\ DOMAIN capture = CaptureFields
  BY <1>1 DEF CaptureType
<1>3. text \in CharText(Byte) /\ text \in Seq(Byte) /\ (Len(text) = 0 \/ text[1] # Cont)
  BY SanitizedIsText, FirstByte
<1>4. PICK started, path, spillErr :
        capture' = [Counted(text) EXCEPT !.tail = kept, !.started = started,
                                         !.path = path, !.spillErr = spillErr]
  <2> DEFINE c == Counted(text)
             spilling == ~capture.spillErr /\ (capture.started \/ Overflowing(c))
  <2>1. PICK outcome :
          capture' = [c EXCEPT
                         !.tail = kept,
                         !.started = c.started \/ spilling,
                         !.path = c.path \/ (spilling /\ outcome # "noFile"),
                         !.spillErr = c.spillErr \/ outcome \in {"noFile", "notWritten"}]
    BY DEF Observe
  <2> HIDE DEF c, spilling, kept
  <2> QED
    BY <2>1 DEF c
<1>5. stream' = stream \o text
  BY DEF Observe
<1>6. /\ capture'.tail = kept
      /\ capture'.completedLines = capture.completedLines + Cardinality(newlines)
      /\ capture'.currentLineBytes = IF newlines = {} THEN capture.currentLineBytes + Len(text)
                                     ELSE Len(Last(SplitLines(text)))
  <2> HIDE DEF text, kept
  <2>1. Counted(text) = [capture EXCEPT
             !.totalBytes = capture.totalBytes + Len(text),
             !.completedLines = capture.completedLines + Cardinality(newlines),
             !.currentLineBytes = IF newlines = {} THEN capture.currentLineBytes + Len(text)
                                  ELSE Len(Last(SplitLines(text)))]
    BY DEF Counted
  <2> HIDE DEF newlines
  <2> QED
    BY <1>2, <1>4, <2>1 DEF CaptureFields
<1>7. Characters(stream')
  <2>1. stream \in CharText(Byte)
    BY <1>2 DEF TailInv, CharText
  <2>2. stream \o text \in CharText(Byte)
    BY <1>3, <2>1, CharactersJoined
  <2> QED
    BY <1>5, <2>2, FirstByte
<1>8. capture'.tail = SuffixWithin(stream', MaxTailBytes)
  <2>1. MaxTailBytes \in Nat
    BY LimitAssumption DEF MaxTailBytes
  <2>2. capture.tail = SuffixWithin(stream, MaxTailBytes)
    BY DEF TailInv
  <2> HIDE DEF text
  <2>3. SuffixWithin(SuffixWithin(stream, MaxTailBytes) \o text, MaxTailBytes) =
          SuffixWithin(stream \o text, MaxTailBytes)
    BY <1>2, <1>3, <2>1, TrimmedBefore
  <2> QED
    BY <1>5, <1>6, <2>2, <2>3
<1>9. /\ Len(N) = Len(S) + Cardinality(newlines)
      /\ Len(Last(N)) = IF newlines = {} THEN Len(Last(S)) + Len(text)
                        ELSE Len(Last(SplitLines(text)))
      /\ Cardinality(newlines) \in Nat
  <2> HIDE DEF text
  <2> QED
    BY <1>2, <1>3, CountedIsSplit
<1>10. Len(S) \in Nat
  BY <1>2, LastOfLines
<1> HIDE DEF text, S, N, newlines
<1>11. capture.completedLines = Len(S) - 1 /\ capture.currentLineBytes = Len(Last(S))
  BY DEF TailInv, S
<1>12. /\ capture'.completedLines = Len(N) - 1 /\ capture'.currentLineBytes = Len(Last(N))
  BY <1>2, <1>6, <1>9, <1>10, <1>11
<1> QED
  BY <1>1, <1>5, <1>7, <1>8, <1>12 DEF TailInv, N

(* Only observeChunk touches the capture, and it keeps to the stream.       *)
\* A step that leaves the capture alone.
LEMMA TailLeft == TailInv /\ UNCHANGED captureVars => TailInv'
<1> SUFFICES ASSUME TailInv, UNCHANGED captureVars PROVE TailInv'
  OBVIOUS
<1>1. SpillInv'
  BY CaptureLeft DEF TailInv
<1> QED
  BY <1>1 DEF captureVars, TailInv

THEOREM TailInit == Init => TailInv
BY TailBegins DEF Init

THEOREM TailStep == TailInv /\ [Next]_vars => TailInv'
<1> SUFFICES ASSUME TailInv, [Next]_vars PROVE TailInv'
  OBVIOUS
<1>1. CASE UNCHANGED captureVars
  BY <1>1, TailLeft
<1>2. ASSUME NEW chunk \in Chunks, ReadChunk(chunk) PROVE TailInv'
  BY <1>2, ObserveKeepsTail DEF ReadChunk
<1> QED
  BY <1>1, <1>2, OnlyReadsObserve

\* The limits leave room for a character that the tail begins inside.  With
\* less, a line too long for the limit may seem to fit when only its end was kept;
\* DefaultMaxBytes (truncate.go:23) is 50 KiB.
RoomForCharacters == MaxBytes >= 4

(* The lines that are counted are the completed ones and the open one.      *)
LEMMA CountedAndOpen ==
  ASSUME NEW S, NEW text \in Seq(S)
  PROVE  /\ Len(CountedLines(text)) =
              Len(SplitLines(text)) - 1 + (IF Len(Last(SplitLines(text))) > 0 THEN 1 ELSE 0)
         /\ Len(CountedLines(text)) \in Nat
<1> DEFINE lines == SplitLines(text)
<1>1. /\ Len(lines) \in Nat \ {0} /\ Last(lines) = lines[Len(lines)]
      /\ Last(lines) \in Seq(S) /\ Len(Last(lines)) \in Nat
  BY LastOfLines
<1>2. SplitInto(lines, text, Len(text)) /\ lines \in Seq(Seq(S))
  BY LinesOfText, LinesTyped, LinesFacts
<1>3. Last(lines) = <<>> <=> Len(text) = 0 \/ text[Len(text)] = NL
  BY <1>1, <1>2 DEF SplitInto
<1>4. Last(lines) = <<>> <=> Len(Last(lines)) = 0
  <2> DEFINE l == Last(lines)
  <2>1. l \in Seq(S)
    BY <1>1
  <2> HIDE DEF l
  <2>2. l = <<>> <=> Len(l) = 0
    BY <2>1
  <2> QED
    BY <2>2 DEF l
<1> DEFINE k == Len(lines)
           o == Len(Last(lines))
<1>5. CASE text = <<>>
  <2>1. CountedLines(text) = <<>> /\ Len(<<>>) = 0
    BY <1>5 DEF CountedLines
  <2>2. lines = << <<>> >> /\ Len(<< <<>> >>) = 1 /\ Len(text) = 0
    BY <1>5, EmptyLines
  <2>3. k = 1 /\ o = 0
    BY <1>3, <1>4, <2>2
  <2> HIDE DEF k, o
  <2> QED
    BY <2>1, <2>3 DEF k, o
<1>6. CASE text # <<>> /\ text[Len(text)] = NL
  <2>1. Len(text) > 0
    BY <1>6
  <2>2. CountedLines(text) = Front(lines)
    BY <1>6, <2>1, CountedOfText
  <2> HIDE DEF lines
  <2>3. Len(Front(lines)) = Len(lines) - 1
    BY <1>1, <1>2, FrontFacts
  <2>4. o = 0 /\ k \in Nat \ {0} /\ Len(CountedLines(text)) = k - 1
    BY <1>1, <1>3, <1>4, <1>6, <2>2, <2>3
  <2> HIDE DEF k, o
  <2> QED
    BY <2>4 DEF k, o, lines
<1>7. CASE text # <<>> /\ text[Len(text)] # NL
  <2>1. Len(text) > 0
    BY <1>7
  <2>2. CountedLines(text) = lines
    BY <1>7, <2>1, CountedOfText
  <2>3. o > 0 /\ k \in Nat \ {0} /\ Len(CountedLines(text)) = k
    BY <1>1, <1>3, <1>4, <1>7, <2>1, <2>2
  <2> HIDE DEF k, o
  <2> QED
    BY <2>3 DEF k, o, lines
<1> QED
  BY <1>5, <1>6, <1>7

(* What the capture keeps is enough to show TruncateTail of the stream.     *)
LEMMA TailShowsStream ==
  ASSUME RoomForCharacters, TailInv
  PROVE  OutputIsTailOfStream
<1> DEFINE s == stream
           u == capture.tail
           whole == TruncateTail(s)
           tail == TruncateTail(u)
<1>1. /\ CaptureType /\ s \in Seq(Byte) /\ u \in Seq(Byte) /\ Len(s) \in Nat /\ Len(u) \in Nat
      /\ s \in CharText(Byte)
  BY DEF TailInv, SpillInv, CaptureType, CharText
<1>2. MaxBytes \in Nat /\ MaxTailBytes = 2 * MaxBytes /\ MaxTailBytes \in Nat
      /\ MaxBytes >= 4
  BY LimitAssumption DEF MaxTailBytes, RoomForCharacters
<1>3. capture.totalBytes = Len(s)
  BY <1>1 DEF CaptureType
<1>4. TotalLines(capture) = Len(CountedLines(s)) /\ TotalLines(capture) \in Nat
  BY <1>1, CountedAndOpen DEF TailInv, TotalLines
<1>5. Overflowing(capture) <=> ~Fits(s)
  BY <1>1, <1>2, <1>3, <1>4, LimitAssumption DEF Overflowing, Fits
<1>6. u = SuffixWithin(s, MaxTailBytes) /\ Within(s, MaxTailBytes, u)
  BY <1>1, <1>2, SuffixIsWithin DEF TailInv
<1>7. capture.currentLineBytes = Len(Last(SplitLines(s)))
  BY DEF TailInv
<1> HIDE DEF s, u
<1>8. CASE Fits(s)
  <2>1. whole.content = s /\ whole.truncatedBy = ""
    BY <1>8 DEF TruncateTail, Untruncated
  <2>2. u = s
    BY <1>1, <1>2, <1>6, <1>8, SuffixTyped DEF Fits
  <2> HIDE DEF whole
  <2>3. ~Overflowing(capture)
    BY <1>5, <1>8
  <2>4. Snapshot.output = u /\ Snapshot.truncatedBy = ""
    BY <2>3 DEF Snapshot, u
  <2> QED
    BY <1>3, <1>4, <1>7, <2>1, <2>2, <2>4 DEF OutputIsTailOfStream, Snapshot, whole, s
<1>9. CASE ~Fits(s)
  <2>1. tail = whole /\ tail.truncatedBy # ""
    <3>1. CASE Len(s) <= MaxTailBytes
      <4>1. u = s
        BY <1>1, <1>2, <1>6, <3>1, SuffixTyped
      <4>2. whole.truncatedBy # ""
        <5> DEFINE K == CountedLines(s)
                   kept == FoldLeft(KeepLine, NothingKept, Reverse(K))
                   displayed == IF kept.hitBytes /\ kept.lines = <<>>
                            THEN <<SuffixWithin(Last(K), MaxBytes)>> ELSE kept.lines
        <5>1. whole.truncatedBy = TruncatedBy([kept EXCEPT !.lines = displayed])
          BY <1>9 DEF TruncateTail
        <5> HIDE DEF whole, kept, displayed
        <5> QED
          BY <5>1 DEF TruncatedBy
      <4> QED
        BY <4>1, <4>2
    <3>2. CASE Len(s) > MaxTailBytes
      <4>1. Len(SuffixWithin(s, MaxTailBytes)) >= MaxTailBytes - 2
        BY <1>1, <1>2, <3>2, SuffixNotShort
      <4>2. Len(u) > MaxBytes + 1
        BY <1>1, <1>2, <1>6, <4>1
      <4>3. PICK x \in Seq(Byte) : s = x \o u
        BY <1>1, <1>6, EndIsJoined DEF Within
      <4> QED
        BY <1>1, <4>2, <4>3, TailIsEnough
    <3>3. Len(s) <= MaxTailBytes \/ Len(s) > MaxTailBytes
      BY <1>1, <1>2
    <3> HIDE DEF whole, tail
    <3> QED
      BY <3>1, <3>2, <3>3
  <2> HIDE DEF whole, tail
  <2>2. Overflowing(capture)
    BY <1>5, <1>9
  <2>3. Snapshot.output = tail.content /\ Snapshot.truncatedBy = tail.truncatedBy
    BY <2>1, <2>2 DEF Snapshot, u, tail
  <2> QED
    BY <1>3, <1>4, <1>7, <2>1, <2>3 DEF OutputIsTailOfStream, Snapshot, whole, s
<1> QED
  BY <1>8, <1>9

(* Whatever the chunks, the capture reports TruncateTail of the whole output *)
(* although it keeps only its tail, with the totals of the whole stream      *)
(* (snapshotLocked and observeChunk, shell_output.go:11-26, 134-182).        *)
THEOREM OutputIsTail ==
  ASSUME RoomForCharacters
  PROVE  Spec => []OutputIsTailOfStream
<1>1. TailInv => OutputIsTailOfStream
  BY TailShowsStream
<1> QED
  BY <1>1, TailInit, TailStep, PTL DEF Spec
=============================================================================
