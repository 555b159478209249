-------------------------- MODULE PromptLoopProofs --------------------------
(***************************************************************************)
(* TLAPS proofs about PromptLoop, for any number of turns, calls, steers,   *)
(* follow-ups and failures, and any MaxParallelTools: its types, its batches *)
(* and its causes of failure, the contract of its event stream, and last the *)
(* tool calls of a prompt and the results that answer them - where a result *)
(* may stand, which calls a request leaves unanswered, and what a clean end *)
(* says about the ones that never got a result.                             *)
(***************************************************************************)
EXTENDS PromptLoop, FiniteSetTheorems, SequenceTheorems, TLAPS

USE LoopAssumption, BatchAssumption

-----------------------------------------------------------------------------
(* The operations of a batch: each one keeps the types and the              *)
(* correspondence between tokens in the semaphore and goroutines that hold  *)
(* one, for any number of calls and any MaxParallelTools.                   *)

BatchInv == BatchTypeOK /\ SemaCountsHolders

LEMMA HoldersFinite == IsFiniteSet(Holders) /\ Cardinality(Holders) \in Nat
<1>1. IsFiniteSet(Call)
  BY FS_Interval DEF Call
<1>2. Holders \in SUBSET Call
  BY DEF Holders
<1> QED
  BY <1>1, <1>2, FS_Subset, FS_CardinalityType

LEMMA BatchInitInv == BatchInit => BatchInv
<1> SUFFICES ASSUME BatchInit
             PROVE  BatchInv
  OBVIOUS
<1>1. Holders = {}
  BY DEF BatchInit, Holders
<1> QED
  BY <1>1, FS_EmptySet DEF BatchInit, BatchInv, BatchTypeOK, SemaCountsHolders,
     TaskState, Outcome

(* A batch that is launched or discarded while no goroutine of the previous *)
(* one is left finds the semaphore empty and leaves it empty.               *)
LEMMA LaunchInv ==
  ASSUME BatchInv, WaitGroupDrained, NEW runnable, NEW rejected,
         Launch(runnable, rejected)
  PROVE  BatchInv'
<1>1. Holders = {} /\ Holders' = {}
  BY DEF Launch, Holders, WaitGroupDrained
<1> QED
  BY <1>1 DEF Launch, BatchInv, BatchTypeOK, SemaCountsHolders, TaskState, Outcome

LEMMA DiscardInv ==
  ASSUME BatchInv, WaitGroupDrained, Discard
  PROVE  BatchInv'
<1>1. Holders = {} /\ Holders' = {}
  BY DEF Discard, Holders, WaitGroupDrained
<1> QED
  BY <1>1 DEF Discard, BatchInv, BatchTypeOK, SemaCountsHolders, TaskState, Outcome

LEMMA AcquireInv ==
  ASSUME BatchInv, NEW i \in Call, Acquire(i)
  PROVE  BatchInv'
<1>1. Holders' = Holders \cup {i} /\ i \notin Holders
  BY DEF Acquire, Holders, BatchInv, BatchTypeOK, TaskState
<1>2. Cardinality(Holders') = Cardinality(Holders) + 1
  BY <1>1, HoldersFinite, FS_AddElement
<1>3. SemaCountsHolders'
  BY <1>2, HoldersFinite DEF Acquire, BatchInv, BatchTypeOK, SemaCountsHolders
<1>4. BatchTypeOK'
  BY DEF Acquire, BatchInv, BatchTypeOK, TaskState, emitVars
<1> QED
  BY <1>3, <1>4 DEF BatchInv

LEMMA CompleteInv ==
  ASSUME BatchInv, NEW i \in Call, NEW o \in Returned, Complete(i, o)
  PROVE  BatchInv'
<1>1. Holders' = Holders
  BY DEF Complete, Holders, BatchInv, BatchTypeOK
<1> QED
  BY <1>1 DEF Complete, BatchInv, BatchTypeOK, SemaCountsHolders, TaskState,
     Outcome, emitVars

LEMMA ReportInv ==
  ASSUME BatchInv, NEW i \in Call, NEW closed,
         BeginReport(i, closed) \/ EndReport(i)
  PROVE  BatchInv'
<1>1. /\ task[i] \in {"completed", "emitting"} /\ sema' = sema
      /\ \E t \in {"emitting", "reported"} : task' = [task EXCEPT ![i] = t]
      /\ outcome' = outcome /\ emitMu' \in {"free", "end"}
      /\ ended' \subseteq Call /\ dropped' \subseteq Call
  BY DEF BeginReport, EndReport, BatchInv, BatchTypeOK
<1>2. Holders' = Holders
  BY <1>1 DEF Holders, BatchInv, BatchTypeOK
<1> QED
  BY <1>1, <1>2 DEF BatchInv, BatchTypeOK, SemaCountsHolders, TaskState

LEMMA UpdateInv ==
  ASSUME BatchInv, NEW closed, BeginUpdate(closed) \/ EndUpdate
  PROVE  BatchInv'
<1>1. /\ UNCHANGED <<task, outcome, sema, ended, dropped>>
      /\ emitMu' \in {"free", "update"}
  BY DEF BeginUpdate, EndUpdate
<1>2. Holders' = Holders
  BY <1>1 DEF Holders
<1> QED
  BY <1>1, <1>2 DEF BatchInv, BatchTypeOK, SemaCountsHolders

LEMMA ExitInv ==
  ASSUME BatchInv, NEW i \in Call, Exit(i)
  PROVE  BatchInv'
<1>1. Holders' = Holders \ {i} /\ i \in Holders
  BY DEF Exit, Holders, BatchInv, BatchTypeOK
<1>2. /\ Cardinality(Holders') = Cardinality(Holders) - 1
      /\ Cardinality(Holders) \in Nat /\ Cardinality(Holders') \in Nat
  <2>1. IsFiniteSet(Holders \ {i}) /\ Cardinality(Holders \ {i}) = Cardinality(Holders) - 1
    BY <1>1, HoldersFinite, FS_RemoveElement
  <2> QED
    BY <1>1, <2>1, HoldersFinite, FS_CardinalityType
<1>3. SemaCountsHolders' /\ sema' \in Nat
  BY <1>2 DEF Exit, BatchInv, BatchTypeOK, SemaCountsHolders
<1>4. BatchTypeOK'
  BY <1>3 DEF Exit, BatchInv, BatchTypeOK, TaskState, emitVars
<1> QED
  BY <1>3, <1>4 DEF BatchInv

(* The goroutines that run a tool hold a token each, and the channel has    *)
(* room for MaxParallelTools.                                               *)
LEMMA BatchInvBounds == BatchInv => ParallelismBounded
  BY DEF BatchInv, SemaCountsHolders, ParallelismBounded

-----------------------------------------------------------------------------
(* What the appends of a prompt leave in its transcript.                    *)

LEMMA AppendAllType ==
  ASSUME transcript \in Seq(Entry), known \in Nat, NEW msgs \in Seq(Entry),
         AppendAll(msgs)
  PROVE  transcript' \in Seq(Entry) /\ known' \in Nat /\ failures' = failures
  BY ConcatProperties, LenProperties DEF AppendAll

(* What a failing append leaves: a prefix of the messages in the session,   *)
(* and at most the last of it not in the transcript of the prompt.          *)
LEMMA AppendFailsLeaves ==
  ASSUME NEW msgs \in Seq(Entry), AppendFails(msgs)
  PROVE  \E n \in 0 .. Len(msgs) :
           /\ transcript' = transcript \o SubSeq(msgs, 1, n)
           /\ SubSeq(msgs, 1, n) \in Seq(Entry) /\ Len(SubSeq(msgs, 1, n)) = n
           /\ \A i \in 1 .. n : SubSeq(msgs, 1, n)[i] = msgs[i]
           /\ known' = known + n \/ (n > 0 /\ known' = known + n - 1)
<1>0. Len(msgs) \in Nat
  BY LenProperties
<1>1. PICK k \in 0 .. Len(msgs) - 1, written \in 0 .. 1 :
        /\ transcript' = transcript \o SubSeq(msgs, 1, k + written)
        /\ known' = known + k
  BY DEF AppendFails
<1>2. PICK n \in 0 .. Len(msgs) : n = k + written
  BY <1>0, <1>1
<1>3. known' = known + n \/ (n > 0 /\ known' = known + (n - 1))
  <2>1. k = n \/ (n > 0 /\ k = n - 1)
    BY <1>1, <1>2
  <2> QED
    BY <1>1, <2>1
<1>4. \A i \in 1 .. n : msgs[i] \in Entry
  BY <1>0, <1>2
<1>5. /\ SubSeq(msgs, 1, n) \in Seq(Entry) /\ Len(SubSeq(msgs, 1, n)) = n
      /\ \A i \in 1 .. n : SubSeq(msgs, 1, n)[i] = msgs[i]
  BY <1>0, <1>4, SubSeqProperties
<1> QED
  BY <1>1, <1>2, <1>3, <1>5

LEMMA AppendFailsType ==
  ASSUME transcript \in Seq(Entry), failures \in Nat, known \in Nat,
         NEW msgs \in Seq(Entry), AppendFails(msgs)
  PROVE  transcript' \in Seq(Entry) /\ known' \in Nat /\ failures' \in Nat
<1>1. PICK n \in 0 .. Len(msgs) :
        /\ transcript' = transcript \o SubSeq(msgs, 1, n)
        /\ SubSeq(msgs, 1, n) \in Seq(Entry)
        /\ known' = known + n \/ (n > 0 /\ known' = known + n - 1)
  BY AppendFailsLeaves
<1>2. transcript' \in Seq(Entry)
  BY <1>1, ConcatProperties
<1>3. known' \in Nat
  BY <1>1
<1> QED
  BY <1>2, <1>3 DEF AppendFails

LEMMA MsgType ==
  ASSUME LoopTypeOK
  PROVE  /\ \A type \in {"user", "text", "active_tools_change"} : Msg(type) \in Entry
         /\ \A type \in {"tool_call", "tool_result"}, i \in Call :
              CallMsg(type, i) \in Entry
  BY DEF LoopTypeOK, Msg, CallMsg, Entry, Call

LEMMA SingleMsgType ==
  ASSUME NEW m \in Entry
  PROVE  <<m>> \in Seq(Entry)
  OBVIOUS

LEMMA UptoType ==
  ASSUME LoopTypeOK, NEW n \in 0 .. MaxCalls,
         NEW type \in {"tool_call", "tool_result"}
  PROVE  Upto(type, n) \in Seq(Entry)
<1>1. Upto(type, n) \in [1 .. n -> Entry]
  BY MsgType DEF Upto, Call
<1> QED
  BY <1>1, SeqDef

LEMMA TurnMessagesType ==
  ASSUME LoopTypeOK, NEW text \in BOOLEAN, NEW n \in 0 .. MaxCalls
  PROVE  TurnMessages(text, n) \in Seq(Entry)
<1>1. Upto("tool_call", n) \in Seq(Entry)
  BY UptoType
<1>2. <<>> \in Seq(Entry)
  OBVIOUS
<1>3. CASE text
  BY <1>1, <1>3, MsgType, SingleMsgType, ConcatProperties DEF TurnMessages
<1>4. CASE ~ text
  BY <1>1, <1>2, <1>4, ConcatProperties DEF TurnMessages
<1> QED
  BY <1>3, <1>4

LEMMA ActiveToolsEntriesType ==
  ASSUME LoopTypeOK, QueueTypeOK
  PROVE  ActiveToolsEntries \in Seq(Entry)
<1>1. ActiveToolsEntries \in [1 .. pending -> Entry]
  BY MsgType DEF ActiveToolsEntries
<1> QED
  BY <1>1, SeqDef DEF QueueTypeOK

-----------------------------------------------------------------------------
(* The inductive invariant behind the type invariant.  The semaphore keeps  *)
(* its tokens only if a batch is launched and discarded when no goroutine   *)
(* of another is left, so the invariant says where in the loop a batch may  *)
(* be alive.                                                                *)

ExitPC == {"release", "drain", "closeDone", "closeEvents", "cancelCtx", "exited"}
BatchPC == {"await", "shutdown", "collect", "persist"}

BatchPhase ==
  /\ abandoned => pc \in ExitPC
  /\ pc \notin BatchPC /\ ~ abandoned => \A i \in Call : task[i] = "idle"
  /\ pc \in {"collect", "persist"} => WaitGroupDrained

CausePhase ==
  /\ cause = "idle" => pc = "exited"
  /\ pc = "shutdown" => cause # "none"

LoopInv ==
  /\ BatchInv /\ LoopTypeOK /\ QueueTypeOK /\ transcript \in Seq(Entry)
  /\ BatchPhase
  /\ CausePhase

LEMMA LoopInitInv == Init => LoopInv
<1> SUFFICES ASSUME Init
             PROVE  LoopInv
  OBVIOUS
<1>1. LoopTypeOK
  <2>1. /\ pc \in PC /\ phase \in Phase /\ cause \in Cause
        /\ turn \in Nat /\ calls \in 0 .. MaxCalls /\ next \in 1 .. MaxCalls + 1
    BY DEF Init, PC, Phase, Cause
  <2>2. /\ terminated \in BOOLEAN /\ suspended \in BOOLEAN
        /\ running \in BOOLEAN /\ doneClosed \in BOOLEAN
        /\ eventsClosed \in BOOLEAN /\ abandoned \in BOOLEAN
        /\ result \in PromptResult \cup {NoResult}
    BY Zenon DEF Init
  <2>3. immediate \subseteq Call /\ leaked \subseteq Call
    BY DEF Init
  <2> QED
    BY <2>1, <2>2, <2>3 DEF LoopTypeOK
<1>2. QueueTypeOK /\ transcript \in Seq(Entry)
  BY EmptySeq DEF Init, QueueTypeOK
<1>3. BatchPhase /\ CausePhase
  BY DEF Init, BatchInit, BatchPhase, CausePhase, BatchPC
<1> QED
  BY <1>1, <1>2, <1>3, BatchInitInv DEF Init, LoopInv

LEMMA BatchUnchanged ==
  ASSUME BatchInv, UNCHANGED batchVars
  PROVE  BatchInv'
<1>1. Holders' = Holders
  BY DEF Holders, batchVars
<1> QED
  BY <1>1 DEF BatchInv, BatchTypeOK, SemaCountsHolders, batchVars, emitVars

(* The end of a prompt: a result of the right type, and the release of the  *)
(* slot comes next.                                                         *)
LEMMA FinishTypes ==
  ASSUME LoopTypeOK, NEW from, NEW err \in Err, NEW raised \in BOOLEAN,
         Finish(from, err, raised), known' \in Nat, abandoned' \in BOOLEAN
  PROVE  LoopTypeOK'
<1>1. result' \in PromptResult
  BY DEF Finish, Conclusion, PromptResult, LoopTypeOK
<1> QED
  BY <1>1 DEF Finish, LoopTypeOK, PC, Phase, closingVars

LEMMA RaisedErrorsType ==
  ASSUME LoopTypeOK, cause # "idle"
  PROVE  RaisedErrors \subseteq Err /\ (cause # "none" => cause \in Err)
  BY LoopAssumption DEF RaisedErrors, Err, LoopTypeOK, Cause, Cancellation

LEMMA FinishRaisedTypes ==
  ASSUME LoopTypeOK, cause # "idle", NEW from, FinishRaised(from),
         known' \in Nat, abandoned' \in BOOLEAN
  PROVE  LoopTypeOK'
  BY FinishTypes, RaisedErrorsType DEF FinishRaised

(* The steps that end the prompt.                                           *)
Ending ==
  \/ LoadFails \/ RequestFails \/ StreamFails \/ FailTruncatedAppendFails
  \/ ToolsCancelled \/ PersistResultFails \/ FlushFails \/ EndAfterTurn
  \/ InjectSteerFails \/ InjectFollowUpFails \/ EndCancelled \/ EndNaturally
  \/ \E text \in BOOLEAN, n \in 0 .. MaxCalls : RespondAppendFails(text, n)

LEMMA EndingFinishes ==
  ASSUME Ending
  PROVE  \E from \in PC \ ExitPC :
           \/ FinishRaised(from)
           \/ Finish(from, "nil", FALSE)
           \/ cause # "none" /\ Finish(from, cause, FALSE)
<1>1. CASE LoadFails
  BY <1>1 DEF LoadFails, PC, ExitPC
<1>2. CASE RequestFails
  BY <1>2 DEF RequestFails, PC, ExitPC
<1>3. CASE StreamFails
  BY <1>3 DEF StreamFails, PC, ExitPC
<1>4. CASE FailTruncatedAppendFails
  BY <1>4 DEF FailTruncatedAppendFails, PC, ExitPC
<1>5. CASE ToolsCancelled
  BY <1>5 DEF ToolsCancelled, PC, ExitPC
<1>6. CASE PersistResultFails
  BY <1>6 DEF PersistResultFails, PC, ExitPC
<1>7. CASE FlushFails
  BY <1>7 DEF FlushFails, PC, ExitPC
<1>8. CASE EndAfterTurn
  BY <1>8 DEF EndAfterTurn, PC, ExitPC
<1>9. CASE InjectSteerFails
  BY <1>9 DEF InjectSteerFails, PC, ExitPC
<1>10. CASE InjectFollowUpFails
  BY <1>10 DEF InjectFollowUpFails, PC, ExitPC
<1>11. CASE EndCancelled \/ EndNaturally
  BY <1>11 DEF EndCancelled, EndNaturally, PC, ExitPC
<1>12. CASE \E text \in BOOLEAN, n \in 0 .. MaxCalls : RespondAppendFails(text, n)
  BY <1>12 DEF RespondAppendFails, PC, ExitPC
<1> QED
  BY <1>1, <1>2, <1>3, <1>4, <1>5, <1>6, <1>7, <1>8, <1>9, <1>10, <1>11, <1>12
     DEF Ending

LEMMA EndingTypes ==
  ASSUME LoopInv, Ending
  PROVE  LoopTypeOK' /\ QueueTypeOK' /\ transcript' \in Seq(Entry)
<1> USE DEF LoopInv
<1>0. "nil" \in Err /\ abandoned \in BOOLEAN
  BY DEF Err, LoopTypeOK
<1>1. \E from \in PC \ ExitPC :
        \/ FinishRaised(from)
        \/ Finish(from, "nil", FALSE)
        \/ cause # "none" /\ Finish(from, cause, FALSE)
  BY EndingFinishes
<1>2. pc # "exited" /\ lateRequests' = lateRequests
  BY <1>1 DEF FinishRaised, Finish, ExitPC
<1>3. abandoned' = abandoned
  BY DEF Ending, LoadFails, RequestFails, StreamFails, FailTruncatedAppendFails,
     ToolsCancelled, PersistResultFails, FlushFails, EndAfterTurn, InjectSteerFails,
     InjectFollowUpFails, EndCancelled, EndNaturally, RespondAppendFails
<1>4. ASSUME UNCHANGED logVars
      PROVE  transcript' \in Seq(Entry) /\ failures' \in Nat /\ known' \in Nat
  BY <1>4 DEF logVars, QueueTypeOK
<1>5. ASSUME NEW msgs \in Seq(Entry), AppendFails(msgs)
      PROVE  transcript' \in Seq(Entry) /\ failures' \in Nat /\ known' \in Nat
  BY <1>5, AppendFailsType DEF QueueTypeOK
<1>6. transcript' \in Seq(Entry) /\ failures' \in Nat /\ known' \in Nat
  <2>1. CASE \/ LoadFails \/ RequestFails \/ StreamFails \/ ToolsCancelled
             \/ EndAfterTurn \/ EndCancelled \/ EndNaturally
    BY <1>4, <2>1 DEF LoadFails, RequestFails, StreamFails, ToolsCancelled,
       EndAfterTurn, EndCancelled, EndNaturally
  <2>2. CASE FailTruncatedAppendFails
    BY <1>5, <2>2, UptoType DEF FailTruncatedAppendFails, LoopTypeOK
  <2>3. CASE PersistResultFails
    <3>1. <<CallMsg("tool_result", next)>> \in Seq(Entry)
      BY <2>3, MsgType, SingleMsgType DEF PersistResultFails, LoopTypeOK, Call
    <3> QED
      BY <1>5, <2>3, <3>1 DEF PersistResultFails
  <2>4. CASE FlushFails
    BY <1>5, <2>4, ActiveToolsEntriesType DEF FlushFails
  <2>5. CASE InjectSteerFails \/ InjectFollowUpFails
    BY <1>5, <2>5, MsgType, SingleMsgType DEF InjectSteerFails, InjectFollowUpFails
  <2>6. CASE \E text \in BOOLEAN, n \in 0 .. MaxCalls : RespondAppendFails(text, n)
    BY <1>5, <2>6, TurnMessagesType DEF RespondAppendFails
  <2> QED
    BY <2>1, <2>2, <2>3, <2>4, <2>5, <2>6 DEF Ending
<1>7. LoopTypeOK'
  <2>1. cause # "idle"
    BY <1>2 DEF CausePhase
  <2>2. ASSUME NEW from, FinishRaised(from)
        PROVE  LoopTypeOK'
    BY <1>0, <1>3, <1>6, <2>1, <2>2, FinishRaisedTypes
  <2>3. ASSUME NEW from, NEW err \in Err, Finish(from, err, FALSE)
        PROVE  LoopTypeOK'
    BY <1>0, <1>3, <1>6, <2>3, FinishTypes
  <2> QED
    BY <1>0, <1>1, <2>1, <2>2, <2>3, RaisedErrorsType
<1>8. QueueTypeOK'
  <2>1. /\ steered' = steered /\ followed' = followed /\ sets' = sets
        /\ injected' \in {injected, injected + 1} /\ resumed' \in {resumed, resumed + 1}
        /\ pending' \in {pending, 0}
    BY DEF Ending, LoadFails, RequestFails, StreamFails, FailTruncatedAppendFails,
       ToolsCancelled, PersistResultFails, FlushFails, EndAfterTurn, InjectSteerFails,
       InjectFollowUpFails, EndCancelled, EndNaturally, RespondAppendFails, queueVars
  <2> QED
    BY <1>2, <1>6, <2>1 DEF QueueTypeOK
<1> QED
  BY <1>6, <1>7, <1>8

(* The steps of the loop goroutine that go on, within a turn or to the next *)
(* one.                                                                     *)
GoingOn ==
  \/ LoadTranscript \/ BeginTurn \/ SendRequest \/ FailTruncated
  \/ BeginTools \/ Prepare \/ LaunchBatch \/ BatchReturns \/ BeginShutdown
  \/ CollectTerminated \/ BeginCollect \/ PersistResult \/ EndCollect
  \/ Flush \/ GoOnAfterTurn \/ InjectSteer \/ NoSteer \/ AutoContinue
  \/ InjectFollowUp
  \/ \E text \in BOOLEAN, n \in 0 .. MaxCalls, stop \in {"end", "length"} :
       Respond(text, n, stop)

LEMMA GoingOnTypes ==
  ASSUME LoopInv, GoingOn
  PROVE  LoopTypeOK' /\ QueueTypeOK' /\ transcript' \in Seq(Entry)
<1> USE DEF LoopInv, LoopTypeOK, QueueTypeOK, Goto, closingVars, queueVars, logVars
<1>1. CASE LoadTranscript
  BY <1>1 DEF LoadTranscript, PC
<1>2. CASE BeginTurn
  BY <1>2 DEF BeginTurn, PC, Phase
<1>3. CASE SendRequest
  BY <1>3 DEF SendRequest, PC
<1>4. CASE FailTruncated
  <2>1. transcript' \in Seq(Entry) /\ known' \in Nat /\ failures' = failures
    BY <1>4, UptoType, AppendAllType DEF FailTruncated
  <2> QED
    BY <1>4, <2>1 DEF FailTruncated, PC
<1>5. CASE BeginTools
  BY <1>5 DEF BeginTools, PC, Phase
<1>6. CASE Prepare
  BY <1>6 DEF Prepare, PC, Call
<1>7. CASE LaunchBatch
  BY <1>7 DEF LaunchBatch, PC
<1>8. CASE BatchReturns \/ BeginShutdown
  <2>1. CASE BatchReturns
    BY <2>1 DEF BatchReturns, PC
  <2>2. CASE BeginShutdown
    BY <2>2 DEF BeginShutdown, PC, Phase
  <2> QED
    BY <1>8, <2>1, <2>2
<1>9. CASE CollectTerminated \/ BeginCollect
  <2>1. CASE CollectTerminated
    BY <2>1 DEF CollectTerminated, PC
  <2>2. CASE BeginCollect
    BY <2>2 DEF BeginCollect, PC
  <2> QED
    BY <1>9, <2>1, <2>2
<1>10. CASE PersistResult
  <2>1. next \in Call
    BY <1>10 DEF PersistResult, Call
  <2>2. <<CallMsg("tool_result", next)>> \in Seq(Entry)
    BY <2>1, MsgType, SingleMsgType
  <2>3. transcript' \in Seq(Entry) /\ known' \in Nat /\ failures' = failures
    BY <1>10, <2>2, AppendAllType DEF PersistResult
  <2> QED
    BY <1>10, <2>1, <2>3 DEF PersistResult, PC, Call
<1>11. CASE EndCollect
  BY <1>11 DEF EndCollect, PC
<1>12. CASE Flush
  <2>1. transcript' \in Seq(Entry) /\ known' \in Nat /\ failures' = failures
    BY <1>12, ActiveToolsEntriesType, AppendAllType DEF Flush
  <2> QED
    BY <1>12, <2>1 DEF Flush, PC
<1>13. CASE GoOnAfterTurn \/ NoSteer \/ AutoContinue
  <2>1. CASE GoOnAfterTurn
    BY <2>1 DEF GoOnAfterTurn, PC
  <2>2. CASE NoSteer
    BY <2>2 DEF NoSteer, PC
  <2>3. CASE AutoContinue
    BY <2>3 DEF AutoContinue, PC
  <2> QED
    BY <1>13, <2>1, <2>2, <2>3
<1>14. CASE InjectSteer \/ InjectFollowUp
  <2>1. transcript' \in Seq(Entry) /\ known' \in Nat /\ failures' = failures
    BY <1>14, MsgType, SingleMsgType, AppendAllType DEF InjectSteer, InjectFollowUp
  <2>2. CASE InjectSteer
    BY <2>1, <2>2 DEF InjectSteer, PC
  <2>3. CASE InjectFollowUp
    BY <2>1, <2>3 DEF InjectFollowUp, PC
  <2> QED
    BY <1>14, <2>2, <2>3
<1>15. ASSUME NEW text \in BOOLEAN, NEW n \in 0 .. MaxCalls,
              NEW stop \in {"end", "length"}, Respond(text, n, stop)
       PROVE  LoopTypeOK' /\ QueueTypeOK' /\ transcript' \in Seq(Entry)
  <2>1. transcript' \in Seq(Entry) /\ known' \in Nat /\ failures' = failures
    BY <1>15, TurnMessagesType, AppendAllType DEF Respond
  <2>2. CASE n = 0
    BY <1>15, <2>1, <2>2 DEF Respond, PC
  <2>3. CASE n > 0 /\ stop = "length"
    BY <1>15, <2>1, <2>3 DEF Respond, PC
  <2>4. CASE n > 0 /\ stop # "length"
    BY <1>15, <2>1, <2>4 DEF Respond, PC
  <2> QED
    BY <2>2, <2>3, <2>4
<1> QED
  BY <1>1, <1>2, <1>3, <1>4, <1>5, <1>6, <1>7, <1>8, <1>9, <1>10, <1>11, <1>12,
     <1>13, <1>14, <1>15 DEF GoingOn

(* The steps that end the prompt without finish's arguments, and the        *)
(* deferred calls.                                                          *)
Exits ==
  \/ BeginTurnCancelled \/ LeakBatch
  \/ ReleaseSlot \/ FinalFlush \/ CloseDone \/ CloseEvents \/ CancelContext

LEMMA ExitTypes ==
  ASSUME LoopInv, Exits
  PROVE  LoopTypeOK' /\ QueueTypeOK' /\ transcript' \in Seq(Entry)
<1> USE DEF LoopInv, LoopTypeOK, QueueTypeOK, closingVars, queueVars, logVars,
            outcomeVars, Exiting
<1>1. CASE BeginTurnCancelled \/ LeakBatch
  <2>1. cause \in Err
    BY <1>1, RaisedErrorsType DEF BeginTurnCancelled, LeakBatch, CausePhase
  <2>2. result' \in PromptResult
    <3>1. known' \in Nat /\ suspended \in BOOLEAN
      BY <1>1 DEF BeginTurnCancelled, LeakBatch
    <3>2. result' = [err |-> cause, raised |-> FALSE, suspended |-> suspended,
                     messages |-> known']
      BY <1>1, Zenon DEF BeginTurnCancelled, LeakBatch, Conclusion
    <3> QED
      BY <2>1, <3>1, <3>2 DEF PromptResult
  <2>3. CASE BeginTurnCancelled
    <3>1. /\ pc' = "release" /\ phase' = "done" /\ turn' = turn + 1
          /\ UNCHANGED <<batchVars, queueVars, logVars, cause, calls, next, immediate,
                         terminated, suspended, leaked, abandoned, closingVars,
                         lateRequests>>
      BY <2>3 DEF BeginTurnCancelled
    <3> QED
      BY <2>2, <3>1 DEF PC, Phase
  <2>4. CASE LeakBatch
    <3>1. leaked' \subseteq Call /\ abandoned' \in BOOLEAN
      BY <2>4 DEF LeakBatch, Call
    <3> QED
      BY <2>2, <2>4, <3>1 DEF LeakBatch, PC, Phase
  <2> QED
    BY <1>1, <2>3, <2>4
<1>2. CASE ReleaseSlot
  BY <1>2 DEF ReleaseSlot, PC
<1>3. CASE FinalFlush
  <2>1. transcript' \in Seq(Entry) /\ known' \in Nat /\ failures' \in Nat
    BY <1>3, ActiveToolsEntriesType, AppendAllType, AppendFailsType DEF FinalFlush
  <2> QED
    BY <1>3, <2>1 DEF FinalFlush, PC
<1>4. CASE CloseDone \/ CloseEvents
  BY <1>4 DEF CloseDone, CloseEvents, PC
<1>5. CASE CancelContext
  BY <1>5 DEF CancelContext, PC, Cause
<1> QED
  BY <1>1, <1>2, <1>3, <1>4, <1>5 DEF Exits

(* The loop goroutine touches the batch only where it launches or discards  *)
(* one, and no goroutine of a batch is left then.                           *)
LEMMA LoopBatch ==
  ASSUME LoopInv, GoingOn \/ Ending \/ Exits
  PROVE  BatchInv'
<1>1. CASE LaunchBatch
  <2>1. WaitGroupDrained
    BY <1>1 DEF LaunchBatch, Goto, LoopInv, BatchPhase, BatchPC, ExitPC,
       WaitGroupDrained
  <2> QED
    BY <1>1, <2>1, LaunchInv DEF LaunchBatch, LoopInv
<1>2. CASE CollectTerminated \/ EndCollect \/ PersistResultFails
  <2>1. WaitGroupDrained
    BY <1>2 DEF CollectTerminated, EndCollect, PersistResultFails, Goto,
       FinishRaised, Finish, LoopInv, BatchPhase
  <2> QED
    BY <1>2, <2>1, DiscardInv DEF CollectTerminated, EndCollect,
       PersistResultFails, LoopInv
<1>3. CASE UNCHANGED batchVars
  BY <1>3, BatchUnchanged DEF LoopInv
<1>4. \/ LaunchBatch \/ CollectTerminated \/ EndCollect \/ PersistResultFails
      \/ UNCHANGED batchVars
  <2>1. CASE GoingOn
    BY <2>1, Zenon DEF GoingOn, LoadTranscript, BeginTurn, SendRequest,
       FailTruncated, BeginTools, Prepare, BatchReturns, BeginShutdown,
       BeginCollect, PersistResult, Flush, GoOnAfterTurn, InjectSteer, NoSteer,
       AutoContinue, InjectFollowUp, Respond
  <2>2. CASE Ending
    BY <2>2, Zenon DEF Ending, LoadFails, RequestFails, StreamFails,
       FailTruncatedAppendFails, ToolsCancelled, FlushFails, EndAfterTurn,
       InjectSteerFails, InjectFollowUpFails, EndCancelled, EndNaturally,
       RespondAppendFails
  <2>3. CASE Exits
    BY <2>3, Zenon DEF Exits, BeginTurnCancelled, LeakBatch, ReleaseSlot,
       FinalFlush, CloseDone, CloseEvents, CancelContext, Exiting
  <2> QED
    BY <2>1, <2>2, <2>3
<1> QED
  BY <1>1, <1>2, <1>3, <1>4

(* Where a batch may be alive, and which causes go with which places, after *)
(* a step of the loop goroutine.                                            *)
LEMMA GoingOnPhase ==
  ASSUME LoopInv, GoingOn
  PROVE  BatchPhase' /\ CausePhase'
<1> USE DEF LoopInv, Goto, BatchPhase, CausePhase, BatchPC, ExitPC
<1>1. CASE LaunchBatch
  BY <1>1 DEF LaunchBatch
<1>2. CASE CollectTerminated \/ EndCollect
  BY <1>2 DEF CollectTerminated, EndCollect, Discard
<1>3. CASE BatchReturns
  BY <1>3 DEF BatchReturns, batchVars, WaitGroupDrained
<1>4. CASE BeginShutdown
  BY <1>4 DEF BeginShutdown, batchVars
<1>5. CASE BeginCollect \/ PersistResult
  BY <1>5 DEF BeginCollect, PersistResult, batchVars, WaitGroupDrained
<1>6. ASSUME \/ LoadTranscript \/ BeginTurn \/ SendRequest \/ FailTruncated
             \/ BeginTools \/ Prepare \/ Flush \/ GoOnAfterTurn \/ InjectSteer
             \/ NoSteer \/ AutoContinue \/ InjectFollowUp
             \/ \E text \in BOOLEAN, n \in 0 .. MaxCalls, stop \in {"end", "length"} :
                  Respond(text, n, stop)
      PROVE  BatchPhase' /\ CausePhase'
  <2>1. /\ pc \notin BatchPC \cup ExitPC
        /\ pc' \notin BatchPC \cup ExitPC
        /\ UNCHANGED <<task, abandoned, cause>>
    BY <1>6 DEF LoadTranscript, BeginTurn, SendRequest, FailTruncated,
       BeginTools, Prepare, Flush, GoOnAfterTurn, InjectSteer, NoSteer,
       AutoContinue, InjectFollowUp, Respond, batchVars
  <2> QED
    BY <2>1
<1> QED
  BY <1>1, <1>2, <1>3, <1>4, <1>5, <1>6 DEF GoingOn

LEMMA EndingPhase ==
  ASSUME LoopInv, Ending \/ Exits
  PROVE  BatchPhase' /\ CausePhase'
<1> USE DEF LoopInv, BatchPhase, CausePhase, BatchPC, ExitPC
<1>1. CASE PersistResultFails
  BY <1>1 DEF PersistResultFails, FinishRaised, Finish, Discard
<1>2. CASE LeakBatch
  BY <1>2 DEF LeakBatch
<1>3. CASE Ending /\ ~ PersistResultFails
  <2>1. /\ pc \notin BatchPC \cup ExitPC /\ pc' = "release"
        /\ UNCHANGED <<task, abandoned, cause>>
    BY <1>3 DEF Ending, LoadFails, RequestFails, StreamFails,
       FailTruncatedAppendFails, ToolsCancelled, FlushFails, EndAfterTurn,
       InjectSteerFails, InjectFollowUpFails, EndCancelled, EndNaturally,
       RespondAppendFails, FinishRaised, Finish, batchVars
  <2> QED
    BY <2>1
<1>4. CASE Exits /\ ~ LeakBatch
  <2>1. /\ pc \notin BatchPC /\ pc' \in ExitPC
        /\ UNCHANGED <<task, abandoned>>
        /\ cause' = cause \/ pc' = "exited"
        /\ pc # "exited"
    BY <1>4 DEF Exits, BeginTurnCancelled, ReleaseSlot, FinalFlush, CloseDone,
       CloseEvents, CancelContext, Exiting, batchVars, outcomeVars
  <2> QED
    BY <2>1
<1> QED
  BY <1>1, <1>2, <1>3, <1>4

(* The goroutines of the batch keep the correspondence of tokens and        *)
(* holders, and a batch that was not given up has them only while the loop  *)
(* waits.                                                                   *)
Tools ==
  \/ \E i \in Call : ToolReturns(i) \/ ToolStep(i)
  \/ ToolUpdate \/ EmitEnds

LEMMA ToolsFrame ==
  ASSUME Tools
  PROVE  UNCHANGED <<cause, queueVars, controlVars, outcomeVars, closingVars,
                     logVars, lateRequests>>
  BY Zenon DEF Tools, ToolReturns, ToolStep, ToolUpdate, EmitEnds, Others

(* What such a step is, for a call i of the batch.                          *)
ToolMoves(i) ==
  \/ \E o \in Returned : Complete(i, o)
  \/ Acquire(i) \/ BeginReport(i, eventsClosed) \/ EndReport(i) \/ Exit(i)

LEMMA ToolsCases ==
  ASSUME Tools
  PROVE  (\E i \in Call : ToolMoves(i)) \/ BeginUpdate(eventsClosed) \/ EndUpdate
  BY Zenon DEF Tools, ToolReturns, ToolStep, ToolUpdate, EmitEnds, ToolMoves

LEMMA ToolsInv ==
  ASSUME LoopInv, Tools
  PROVE  LoopInv'
<1> USE DEF LoopInv
<1>1. UNCHANGED <<cause, queueVars, controlVars, outcomeVars, closingVars,
                  logVars, lateRequests>>
  BY ToolsFrame
<1>2. LoopTypeOK' /\ QueueTypeOK' /\ transcript' \in Seq(Entry) /\ CausePhase'
  BY <1>1 DEF LoopTypeOK, QueueTypeOK, CausePhase, queueVars, controlVars,
     outcomeVars, closingVars, logVars
<1>3. CASE \E i \in Call : ToolMoves(i)
  <2>1. PICK i \in Call : ToolMoves(i)
    BY <1>3
  <2>2. BatchInv'
    BY <2>1, CompleteInv, AcquireInv, ReportInv, ExitInv DEF ToolMoves
  <2>3. task[i] \notin {"idle", "done"}
    BY <2>1 DEF ToolMoves, Complete, Acquire, BeginReport, EndReport, Exit
  <2>4. pc \notin {"collect", "persist"} /\ (pc \in BatchPC \/ abandoned)
    BY <2>3 DEF BatchPhase, WaitGroupDrained
  <2>5. BatchPhase'
    BY <1>1, <2>4 DEF BatchPhase, controlVars, outcomeVars
  <2> QED
    BY <1>2, <2>2, <2>5
<1>4. CASE BeginUpdate(eventsClosed) \/ EndUpdate
  <2>1. BatchInv'
    BY <1>4, UpdateInv
  <2>2. task' = task
    BY <1>4 DEF BeginUpdate, EndUpdate
  <2>3. BatchPhase'
    BY <1>1, <2>2 DEF BatchPhase, WaitGroupDrained, controlVars, outcomeVars
  <2> QED
    BY <1>2, <2>1, <2>3
<1> QED
  BY <1>3, <1>4, ToolsCases

(* Stop, the caller's context, Steer, FollowUp and SetActiveTools.          *)
Calls == \/ \E c \in Causes : Cancel(c)
         \/ Steer \/ FollowUp \/ SetActiveTools

LEMMA CallsInv ==
  ASSUME LoopInv, Calls
  PROVE  LoopInv'
<1> USE DEF LoopInv
<1>1. UNCHANGED <<batchVars, controlVars, outcomeVars, closingVars, logVars,
                  lateRequests>>
  BY DEF Calls, Cancel, Steer, FollowUp, SetActiveTools, Others
<1>2. cause' = cause \/ (cause = "none" /\ cause' \in Cancellation)
  <2>1. ASSUME NEW c \in Causes, Cancel(c)
        PROVE  cause = "none" /\ cause' \in Cancellation
    BY <2>1, LoopAssumption DEF Cancel, Cancellation
  <2>2. ASSUME Steer \/ FollowUp \/ SetActiveTools
        PROVE  cause' = cause
    BY <2>2 DEF Steer, FollowUp, SetActiveTools
  <2> QED
    BY <2>1, <2>2 DEF Calls
<1>3. BatchInv'
  BY <1>1, BatchUnchanged
<1>4. LoopTypeOK' /\ transcript' \in Seq(Entry)
  BY <1>1, <1>2 DEF LoopTypeOK, controlVars, outcomeVars, closingVars, logVars,
     Cause
<1>5. QueueTypeOK'
  BY <1>1 DEF Calls, Cancel, Steer, FollowUp, SetActiveTools, QueueTypeOK,
     queueVars, logVars
<1>6. BatchPhase' /\ CausePhase'
  BY <1>1, <1>2 DEF BatchPhase, CausePhase, WaitGroupDrained, batchVars,
     controlVars, outcomeVars, Cancellation
<1> QED
  BY <1>3, <1>4, <1>5, <1>6

(* Neither the tools nor the calls of other goroutines touch what the loop   *)
(* keeps.                                                                   *)
LEMMA QuietFrame ==
  ASSUME Tools \/ Calls \/ UNCHANGED vars
  PROVE  UNCHANGED <<controlVars, outcomeVars, closingVars, logVars, lateRequests>>
  BY ToolsFrame, Zenon DEF Calls, Cancel, Steer, FollowUp, SetActiveTools, Others, vars

LEMMA NextCases ==
  ASSUME [Next]_vars
  PROVE  GoingOn \/ Ending \/ Exits \/ Tools \/ Calls \/ UNCHANGED vars
<1>1. ASSUME LoopStep
      PROVE  GoingOn \/ Ending \/ Exits
  BY <1>1, Zenon DEF LoopStep, GoingOn, Ending, Exits
<1>2. ASSUME Answer
      PROVE  GoingOn \/ Ending
  <2>1. Texts \subseteq BOOLEAN
    BY LoopAssumption
  <2> QED
    BY <1>2, <2>1, Zenon DEF Answer, GoingOn, Ending
<1> QED
  BY <1>1, <1>2, Zenon DEF Next, Tools, Calls, Over

LEMMA LoopInvStep == LoopInv /\ [Next]_vars => LoopInv'
<1> SUFFICES ASSUME LoopInv, [Next]_vars
             PROVE  LoopInv'
  OBVIOUS
<1>1. CASE GoingOn
  BY <1>1, GoingOnTypes, LoopBatch, GoingOnPhase DEF LoopInv
<1>2. CASE Ending
  BY <1>2, EndingTypes, LoopBatch, EndingPhase DEF LoopInv
<1>3. CASE Exits
  BY <1>3, ExitTypes, LoopBatch, EndingPhase DEF LoopInv
<1>4. CASE UNCHANGED vars
  <2>1. BatchInv'
    BY <1>4, BatchUnchanged DEF LoopInv, vars
  <2>2. LoopTypeOK' /\ QueueTypeOK' /\ transcript' \in Seq(Entry)
    BY <1>4 DEF LoopInv, LoopTypeOK, QueueTypeOK, vars, controlVars, outcomeVars,
       closingVars, queueVars, logVars
  <2>3. BatchPhase' /\ CausePhase'
    BY <1>4 DEF LoopInv, BatchPhase, CausePhase, WaitGroupDrained, vars,
       batchVars, controlVars, outcomeVars
  <2> QED
    BY <2>1, <2>2, <2>3 DEF LoopInv
<1> QED
  BY <1>1, <1>2, <1>3, <1>4, ToolsInv, CallsInv, NextCases

(* Every variable of a prompt and of its tool batch keeps its range: no     *)
(* counter goes below zero, a finished prompt has a result of a proper      *)
(* kind, and the loop is never at a place the code does not have.           *)
THEOREM PromptTypeCorrect == Spec => []TypeOK
<1>1. LoopInv => TypeOK
  BY DEF LoopInv, BatchInv, TypeOK
<1> QED
  BY <1>1, LoopInitInv, LoopInvStep, PTL DEF Spec

(* No prompt ever runs more than MaxParallelTools tools at a time, however  *)
(* many its model asks for and whatever is cancelled, leaked or suspended   *)
(* (prompt.go:746-762).                                                     *)
THEOREM ToolsAreBounded == Spec => []ParallelismBounded
<1>1. LoopInv => ParallelismBounded
  BY BatchInvBounds DEF LoopInv
<1> QED
  BY <1>1, LoopInitInv, LoopInvStep, PTL DEF Spec

-----------------------------------------------------------------------------
(* What a prompt reports and persists: the error of its result, the requests *)
(* it makes after a cancellation, the events it sends, and what it appends   *)
(* to the session once its result is out.                                    *)

(* The lock behind it: a call that is being reported holds emitMu, no other *)
(* one is, and the channel is open as long as anyone holds emitMu.          *)
EmitInv ==
  /\ LoopInv
  /\ \A i \in Call : task[i] = "emitting" => emitMu = "end"
  /\ \A i, j \in Call : task[i] = "emitting" /\ task[j] = "emitting" => i = j
  /\ emitMu # "free" => ~ eventsClosed

LEMMA EmitInit == Init => EmitInv
  BY LoopInitInv DEF Init, BatchInit, EmitInv

(* What a step of the loop goroutine does to the locks and the channel.     *)
LEMMA LoopEmits ==
  ASSUME LoopInv, GoingOn \/ Ending \/ Exits
  PROVE  \/ /\ UNCHANGED <<emitMu, eventsClosed>>
            /\ UNCHANGED task \/ \A i \in Call : task'[i] \in {"idle", "queued"}
         \/ emitMu = "free" /\ UNCHANGED <<emitMu, task>>
<1>1. CASE LaunchBatch \/ CollectTerminated \/ EndCollect
  BY <1>1 DEF LaunchBatch, CollectTerminated, EndCollect, Launch, Discard, Goto,
     closingVars
<1>2. CASE PersistResultFails
  BY <1>2 DEF PersistResultFails, Discard, FinishRaised, Finish, closingVars
<1>3. CASE UNCHANGED <<batchVars, closingVars>>
  BY <1>3 DEF batchVars, emitVars, closingVars
<1>4. CASE GoingOn
  BY <1>1, <1>3, <1>4, Zenon DEF GoingOn, LoadTranscript, BeginTurn,
     SendRequest, FailTruncated, BeginTools, Prepare, BatchReturns,
     BeginShutdown, BeginCollect, PersistResult, Flush, GoOnAfterTurn,
     InjectSteer, NoSteer, AutoContinue, InjectFollowUp, Respond, Goto
<1>5. CASE Ending
  BY <1>2, <1>3, <1>5, Zenon DEF Ending, LoadFails, RequestFails, StreamFails,
     FailTruncatedAppendFails, ToolsCancelled, FlushFails, EndAfterTurn,
     InjectSteerFails, InjectFollowUpFails, EndCancelled, EndNaturally,
     RespondAppendFails, FinishRaised, Finish
<1>6. CASE Exits
  <2>1. CASE CloseEvents
    BY <2>1 DEF CloseEvents, Exiting, batchVars, emitVars
  <2>2. CASE BeginTurnCancelled \/ LeakBatch \/ CancelContext \/ FinalFlush
    BY <1>3, <2>2, Zenon DEF BeginTurnCancelled, LeakBatch, CancelContext,
       FinalFlush, Exiting
  <2>3. CASE ReleaseSlot \/ CloseDone
    BY <2>3 DEF ReleaseSlot, CloseDone, Exiting, batchVars, emitVars
  <2> QED
    BY <1>6, <2>1, <2>2, <2>3 DEF Exits
<1> QED
  BY <1>4, <1>5, <1>6

LEMMA EmitInvStep == EmitInv /\ [Next]_vars => EmitInv'
<1> SUFFICES ASSUME EmitInv, [Next]_vars
             PROVE  EmitInv'
  OBVIOUS
<1>0. LoopInv /\ LoopInv' /\ task \in [Call -> TaskState]
  BY LoopInvStep DEF EmitInv, LoopInv, BatchInv, BatchTypeOK
<1>1. CASE GoingOn \/ Ending \/ Exits
  <2>1. CASE /\ UNCHANGED <<emitMu, eventsClosed>>
             /\ UNCHANGED task \/ \A i \in Call : task'[i] \in {"idle", "queued"}
    BY <1>0, <2>1 DEF EmitInv
  <2>2. CASE emitMu = "free" /\ UNCHANGED <<emitMu, task>>
    BY <1>0, <2>2 DEF EmitInv
  <2> QED
    BY <1>0, <1>1, <2>1, <2>2, LoopEmits
<1>2. CASE Tools
  <2>1. eventsClosed' = eventsClosed
    BY <1>2, ToolsFrame DEF closingVars
  <2>2. ASSUME NEW i \in Call, ToolMoves(i)
        PROVE  EmitInv'
    <3>1. CASE BeginReport(i, eventsClosed)
      BY <1>0, <2>1, <3>1 DEF BeginReport, EmitInv
    <3>2. CASE EndReport(i)
      BY <1>0, <2>1, <3>2 DEF EndReport, EmitInv
    <3>3. CASE (\E o \in Returned : Complete(i, o)) \/ Acquire(i) \/ Exit(i)
      BY <1>0, <2>1, <3>3 DEF Complete, Acquire, Exit, EmitInv, emitVars
    <3> QED
      BY <2>2, <3>1, <3>2, <3>3 DEF ToolMoves
  <2>3. CASE BeginUpdate(eventsClosed) \/ EndUpdate
    BY <1>0, <2>1, <2>3 DEF BeginUpdate, EndUpdate, EmitInv
  <2> QED
    BY <1>2, <2>2, <2>3, ToolsCases
<1>3. CASE Calls \/ UNCHANGED vars
  <2>1. UNCHANGED <<batchVars, closingVars>>
    BY <1>3, Zenon DEF Calls, Cancel, Steer, FollowUp, SetActiveTools, Others, vars
  <2> QED
    BY <1>0, <2>1 DEF EmitInv, batchVars, emitVars, closingVars
<1> QED
  BY <1>1, <1>2, <1>3, NextCases

(* No goroutine sends on the closed channel, whichever tools were leaked    *)
(* and whenever they report: the one that found the channel open holds      *)
(* emitMu until its event is sent or dropped, and closeEvents waits for     *)
(* emitMu (prompt.go:155-182).                                              *)
THEOREM NoSendAfterClose == Spec => []NoSendOnClosedEvents
<1>1. EmitInv => NoSendOnClosedEvents
  BY DEF EmitInv, NoSendOnClosedEvents
<1> QED
  BY <1>1, EmitInit, EmitInvStep, PTL DEF Spec

-----------------------------------------------------------------------------
(* What a step appends to the transcript.                                   *)

Added == Len(transcript) + 1 .. Len(transcript')

LEMMA ConcatElements ==
  ASSUME transcript \in Seq(Entry), NEW new \in Seq(Entry),
         transcript' = transcript \o new
  PROVE  /\ transcript' \in Seq(Entry)
         /\ Len(transcript) <= Len(transcript')
         /\ \A p \in 1 .. Len(transcript) : transcript'[p] = transcript[p]
         /\ \A p \in Added : \E i \in 1 .. Len(new) : transcript'[p] = new[i]
  BY ConcatProperties, LenProperties DEF Added

LEMMA AppendGrows ==
  ASSUME transcript \in Seq(Entry), NEW msgs \in Seq(Entry),
         AppendAll(msgs) \/ AppendFails(msgs)
  PROVE  /\ transcript' \in Seq(Entry)
         /\ Len(transcript) <= Len(transcript')
         /\ \A p \in 1 .. Len(transcript) : transcript'[p] = transcript[p]
         /\ \A p \in Added : \E i \in 1 .. Len(msgs) : transcript'[p] = msgs[i]
<1>1. CASE AppendAll(msgs)
  BY <1>1, ConcatElements DEF AppendAll
<1>2. CASE AppendFails(msgs)
  <2>1. PICK n \in 0 .. Len(msgs) :
          /\ transcript' = transcript \o SubSeq(msgs, 1, n)
          /\ SubSeq(msgs, 1, n) \in Seq(Entry) /\ Len(SubSeq(msgs, 1, n)) = n
          /\ \A i \in 1 .. n : SubSeq(msgs, 1, n)[i] = msgs[i]
    BY <1>2, AppendFailsLeaves
  <2>2. 1 .. n \subseteq 1 .. Len(msgs)
    BY <2>1, LenProperties
  <2>3. \A p \in Added : \E i \in 1 .. n : transcript'[p] = SubSeq(msgs, 1, n)[i]
    BY <2>1, ConcatElements
  <2>4. \A p \in Added : \E i \in 1 .. Len(msgs) : transcript'[p] = msgs[i]
    BY <2>1, <2>2, <2>3
  <2> QED
    BY <2>1, <2>4, ConcatElements
<1> QED
  BY <1>1, <1>2

(* Every appended entry carries the current turn; which kinds may appear    *)
(* depends on where the loop is.                                            *)
MayAppend(e) ==
  /\ e.turn = turn
  /\ e.type = "tool_call" => pc = "stream"
  /\ e.type = "tool_result" => pc \in {"truncated", "persist"}
  /\ pc = "persist" => e.call = next /\ next <= calls
  /\ pc \in ExitPC => e.type = "active_tools_change"

LEMMA UptoElements ==
  ASSUME NEW type, NEW n \in Nat
  PROVE  /\ Len(Upto(type, n)) = n
         /\ \A i \in 1 .. n : Upto(type, n)[i] = CallMsg(type, i)
  BY DEF Upto

LEMMA TurnMessagesElements ==
  ASSUME LoopTypeOK, NEW text \in BOOLEAN, NEW n \in 0 .. MaxCalls
  PROVE  \A i \in 1 .. Len(TurnMessages(text, n)) :
           /\ TurnMessages(text, n)[i].turn = turn
           /\ TurnMessages(text, n)[i].type \in {"text", "tool_call"}
<1>1. /\ Upto("tool_call", n) \in Seq(Entry) /\ <<>> \in Seq(Entry)
      /\ <<Msg("text")>> \in Seq(Entry)
  BY UptoType, MsgType, SingleMsgType, EmptySeq
<1>2. /\ Len(Upto("tool_call", n)) = n
      /\ \A i \in 1 .. n : Upto("tool_call", n)[i] = CallMsg("tool_call", i)
  BY UptoElements
<1>3. \A i \in 1 .. Len(Upto("tool_call", n)) :
        /\ Upto("tool_call", n)[i].turn = turn
        /\ Upto("tool_call", n)[i].type = "tool_call"
  <2>1. \A i \in 1 .. n : /\ CallMsg("tool_call", i).turn = turn
                         /\ CallMsg("tool_call", i).type = "tool_call"
    BY DEF CallMsg
  <2> QED
    BY <1>2, <2>1
<1>4. CASE text
  <2>1. TurnMessages(text, n) = <<Msg("text")>> \o Upto("tool_call", n)
    BY <1>4 DEF TurnMessages
  <2>2. /\ Len(<<Msg("text")>>) = 1 /\ <<Msg("text")>>[1] = Msg("text")
        /\ Msg("text").turn = turn /\ Msg("text").type = "text"
    BY DEF Msg
  <2>3. Len(Upto("tool_call", n)) \in Nat
    BY <1>2
  <2> HIDE DEF TurnMessages
  <2> QED
    BY <1>1, <1>3, <2>1, <2>2, <2>3, ConcatProperties
<1>5. CASE ~ text
  BY <1>1, <1>3, <1>5, ConcatEmptySeq DEF TurnMessages
<1> QED
  BY <1>4, <1>5

LEMMA TranscriptStep ==
  ASSUME LoopInv, [Next]_vars
  PROVE  /\ transcript' \in Seq(Entry)
         /\ Len(transcript) <= Len(transcript')
         /\ \A p \in 1 .. Len(transcript) : transcript'[p] = transcript[p]
         /\ \A p \in Added : MayAppend(transcript'[p])
<1> DEFINE Goal == /\ transcript' \in Seq(Entry)
                   /\ Len(transcript) <= Len(transcript')
                   /\ \A p \in 1 .. Len(transcript) : transcript'[p] = transcript[p]
                   /\ \A p \in Added : MayAppend(transcript'[p])
<1> SUFFICES Goal
  OBVIOUS
<1>0. /\ transcript \in Seq(Entry) /\ LoopTypeOK /\ QueueTypeOK
      /\ Len(transcript) \in Nat
      /\ calls \in 0 .. MaxCalls /\ next \in 1 .. MaxCalls + 1
  BY LenProperties DEF LoopInv, LoopTypeOK
<1>1. ASSUME UNCHANGED transcript
      PROVE  Goal
  BY <1>0, <1>1 DEF Added
<1>2. ASSUME NEW msgs \in Seq(Entry), AppendAll(msgs) \/ AppendFails(msgs),
             \A i \in 1 .. Len(msgs) : MayAppend(msgs[i])
      PROVE  Goal
  BY <1>0, <1>2, AppendGrows
<1> HIDE DEF Goal
<1>12. ASSUME NEW m \in Entry, AppendAll(<<m>>) \/ AppendFails(<<m>>), MayAppend(m)
      PROVE  Goal
  <2>1. \A i \in 1 .. Len(<<m>>) : <<m>>[i] = m
    OBVIOUS
  <2>2. \A i \in 1 .. Len(<<m>>) : MayAppend(<<m>>[i])
    BY <1>12, <2>1, Zenon
  <2> QED
    BY <1>2, <1>12, <2>2, SingleMsgType
<1>3. ASSUME NEW type, AppendAll(Upto(type, calls)) \/ AppendFails(Upto(type, calls)),
             pc = "truncated", type = "tool_result"
      PROVE  Goal
  <2>1. Upto(type, calls) \in Seq(Entry) /\ calls \in Nat
    BY <1>0, <1>3, UptoType DEF LoopTypeOK
  <2>2. \A i \in 1 .. calls : MayAppend(CallMsg(type, i))
    BY <1>3 DEF MayAppend, CallMsg, ExitPC
  <2> QED
    BY <1>2, <1>3, <2>1, <2>2, UptoElements
<1>4. ASSUME NEW text \in BOOLEAN, NEW n \in 0 .. MaxCalls, pc = "stream",
             AppendAll(TurnMessages(text, n)) \/ AppendFails(TurnMessages(text, n))
      PROVE  Goal
  <2>1. \A i \in 1 .. Len(TurnMessages(text, n)) : MayAppend(TurnMessages(text, n)[i])
    BY <1>0, <1>4, TurnMessagesElements DEF MayAppend, ExitPC
  <2> QED
    BY <1>0, <1>2, <1>4, <2>1, TurnMessagesType
<1>5. ASSUME pc \notin {"persist"},
             AppendAll(ActiveToolsEntries) \/ AppendFails(ActiveToolsEntries)
      PROVE  Goal
  <2>1. Len(ActiveToolsEntries) = pending
    BY <1>0 DEF ActiveToolsEntries, QueueTypeOK
  <2>2. \A i \in 1 .. pending : MayAppend(ActiveToolsEntries[i])
    BY <1>5 DEF ActiveToolsEntries, MayAppend, Msg
  <2> QED
    BY <1>0, <1>2, <1>5, <2>1, <2>2, ActiveToolsEntriesType
<1>6. ASSUME pc \notin ExitPC \cup {"persist"},
             AppendAll(<<Msg("user")>>) \/ AppendFails(<<Msg("user")>>)
      PROVE  Goal
  <2>1. MayAppend(Msg("user"))
    BY <1>6 DEF MayAppend, Msg
  <2>2. Msg("user") \in Entry
    BY <1>0, MsgType
  <2> QED
    BY <1>12, <1>6, <2>1, <2>2
<1>7. ASSUME pc = "persist", next <= calls,
             \/ AppendAll(<<CallMsg("tool_result", next)>>)
             \/ AppendFails(<<CallMsg("tool_result", next)>>)
      PROVE  Goal
  <2>1. MayAppend(CallMsg("tool_result", next))
    BY <1>7 DEF MayAppend, CallMsg, ExitPC
  <2>2. next \in Call
    <3>1. next <= calls
      BY <1>7
    <3> QED
      BY <1>0, <3>1 DEF Call
  <2>3. CallMsg("tool_result", next) \in Entry
    BY <1>0, <2>2, MsgType
  <2> QED
    BY <1>12, <1>7, <2>1, <2>3
<1>8. CASE GoingOn
  <2>1. CASE UNCHANGED logVars
    BY <1>1, <2>1 DEF logVars
  <2>2. CASE FailTruncated
    BY <1>3, <2>2 DEF FailTruncated, Goto
  <2>3. CASE PersistResult
    BY <1>1, <1>7, <2>3 DEF PersistResult, Goto, logVars
  <2>4. CASE Flush
    BY <1>5, <2>4 DEF Flush, Goto
  <2>5. CASE InjectSteer \/ InjectFollowUp
    BY <1>6, <2>5 DEF InjectSteer, InjectFollowUp, Goto, ExitPC
  <2>6. CASE \E text \in BOOLEAN, n \in 0 .. MaxCalls, stop \in {"end", "length"} :
               Respond(text, n, stop)
    BY <1>4, <2>6 DEF Respond, Goto
  <2> QED
    BY <1>8, <2>1, <2>2, <2>3, <2>4, <2>5, <2>6, Zenon DEF GoingOn,
       LoadTranscript, BeginTurn, SendRequest, BeginTools, Prepare, LaunchBatch,
       BatchReturns, BeginShutdown, CollectTerminated, BeginCollect, EndCollect,
       GoOnAfterTurn, NoSteer, AutoContinue
<1>9. CASE Ending
  <2>1. CASE UNCHANGED logVars
    BY <1>1, <2>1 DEF logVars
  <2>2. CASE FailTruncatedAppendFails
    BY <1>3, <2>2 DEF FailTruncatedAppendFails, FinishRaised, Finish
  <2>3. CASE PersistResultFails
    BY <1>7, <2>3 DEF PersistResultFails, FinishRaised, Finish
  <2>4. CASE FlushFails
    BY <1>5, <2>4 DEF FlushFails, FinishRaised, Finish
  <2>5. CASE InjectSteerFails \/ InjectFollowUpFails
    BY <1>6, <2>5 DEF InjectSteerFails, InjectFollowUpFails, FinishRaised, Finish,
       ExitPC
  <2>6. CASE \E text \in BOOLEAN, n \in 0 .. MaxCalls : RespondAppendFails(text, n)
    BY <1>4, <2>6 DEF RespondAppendFails, FinishRaised, Finish
  <2> QED
    BY <1>9, <2>1, <2>2, <2>3, <2>4, <2>5, <2>6, Zenon DEF Ending, LoadFails,
       RequestFails, StreamFails, ToolsCancelled, EndAfterTurn, EndCancelled,
       EndNaturally
<1>10. CASE Exits
  <2>1. CASE FinalFlush
    BY <1>5, <2>1 DEF FinalFlush, Exiting
  <2>2. CASE UNCHANGED logVars
    BY <1>1, <2>2 DEF logVars
  <2> QED
    BY <1>10, <2>1, <2>2, Zenon DEF Exits, BeginTurnCancelled, LeakBatch,
       ReleaseSlot, CloseDone, CloseEvents, CancelContext
<1>11. CASE Tools \/ Calls \/ UNCHANGED vars
  <2>1. UNCHANGED logVars
    BY <1>11, QuietFrame
  <2> QED
    BY <1>1, <2>1 DEF logVars
<1> QED
  BY <1>8, <1>9, <1>10, <1>11, NextCases

-----------------------------------------------------------------------------
(* How a prompt ends.                                                       *)

(* finish and its kin send the one result; no other step touches it.        *)
Concludes ==
  /\ pc \notin ExitPC /\ pc' = "release" /\ cause' = cause
  /\ result'.err \in Err
  /\ result'.err = "nil" \/ result'.raised \/ result'.err = cause
  /\ lateRequests' = lateRequests

LEMMA OutcomeStep ==
  ASSUME LoopInv, [Next]_vars
  PROVE  \/ Concludes
         \/ /\ result' = result
            /\ pc \in ExitPC <=> pc' \in ExitPC
            /\ cause' = cause \/ cause = "none"
<1> DEFINE Keeps == /\ result' = result
                    /\ pc \in ExitPC <=> pc' \in ExitPC
                    /\ cause' = cause \/ cause = "none"
<1> SUFFICES Concludes \/ Keeps
  OBVIOUS
<1>1. CASE GoingOn
  <2>1. \E from \in PC \ ExitPC, to \in PC \ ExitPC : Goto(from, to)
    <3>1. CASE BatchReturns
      BY <3>1 DEF BatchReturns, PC, ExitPC
    <3>2. CASE \E text \in BOOLEAN, n \in 0 .. MaxCalls, stop \in {"end", "length"} :
                 Respond(text, n, stop)
      <4>1. PICK text \in BOOLEAN, n \in 0 .. MaxCalls, stop \in {"end", "length"} :
                 Respond(text, n, stop)
        BY <3>2
      <4>2. \E to \in {"flush", "truncated", "execute"} : Goto("stream", to)
        BY <4>1 DEF Respond
      <4> QED
        BY <4>2 DEF PC, ExitPC
    <3> QED
      BY <1>1, <3>1, <3>2 DEF GoingOn, LoadTranscript, BeginTurn, SendRequest,
         FailTruncated, BeginTools, Prepare, LaunchBatch, BeginShutdown,
         CollectTerminated, BeginCollect, PersistResult, EndCollect, Flush,
         GoOnAfterTurn, InjectSteer, NoSteer, AutoContinue, InjectFollowUp, PC, ExitPC
  <2> QED
    BY <2>1 DEF Goto
<1>2. CASE Ending
  <2>1. \E from \in PC \ ExitPC :
          \/ FinishRaised(from)
          \/ Finish(from, "nil", FALSE)
          \/ cause # "none" /\ Finish(from, cause, FALSE)
    BY <1>2, EndingFinishes
  <2>2. LoopTypeOK /\ (pc # "exited" => cause # "idle")
    BY DEF LoopInv, CausePhase
  <2>3. \E from \in PC \ ExitPC, err \in Err, raised \in BOOLEAN :
          /\ Finish(from, err, raised)
          /\ err = "nil" \/ raised \/ err = cause
    <3>1. pc # "exited"
      BY <2>1 DEF FinishRaised, Finish, ExitPC
    <3>2. RaisedErrors \subseteq Err /\ (cause # "none" => cause \in Err) /\ "nil" \in Err
      BY <2>2, <3>1, RaisedErrorsType DEF Err
    <3> QED
      BY <2>1, <3>2 DEF FinishRaised
  <2> QED
    BY <2>3 DEF Finish, Conclusion, Concludes
<1>3. CASE Exits
  <2>1. CASE BeginTurnCancelled \/ LeakBatch
    <3>1. cause \in Err
      BY <2>1, RaisedErrorsType DEF BeginTurnCancelled, LeakBatch, LoopInv, CausePhase
    <3> QED
      BY <2>1, <3>1 DEF BeginTurnCancelled, LeakBatch, Conclusion, Concludes, ExitPC
  <2>2. CASE ReleaseSlot \/ FinalFlush \/ CloseDone \/ CloseEvents \/ CancelContext
    BY <2>2 DEF ReleaseSlot, FinalFlush, CloseDone, CloseEvents, CancelContext,
       Exiting, outcomeVars, ExitPC
  <2> QED
    BY <1>3, <2>1, <2>2 DEF Exits
<1>4. CASE Tools \/ Calls \/ UNCHANGED vars
  <2>1. UNCHANGED <<controlVars, outcomeVars>>
    BY <1>4, QuietFrame
  <2>2. cause' = cause \/ cause = "none"
    BY <1>4, ToolsFrame DEF Calls, Cancel, Steer, FollowUp, SetActiveTools, vars
  <2> QED
    BY <2>1, <2>2 DEF controlVars, outcomeVars
<1> QED
  BY <1>1, <1>2, <1>3, <1>4, NextCases

(* A step that makes a request on a cancelled context leaves the request    *)
(* phase, and only a live context enters it.                                *)
LEMMA LateStep ==
  ASSUME LoopInv, [Next]_vars
  PROVE  /\ pc' = "request" => pc = "request" \/ cause = "none"
         /\ \/ lateRequests' = lateRequests
            \/ /\ pc = "request" /\ pc' = "stream" /\ cause # "none"
               /\ cause' = cause /\ lateRequests' = lateRequests + 1
<1>1. CASE GoingOn
  <2>1. CASE BeginTurn
    BY <2>1 DEF BeginTurn, Goto
  <2>2. CASE SendRequest
    BY <2>2 DEF SendRequest, Goto
  <2>3. CASE BatchReturns
    BY <2>3 DEF BatchReturns, Goto
  <2>4. CASE \E text \in BOOLEAN, n \in 0 .. MaxCalls, stop \in {"end", "length"} :
               Respond(text, n, stop)
    <3>1. \E to \in {"flush", "truncated", "execute"} :
            Goto("stream", to) /\ lateRequests' = lateRequests
      BY <2>4 DEF Respond
    <3> QED
      BY <3>1 DEF Goto
  <2> QED
    BY <1>1, <2>1, <2>2, <2>3, <2>4 DEF GoingOn, LoadTranscript, FailTruncated,
       BeginTools, Prepare, LaunchBatch, BeginShutdown, CollectTerminated,
       BeginCollect, PersistResult, EndCollect, Flush, GoOnAfterTurn,
       InjectSteer, NoSteer, AutoContinue, InjectFollowUp, Goto
<1>2. CASE Ending
  BY <1>2, EndingFinishes DEF FinishRaised, Finish
<1>3. CASE Exits
  <2>1. CASE BeginTurnCancelled \/ LeakBatch
    BY <2>1 DEF BeginTurnCancelled, LeakBatch
  <2>2. CASE ReleaseSlot \/ FinalFlush \/ CloseDone \/ CloseEvents \/ CancelContext
    BY <2>2 DEF ReleaseSlot, FinalFlush, CloseDone, CloseEvents, CancelContext,
       Exiting
  <2> QED
    BY <1>3, <2>1, <2>2 DEF Exits
<1>4. CASE Tools \/ Calls \/ UNCHANGED vars
  <2>1. UNCHANGED <<controlVars, lateRequests>>
    BY <1>4, QuietFrame
  <2> QED
    BY <2>1 DEF controlVars
<1> QED
  BY <1>1, <1>2, <1>3, <1>4, NextCases

(* A result exists exactly from finish on; the context is cancelled and the *)
(* request is made when a late request is counted.                          *)
OutcomeInv ==
  /\ LoopInv
  /\ result # NoResult <=> pc \in ExitPC
  /\ ErrNamesTheCause
  /\ AtMostOneLateRequest
  /\ lateRequests > 0 => cause # "none" /\ pc # "request"

LEMMA OutcomeInit == Init => OutcomeInv
  BY LoopInitInv DEF Init, OutcomeInv, NoResult, ExitPC, ErrNamesTheCause,
     AtMostOneLateRequest

LEMMA OutcomeInvStep == OutcomeInv /\ [Next]_vars => OutcomeInv'
<1> SUFFICES ASSUME OutcomeInv, [Next]_vars
             PROVE  OutcomeInv'
  OBVIOUS
<1>1. LoopInv /\ LoopInv'
  BY LoopInvStep DEF OutcomeInv
<1>2. pc' = "release" => pc' \in ExitPC
  BY DEF ExitPC
<1>3. (result # NoResult <=> pc \in ExitPC)'
  <2>1. CASE Concludes
    <3>1. result'.err # "none"
      BY <2>1 DEF Concludes, Err, Cancellation
    <3> QED
      BY <1>2, <2>1, <3>1 DEF Concludes, NoResult
  <2> QED
    BY <1>1, <2>1, OutcomeStep DEF OutcomeInv
<1>4. ErrNamesTheCause'
  <2>1. CASE Concludes
    BY <2>1 DEF Concludes, ErrNamesTheCause
  <2>2. CASE result' = result /\ (cause' = cause \/ cause = "none")
    BY <2>2 DEF OutcomeInv, ErrNamesTheCause, CausePhase
  <2> QED
    BY <1>1, <2>1, <2>2, OutcomeStep
<1>5. lateRequests \in Nat
  BY <1>1 DEF LoopInv, QueueTypeOK
<1>6. cause # "none" => cause' = cause
  BY <1>1, OutcomeStep DEF Concludes
<1>7. /\ AtMostOneLateRequest'
      /\ (lateRequests > 0 => cause # "none" /\ pc # "request")'
  <2>1. CASE lateRequests' = lateRequests
    BY <1>1, <1>5, <1>6, <2>1, LateStep DEF OutcomeInv, AtMostOneLateRequest
  <2>2. CASE /\ pc = "request" /\ pc' = "stream" /\ cause # "none"
             /\ cause' = cause /\ lateRequests' = lateRequests + 1
    BY <1>5, <2>2 DEF OutcomeInv, AtMostOneLateRequest
  <2> QED
    BY <1>1, <2>1, <2>2, LateStep
<1> QED
  BY <1>1, <1>3, <1>4, <1>7 DEF OutcomeInv

(* The error of a result is one that a provider, a hook or the SessionRepo  *)
(* returned, or it names the first cause that cancelled the prompt          *)
(* (prompt.go:95, 105, 243-258, 359, 378, 396, 719-734, 794).               *)
THEOREM ErrorNamesCause == Spec => []ErrNamesTheCause
<1>1. OutcomeInv => ErrNamesTheCause
  BY DEF OutcomeInv
<1> QED
  BY <1>1, OutcomeInit, OutcomeInvStep, PTL DEF Spec

(* A cancelled prompt makes at most the one request that was already past   *)
(* the context check, over any number of turns (prompt.go:395-397).         *)
THEOREM OneLateRequest == Spec => []AtMostOneLateRequest
<1>1. OutcomeInv => AtMostOneLateRequest
  BY DEF OutcomeInv
<1> QED
  BY <1>1, OutcomeInit, OutcomeInvStep, PTL DEF Spec

(* After its result was sent a prompt appends active_tools_change entries   *)
(* only, late tool completions included (prompt.go:264-270, 790-795).       *)
THEOREM LogIsFinalAfterDone == Spec => OnlyBookkeepingAfterDone
<1>1. ASSUME OutcomeInv, [Next]_vars, result # NoResult,
             NEW p \in Len(transcript) + 1 .. Len(transcript')
      PROVE  transcript'[p].type = "active_tools_change"
  BY <1>1, TranscriptStep DEF OutcomeInv, Added, MayAppend
<1>2. OutcomeInv /\ [Next]_vars
        => [result # NoResult =>
              \A p \in Len(transcript) + 1 .. Len(transcript') :
                transcript'[p].type = "active_tools_change"]_vars
  BY <1>1
<1> QED
  BY <1>2, OutcomeInit, OutcomeInvStep, PTL DEF Spec, OnlyBookkeepingAfterDone

-----------------------------------------------------------------------------
(* What the transcript holds of a batch.                                    *)

BeforeResults == {"request", "stream", "truncated", "execute", "preflight",
                  "await", "shutdown", "collect"}

NoneThisTurn == \A q \in Positions : IsResult(q) => transcript[q].turn # turn

(* No result of a turn is persisted before its batch is collected.          *)
ResultInv ==
  /\ LoopInv
  /\ \A q \in Positions : transcript[q].turn <= turn
  /\ pc \in BeforeResults \/ abandoned => NoneThisTurn

LEMMA TurnStep ==
  ASSUME LoopInv, [Next]_vars
  PROVE  \/ turn' = turn + 1 /\ UNCHANGED transcript
         \/ /\ turn' = turn
            /\ pc' \in BeforeResults => pc \in BeforeResults
            /\ pc' \in BeforeResults /\ pc = "truncated" => UNCHANGED transcript
            /\ abandoned' => abandoned \/ (pc = "shutdown" /\ UNCHANGED transcript)
<1> DEFINE Same == /\ turn' = turn
                   /\ pc' \in BeforeResults => pc \in BeforeResults
                   /\ pc' \in BeforeResults /\ pc = "truncated" => UNCHANGED transcript
                   /\ abandoned' => abandoned \/ (pc = "shutdown" /\ UNCHANGED transcript)
<1> SUFFICES (turn' = turn + 1 /\ UNCHANGED transcript) \/ Same
  OBVIOUS
<1>1. CASE GoingOn
  <2>1. CASE BeginTurn
    BY <2>1 DEF BeginTurn, logVars
  <2>2. CASE SendRequest \/ BeginTools \/ Prepare \/ LaunchBatch \/ BeginShutdown
    BY <2>2 DEF SendRequest, BeginTools, Prepare, LaunchBatch, BeginShutdown, Goto,
       BeforeResults
  <2>3. CASE BatchReturns
    BY <2>3 DEF BatchReturns, Goto, BeforeResults
  <2>4. CASE \E text \in BOOLEAN, n \in 0 .. MaxCalls, stop \in {"end", "length"} :
               Respond(text, n, stop)
    <3>1. /\ pc = "stream"
          /\ UNCHANGED <<turn, abandoned>>
      BY <2>4 DEF Respond, Goto
    <3> QED
      BY <3>1 DEF BeforeResults
  <2>5. CASE \/ LoadTranscript \/ FailTruncated \/ CollectTerminated \/ BeginCollect
             \/ PersistResult \/ EndCollect \/ Flush \/ GoOnAfterTurn \/ InjectSteer
             \/ NoSteer \/ AutoContinue \/ InjectFollowUp
    <3>1. pc' \notin BeforeResults /\ UNCHANGED <<turn, abandoned>>
      BY <2>5 DEF LoadTranscript, FailTruncated, CollectTerminated, BeginCollect,
         PersistResult, EndCollect, Flush, GoOnAfterTurn, InjectSteer, NoSteer,
         AutoContinue, InjectFollowUp, Goto, BeforeResults
    <3> QED
      BY <3>1
  <2> QED
    BY <1>1, <2>1, <2>2, <2>3, <2>4, <2>5 DEF GoingOn
<1>2. CASE Ending
  <2>1. abandoned' = abandoned
    BY <1>2, Zenon DEF Ending, LoadFails, RequestFails, StreamFails,
       FailTruncatedAppendFails, ToolsCancelled, PersistResultFails, FlushFails,
       EndAfterTurn, InjectSteerFails, InjectFollowUpFails, EndCancelled,
       EndNaturally, RespondAppendFails
  <2>2. turn' = turn /\ pc' = "release"
    BY <1>2, EndingFinishes DEF FinishRaised, Finish
  <2> QED
    BY <2>1, <2>2 DEF BeforeResults
<1>3. CASE Exits
  <2>1. CASE BeginTurnCancelled
    BY <2>1 DEF BeginTurnCancelled, logVars
  <2>2. CASE LeakBatch
    BY <2>2 DEF LeakBatch, logVars, BeforeResults
  <2>3. CASE ReleaseSlot \/ FinalFlush \/ CloseDone \/ CloseEvents \/ CancelContext
    BY <2>3 DEF ReleaseSlot, FinalFlush, CloseDone, CloseEvents, CancelContext,
       Exiting, outcomeVars, BeforeResults
  <2> QED
    BY <1>3, <2>1, <2>2, <2>3 DEF Exits
<1>4. CASE Tools \/ Calls \/ UNCHANGED vars
  <2>1. UNCHANGED <<controlVars, outcomeVars, logVars>>
    BY <1>4, QuietFrame
  <2> QED
    BY <2>1 DEF controlVars, outcomeVars, logVars
<1> QED
  BY <1>1, <1>2, <1>3, <1>4, NextCases

LEMMA ResultInit == Init => ResultInv
  BY LoopInitInv DEF Init, ResultInv, Positions, NoneThisTurn, BeforeResults

LEMMA ResultInvStep == ResultInv /\ [Next]_vars => ResultInv'
<1> SUFFICES ASSUME ResultInv, [Next]_vars
             PROVE  ResultInv'
  OBVIOUS
<1>1. /\ LoopInv /\ LoopInv'
      /\ turn \in Nat
      /\ transcript \in Seq(Entry) /\ transcript' \in Seq(Entry)
      /\ Len(transcript) \in Nat /\ Len(transcript') \in Nat
      /\ Positions = 1 .. Len(transcript) /\ Positions' = 1 .. Len(transcript')
  BY LoopInvStep, LenProperties DEF ResultInv, LoopInv, LoopTypeOK, Positions
<1>2. \A q \in Positions : transcript[q].turn \in Nat
  <2>1. \A e \in Entry : e.turn \in Nat
    BY DEF Entry
  <2>2. \A q \in Positions : transcript[q] \in Entry
    BY <1>1, ElementOfSeq
  <2> QED
    BY <2>1, <2>2
<1>3. \A q \in Positions' :
        \/ q \in Positions /\ transcript'[q] = transcript[q]
        \/ q \in Added /\ MayAppend(transcript'[q])
  BY <1>1, TranscriptStep DEF Added
<1>4. CASE turn' = turn + 1 /\ UNCHANGED transcript
  <2>1. \A q \in Positions' : transcript'[q].turn <= turn
    BY <1>4 DEF ResultInv, Positions
  <2>2. \A q \in Positions' : transcript'[q].turn \in Nat
    BY <1>2, <1>4 DEF Positions
  <2>3. \A q \in Positions' : transcript'[q].turn < turn'
    BY <1>1, <1>4, <2>1, <2>2
  <2>4. \A q \in Positions' : transcript'[q].turn <= turn' /\ transcript'[q].turn # turn'
    BY <1>1, <1>4, <2>2, <2>3
  <2> QED
    BY <1>1, <2>4 DEF ResultInv, NoneThisTurn
<1>5. CASE /\ turn' = turn
           /\ pc' \in BeforeResults => pc \in BeforeResults
           /\ pc' \in BeforeResults /\ pc = "truncated" => UNCHANGED transcript
           /\ abandoned' => abandoned \/ (pc = "shutdown" /\ UNCHANGED transcript)
  <2>1. \A q \in Positions' : transcript'[q].turn <= turn'
    BY <1>1, <1>3, <1>5 DEF ResultInv, MayAppend
  <2>2. ASSUME pc' \in BeforeResults \/ abandoned'
        PROVE  NoneThisTurn'
    <3>0. abandoned => pc \in ExitPC
      BY <1>1 DEF LoopInv, BatchPhase
    <3>1. CASE UNCHANGED transcript
      <4>1. pc = "shutdown" => pc \in BeforeResults
        BY DEF BeforeResults
      <4>2. (pc' \in BeforeResults => pc \in BeforeResults)
              /\ (abandoned' => abandoned \/ pc = "shutdown")
        BY <1>5, Zenon
      <4>3. pc \in BeforeResults \/ abandoned
        BY <2>2, <4>1, <4>2, Zenon
      <4>4. NoneThisTurn
        BY <4>3 DEF ResultInv
      <4> QED
        BY <1>5, <3>1, <4>4 DEF NoneThisTurn, Positions, IsResult
    <3>2. CASE ~ UNCHANGED transcript
      <4>1. /\ pc \in BeforeResults \/ abandoned
            /\ pc \notin {"truncated", "persist"}
        <5>1. CASE pc' \in BeforeResults
          BY <1>5, <3>2, <5>1 DEF BeforeResults
        <5>2. CASE abandoned'
          <6>1. abandoned
            BY <1>5, <3>2, <5>2, Zenon
          <6>2. pc \in ExitPC
            BY <3>0, <6>1, Zenon
          <6>3. pc \notin {"truncated", "persist"}
            BY <6>2 DEF ExitPC
          <6> QED
            BY <6>1, <6>3, Zenon
        <5> QED
          BY <2>2, <5>1, <5>2
      <4>3. NoneThisTurn
        BY <4>1 DEF ResultInv
      <4>4. ASSUME NEW q \in Positions', IsResult(q)'
            PROVE  transcript'[q].turn # turn'
        <5>1. CASE q \in Positions /\ transcript'[q] = transcript[q]
          BY <1>5, <4>3, <4>4, <5>1 DEF NoneThisTurn, IsResult
        <5>2. CASE q \in Added /\ MayAppend(transcript'[q])
          BY <4>1, <4>4, <5>2 DEF MayAppend, IsResult
        <5> QED
          BY <1>3, <5>1, <5>2
      <4> QED
        BY <4>4 DEF NoneThisTurn
    <3> QED
      BY <3>1, <3>2
  <2> QED
    BY <1>1, <2>1, <2>2 DEF ResultInv
<1> QED
  BY <1>1, <1>4, <1>5, TurnStep

(* A batch that was given up after ShutdownTimeout persists nothing, at     *)
(* whatever time its goroutines finish (prompt.go:664-668, 790-795).        *)
THEOREM AbandonedIsDropped == Spec => []AbandonedPersistsNothing
<1>1. ResultInv => AbandonedPersistsNothing
  BY DEF ResultInv, NoneThisTurn, AbandonedPersistsNothing
<1> QED
  BY <1>1, ResultInit, ResultInvStep, PTL DEF Spec

(* While a batch is alive the events channel is open, every call has a      *)
(* goroutine or failed its preflight, and a goroutine past its emit has     *)
(* sent its ToolCallEndEvent or had it dropped.                             *)
AnnounceInv ==
  /\ LoopInv
  /\ eventsClosed => pc \in {"cancelCtx", "exited"}
  /\ pc \in BatchPC =>
       /\ \A i \in 1 .. calls : i \in immediate \/ task[i] # "idle"
       /\ \A i \in Call : task[i] \in {"reported", "done"} => i \in ended \cup dropped

LEMMA AnnounceInit == Init => AnnounceInv
  BY LoopInitInv DEF Init, AnnounceInv, BatchPC

LEMMA AnnounceInvStep == AnnounceInv /\ [Next]_vars => AnnounceInv'
<1> SUFFICES ASSUME AnnounceInv, [Next]_vars
             PROVE  AnnounceInv'
  OBVIOUS
<1> DEFINE Closing == eventsClosed => pc \in {"cancelCtx", "exited"}
           Batch == pc \in BatchPC =>
             /\ \A i \in 1 .. calls : i \in immediate \/ task[i] # "idle"
             /\ \A i \in Call :
                  task[i] \in {"reported", "done"} => i \in ended \cup dropped
<1> SUFFICES Closing' /\ Batch'
  BY LoopInvStep DEF AnnounceInv
<1>0. /\ LoopInv /\ Closing /\ Batch
      /\ calls \in 0 .. MaxCalls
  BY DEF AnnounceInv, LoopInv, LoopTypeOK
<1>1. CASE LaunchBatch
  <2>1. /\ pc = "preflight" /\ eventsClosed' = eventsClosed
        /\ calls' = calls /\ immediate' = immediate
        /\ \A i \in Call : task'[i] = IF i \in (1 .. calls) \ immediate THEN "queued" ELSE "idle"
    BY <1>1 DEF LaunchBatch, Goto, closingVars, Launch
  <2>2. 1 .. calls \subseteq Call
    BY <1>0 DEF Call
  <2> QED
    BY <1>0, <2>1, <2>2
<1>2. CASE BatchReturns \/ BeginShutdown \/ BeginCollect \/ PersistResult
  <2>1. /\ pc \in BatchPC /\ UNCHANGED <<batchVars, calls, immediate, closingVars>>
    BY <1>2 DEF BatchReturns, BeginShutdown, BeginCollect, PersistResult, Goto, BatchPC
  <2> QED
    BY <1>0, <2>1 DEF batchVars, emitVars, closingVars, BatchPC
<1>3. CASE /\ GoingOn
           /\ ~ (\/ LaunchBatch \/ BatchReturns \/ BeginShutdown
                 \/ BeginCollect \/ PersistResult)
  <2>1. /\ pc \notin {"cancelCtx", "exited"} /\ eventsClosed' = eventsClosed
        /\ pc' \notin BatchPC
    BY <1>3 DEF GoingOn, LoadTranscript, BeginTurn, SendRequest, FailTruncated,
       BeginTools, Prepare, CollectTerminated, EndCollect, Flush, GoOnAfterTurn,
       InjectSteer, NoSteer, AutoContinue, InjectFollowUp, Respond, Goto,
       closingVars, BatchPC
  <2> QED
    BY <1>0, <2>1
<1>4. CASE Ending
  <2>1. /\ pc \notin {"cancelCtx", "exited"} /\ eventsClosed' = eventsClosed
        /\ pc' = "release"
    BY <1>4, EndingFinishes DEF FinishRaised, Finish, ExitPC, closingVars
  <2> QED
    BY <1>0, <2>1 DEF BatchPC
<1>5. CASE Exits
  <2>1. pc' \notin BatchPC
    BY <1>5 DEF Exits, BeginTurnCancelled, LeakBatch, ReleaseSlot, FinalFlush,
       CloseDone, CloseEvents, CancelContext, Exiting, BatchPC
  <2>2. CASE CloseEvents
    BY <2>1, <2>2 DEF CloseEvents, Exiting
  <2>3. CASE CancelContext
    BY <2>1, <2>3 DEF CancelContext, Exiting
  <2>4. CASE BeginTurnCancelled \/ LeakBatch \/ ReleaseSlot \/ FinalFlush \/ CloseDone
    <3>1. pc \notin {"cancelCtx", "exited"} /\ eventsClosed' = eventsClosed
      BY <2>4 DEF BeginTurnCancelled, LeakBatch, ReleaseSlot, FinalFlush,
         CloseDone, Exiting, closingVars
    <3> QED
      BY <1>0, <2>1, <3>1
  <2> QED
    BY <1>5, <2>2, <2>3, <2>4 DEF Exits
<1>6. CASE Tools
  <2>1. UNCHANGED <<pc, calls, immediate, eventsClosed>>
    BY <1>6, ToolsFrame DEF controlVars, closingVars
  <2>2. pc \in BatchPC => ~ eventsClosed
    BY <1>0 DEF BatchPC
  <2>3. 1 .. calls \subseteq Call
    BY <1>0 DEF Call
  <2>4. ASSUME NEW i \in Call, ToolMoves(i)
        PROVE  Closing' /\ Batch'
    <3>1. /\ task'[i] # "idle" /\ ended \subseteq ended' /\ dropped \subseteq dropped'
          /\ \A j \in Call : j # i => task'[j] = task[j]
          /\ \/ task'[i] \notin {"reported", "done"}
             \/ task'[i] = "reported" /\ (eventsClosed \/ i \in ended' \cup dropped')
             \/ task'[i] = "done" /\ task[i] = "reported"
      BY <1>0, <2>4 DEF ToolMoves, Complete, Acquire, BeginReport, EndReport, Exit,
         emitVars, LoopInv, BatchInv, BatchTypeOK
    <3> QED
      BY <1>0, <2>1, <2>2, <2>3, <3>1
  <2>5. CASE BeginUpdate(eventsClosed) \/ EndUpdate
    <3>1. UNCHANGED <<task, ended, dropped>>
      BY <2>5 DEF BeginUpdate, EndUpdate
    <3> QED
      BY <1>0, <2>1, <3>1
  <2> QED
    BY <1>6, <2>4, <2>5, ToolsCases
<1>7. CASE Calls \/ UNCHANGED vars
  <2>1. UNCHANGED <<batchVars, controlVars, closingVars>>
    BY <1>7, Zenon DEF Calls, Cancel, Steer, FollowUp, SetActiveTools, Others, vars
  <2> QED
    BY <1>0, <2>1 DEF batchVars, emitVars, controlVars, closingVars
<1> QED
  BY <1>1, <1>2, <1>3, <1>4, <1>5, <1>6, <1>7, NextCases

(* Every result that reaches the session comes after its event: its         *)
(* ToolCallEndEvent was sent or given up on a full channel, or its call     *)
(* failed the preflight, which has an event of its own (prompt.go:155-171,  *)
(* 757-786, 819-839).                                                       *)
THEOREM ResultsAreAnnounced == Spec => EventPrecedesResult
<1>1. ASSUME AnnounceInv, [Next]_vars, pc = "persist",
             NEW p \in Len(transcript) + 1 .. Len(transcript')
      PROVE  transcript'[p].call \in ended \cup dropped \cup immediate
  <2>1. LoopInv
    BY <1>1 DEF AnnounceInv
  <2>2. transcript'[p].call = next /\ next <= calls
    BY <1>1, <2>1, TranscriptStep DEF Added, MayAppend
  <2>3. calls \in 0 .. MaxCalls /\ next \in 1 .. MaxCalls + 1
    BY <2>1 DEF LoopInv, LoopTypeOK
  <2>4. next \in 1 .. calls /\ next \in Call
    BY <2>2, <2>3 DEF Call
  <2>5. task[next] \in {"idle", "done"}
    BY <1>1, <2>1, <2>4 DEF LoopInv, BatchPhase, WaitGroupDrained
  <2> QED
    BY <1>1, <2>2, <2>4, <2>5 DEF AnnounceInv, BatchPC
<1>2. AnnounceInv /\ [Next]_vars
        => [pc = "persist" =>
              \A p \in Len(transcript) + 1 .. Len(transcript') :
                transcript'[p].call \in ended \cup dropped \cup immediate]_vars
  BY <1>1
<1> QED
  BY <1>2, AnnounceInit, AnnounceInvStep, PTL DEF Spec, EventPrecedesResult

-----------------------------------------------------------------------------
(* What the prompt knows of the session: all of it, until an Append fails   *)
(* after it wrote its record, and then all but that one.                    *)

LEMMA AppendKnown ==
  ASSUME transcript \in Seq(Entry), known \in Nat, NEW msgs \in Seq(Entry),
         AppendAll(msgs) \/ AppendFails(msgs)
  PROVE  /\ AppendAll(msgs) => known' - known = Len(transcript') - Len(transcript)
         /\ \/ known' - known = Len(transcript') - Len(transcript)
            \/ known' - known = Len(transcript') - Len(transcript) - 1
<1>0. Len(msgs) \in Nat /\ Len(transcript) \in Nat
  BY LenProperties
<1>1. CASE AppendAll(msgs)
  <2>1. Len(transcript') = Len(transcript) + Len(msgs) /\ known' = known + Len(msgs)
    BY <1>1, ConcatProperties DEF AppendAll
  <2> QED
    BY <1>0, <2>1
<1>2. CASE AppendFails(msgs) /\ ~ AppendAll(msgs)
  <2>1. PICK n \in 0 .. Len(msgs) :
          /\ transcript' = transcript \o SubSeq(msgs, 1, n)
          /\ SubSeq(msgs, 1, n) \in Seq(Entry) /\ Len(SubSeq(msgs, 1, n)) = n
          /\ known' = known + n \/ (n > 0 /\ known' = known + n - 1)
    BY <1>2, AppendFailsLeaves
  <2>2. Len(transcript') = Len(transcript) + n
    BY <2>1, ConcatProperties
  <2> QED
    BY <1>0, <1>2, <2>1, <2>2
<1> QED
  BY <1>1, <1>2

(* The prompt ends with the error of a provider, a hook or the repository.  *)
Fails == \E from \in PC \ ExitPC : FinishRaised(from)

LEMMA FailsWithError ==
  ASSUME LoopInv, Fails
  PROVE  result'.err \notin {"none", "nil"}
<1>1. "none" \notin RaisedErrors /\ "nil" \notin RaisedErrors
  BY LoopAssumption DEF RaisedErrors
<1> QED
  BY <1>1 DEF Fails, FinishRaised, Finish, Conclusion

LEMMA KnownStep ==
  ASSUME LoopInv, [Next]_vars, pc \notin ExitPC
  PROVE  \/ known' - known = Len(transcript') - Len(transcript)
         \/ Fails /\ known' - known = Len(transcript') - Len(transcript) - 1
<1> DEFINE Exact == known' - known = Len(transcript') - Len(transcript)
           Short == known' - known = Len(transcript') - Len(transcript) - 1
<1> SUFFICES Exact \/ (Fails /\ Short)
  OBVIOUS
<1>0. /\ transcript \in Seq(Entry) /\ known \in Nat /\ LoopTypeOK /\ QueueTypeOK
      /\ Len(transcript) \in Nat
      /\ calls \in 0 .. MaxCalls /\ next \in 1 .. MaxCalls + 1
  BY LenProperties DEF LoopInv, LoopTypeOK, QueueTypeOK
<1>1. ASSUME UNCHANGED logVars
      PROVE  Exact
  BY <1>0, <1>1 DEF logVars
<1>2. ASSUME NEW msgs \in Seq(Entry), AppendAll(msgs)
      PROVE  Exact
  BY <1>0, <1>2, AppendKnown
<1>3. ASSUME NEW msgs \in Seq(Entry), AppendFails(msgs)
      PROVE  Exact \/ Short
  BY <1>0, <1>3, AppendKnown
<1> HIDE DEF Exact, Short
<1>4. /\ Upto("tool_result", calls) \in Seq(Entry)
      /\ ActiveToolsEntries \in Seq(Entry)
      /\ <<Msg("user")>> \in Seq(Entry)
      /\ \A text \in BOOLEAN, n \in 0 .. MaxCalls : TurnMessages(text, n) \in Seq(Entry)
  BY <1>0, UptoType, ActiveToolsEntriesType, MsgType, SingleMsgType, TurnMessagesType
<1>5. next <= calls => <<CallMsg("tool_result", next)>> \in Seq(Entry)
  <2>1. next <= calls => next \in Call
    BY <1>0 DEF Call
  <2> QED
    BY <1>0, <2>1, MsgType, SingleMsgType
<1>6. CASE GoingOn
  <2>1. CASE FailTruncated
    BY <1>2, <1>4, <2>1 DEF FailTruncated
  <2>2. CASE PersistResult
    BY <1>1, <1>2, <1>5, <2>2 DEF PersistResult
  <2>3. CASE Flush
    BY <1>2, <1>4, <2>3 DEF Flush
  <2>4. CASE InjectSteer \/ InjectFollowUp
    BY <1>2, <1>4, <2>4 DEF InjectSteer, InjectFollowUp
  <2>5. CASE \E text \in BOOLEAN, n \in 0 .. MaxCalls, stop \in {"end", "length"} :
               Respond(text, n, stop)
    BY <1>2, <1>4, <2>5 DEF Respond
  <2> QED
    BY <1>1, <1>6, <2>1, <2>2, <2>3, <2>4, <2>5, Zenon DEF GoingOn,
       LoadTranscript, BeginTurn, SendRequest, BeginTools, Prepare, LaunchBatch,
       BatchReturns, BeginShutdown, CollectTerminated, BeginCollect, EndCollect,
       GoOnAfterTurn, NoSteer, AutoContinue
<1>7. CASE Ending
  <2>1. CASE FailTruncatedAppendFails
    BY <1>3, <1>4, <2>1 DEF FailTruncatedAppendFails, Fails, PC, ExitPC
  <2>2. CASE PersistResultFails
    BY <1>3, <1>5, <2>2 DEF PersistResultFails, Fails, PC, ExitPC
  <2>3. CASE FlushFails
    BY <1>3, <1>4, <2>3 DEF FlushFails, Fails, PC, ExitPC
  <2>4. CASE InjectSteerFails \/ InjectFollowUpFails
    BY <1>3, <1>4, <2>4 DEF InjectSteerFails, InjectFollowUpFails, Fails, PC, ExitPC
  <2>5. CASE \E text \in BOOLEAN, n \in 0 .. MaxCalls : RespondAppendFails(text, n)
    BY <1>3, <1>4, <2>5 DEF RespondAppendFails, Fails, PC, ExitPC
  <2> QED
    BY <1>1, <1>7, <2>1, <2>2, <2>3, <2>4, <2>5, Zenon DEF Ending, LoadFails,
       RequestFails, StreamFails, ToolsCancelled, EndAfterTurn, EndCancelled,
       EndNaturally
<1>8. CASE Exits
  <2>1. BeginTurnCancelled \/ LeakBatch
    BY <1>8 DEF Exits, ReleaseSlot, FinalFlush, CloseDone, CloseEvents,
       CancelContext, Exiting, ExitPC
  <2> QED
    BY <1>1, <2>1, Zenon DEF BeginTurnCancelled, LeakBatch
<1>9. CASE Tools \/ Calls \/ UNCHANGED vars
  BY <1>1, <1>9, QuietFrame
<1> QED
  BY <1>6, <1>7, <1>8, <1>9, NextCases

KnownInv == LoopInv /\ (pc \notin ExitPC => known = Len(transcript))

LEMMA KnownInit == Init => KnownInv
  BY LoopInitInv DEF Init, KnownInv

LEMMA KnownInvStep == KnownInv /\ [Next]_vars => KnownInv'
<1> SUFFICES ASSUME KnownInv, [Next]_vars, pc' \notin ExitPC
             PROVE  known' = Len(transcript')
  BY LoopInvStep DEF KnownInv
<1>1. LoopInv /\ known \in Nat /\ known' \in Nat /\ Len(transcript') \in Nat
  BY LoopInvStep, LenProperties DEF KnownInv, LoopInv, QueueTypeOK
<1>2. pc \notin ExitPC /\ ~ Fails
  BY <1>1, OutcomeStep DEF Concludes, Fails, FinishRaised, Finish, ExitPC
<1>3. known = Len(transcript)
  BY <1>2 DEF KnownInv
<1> QED
  BY <1>1, <1>2, <1>3, KnownStep

-----------------------------------------------------------------------------
(* The prompt implements the contract of its EventStream, step by step.     *)

DonePC == {"closeEvents", "cancelCtx", "exited"}
ClosedPC == {"cancelCtx", "exited"}

(* Each channel is closed from its deferred call on, Done first.            *)
ContractInv ==
  /\ OutcomeInv /\ KnownInv
  /\ doneClosed <=> pc \in DonePC
  /\ eventsClosed <=> pc \in ClosedPC

(* What a step does to what the holder of the stream can see.               *)
OpenStep ==
  /\ pc \notin ExitPC /\ pc' \notin ExitPC
  /\ UNCHANGED <<result, doneClosed, eventsClosed>>
  /\ cause' = cause \/ (cause = "none" /\ UNCHANGED transcript)

ConcludeStep ==
  /\ pc \notin ExitPC /\ pc' = "release"
  /\ UNCHANGED <<doneClosed, eventsClosed, cause>>
  /\ result'.err \in Err /\ result'.messages = known'

DeferredStep ==
  /\ UNCHANGED result
  /\ \/ /\ pc = "release" /\ pc' = "drain"
        /\ UNCHANGED <<doneClosed, eventsClosed, cause, transcript>>
     \/ /\ pc = "drain" /\ pc' = "closeDone"
        /\ UNCHANGED <<doneClosed, eventsClosed, cause>>
     \/ /\ pc = "closeDone" /\ pc' = "closeEvents" /\ doneClosed'
        /\ UNCHANGED <<eventsClosed, cause, transcript>>
     \/ /\ pc = "closeEvents" /\ pc' = "cancelCtx" /\ eventsClosed'
        /\ UNCHANGED <<doneClosed, cause, transcript>>
     \/ CancelContext

OutsideStep ==
  /\ UNCHANGED <<pc, result, doneClosed, eventsClosed, transcript>>
  /\ cause' = cause \/ cause = "none"

LEMMA StreamStep ==
  ASSUME LoopInv, [Next]_vars
  PROVE  OpenStep \/ ConcludeStep \/ DeferredStep \/ OutsideStep
<1>1. CASE GoingOn
  <2>1. \E from \in PC \ ExitPC, to \in PC \ ExitPC : Goto(from, to)
    <3>1. CASE BatchReturns
      BY <3>1 DEF BatchReturns, PC, ExitPC
    <3>2. CASE \E text \in BOOLEAN, n \in 0 .. MaxCalls, stop \in {"end", "length"} :
                 Respond(text, n, stop)
      <4>1. \E to \in {"flush", "truncated", "execute"} : Goto("stream", to)
        BY <3>2 DEF Respond
      <4> QED
        BY <4>1 DEF PC, ExitPC
    <3> QED
      BY <1>1, <3>1, <3>2 DEF GoingOn, LoadTranscript, BeginTurn, SendRequest,
         FailTruncated, BeginTools, Prepare, LaunchBatch, BeginShutdown,
         CollectTerminated, BeginCollect, PersistResult, EndCollect, Flush,
         GoOnAfterTurn, InjectSteer, NoSteer, AutoContinue, InjectFollowUp, PC, ExitPC
  <2> QED
    BY <2>1 DEF Goto, OpenStep, closingVars
<1>2. CASE Ending
  <2>1. \E from \in PC \ ExitPC : \E err, raised : Finish(from, err, raised)
    BY <1>2, EndingFinishes DEF FinishRaised
  <2>2. result'.err \in Err
    <3>1. pc \notin ExitPC
      BY <2>1 DEF Finish
    <3>2. pc' = "release"
      BY <2>1 DEF Finish
    <3> QED
      BY <3>1, <3>2, OutcomeStep DEF Concludes, ExitPC
  <2> QED
    BY <2>1, <2>2 DEF Finish, Conclusion, ConcludeStep, closingVars
<1>3. CASE Exits
  <2>1. CASE BeginTurnCancelled \/ LeakBatch
    <3>1. pc \notin ExitPC /\ pc' = "release"
      BY <2>1 DEF BeginTurnCancelled, LeakBatch, ExitPC
    <3>2. result'.err \in Err
      BY <3>1, OutcomeStep DEF Concludes, ExitPC
    <3> QED
      BY <2>1, <3>1, <3>2 DEF BeginTurnCancelled, LeakBatch, Conclusion,
         ConcludeStep, closingVars
  <2>3. CASE ReleaseSlot \/ FinalFlush \/ CloseDone \/ CloseEvents \/ CancelContext
    BY <2>3 DEF ReleaseSlot, FinalFlush, CloseDone, CloseEvents, CancelContext,
       Exiting, outcomeVars, closingVars, logVars, DeferredStep
  <2> QED
    BY <1>3, <2>1, <2>3 DEF Exits
<1>4. CASE Tools \/ Calls \/ UNCHANGED vars
  <2>1. UNCHANGED <<controlVars, outcomeVars, closingVars, logVars>>
    BY <1>4, QuietFrame
  <2>2. cause' = cause \/ cause = "none"
    BY <1>4, ToolsFrame DEF Calls, Cancel, Steer, FollowUp, SetActiveTools, vars
  <2> QED
    BY <2>1, <2>2 DEF controlVars, outcomeVars, closingVars, logVars, OutsideStep
<1> QED
  BY <1>1, <1>2, <1>3, <1>4, NextCases

LEMMA ContractInit == Init => ContractInv /\ Contract!Init
<1> SUFFICES ASSUME Init
             PROVE  ContractInv /\ Contract!Init
  OBVIOUS
<1>1. ContractInv
  BY OutcomeInit, KnownInit DEF Init, ContractInv, DonePC, ClosedPC
<1>2. Contract!Init
  BY DEF Init, Contract!Init, NoResult
<1> QED
  BY <1>1, <1>2

LEMMA ContractInvStep == ContractInv /\ [Next]_vars => ContractInv'
<1> SUFFICES ASSUME ContractInv, [Next]_vars
             PROVE  ContractInv'
  OBVIOUS
<1>1. LoopInv /\ OutcomeInv' /\ KnownInv'
  BY OutcomeInvStep, KnownInvStep DEF ContractInv, OutcomeInv
<1>2. (doneClosed <=> pc \in DonePC)' /\ (eventsClosed <=> pc \in ClosedPC)'
  <2>1. CASE OpenStep \/ ConcludeStep
    BY <2>1 DEF OpenStep, ConcludeStep, ContractInv, DonePC, ClosedPC, ExitPC
  <2>2. CASE DeferredStep
    BY <2>2 DEF DeferredStep, ContractInv, DonePC, ClosedPC, CancelContext,
       Exiting, closingVars
  <2>3. CASE OutsideStep
    BY <2>3 DEF OutsideStep, ContractInv, DonePC, ClosedPC
  <2> QED
    BY <1>1, <2>1, <2>2, <2>3, StreamStep
<1> QED
  BY <1>1, <1>2 DEF ContractInv

(* A transcript that grows has the one before as a prefix.                  *)
LEMMA GrowsByPrefix ==
  ASSUME LoopInv, [Next]_vars
  PROVE  /\ Contract!IsPrefix(transcript, transcript')
         /\ transcript' # transcript => Contract!IsStrictPrefix(transcript, transcript')
<1>1. /\ transcript \in Seq(Entry) /\ transcript' \in Seq(Entry)
      /\ Len(transcript) \in Nat /\ Len(transcript') \in Nat
      /\ Len(transcript) <= Len(transcript')
      /\ \A p \in 1 .. Len(transcript) : transcript'[p] = transcript[p]
  BY TranscriptStep, LenProperties DEF LoopInv
<1>2. SubSeq(transcript, 1, Len(transcript)) = SubSeq(transcript', 1, Len(transcript))
  BY <1>1
<1> QED
  BY <1>1, <1>2 DEF Contract!IsPrefix, Contract!IsStrictPrefix

(* The status the mapping reads off follows the loop's place.               *)
LEMMA StatusOfPC ==
  ASSUME ContractInv
  PROVE  /\ pc \in ClosedPC => eventsClosed /\ doneClosed /\ result # NoResult
         /\ pc = "closeEvents" => ~ eventsClosed /\ doneClosed /\ result # NoResult
         /\ pc \in {"release", "drain", "closeDone"} =>
              ~ eventsClosed /\ ~ doneClosed /\ result # NoResult
         /\ pc \notin ExitPC => ~ eventsClosed /\ ~ doneClosed /\ result = NoResult
  BY DEF ContractInv, OutcomeInv, DonePC, ClosedPC, ExitPC

LEMMA ContractStep ==
  ASSUME ContractInv, [Next]_vars
  PROVE  [Contract!Next]_(Contract!vars)
<1>0. LoopInv /\ OutcomeInv /\ ContractInv'
  BY ContractInvStep DEF ContractInv, OutcomeInv
<1>1. CASE OpenStep
  <2>1. /\ ~ eventsClosed /\ ~ doneClosed /\ result = NoResult
        /\ ~ eventsClosed' /\ ~ doneClosed' /\ result' = NoResult
    BY <1>1, StatusOfPC DEF OpenStep
  <2>2. CASE transcript' # transcript
    <3>1. cause' = cause
      BY <1>1, <2>2 DEF OpenStep
    <3>2. Contract!Extend
      BY <1>0, <2>1, <2>2, <3>1, GrowsByPrefix DEF Contract!Extend
    <3> QED
      BY <3>2 DEF Contract!Next
  <2>3. CASE transcript' = transcript /\ cause' = cause
    BY <2>1, <2>3 DEF Contract!vars
  <2>4. CASE transcript' = transcript /\ cause = "none" /\ cause' # cause
    <3>1. Contract!Cancel
      BY <2>1, <2>4 DEF Contract!Cancel
    <3> QED
      BY <3>1 DEF Contract!Next
  <2> QED
    BY <1>1, <2>2, <2>3, <2>4 DEF OpenStep
<1>2. CASE ConcludeStep
  <2>1. /\ ~ eventsClosed /\ ~ doneClosed /\ result = NoResult
        /\ ~ eventsClosed' /\ ~ doneClosed' /\ result' # NoResult
        /\ cause' = cause
    BY <1>2, StatusOfPC DEF ConcludeStep, NoResult, Err, Cancellation
  <2>2. \/ result'.messages = Len(transcript')
        \/ /\ result'.err \notin {"none", "nil"}
           /\ result'.messages = Len(transcript') - 1
    <3>1. pc \notin ExitPC /\ result'.messages = known'
      BY <1>2 DEF ConcludeStep
    <3>2. known = Len(transcript)
      BY <3>1 DEF ContractInv, KnownInv
    <3>3. /\ known \in Nat /\ known' \in Nat /\ Len(transcript') \in Nat
      BY <1>0, LenProperties DEF ContractInv, KnownInv, LoopInv, QueueTypeOK
    <3>4. known' = Len(transcript') \/ (Fails /\ known' = Len(transcript') - 1)
      BY <1>0, <3>1, <3>2, <3>3, KnownStep
    <3> QED
      BY <1>0, <3>1, <3>4, FailsWithError
  <2>3. Contract!IsPrefix(transcript, transcript')
    BY <1>0, GrowsByPrefix
  <2>4. Contract!Conclude
    BY <2>1, <2>2, <2>3 DEF Contract!Conclude
  <2> QED
    BY <2>4 DEF Contract!Next
<1>3. CASE DeferredStep
  <2>0. UNCHANGED result /\ pc \in ExitPC
    BY <1>3 DEF DeferredStep, CancelContext, Exiting, ExitPC
  <2>1. CASE /\ pc \in {"release", "drain"} /\ pc' \in {"drain", "closeDone"}
             /\ UNCHANGED <<doneClosed, eventsClosed, cause>>
    <3>1. /\ ~ eventsClosed /\ ~ doneClosed /\ result # NoResult
          /\ ~ eventsClosed' /\ ~ doneClosed' /\ result' # NoResult
      BY <2>0, <2>1, StatusOfPC
    <3>2. CASE transcript' = transcript
      BY <2>0, <2>1, <3>1, <3>2 DEF Contract!vars
    <3>3. CASE transcript' # transcript
      <4>1. \A i \in Len(transcript) + 1 .. Len(transcript') :
              EntryIsBookkeeping(transcript'[i])
        BY <1>0, <2>0, TranscriptStep DEF Added, MayAppend, EntryIsBookkeeping
      <4>2. Contract!Bookkeep
        BY <1>0, <2>0, <2>1, <3>1, <3>3, <4>1, GrowsByPrefix DEF Contract!Bookkeep
      <4> QED
        BY <4>2 DEF Contract!Next
    <3> QED
      BY <3>2, <3>3
  <2>2. CASE pc = "closeDone" /\ pc' = "closeEvents" /\ UNCHANGED <<cause, transcript>>
    <3>1. /\ ~ eventsClosed /\ ~ doneClosed /\ result # NoResult
          /\ ~ eventsClosed' /\ doneClosed' /\ result' # NoResult
      BY <1>0, <2>0, <2>2, StatusOfPC DEF ContractInv, DonePC, ClosedPC
    <3>2. Contract!CloseDone
      BY <2>0, <2>2, <3>1 DEF Contract!CloseDone
    <3> QED
      BY <3>2 DEF Contract!Next
  <2>3. CASE pc = "closeEvents" /\ pc' = "cancelCtx" /\ UNCHANGED <<cause, transcript>>
    <3>1. /\ ~ eventsClosed /\ doneClosed /\ result # NoResult
          /\ eventsClosed' /\ doneClosed' /\ result' # NoResult
      BY <1>0, <2>0, <2>3, StatusOfPC DEF ContractInv, DonePC, ClosedPC
    <3>2. Contract!CloseEvents
      BY <2>0, <2>3, <3>1 DEF Contract!CloseEvents
    <3> QED
      BY <3>2 DEF Contract!Next
  <2>4. CASE CancelContext
    <3>1. /\ eventsClosed /\ doneClosed /\ result # NoResult
          /\ eventsClosed' /\ doneClosed' /\ result' # NoResult
          /\ UNCHANGED <<result, transcript>>
          /\ cause' = (IF cause = "none" THEN "idle" ELSE cause)
      BY <1>0, <2>0, <2>4, StatusOfPC DEF ContractInv, DonePC, ClosedPC, CancelContext,
         Exiting, logVars
    <3>2. CASE cause = "none"
      <4>1. Contract!Cancel
        BY <3>1, <3>2 DEF Contract!Cancel
      <4> QED
        BY <4>1 DEF Contract!Next
    <3>3. CASE cause # "none"
      BY <3>1, <3>3 DEF Contract!vars
    <3> QED
      BY <3>2, <3>3
  <2> QED
    BY <1>3, <2>1, <2>2, <2>3, <2>4 DEF DeferredStep
<1>4. CASE OutsideStep
  <2>1. UNCHANGED <<result, doneClosed, eventsClosed, transcript>>
    BY <1>4 DEF OutsideStep
  <2>2. CASE cause' = cause
    BY <2>1, <2>2 DEF Contract!vars
  <2>3. CASE cause = "none" /\ cause' # cause
    <3>1. Contract!Cancel
      BY <2>1, <2>3 DEF Contract!Cancel
    <3> QED
      BY <3>1 DEF Contract!Next
  <2> QED
    BY <1>4, <2>2, <2>3 DEF OutsideStep
<1> QED
  BY <1>0, <1>1, <1>2, <1>3, <1>4, StreamStep

(* Every behaviour of a prompt is one its EventStream promises: the log     *)
(* only grows, one result is sent and its Messages are the log of that      *)
(* moment - but for an entry whose Append wrote it and failed all the same -, *)
(* then only bookkeeping entries follow, and Done is closed before Events   *)
(* (ADR-0004, prompt.go:184-192, 210-218, 264-270).                         *)
THEOREM PromptKeepsContract == Spec => Contract!SafeSpec
<1>1. ContractInv /\ [Next]_vars => [Contract!Next]_(Contract!vars)
  BY ContractStep
<1> QED
  BY <1>1, ContractInit, ContractInvStep, PTL DEF Spec, Contract!SafeSpec

-----------------------------------------------------------------------------
(* The steps of a prompt, sorted by what they do to calls and results.      *)

(* The calls of the turn are in the transcript and not all are answered.    *)
CallPC == {"truncated", "execute", "preflight", "await", "shutdown", "collect",
           "persist"}

(* The batch runs or has run, and no result was looked at yet.              *)
WaitPC == {"await", "shutdown", "collect"}

(* Every call of the prompt is answered.                                    *)
SettledPC == {"begin", "turn", "request", "stream", "steer", "continue"}

AddsNeither ==
  \A p \in Added : transcript'[p].type \notin {"tool_call", "tool_result"}

(* The prompt ends; only a failed append of results adds some.              *)
Ends ==
  /\ pc \notin ExitPC /\ pc' = "release"
  /\ UNCHANGED <<terminated, suspended>>
  /\ result'.suspended = suspended
  /\ result'.err = "nil" => pc \in {"hook", "continue"} /\ UNCHANGED transcript
  /\ \/ \A p \in Added : transcript'[p].type # "tool_result"
     \/ FailTruncatedAppendFails \/ PersistResultFails

(* A step that neither asks for calls nor answers them.                     *)
Quiet ==
  /\ AddsNeither
  /\ UNCHANGED <<terminated, suspended, result>>
  /\ \/ /\ pc \in SettledPC \/ (pc = "hook" /\ ~ terminated /\ ~ suspended)
        /\ pc' \in SettledPC
     \/ /\ pc \in CallPC \ {"persist"} /\ pc' \in CallPC \ {"persist"}
        /\ UNCHANGED <<turn, calls, transcript>>
        /\ pc' \in WaitPC => next' = 1 \/ (pc \in WaitPC /\ next' = next)
     \/ /\ pc = "persist" /\ pc' = "persist"
        /\ UNCHANGED <<turn, calls, next, outcome, transcript>>
     \/ pc \in {"flush", "hook"} /\ pc' \in {"flush", "hook"}
     \/ pc \in ExitPC /\ pc' \in ExitPC

(* A finish on a clean end happens after the hook or when nothing is left   *)
(* to do; every other end has an error.                                     *)
LEMMA EndingEnds ==
  ASSUME LoopInv, [Next]_vars, Ending
  PROVE  Ends
<1>0. /\ LoopTypeOK /\ cause # "nil"
      /\ \A err \in RaisedErrors : err # "nil"
  BY LoopAssumption DEF LoopInv, LoopTypeOK, Cause, Cancellation, RaisedErrors
<1>1. ASSUME NEW from \in PC \ ExitPC, NEW err, NEW raised, Finish(from, err, raised),
             err = "nil" => from \in {"hook", "continue"} /\ UNCHANGED transcript
      PROVE  /\ pc \notin ExitPC /\ pc' = "release"
             /\ UNCHANGED <<terminated, suspended>>
             /\ result'.suspended = suspended
             /\ result'.err = "nil" => pc \in {"hook", "continue"} /\ UNCHANGED transcript
  BY <1>1 DEF Finish, Conclusion
<1>2. ASSUME NEW from \in PC \ ExitPC, FinishRaised(from)
      PROVE  \E err, raised : Finish(from, err, raised) /\ err # "nil"
  BY <1>0, <1>2 DEF FinishRaised
<1>3. \E from \in PC \ ExitPC : \E err, raised :
        /\ Finish(from, err, raised)
        /\ err = "nil" => from \in {"hook", "continue"} /\ UNCHANGED transcript
  <2>1. CASE EndAfterTurn \/ EndNaturally
    BY <2>1 DEF EndAfterTurn, EndNaturally, logVars, PC, ExitPC
  <2>2. CASE ToolsCancelled \/ EndCancelled
    BY <1>0, <2>2 DEF ToolsCancelled, EndCancelled, PC, ExitPC
  <2>3. CASE ~ (EndAfterTurn \/ EndNaturally \/ ToolsCancelled \/ EndCancelled)
    <3>1. \E from \in PC \ ExitPC : FinishRaised(from)
      BY <2>3 DEF Ending, LoadFails, FlushFails, InjectSteerFails,
         InjectFollowUpFails, RequestFails, StreamFails, FailTruncatedAppendFails,
         PersistResultFails, RespondAppendFails, PC, ExitPC
    <3> QED
      BY <1>2, <3>1
  <2> QED
    BY <2>1, <2>2, <2>3
<1>4. \/ \A p \in Added : transcript'[p].type # "tool_result"
      \/ FailTruncatedAppendFails \/ PersistResultFails
  <2>1. CASE ~ PersistResultFails /\ ~ FailTruncatedAppendFails
    <3>1. pc \notin {"truncated", "persist"}
      BY <2>1 DEF Ending, LoadFails, RequestFails, StreamFails, ToolsCancelled,
         FlushFails, EndAfterTurn, InjectSteerFails, InjectFollowUpFails,
         EndCancelled, EndNaturally, RespondAppendFails, FinishRaised, Finish
    <3> QED
      BY <3>1, TranscriptStep DEF MayAppend
  <2> QED
    BY <2>1
<1> QED
  BY <1>1, <1>3, <1>4 DEF Ends

LEMMA AnswerCases ==
  ASSUME LoopInv, [Next]_vars
  PROVE  \/ \E text \in BOOLEAN, n \in 0 .. MaxCalls, stop \in {"end", "length"} :
              Respond(text, n, stop)
         \/ FailTruncated \/ CollectTerminated \/ BeginCollect
         \/ PersistResult \/ EndCollect
         \/ Ends
         \/ Quiet
<1>0. /\ transcript \in Seq(Entry) /\ Len(transcript) \in Nat
      /\ calls \in 0 .. MaxCalls /\ cause # "nil"
  BY LenProperties DEF LoopInv, LoopTypeOK, Cause, Cancellation
<1>1. pc \notin {"stream", "truncated", "persist"} => AddsNeither
  BY TranscriptStep DEF MayAppend, AddsNeither
<1>2. UNCHANGED transcript => AddsNeither
  BY <1>0 DEF AddsNeither, Added
<1>3. CASE \/ LoadTranscript \/ BeginTurn \/ SendRequest \/ InjectSteer \/ NoSteer
           \/ AutoContinue \/ InjectFollowUp \/ GoOnAfterTurn
  <2>1. /\ UNCHANGED <<terminated, suspended, result>>
        /\ pc \in SettledPC \/ (pc = "hook" /\ ~ terminated /\ ~ suspended)
        /\ pc' \in SettledPC
        /\ pc # "stream"
    BY <1>3 DEF LoadTranscript, BeginTurn, SendRequest, InjectSteer, NoSteer,
       AutoContinue, InjectFollowUp, GoOnAfterTurn, Goto, SettledPC
  <2>2. AddsNeither
    BY <1>1, <2>1 DEF SettledPC
  <2> QED
    BY <2>1, <2>2 DEF Quiet
<1>4. CASE BeginTools \/ Prepare \/ LaunchBatch \/ BatchReturns \/ BeginShutdown
  <2>1. /\ UNCHANGED <<terminated, suspended, result, turn, calls, transcript>>
        /\ pc \in CallPC \ {"persist"} /\ pc' \in CallPC \ {"persist"}
        /\ pc' \in WaitPC => next' = 1 \/ (pc \in WaitPC /\ next' = next)
    BY <1>4 DEF BeginTools, Prepare, LaunchBatch, BatchReturns, BeginShutdown,
       Goto, logVars, CallPC, WaitPC
  <2> QED
    BY <1>2, <2>1 DEF Quiet
<1>5. CASE Flush
  BY <1>1, <1>5 DEF Flush, Goto, Quiet
<1>6. CASE Exits
  <2>1. CASE BeginTurnCancelled
    <3>1. /\ pc \notin ExitPC /\ pc' = "release"
          /\ UNCHANGED <<terminated, suspended, transcript>>
          /\ result'.suspended = suspended /\ result'.err = cause
      BY <2>1 DEF BeginTurnCancelled, Conclusion, logVars, ExitPC
    <3>2. AddsNeither
      BY <1>2, <3>1
    <3> QED
      BY <1>0, <3>1, <3>2 DEF Ends, AddsNeither
  <2>2. CASE LeakBatch
    <3>1. /\ pc \notin ExitPC /\ pc' = "release"
          /\ UNCHANGED <<terminated, suspended, transcript>>
          /\ result'.suspended = suspended /\ result'.err = cause
      BY <2>2 DEF LeakBatch, Conclusion, logVars, ExitPC
    <3>2. AddsNeither
      BY <1>2, <3>1
    <3> QED
      BY <1>0, <3>1, <3>2 DEF Ends, AddsNeither
  <2>3. CASE ReleaseSlot \/ FinalFlush \/ CloseDone \/ CloseEvents \/ CancelContext
    <3>1. /\ pc \in ExitPC /\ pc' \in ExitPC
          /\ UNCHANGED <<terminated, suspended, result>>
      BY <2>3 DEF ReleaseSlot, FinalFlush, CloseDone, CloseEvents, CancelContext,
         Exiting, outcomeVars, ExitPC
    <3>2. AddsNeither
      BY <1>1, <3>1 DEF ExitPC
    <3> QED
      BY <3>1, <3>2 DEF Quiet
  <2> QED
    BY <1>6, <2>1, <2>2, <2>3 DEF Exits
<1>7. CASE Tools \/ Calls \/ UNCHANGED vars
  <2>1. UNCHANGED <<controlVars, outcomeVars, logVars>>
    BY <1>7, QuietFrame
  <2>2. UNCHANGED <<pc, turn, calls, next, terminated, suspended, result, transcript>>
    BY <2>1 DEF controlVars, outcomeVars, logVars
  <2>3. pc = "persist" => outcome' = outcome
    <3>1. ASSUME Tools, pc = "persist"
          PROVE  outcome' = outcome
      <4>1. ASSUME NEW i \in Call, ToolMoves(i)
            PROVE  FALSE
        <5>1. task[i] \notin {"idle", "done"}
          BY <4>1 DEF ToolMoves, Complete, Acquire, BeginReport, EndReport, Exit
        <5> QED
          BY <3>1, <5>1 DEF LoopInv, BatchPhase, WaitGroupDrained
      <4>2. BeginUpdate(eventsClosed) \/ EndUpdate
        BY <3>1, <4>1, ToolsCases
      <4> QED
        BY <4>2 DEF BeginUpdate, EndUpdate
    <3>2. CASE Calls \/ UNCHANGED vars
      <4>1. UNCHANGED batchVars
        BY <3>2, Zenon DEF Calls, Cancel, Steer, FollowUp, SetActiveTools, vars
      <4> QED
        BY <4>1 DEF batchVars
    <3> QED
      BY <1>7, <3>1, <3>2
  <2>4. AddsNeither
    BY <1>2, <2>2
  <2>5. pc \in SettledPC \cup CallPC \cup {"flush", "hook"} \cup ExitPC
    BY DEF LoopInv, LoopTypeOK, PC, SettledPC, CallPC, ExitPC
  <2> QED
    BY <2>2, <2>3, <2>4, <2>5 DEF Quiet
<1>8. CASE GoingOn
  BY <1>3, <1>4, <1>5, <1>8 DEF GoingOn
<1> QED
  BY <1>6, <1>7, <1>8, EndingEnds, NextCases

-----------------------------------------------------------------------------
(* What the appends of calls and results leave in the transcript.           *)

LEMMA AppendAllAt ==
  ASSUME transcript \in Seq(Entry), NEW msgs \in Seq(Entry), AppendAll(msgs)
  PROVE  /\ Len(transcript') = Len(transcript) + Len(msgs)
         /\ \A p \in Added : /\ p - Len(transcript) \in 1 .. Len(msgs)
                            /\ transcript'[p] = msgs[p - Len(transcript)]
         /\ \A i \in 1 .. Len(msgs) : transcript'[Len(transcript) + i] = msgs[i]
  BY ConcatProperties, LenProperties DEF AppendAll, Added

LEMMA AppendFailsAt ==
  ASSUME transcript \in Seq(Entry), NEW msgs \in Seq(Entry), AppendFails(msgs)
  PROVE  \A p \in Added : /\ p - Len(transcript) \in 1 .. Len(msgs)
                          /\ transcript'[p] = msgs[p - Len(transcript)]
<1>1. PICK n \in 0 .. Len(msgs) :
        /\ transcript' = transcript \o SubSeq(msgs, 1, n)
        /\ SubSeq(msgs, 1, n) \in Seq(Entry) /\ Len(SubSeq(msgs, 1, n)) = n
        /\ \A i \in 1 .. n : SubSeq(msgs, 1, n)[i] = msgs[i]
  BY AppendFailsLeaves
<1>2. n \in Nat /\ n <= Len(msgs) /\ Len(msgs) \in Nat
  BY <1>1, LenProperties
<1>3. ASSUME NEW p \in Added
      PROVE  /\ p - Len(transcript) \in 1 .. Len(msgs)
             /\ transcript'[p] = msgs[p - Len(transcript)]
  <2>1. PICK i \in 1 .. n : /\ i = p - Len(transcript)
                            /\ transcript'[p] = SubSeq(msgs, 1, n)[i]
    BY <1>1, ConcatProperties, LenProperties DEF Added
  <2>2. SubSeq(msgs, 1, n)[i] = msgs[i]
    BY <1>1, Zenon
  <2>3. i \in 1 .. Len(msgs)
    BY <1>2
  <2> QED
    BY <2>1, <2>2, <2>3
<1> QED
  BY <1>3

(* The results of truncated calls come in source order.                     *)
LEMMA TruncatedResults ==
  ASSUME LoopInv,
         \/ AppendAll(Upto("tool_result", calls))
         \/ AppendFails(Upto("tool_result", calls))
  PROVE  \A q \in Added :
           /\ q - Len(transcript) \in 1 .. calls
           /\ transcript'[q] = CallMsg("tool_result", q - Len(transcript))
<1>1. /\ calls \in 0 .. MaxCalls /\ calls \in Nat /\ LoopTypeOK
      /\ transcript \in Seq(Entry)
  BY DEF LoopInv, LoopTypeOK
<1>2. Upto("tool_result", calls) \in Seq(Entry)
  BY <1>1, UptoType
<1>3. /\ Len(Upto("tool_result", calls)) = calls
      /\ \A i \in 1 .. calls : Upto("tool_result", calls)[i] = CallMsg("tool_result", i)
  BY <1>1, UptoElements
<1>4. \A q \in Added :
        /\ q - Len(transcript) \in 1 .. Len(Upto("tool_result", calls))
        /\ transcript'[q] = Upto("tool_result", calls)[q - Len(transcript)]
  BY <1>1, <1>2, AppendAllAt, AppendFailsAt
<1> QED
  BY <1>3, <1>4

(* An assistant message puts its calls at the end, one after the other.     *)
LEMMA RespondedCalls ==
  ASSUME LoopInv, NEW text \in BOOLEAN, NEW n \in 0 .. MaxCalls,
         AppendAll(TurnMessages(text, n))
  PROVE  /\ n <= Len(transcript')
         /\ \A i \in 1 .. n :
              transcript'[Len(transcript') - n + i] = CallMsg("tool_call", i)
         /\ \A p \in Added : transcript'[p].type = "tool_call" =>
              \E i \in 1 .. n : transcript'[p] = CallMsg("tool_call", i)
<1>1. /\ LoopTypeOK /\ n \in Nat
      /\ transcript \in Seq(Entry) /\ Len(transcript) \in Nat
  BY LenProperties DEF LoopInv
<1>2. /\ Upto("tool_call", n) \in Seq(Entry)
      /\ Len(Upto("tool_call", n)) = n
      /\ \A i \in 1 .. n : Upto("tool_call", n)[i] = CallMsg("tool_call", i)
  BY <1>1, UptoType, UptoElements
<1>3. TurnMessages(text, n) \in Seq(Entry)
  BY <1>1, TurnMessagesType
<1>4. PICK k \in {0, 1} :
        /\ Len(TurnMessages(text, n)) = k + n
        /\ \A i \in 1 .. n : TurnMessages(text, n)[k + i] = CallMsg("tool_call", i)
        /\ k = 1 => TurnMessages(text, n)[1].type = "text"
  <2>1. CASE text
    <3>1. TurnMessages(text, n) = <<Msg("text")>> \o Upto("tool_call", n)
      BY <2>1 DEF TurnMessages
    <3>2. /\ <<Msg("text")>> \in Seq(Entry) /\ Len(<<Msg("text")>>) = 1
          /\ <<Msg("text")>>[1] = Msg("text") /\ Msg("text").type = "text"
      BY <1>1, MsgType, SingleMsgType DEF Msg
    <3> HIDE DEF TurnMessages
    <3>3. /\ Len(TurnMessages(text, n)) = 1 + n
          /\ TurnMessages(text, n)[1] = Msg("text")
          /\ \A i \in 1 .. n : TurnMessages(text, n)[1 + i] = Upto("tool_call", n)[i]
      BY <1>1, <1>2, <3>1, <3>2, ConcatProperties
    <3> QED
      BY <1>2, <3>2, <3>3
  <2>2. CASE ~ text
    BY <1>1, <1>2, <2>2, ConcatEmptySeq DEF TurnMessages
  <2> QED
    BY <2>1, <2>2
<1> HIDE DEF TurnMessages
<1>5. /\ Len(transcript') = Len(transcript) + (k + n)
      /\ \A p \in Added : /\ p - Len(transcript) \in 1 .. k + n
                         /\ transcript'[p] = TurnMessages(text, n)[p - Len(transcript)]
      /\ \A i \in 1 .. k + n : transcript'[Len(transcript) + i] = TurnMessages(text, n)[i]
  BY <1>1, <1>3, <1>4, AppendAllAt
<1>6. \A i \in 1 .. n : transcript'[Len(transcript') - n + i] = CallMsg("tool_call", i)
  <2> TAKE i \in 1 .. n
  <2>1. k + i \in 1 .. k + n /\ Len(transcript') - n + i = Len(transcript) + (k + i)
    BY <1>1, <1>5
  <2> QED
    BY <1>4, <1>5, <2>1
<1>7. ASSUME NEW p \in Added, transcript'[p].type = "tool_call"
      PROVE  \E i \in 1 .. n : transcript'[p] = CallMsg("tool_call", i)
  <2> DEFINE j == p - Len(transcript)
  <2>1. j \in 1 .. k + n /\ transcript'[p] = TurnMessages(text, n)[j]
    BY <1>5, <1>7
  <2>2. ~ (k = 1 /\ j = 1)
    BY <1>4, <1>7, <2>1
  <2>3. j - k \in 1 .. n
    BY <1>1, <2>1, <2>2
  <2>4. TurnMessages(text, n)[k + (j - k)] = CallMsg("tool_call", j - k)
    BY <1>4, <2>3
  <2>5. k + (j - k) = j
    BY <1>1, <2>1
  <2> QED
    BY <2>1, <2>3, <2>4, <2>5
<1> QED
  BY <1>1, <1>5, <1>6, <1>7

-----------------------------------------------------------------------------
(* Where a result stands.                                                   *)

Stand(b) ==
  /\ \A i \in 1 .. calls : transcript[b + i] = CallMsg("tool_call", i)
  /\ \A p \in b + 1 .. Len(transcript) :
       /\ transcript[p].turn = turn
       /\ transcript[p].type \in {"tool_call", "tool_result"}

(* The calls of the turn stand one after the other, and only results of the *)
(* same turn follow them.                                                   *)
CallsStand == \E b \in 0 .. Len(transcript) - calls : Stand(b)

(* While results persist, those of the turn are of calls already passed     *)
(* that are not suspended.                                                  *)
ResultsBefore ==
  \A q \in Positions : IsResult(q) /\ transcript[q].turn = turn =>
    transcript[q].call < next /\ ~ Suspends(transcript[q].call)

AnswerInv ==
  /\ ResultInv
  /\ ResultsAnswerCalls
  /\ pc \in CallPC => CallsStand
  /\ pc = "persist" => ResultsBefore

(* A result that is in place stays in place.                                *)
LEMMA AnswersStay ==
  ASSUME LoopInv, [Next]_vars, ResultsAnswerCalls,
         \A q \in Added : transcript'[q].type = "tool_result" =>
           /\ \E p \in 1 .. q - 1 :
                /\ transcript'[p].type = "tool_call"
                /\ transcript'[p].turn = transcript'[q].turn
                /\ transcript'[p].call = transcript'[q].call
                /\ \A m \in p .. q :
                     /\ transcript'[m].turn = transcript'[q].turn
                     /\ transcript'[m].type \in {"tool_call", "tool_result"}
           /\ \A r \in 1 .. q - 1 :
                transcript'[r].type = "tool_result" /\ transcript'[r].turn = transcript'[q].turn
                  => transcript'[r].call < transcript'[q].call
  PROVE  ResultsAnswerCalls'
<1>1. /\ Len(transcript) \in Nat /\ Len(transcript') \in Nat
      /\ Len(transcript) <= Len(transcript')
      /\ \A p \in 1 .. Len(transcript) : transcript'[p] = transcript[p]
      /\ Positions = 1 .. Len(transcript) /\ Positions' = 1 .. Len(transcript')
  BY TranscriptStep, LenProperties DEF LoopInv, Positions
<1>2. ASSUME NEW q \in 1 .. Len(transcript), transcript'[q].type = "tool_result"
      PROVE  /\ \E p \in 1 .. q - 1 :
                  /\ transcript'[p].type = "tool_call"
                  /\ transcript'[p].turn = transcript'[q].turn
                  /\ transcript'[p].call = transcript'[q].call
                  /\ \A m \in p .. q :
                       /\ transcript'[m].turn = transcript'[q].turn
                       /\ transcript'[m].type \in {"tool_call", "tool_result"}
             /\ \A r \in 1 .. q - 1 :
                  transcript'[r].type = "tool_result" /\ transcript'[r].turn = transcript'[q].turn
                    => transcript'[r].call < transcript'[q].call
  <2>1. IsResult(q)
    BY <1>1, <1>2 DEF IsResult
  <2>2. PICK p \in 1 .. q - 1 :
          /\ IsCall(p) /\ SameCall(p, q)
          /\ \A m \in p .. q : /\ transcript[m].turn = transcript[q].turn
                               /\ transcript[m].type \in {"tool_call", "tool_result"}
    BY <1>1, <2>1 DEF ResultsAnswerCalls
  <2>3. \A r \in 1 .. q - 1 : IsResult(r) /\ transcript[r].turn = transcript[q].turn
                                => transcript[r].call < transcript[q].call
    BY <1>1, <2>1 DEF ResultsAnswerCalls
  <2>4. \A m \in 1 .. q : transcript'[m] = transcript[m]
    BY <1>1
  <2>5. q \in 1 .. q /\ (\A m \in 1 .. q - 1 : m \in 1 .. q) /\ \A m \in p .. q : m \in 1 .. q
    BY <1>1
  <2>6. transcript'[p] = transcript[p] /\ transcript'[q] = transcript[q]
    BY <2>4, <2>5
  <2>7. \A m \in p .. q : /\ transcript'[m].turn = transcript'[q].turn
                          /\ transcript'[m].type \in {"tool_call", "tool_result"}
    BY <2>2, <2>4, <2>5, <2>6
  <2>8. \A r \in 1 .. q - 1 : transcript'[r] = transcript[r]
    BY <2>4, <2>5
  <2> QED
    BY <2>2, <2>3, <2>6, <2>7, <2>8 DEF IsCall, IsResult, SameCall
<1>3. \A q \in Positions' : q \in 1 .. Len(transcript) \/ q \in Added
  BY <1>1 DEF Added
<1> QED
  BY <1>2, <1>3 DEF ResultsAnswerCalls, IsResult, IsCall, SameCall

(* New results in source order, each of a call of the turn, answer them.    *)
LEMMA NewResultsAnswer ==
  ASSUME LoopInv, [Next]_vars, ResultsAnswerCalls, CallsStand,
         \A q \in Added : /\ transcript'[q].turn = turn
                          /\ transcript'[q].type = "tool_result"
                          /\ transcript'[q].call \in 1 .. calls,
         \A q \in Added, r \in 1 .. Len(transcript') :
           /\ r < q /\ transcript'[r].type = "tool_result"
           /\ transcript'[r].turn = turn
           => transcript'[r].call < transcript'[q].call
  PROVE  /\ ResultsAnswerCalls'
         /\ UNCHANGED <<turn, calls>> => CallsStand'
<1>1. /\ Len(transcript) \in Nat /\ Len(transcript') \in Nat
      /\ Len(transcript) <= Len(transcript')
      /\ \A p \in 1 .. Len(transcript) : transcript'[p] = transcript[p]
      /\ calls \in Nat
  BY TranscriptStep, LenProperties DEF LoopInv, LoopTypeOK
<1>2. PICK b \in 0 .. Len(transcript) - calls : Stand(b)
  BY DEF CallsStand
<1>3. \A m \in b + 1 .. Len(transcript') :
        /\ transcript'[m].turn = turn
        /\ transcript'[m].type \in {"tool_call", "tool_result"}
  <2> TAKE m \in b + 1 .. Len(transcript')
  <2>1. (m \in b + 1 .. Len(transcript) /\ m \in 1 .. Len(transcript)) \/ m \in Added
    BY <1>1 DEF Added
  <2> QED
    BY <1>1, <1>2, <2>1 DEF Stand
<1>4. \A i \in 1 .. calls : /\ b + i \in 1 .. Len(transcript)
                           /\ transcript'[b + i] = CallMsg("tool_call", i)
  <2> TAKE i \in 1 .. calls
  <2>1. b + i \in 1 .. Len(transcript)
    BY <1>1
  <2> QED
    BY <1>1, <1>2, <2>1 DEF Stand
<1>5. ResultsAnswerCalls'
  <2>1. ASSUME NEW q \in Added
        PROVE  /\ \E p \in 1 .. q - 1 :
                    /\ transcript'[p].type = "tool_call"
                    /\ transcript'[p].turn = transcript'[q].turn
                    /\ transcript'[p].call = transcript'[q].call
                    /\ \A m \in p .. q :
                         /\ transcript'[m].turn = transcript'[q].turn
                         /\ transcript'[m].type \in {"tool_call", "tool_result"}
               /\ \A r \in 1 .. q - 1 :
                    transcript'[r].type = "tool_result"
                      /\ transcript'[r].turn = transcript'[q].turn
                      => transcript'[r].call < transcript'[q].call
    <3> DEFINE i == transcript'[q].call
    <3>1. /\ q \in Len(transcript) + 1 .. Len(transcript')
          /\ i \in 1 .. calls /\ transcript'[q].turn = turn
      BY <2>1 DEF Added
    <3>2. /\ b + i \in 1 .. Len(transcript)
          /\ transcript'[b + i] = CallMsg("tool_call", i)
      BY <1>4, <3>1
    <3>3. /\ transcript'[b + i].type = "tool_call"
          /\ transcript'[b + i].turn = turn
          /\ transcript'[b + i].call = i
      BY <3>2 DEF CallMsg
    <3> HIDE DEF i
    <3>4. b + i \in 1 .. q - 1
      BY <1>1, <3>1, <3>2
    <3>5. \A m \in b + i .. q : m \in b + 1 .. Len(transcript')
      BY <1>1, <3>1
    <3>6. \A r \in 1 .. q - 1 : r \in 1 .. Len(transcript') /\ r < q
      BY <1>1, <3>1
    <3>7. \A m \in b + i .. q :
            /\ transcript'[m].turn = transcript'[q].turn
            /\ transcript'[m].type \in {"tool_call", "tool_result"}
      BY <1>3, <3>1, <3>5
    <3>8. \E p \in 1 .. q - 1 :
            /\ transcript'[p].type = "tool_call"
            /\ transcript'[p].turn = transcript'[q].turn
            /\ transcript'[p].call = transcript'[q].call
            /\ \A m \in p .. q :
                 /\ transcript'[m].turn = transcript'[q].turn
                 /\ transcript'[m].type \in {"tool_call", "tool_result"}
      BY <3>1, <3>3, <3>4, <3>7 DEF i
    <3> QED
      BY <3>1, <3>6, <3>8
  <2> QED
    BY <2>1, AnswersStay
<1>6. ASSUME UNCHANGED <<turn, calls>>
      PROVE  CallsStand'
  <2>1. b \in 0 .. Len(transcript') - calls'
    BY <1>1, <1>6
  <2>2. Stand(b)'
    BY <1>3, <1>4, <1>6 DEF Stand, CallMsg
  <2> QED
    BY <2>1, <2>2 DEF CallsStand
<1> QED
  BY <1>5, <1>6

LEMMA TruncatedAnswer ==
  ASSUME AnswerInv, [Next]_vars, pc = "truncated",
         \/ AppendAll(Upto("tool_result", calls))
         \/ AppendFails(Upto("tool_result", calls))
  PROVE  ResultsAnswerCalls'
<1>1. LoopInv /\ ResultsAnswerCalls /\ CallsStand /\ NoneThisTurn
  BY DEF AnswerInv, ResultInv, BeforeResults, CallPC
<1>2. /\ Len(transcript) \in Nat /\ Len(transcript') \in Nat
      /\ \A p \in 1 .. Len(transcript) : transcript'[p] = transcript[p]
      /\ Positions = 1 .. Len(transcript)
  BY <1>1, TranscriptStep, LenProperties DEF LoopInv, Positions
<1>3. \A q \in Added : /\ transcript'[q].turn = turn
                       /\ transcript'[q].type = "tool_result"
                       /\ transcript'[q].call = q - Len(transcript)
                       /\ q - Len(transcript) \in 1 .. calls
  <2> TAKE q \in Added
  <2>1. /\ q - Len(transcript) \in 1 .. calls
        /\ transcript'[q] = CallMsg("tool_result", q - Len(transcript))
    BY <1>1, TruncatedResults, Zenon
  <2> QED
    BY <2>1 DEF CallMsg
<1>4. ASSUME NEW q \in Added, NEW r \in 1 .. Len(transcript'), r < q,
             transcript'[r].type = "tool_result", transcript'[r].turn = turn
      PROVE  transcript'[r].call < transcript'[q].call
  <2>1. r \notin 1 .. Len(transcript)
    BY <1>1, <1>2, <1>4 DEF NoneThisTurn, IsResult
  <2>2. r \in Added /\ q \in Len(transcript) + 1 .. Len(transcript')
    BY <1>2, <2>1 DEF Added
  <2>3. transcript'[r].call = r - Len(transcript) /\ transcript'[q].call = q - Len(transcript)
    BY <1>3, <2>2
  <2> QED
    BY <1>2, <1>4, <2>2, <2>3
<1> QED
  BY <1>1, <1>3, <1>4, NewResultsAnswer

(* What persisting the result of a call adds, whether the Append fails.     *)
LEMMA PersistStands ==
  ASSUME AnswerInv, [Next]_vars, PersistResult \/ PersistResultFails
  PROVE  /\ ResultsAnswerCalls' /\ CallsStand'
         /\ \A q \in Added : transcript'[q].call = next /\ ~ Suspends(next)
<1>1. /\ LoopInv /\ ResultsAnswerCalls /\ CallsStand /\ ResultsBefore
      /\ pc = "persist" /\ next <= calls
      /\ UNCHANGED <<turn, calls>>
  BY DEF AnswerInv, ResultInv, CallPC, PersistResult, Goto, PersistResultFails,
     FinishRaised, Finish
<1>2. /\ Len(transcript) \in Nat /\ Len(transcript') \in Nat
      /\ Len(transcript) <= Len(transcript')
      /\ \A p \in 1 .. Len(transcript) : transcript'[p] = transcript[p]
      /\ transcript \in Seq(Entry)
      /\ Positions = 1 .. Len(transcript) /\ Positions' = 1 .. Len(transcript')
      /\ next \in 1 .. calls /\ calls \in 0 .. MaxCalls /\ next \in Call
  <2>1. /\ calls \in 0 .. MaxCalls /\ next \in 1 .. MaxCalls + 1
        /\ transcript \in Seq(Entry)
    BY <1>1 DEF LoopInv, LoopTypeOK
  <2>2. next \in 1 .. calls /\ next \in Call
    BY <1>1, <2>1 DEF Call
  <2> QED
    BY <1>1, <2>1, <2>2, TranscriptStep, LenProperties DEF Positions
<1>3. \A q \in Positions : transcript[q].call \in Nat
  <2>1. \A q \in Positions : transcript[q] \in Entry
    BY <1>2, ElementOfSeq
  <2>2. \A e \in Entry : e.call \in Nat
    BY DEF Entry
  <2> QED
    BY <2>1, <2>2
<1>4. \A q \in Added : /\ transcript'[q] = CallMsg("tool_result", next)
                       /\ q = Len(transcript) + 1
                       /\ ~ Suspends(next)
  <2>1. CASE Suspends(next)
    <3>1. transcript' = transcript
      BY <2>1 DEF PersistResult, PersistResultFails, logVars
    <3> QED
      BY <1>2, <3>1 DEF Added
  <2>2. CASE ~ Suspends(next)
    <3>1. CallMsg("tool_result", next) \in Entry
      BY <1>1, <1>2, MsgType DEF LoopInv
    <3>2. <<CallMsg("tool_result", next)>> \in Seq(Entry)
      BY <3>1, SingleMsgType
    <3>3. \/ AppendAll(<<CallMsg("tool_result", next)>>)
          \/ AppendFails(<<CallMsg("tool_result", next)>>)
      BY <2>2 DEF PersistResult, PersistResultFails
    <3>4. \A q \in Added :
            /\ q - Len(transcript) \in 1 .. Len(<<CallMsg("tool_result", next)>>)
            /\ transcript'[q] = <<CallMsg("tool_result", next)>>[q - Len(transcript)]
      BY <1>2, <3>2, <3>3, AppendAllAt, AppendFailsAt
    <3>5. \A q \in Added : q = Len(transcript) + 1
      <4>1. Len(<<CallMsg("tool_result", next)>>) = 1
        OBVIOUS
      <4>2. \A q \in Added : q \in Int
        BY <1>2 DEF Added
      <4> QED
        BY <1>2, <3>4, <4>1, <4>2
    <3>6. \A q \in Added : q - Len(transcript) = 1
      BY <1>2, <3>5
    <3> QED
      BY <2>2, <3>4, <3>5, <3>6
  <2> QED
    BY <2>1, <2>2
<1>5. \A q \in Added : /\ transcript'[q].turn = turn
                       /\ transcript'[q].type = "tool_result"
                       /\ transcript'[q].call = next
  BY <1>4 DEF CallMsg
<1>6. ASSUME NEW r \in 1 .. Len(transcript), transcript'[r].type = "tool_result",
             transcript'[r].turn = turn
      PROVE  /\ transcript'[r].call < next /\ ~ Suspends(transcript'[r].call)
             /\ transcript'[r].call \in Nat
  BY <1>1, <1>2, <1>3, <1>6 DEF ResultsBefore, IsResult
<1>7. ASSUME NEW q \in Added, NEW r \in 1 .. Len(transcript'), r < q,
             transcript'[r].type = "tool_result", transcript'[r].turn = turn
      PROVE  transcript'[r].call < transcript'[q].call
  <2>1. r \in 1 .. Len(transcript)
    BY <1>2, <1>4, <1>7
  <2> QED
    BY <1>5, <1>6, <1>7, <2>1
<1>8. ResultsAnswerCalls' /\ CallsStand'
  BY <1>1, <1>2, <1>5, <1>7, NewResultsAnswer
<1> QED
  BY <1>4, <1>5, <1>8

LEMMA PersistAnswer ==
  ASSUME AnswerInv, [Next]_vars, PersistResult
  PROVE  ResultsAnswerCalls' /\ CallsStand' /\ ResultsBefore'
<1>1. /\ LoopInv /\ ResultsBefore
      /\ next' = next + 1 /\ next \in Nat
      /\ UNCHANGED <<turn, outcome>>
  BY DEF AnswerInv, ResultInv, LoopInv, LoopTypeOK, PersistResult, Goto, batchVars
<1>2. /\ Len(transcript) \in Nat /\ Len(transcript') \in Nat
      /\ \A p \in 1 .. Len(transcript) : transcript'[p] = transcript[p]
      /\ Positions = 1 .. Len(transcript) /\ Positions' = 1 .. Len(transcript')
  BY <1>1, TranscriptStep, LenProperties DEF LoopInv, Positions
<1>3. \A q \in Positions : transcript[q].call \in Nat
  <2>1. \A q \in Positions : transcript[q] \in Entry
    BY <1>1, <1>2, ElementOfSeq DEF LoopInv
  <2>2. \A e \in Entry : e.call \in Nat
    BY DEF Entry
  <2> QED
    BY <2>1, <2>2
<1>4. \A q \in Added : transcript'[q].call = next /\ ~ Suspends(next)
  BY PersistStands
<1>5. ASSUME NEW q \in Positions', transcript'[q].type = "tool_result",
             transcript'[q].turn = turn'
      PROVE  /\ transcript'[q].call < next'
             /\ outcome'[transcript'[q].call] \notin {"suspend", "terminateAndSuspend"}
  <2>1. CASE q \in 1 .. Len(transcript)
    <3>1. /\ transcript'[q].call < next /\ ~ Suspends(transcript'[q].call)
          /\ transcript'[q].call \in Nat
      BY <1>1, <1>2, <1>3, <1>5, <2>1 DEF ResultsBefore, IsResult
    <3>2. transcript'[q].call < next'
      BY <1>1, <1>2, <3>1
    <3> QED
      BY <1>1, <3>1, <3>2 DEF Suspends
  <2>2. CASE q \in Added
    <3>1. transcript'[q].call = next /\ ~ Suspends(next)
      BY <1>4, <2>2
    <3> QED
      BY <1>1, <1>2, <3>1 DEF Suspends
  <2> QED
    BY <1>2, <2>1, <2>2 DEF Added
<1> QED
  BY <1>5, PersistStands DEF ResultsBefore, IsResult, Suspends

LEMMA AnswerInit == Init => AnswerInv
  BY ResultInit DEF Init, AnswerInv, ResultsAnswerCalls, Positions, CallPC

LEMMA AnswerInvStep == AnswerInv /\ [Next]_vars => AnswerInv'
<1> SUFFICES ASSUME AnswerInv, [Next]_vars
             PROVE  AnswerInv'
  OBVIOUS
<1> DEFINE Goal == /\ ResultsAnswerCalls'
                   /\ pc' \in CallPC => CallsStand'
                   /\ pc' = "persist" => ResultsBefore'
<1> SUFFICES Goal
  BY ResultInvStep DEF AnswerInv
<1>0. /\ LoopInv /\ ResultInv /\ ResultsAnswerCalls
      /\ transcript \in Seq(Entry) /\ transcript' \in Seq(Entry)
      /\ Len(transcript) \in Nat /\ Len(transcript') \in Nat
  BY TranscriptStep, LenProperties DEF AnswerInv, ResultInv, LoopInv
<1>1. ASSUME \A q \in Added : transcript'[q].type # "tool_result"
      PROVE  ResultsAnswerCalls'
  BY <1>0, <1>1, AnswersStay
<1>2. ASSUME UNCHANGED transcript
      PROVE  ResultsAnswerCalls'
  BY <1>0, <1>1, <1>2 DEF Added
<1>3. ASSUME UNCHANGED <<transcript, turn, calls>>, CallsStand
      PROVE  CallsStand'
  BY <1>3 DEF CallsStand, Stand, CallMsg
<1>4. CASE \E text \in BOOLEAN, n \in 0 .. MaxCalls, stop \in {"end", "length"} :
             Respond(text, n, stop)
  <2>1. PICK text \in BOOLEAN, n \in 0 .. MaxCalls, stop \in {"end", "length"} :
             Respond(text, n, stop)
    BY <1>4
  <2>2. /\ pc = "stream" /\ pc' # "persist"
        /\ AppendAll(TurnMessages(text, n))
        /\ turn' = turn /\ calls' = n
    BY <2>1 DEF Respond, Goto
  <2>3. ResultsAnswerCalls'
    BY <1>0, <1>1, <2>2, TranscriptStep DEF MayAppend
  <2>4. /\ n <= Len(transcript')
        /\ \A i \in 1 .. n :
             transcript'[Len(transcript') - n + i] = CallMsg("tool_call", i)
    BY <1>0, <2>2, RespondedCalls
  <2>5. CallsStand'
    <3>1. PICK b \in Nat : b = Len(transcript') - n
      BY <1>0, <2>4
    <3>2. \A i \in 1 .. n : transcript'[b + i] = CallMsg("tool_call", i)
      BY <2>4, <3>1
    <3>3. \A p \in b + 1 .. Len(transcript') :
            p - b \in 1 .. n /\ p = b + (p - b)
      BY <1>0, <3>1
    <3>4. \A p \in b + 1 .. Len(transcript') :
            transcript'[p] = CallMsg("tool_call", p - b)
      BY <3>2, <3>3
    <3>5. \A p \in b + 1 .. Len(transcript') :
            /\ transcript'[p].turn = turn'
            /\ transcript'[p].type \in {"tool_call", "tool_result"}
      <4> TAKE p \in b + 1 .. Len(transcript')
      <4>1. transcript'[p] = CallMsg("tool_call", p - b)
        BY <3>4
      <4> QED
        BY <2>2, <4>1 DEF CallMsg
    <3>6. \A i \in 1 .. calls' :
            transcript'[b + i] = [type |-> "tool_call", turn |-> turn', call |-> i]
      BY <2>2, <3>2 DEF CallMsg
    <3>7. Stand(b)'
      BY <3>5, <3>6 DEF Stand, CallMsg
    <3>8. b \in 0 .. Len(transcript') - calls'
      BY <1>0, <2>2, <3>1
    <3> QED
      BY <3>7, <3>8 DEF CallsStand
  <2> QED
    BY <2>2, <2>3, <2>5
<1>5. CASE FailTruncated
  <2>1. /\ pc = "truncated" /\ pc' = "flush"
        /\ AppendAll(Upto("tool_result", calls))
    BY <1>5 DEF FailTruncated, Goto
  <2> QED
    BY <2>1, TruncatedAnswer DEF CallPC
<1>6. CASE CollectTerminated \/ EndCollect
  <2>1. UNCHANGED transcript /\ pc' = "flush"
    BY <1>6 DEF CollectTerminated, EndCollect, Goto, logVars
  <2> QED
    BY <1>2, <2>1 DEF CallPC
<1>7. CASE BeginCollect
  <2>1. /\ UNCHANGED <<transcript, turn, calls>> /\ pc = "collect"
    BY <1>7 DEF BeginCollect, Goto, logVars
  <2>2. CallsStand /\ NoneThisTurn
    BY <2>1 DEF AnswerInv, ResultInv, CallPC, BeforeResults
  <2>3. ResultsBefore'
    BY <2>1, <2>2 DEF ResultsBefore, NoneThisTurn, IsResult, Positions
  <2> QED
    BY <1>2, <1>3, <2>1, <2>2, <2>3
<1>8. CASE PersistResult
  BY <1>8, PersistAnswer
<1>9. CASE Ends
  <2>1. pc' \notin CallPC /\ pc' # "persist"
    BY <1>9 DEF Ends, CallPC
  <2>2. CASE FailTruncatedAppendFails
    <3>1. pc = "truncated" /\ AppendFails(Upto("tool_result", calls))
      BY <2>2 DEF FailTruncatedAppendFails, FinishRaised, Finish
    <3> QED
      BY <2>1, <3>1, TruncatedAnswer
  <2>3. CASE PersistResultFails
    BY <2>1, <2>3, PersistStands
  <2>4. CASE \A p \in Added : transcript'[p].type # "tool_result"
    BY <1>1, <2>1, <2>4
  <2> QED
    BY <1>9, <2>2, <2>3, <2>4 DEF Ends
<1>10. CASE Quiet
  <2>1. ResultsAnswerCalls'
    BY <1>1, <1>10 DEF Quiet, AddsNeither
  <2>2. CASE pc' \notin CallPC
    BY <2>1, <2>2 DEF CallPC
  <2>3. CASE pc' \in CallPC
    <3>1. /\ pc \in CallPC /\ UNCHANGED <<transcript, turn, calls>>
          /\ pc' = "persist" => pc = "persist" /\ UNCHANGED <<next, outcome>>
      BY <1>10, <2>3 DEF Quiet, CallPC, SettledPC, ExitPC
    <3>2. CallsStand'
      BY <1>3, <3>1 DEF AnswerInv
    <3>3. pc' = "persist" => ResultsBefore'
      BY <3>1 DEF AnswerInv, ResultsBefore, Positions, IsResult, Suspends
    <3> QED
      BY <2>1, <3>2, <3>3
  <2> QED
    BY <2>2, <2>3
<1> QED
  BY <1>0, <1>4, <1>5, <1>6, <1>7, <1>8, <1>9, <1>10, AnswerCases

(* A result follows its call, is the only one, comes in source order, and   *)
(* nothing but calls and results of the same turn stands between them: no   *)
(* steer is injected and no active_tools_change flushed while a turn has    *)
(* unanswered calls (prompt.go:228-229, 336-339, 642-644).                  *)
THEOREM ResultsStandInOrder == Spec => []ResultsAnswerCalls
<1>1. AnswerInv => ResultsAnswerCalls
  BY DEF AnswerInv
<1> QED
  BY <1>1, AnswerInit, AnswerInvStep, PTL DEF Spec

-----------------------------------------------------------------------------
(* Which calls have no result.                                              *)

LEMMA DanglingGrows ==
  ASSUME LoopInv, [Next]_vars
  PROVE  /\ \A p \in Dangling' :
              p \in Dangling \/ (p \in Added /\ transcript'[p].type = "tool_call")
         /\ (\A p \in Added : transcript'[p].type # "tool_result")
              => Dangling \subseteq Dangling'
         /\ UNCHANGED transcript => Dangling' = Dangling
         /\ Dangling \subseteq 1 .. Len(transcript)
<1>1. /\ Len(transcript) \in Nat /\ Len(transcript') \in Nat
      /\ Len(transcript) <= Len(transcript')
      /\ \A p \in 1 .. Len(transcript) : transcript'[p] = transcript[p]
      /\ Positions = 1 .. Len(transcript) /\ Positions' = 1 .. Len(transcript')
  BY TranscriptStep, LenProperties DEF LoopInv, Positions
<1>2. \A p \in Positions : p \in Positions'
  BY <1>1
<1>3. \A p \in Positions' : p \in Positions \/ p \in Added
  BY <1>1 DEF Added
<1>4. ASSUME NEW p \in Dangling', ~ (p \in Added /\ transcript'[p].type = "tool_call")
      PROVE  p \in Dangling
  <2>1. /\ p \in Positions' /\ transcript'[p].type = "tool_call"
        /\ ~ \E q \in Positions' : /\ transcript'[q].type = "tool_result"
                                   /\ transcript'[p].turn = transcript'[q].turn
                                   /\ transcript'[p].call = transcript'[q].call
    BY DEF Dangling, IsCall, IsResult, SameCall
  <2>2. p \in Positions
    BY <1>3, <1>4, <2>1
  <2> QED
    BY <1>1, <1>2, <2>1, <2>2 DEF Dangling, IsCall, IsResult, SameCall
<1>5. ASSUME \A p \in Added : transcript'[p].type # "tool_result", NEW p \in Dangling
      PROVE  p \in Dangling'
  <2>1. /\ p \in Positions /\ transcript[p].type = "tool_call"
        /\ ~ \E q \in Positions : /\ transcript[q].type = "tool_result"
                                  /\ transcript[p].turn = transcript[q].turn
                                  /\ transcript[p].call = transcript[q].call
    BY DEF Dangling, IsCall, IsResult, SameCall
  <2>2. p \in Positions' /\ transcript'[p] = transcript[p]
    BY <1>1, <1>2, <2>1
  <2>3. ASSUME NEW q \in Positions', transcript'[q].type = "tool_result",
               transcript'[p].turn = transcript'[q].turn,
               transcript'[p].call = transcript'[q].call
        PROVE  FALSE
    <3>1. q \in Positions
      BY <1>3, <1>5, <2>3
    <3> QED
      BY <1>1, <2>1, <2>2, <2>3, <3>1
  <2> QED
    BY <2>1, <2>2, <2>3 DEF Dangling, IsCall, IsResult, SameCall
<1>6. UNCHANGED transcript => Dangling' = Dangling
  BY DEF Dangling, Positions, IsCall, IsResult, SameCall
<1>7. Dangling \subseteq 1 .. Len(transcript)
  BY <1>1 DEF Dangling
<1> QED
  BY <1>4, <1>5, <1>6, <1>7

(* A call whose result was just appended is no longer dangling.             *)
LEMMA AnsweredNow ==
  ASSUME LoopInv, [Next]_vars, NEW p \in Dangling, NEW q \in Added,
         transcript'[q].type = "tool_result",
         transcript'[q].turn = transcript[p].turn,
         transcript'[q].call = transcript[p].call
  PROVE  p \notin Dangling'
<1>1. /\ Len(transcript) \in Nat /\ Len(transcript') \in Nat
      /\ \A m \in 1 .. Len(transcript) : transcript'[m] = transcript[m]
      /\ Positions' = 1 .. Len(transcript')
  BY TranscriptStep, LenProperties DEF LoopInv, Positions
<1>2. p \in 1 .. Len(transcript)
  BY DanglingGrows
<1>3. q \in Positions' /\ transcript'[p] = transcript[p]
  BY <1>1, <1>2 DEF Added
<1> QED
  BY <1>3 DEF Dangling, IsCall, IsResult, SameCall

(* A turn that ends with an unanswered call ends the prompt, and a          *)
(* suspension point is an unanswered call.                                  *)
OpenCallsEnd ==
  /\ Dangling # {} => terminated \/ suspended
  /\ suspended => Dangling # {}

OfThisTurn ==
  \A p \in Dangling : transcript[p].turn = turn /\ transcript[p].call \in 1 .. calls

StillToAnswer ==
  \A p \in Dangling : transcript[p].call >= next \/ Suspends(transcript[p].call)

DanglingInv ==
  /\ AnswerInv /\ OutcomeInv
  /\ pc \in SettledPC => Dangling = {}
  /\ pc \in CallPC => OfThisTurn
  /\ pc \in WaitPC => next = 1
  /\ pc = "persist" => StillToAnswer
  /\ pc \in SettledPC \cup CallPC => ~ terminated /\ ~ suspended
  /\ pc \in {"flush", "hook"} => OpenCallsEnd
  /\ CleanEndExplained

LEMMA DanglingInit == Init => DanglingInv
<1> SUFFICES ASSUME Init
             PROVE  DanglingInv
  OBVIOUS
<1>1. pc = "begin" /\ Dangling = {} /\ result.err # "nil" /\ ~ terminated /\ ~ suspended
  BY DEF Init, Dangling, Positions, NoResult
<1> QED
  BY <1>1, AnswerInit, OutcomeInit DEF DanglingInv, CallPC, WaitPC, CleanEndExplained

(* A text-only turn leaves nothing open; one with calls opens its own.      *)
LEMMA RespondDangling ==
  ASSUME DanglingInv, [Next]_vars,
         NEW text \in BOOLEAN, NEW n \in 0 .. MaxCalls, NEW stop \in {"end", "length"},
         Respond(text, n, stop)
  PROVE  DanglingInv'
<1>1. /\ LoopInv /\ AnswerInv' /\ OutcomeInv'
      /\ Dangling = {} /\ ~ terminated /\ ~ suspended
      /\ pc = "stream" /\ result = NoResult
  BY AnswerInvStep, OutcomeInvStep DEF DanglingInv, OutcomeInv, Respond, Goto, SettledPC,
     ExitPC
<1>2. /\ turn' = turn /\ calls' = n
      /\ UNCHANGED <<terminated, suspended, result>>
      /\ pc' \in {"flush", "truncated", "execute"} /\ (pc' = "flush" => n = 0)
      /\ AppendAll(TurnMessages(text, n))
  BY DEF Respond, Goto
<1>3. ASSUME NEW p \in Dangling'
      PROVE  transcript'[p].turn = turn' /\ transcript'[p].call \in 1 .. calls'
  <2>1. p \in Added /\ transcript'[p].type = "tool_call"
    BY <1>1, DanglingGrows
  <2>2. PICK i \in 1 .. n : transcript'[p] = CallMsg("tool_call", i)
    BY <1>1, <1>2, <2>1, RespondedCalls
  <2> QED
    BY <1>2, <2>2 DEF CallMsg
<1>4. n = 0 => Dangling' = {}
  BY <1>2, <1>3
<1>5. CleanEndExplained'
  BY <1>1, <1>2 DEF CleanEndExplained, NoResult
<1>6. OfThisTurn'
  BY <1>3 DEF OfThisTurn
<1> QED
  BY <1>1, <1>2, <1>4, <1>5, <1>6
     DEF DanglingInv, SettledPC, WaitPC, OpenCallsEnd

(* Every truncated call gets its error result at once.                      *)
LEMMA TruncatedDangling ==
  ASSUME DanglingInv, [Next]_vars, FailTruncated
  PROVE  DanglingInv'
<1>1. /\ LoopInv /\ AnswerInv' /\ OutcomeInv'
      /\ OfThisTurn /\ ~ terminated /\ ~ suspended
      /\ pc = "truncated" /\ result = NoResult
  BY AnswerInvStep, OutcomeInvStep DEF DanglingInv, OutcomeInv, FailTruncated, Goto,
     CallPC, ExitPC
<1>2. /\ UNCHANGED <<terminated, suspended, result>>
      /\ pc' = "flush"
      /\ AppendAll(Upto("tool_result", calls))
  BY DEF FailTruncated, Goto
<1>3. /\ Len(transcript) \in Nat /\ calls \in Nat
      /\ Len(transcript') = Len(transcript) + calls
      /\ \A q \in Added : transcript'[q] = CallMsg("tool_result", q - Len(transcript))
  <2>1. /\ LoopTypeOK /\ calls \in 0 .. MaxCalls /\ calls \in Nat
        /\ transcript \in Seq(Entry)
    BY <1>1 DEF LoopInv, LoopTypeOK
  <2>2. /\ Upto("tool_result", calls) \in Seq(Entry)
        /\ Len(Upto("tool_result", calls)) = calls
    BY <2>1, UptoType, UptoElements
  <2>3. Len(transcript') = Len(transcript) + Len(Upto("tool_result", calls))
    BY <1>2, <2>1, <2>2, AppendAllAt
  <2>4. \A q \in Added : transcript'[q] = CallMsg("tool_result", q - Len(transcript))
    BY <1>1, <1>2, TruncatedResults
  <2> QED
    BY <2>1, <2>2, <2>3, <2>4, LenProperties
<1>4. \A q \in Added : transcript'[q].type = "tool_result"
  <2> TAKE q \in Added
  <2>1. transcript'[q] = CallMsg("tool_result", q - Len(transcript))
    BY <1>3
  <2> QED
    BY <2>1 DEF CallMsg
<1>5. ASSUME NEW p \in Dangling'
      PROVE  FALSE
  <2>1. p \in Dangling
    BY <1>1, <1>4, DanglingGrows
  <2>2. transcript[p].turn = turn /\ transcript[p].call \in 1 .. calls
    BY <1>1, <2>1 DEF OfThisTurn
  <2>3. PICK i \in 1 .. calls : transcript[p].call = i
    BY <2>2
  <2>4. PICK q \in Added : q - Len(transcript) = i
    <3>1. Len(transcript) + i \in Added /\ Len(transcript) + i - Len(transcript) = i
      BY <1>3 DEF Added
    <3> QED
      BY <3>1
  <2>5. transcript'[q] = CallMsg("tool_result", i)
    BY <1>3, <2>4
  <2>6. /\ transcript'[q].type = "tool_result"
        /\ transcript'[q].turn = transcript[p].turn
        /\ transcript'[q].call = transcript[p].call
    BY <2>2, <2>3, <2>5 DEF CallMsg
  <2> QED
    BY <1>1, <2>1, <2>6, AnsweredNow
<1>6. CleanEndExplained'
  BY <1>1, <1>2 DEF CleanEndExplained, NoResult
<1>7. Dangling' = {}
  BY <1>5
<1> QED
  BY <1>1, <1>2, <1>6, <1>7
     DEF DanglingInv, SettledPC, CallPC, WaitPC, OpenCallsEnd

(* The call whose result persists is answered, the others are as before.    *)
LEMMA PersistDangling ==
  ASSUME DanglingInv, [Next]_vars, PersistResult
  PROVE  DanglingInv'
<1>1. /\ LoopInv /\ AnswerInv' /\ OutcomeInv'
      /\ OfThisTurn /\ StillToAnswer /\ ~ terminated /\ ~ suspended
      /\ pc = "persist" /\ result = NoResult
  BY AnswerInvStep, OutcomeInvStep DEF DanglingInv, OutcomeInv, PersistResult, Goto,
     CallPC, ExitPC
<1>2. /\ UNCHANGED <<terminated, suspended, result, turn, calls, outcome>>
      /\ pc' = "persist" /\ next' = next + 1 /\ next <= calls
  BY DEF PersistResult, Goto, batchVars
<1>3. /\ transcript \in Seq(Entry) /\ Len(transcript) \in Nat
      /\ next \in Nat /\ calls \in Nat /\ next \in Call
      /\ CallMsg("tool_result", next) \in Entry
  <2>1. /\ LoopTypeOK /\ calls \in 0 .. MaxCalls /\ next \in 1 .. MaxCalls + 1
    BY <1>1 DEF LoopInv, LoopTypeOK
  <2>2. next \in Call
    BY <1>2, <2>1 DEF Call
  <2>3. CallMsg("tool_result", next) \in Entry
    BY <2>1, <2>2, MsgType
  <2> QED
    BY <1>1, <2>1, <2>2, <2>3, LenProperties DEF LoopInv
<1>4. ~ Suspends(next) =>
        /\ Len(transcript) + 1 \in Added
        /\ transcript'[Len(transcript) + 1] = CallMsg("tool_result", next)
  <2>1. ASSUME ~ Suspends(next)
        PROVE  AppendAll(<<CallMsg("tool_result", next)>>)
    BY <2>1 DEF PersistResult
  <2>2. /\ <<CallMsg("tool_result", next)>> \in Seq(Entry)
        /\ Len(<<CallMsg("tool_result", next)>>) = 1
        /\ <<CallMsg("tool_result", next)>>[1] = CallMsg("tool_result", next)
    BY <1>3, SingleMsgType
  <2>3. ASSUME ~ Suspends(next)
        PROVE  /\ Len(transcript') = Len(transcript) + 1
               /\ transcript'[Len(transcript) + 1] = CallMsg("tool_result", next)
    <3>1. 1 \in 1 .. Len(<<CallMsg("tool_result", next)>>)
      BY <2>2
    <3> QED
      BY <1>3, <2>1, <2>2, <2>3, <3>1, AppendAllAt
  <2> QED
    BY <1>3, <2>3 DEF Added
<1>5. \A q \in Added : transcript'[q].type # "tool_call"
  BY <1>1, TranscriptStep DEF MayAppend
<1>6. ASSUME NEW p \in Dangling'
      PROVE  /\ transcript'[p].turn = turn' /\ transcript'[p].call \in 1 .. calls'
             /\ \/ transcript'[p].call >= next'
                \/ outcome'[transcript'[p].call] \in {"suspend", "terminateAndSuspend"}
  <2>1. p \in Dangling
    BY <1>1, <1>5, DanglingGrows
  <2>2. transcript'[p] = transcript[p]
    BY <1>1, <2>1, DanglingGrows, TranscriptStep
  <2>3. /\ transcript[p].turn = turn /\ transcript[p].call \in 1 .. calls
        /\ transcript[p].call >= next \/ Suspends(transcript[p].call)
    BY <1>1, <2>1 DEF OfThisTurn, StillToAnswer
  <2>4. transcript[p].call = next => Suspends(next)
    <3>1. ASSUME transcript[p].call = next, ~ Suspends(next)
          PROVE  FALSE
      <4>1. PICK q \in Added : transcript'[q] = CallMsg("tool_result", next)
        BY <1>4, <3>1
      <4>2. /\ transcript'[q].type = "tool_result"
            /\ transcript'[q].turn = transcript[p].turn
            /\ transcript'[q].call = transcript[p].call
        BY <2>3, <3>1, <4>1 DEF CallMsg
      <4> QED
        BY <1>1, <2>1, <4>2, AnsweredNow
    <3> QED
      BY <3>1
  <2>5. transcript[p].call >= next + 1 \/ Suspends(transcript[p].call)
    BY <1>3, <2>3, <2>4
  <2> QED
    BY <1>2, <2>2, <2>3, <2>5 DEF Suspends
<1>7. CleanEndExplained'
  BY <1>1, <1>2 DEF CleanEndExplained, NoResult
<1>8. OfThisTurn' /\ StillToAnswer'
  BY <1>6 DEF OfThisTurn, StillToAnswer, Suspends
<1> QED
  BY <1>1, <1>2, <1>7, <1>8 DEF DanglingInv, SettledPC, WaitPC

(* The steps that look at the results of the batch.                         *)
LEMMA CollectDangling ==
  ASSUME DanglingInv, [Next]_vars, CollectTerminated \/ BeginCollect
  PROVE  DanglingInv'
<1>1. /\ LoopInv /\ AnswerInv' /\ OutcomeInv'
      /\ OfThisTurn /\ ~ terminated /\ ~ suspended
      /\ pc = "collect" /\ next = 1 /\ result = NoResult
  BY AnswerInvStep, OutcomeInvStep DEF DanglingInv, OutcomeInv, CollectTerminated,
     BeginCollect, Goto, CallPC, WaitPC, ExitPC
<1>2. UNCHANGED <<suspended, result, turn, calls, next, transcript>>
  BY DEF CollectTerminated, BeginCollect, Goto, logVars
<1>3. Dangling' = Dangling
  BY <1>1, <1>2, DanglingGrows
<1>4. CleanEndExplained'
  BY <1>1, <1>2 DEF CleanEndExplained, NoResult
<1>5. OfThisTurn'
  BY <1>1, <1>2, <1>3 DEF OfThisTurn
<1>6. CASE CollectTerminated
  <2>1. pc' = "flush" /\ terminated'
    BY <1>6 DEF CollectTerminated, Goto
  <2> QED
    BY <1>1, <1>2, <1>4, <2>1 DEF DanglingInv, SettledPC, CallPC, WaitPC, OpenCallsEnd
<1>7. CASE BeginCollect
  <2>1. pc' = "persist" /\ ~ terminated'
    BY <1>1, <1>7 DEF BeginCollect, Goto
  <2>2. StillToAnswer'
    BY <1>1, <1>2, <1>3 DEF StillToAnswer, OfThisTurn
  <2> QED
    BY <1>1, <1>2, <1>4, <1>5, <2>1, <2>2 DEF DanglingInv, SettledPC, WaitPC
<1> QED
  BY <1>6, <1>7

(* Exactly the suspended calls of the turn are left open.                   *)
LEMMA SuspendDangling ==
  ASSUME DanglingInv, [Next]_vars, EndCollect
  PROVE  DanglingInv'
<1>1. /\ LoopInv /\ AnswerInv' /\ OutcomeInv'
      /\ OfThisTurn /\ StillToAnswer /\ ~ terminated /\ ~ suspended
      /\ CallsStand /\ ResultsBefore
      /\ pc = "persist" /\ result = NoResult
  BY AnswerInvStep, OutcomeInvStep DEF DanglingInv, OutcomeInv, AnswerInv, EndCollect,
     Goto, CallPC, ExitPC
<1>2. /\ UNCHANGED <<terminated, result, transcript>>
      /\ pc' = "flush" /\ next > calls
      /\ suspended' = \E i \in 1 .. calls : Suspends(i)
  <2>1. suspended' = (suspended \/ \E i \in 1 .. calls : Suspends(i))
    BY DEF EndCollect
  <2> QED
    BY <1>1, <2>1 DEF EndCollect, Goto, logVars
<1>3. Dangling' = Dangling
  BY <1>1, <1>2, DanglingGrows
<1>4. /\ next \in Nat /\ calls \in Nat
      /\ Len(transcript) \in Nat /\ Positions = 1 .. Len(transcript)
  BY <1>1, LenProperties DEF LoopInv, LoopTypeOK, Positions
<1>5. ASSUME NEW p \in Dangling
      PROVE  suspended'
  <2>1. transcript[p].call \in 1 .. calls /\ ~ transcript[p].call >= next
    BY <1>1, <1>2, <1>4, <1>5 DEF OfThisTurn
  <2> QED
    BY <1>1, <1>2, <1>5, <2>1 DEF StillToAnswer
<1>6. ASSUME suspended'
      PROVE  Dangling # {}
  <2>1. PICK i \in 1 .. calls : Suspends(i)
    BY <1>2, <1>6
  <2>2. PICK b \in 0 .. Len(transcript) - calls : Stand(b)
    BY <1>1 DEF CallsStand
  <2>3. b + i \in Positions
    BY <1>4
  <2>4. transcript[b + i] = CallMsg("tool_call", i)
    BY <2>2 DEF Stand
  <2>5. /\ IsCall(b + i) /\ transcript[b + i].turn = turn
        /\ transcript[b + i].call = i
    BY <2>4 DEF IsCall, CallMsg
  <2>6. ~ \E q \in Positions : IsResult(q) /\ SameCall(b + i, q)
    BY <1>1, <2>1, <2>5 DEF ResultsBefore, SameCall
  <2> QED
    BY <2>3, <2>5, <2>6 DEF Dangling
<1>7. CleanEndExplained'
  BY <1>1, <1>2 DEF CleanEndExplained, NoResult
<1>8. OpenCallsEnd'
  BY <1>3, <1>5, <1>6 DEF OpenCallsEnd
<1> QED
  BY <1>1, <1>2, <1>7, <1>8 DEF DanglingInv, SettledPC, CallPC, WaitPC

LEMMA EndsDangling ==
  ASSUME DanglingInv, [Next]_vars, Ends
  PROVE  DanglingInv'
<1>1. LoopInv /\ AnswerInv' /\ OutcomeInv'
  BY AnswerInvStep, OutcomeInvStep DEF DanglingInv, OutcomeInv
<1>2. /\ pc' = "release" /\ UNCHANGED <<terminated, suspended>>
      /\ result'.suspended = suspended
      /\ result'.err = "nil" => pc \in {"hook", "continue"} /\ UNCHANGED transcript
  BY DEF Ends
<1>3. CleanEndExplained'
  <2>1. ASSUME result'.err = "nil"
        PROVE  Dangling' = Dangling /\ OpenCallsEnd
    <3>1. pc \in {"hook", "continue"}
      BY <1>2, <2>1
    <3>2. pc = "continue" => Dangling = {} /\ ~ terminated /\ ~ suspended
      BY DEF DanglingInv, SettledPC
    <3> QED
      BY <1>1, <1>2, <2>1, <3>1, <3>2, DanglingGrows DEF DanglingInv, OpenCallsEnd
  <2> QED
    BY <1>2, <2>1 DEF CleanEndExplained, OpenCallsEnd
<1> QED
  BY <1>1, <1>2, <1>3 DEF DanglingInv, SettledPC, CallPC, WaitPC

LEMMA QuietDangling ==
  ASSUME DanglingInv, [Next]_vars, Quiet
  PROVE  DanglingInv'
<1>1. LoopInv /\ AnswerInv' /\ OutcomeInv'
  BY AnswerInvStep, OutcomeInvStep DEF DanglingInv, OutcomeInv
<1>2. Dangling' = Dangling
  <2>1. \A p \in Added : transcript'[p].type \notin {"tool_call", "tool_result"}
    BY DEF Quiet, AddsNeither
  <2>2. Dangling \subseteq Dangling'
    BY <1>1, <2>1, DanglingGrows
  <2>3. Dangling' \subseteq Dangling
    BY <1>1, <2>1, DanglingGrows
  <2> QED
    BY <2>2, <2>3
<1>3. UNCHANGED <<terminated, suspended, result>>
  BY DEF Quiet
<1>4. CleanEndExplained'
  BY <1>2, <1>3 DEF DanglingInv, CleanEndExplained
<1>5. CASE pc' \in SettledPC
  <2>1. pc \in SettledPC \/ (pc = "hook" /\ ~ terminated /\ ~ suspended)
    BY <1>5 DEF Quiet, SettledPC, CallPC, ExitPC
  <2>2. Dangling = {} /\ ~ terminated /\ ~ suspended
    BY <2>1 DEF DanglingInv, OpenCallsEnd
  <2> QED
    BY <1>1, <1>2, <1>3, <1>4, <1>5, <2>2 DEF DanglingInv, SettledPC, CallPC, WaitPC
<1>6. CASE pc' \in CallPC
  <2>1. /\ pc \in CallPC /\ UNCHANGED <<turn, calls, transcript>>
        /\ pc' \in WaitPC => next' = 1 \/ (pc \in WaitPC /\ next' = next)
        /\ pc' = "persist" => pc = "persist" /\ UNCHANGED <<next, outcome>>
    BY <1>6 DEF Quiet, SettledPC, CallPC, WaitPC, ExitPC
  <2>2. OfThisTurn' /\ (pc' \in WaitPC => next' = 1)
    BY <1>2, <2>1 DEF DanglingInv, OfThisTurn
  <2>3. pc' = "persist" => StillToAnswer'
    BY <1>2, <2>1 DEF DanglingInv, StillToAnswer, Suspends
  <2>4. ~ terminated' /\ ~ suspended'
    BY <1>3, <2>1 DEF DanglingInv
  <2> QED
    BY <1>1, <1>4, <1>6, <2>2, <2>3, <2>4 DEF DanglingInv, SettledPC, CallPC
<1>7. CASE pc' \in {"flush", "hook"} \cup ExitPC
  <2>1. pc' \in {"flush", "hook"} => pc \in {"flush", "hook"}
    BY <1>7 DEF Quiet, SettledPC, CallPC, ExitPC
  <2>2. pc' \in {"flush", "hook"} => OpenCallsEnd'
    BY <1>2, <1>3, <2>1 DEF DanglingInv, OpenCallsEnd
  <2> QED
    BY <1>1, <1>4, <1>7, <2>2 DEF DanglingInv, SettledPC, CallPC, WaitPC, ExitPC
<1> QED
  BY <1>5, <1>6, <1>7 DEF Quiet, CallPC

LEMMA DanglingInvStep == DanglingInv /\ [Next]_vars => DanglingInv'
<1> SUFFICES ASSUME DanglingInv, [Next]_vars
             PROVE  DanglingInv'
  OBVIOUS
<1>1. LoopInv
  BY DEF DanglingInv, OutcomeInv
<1> QED
  BY <1>1, AnswerCases, RespondDangling, TruncatedDangling, PersistDangling,
     CollectDangling, SuspendDangling, EndsDangling, QuietDangling

(* A request is made only when every earlier call of the prompt has its     *)
(* result and the prompt knows all of the session, whatever exits the       *)
(* batches before took (prompt.go:210-218, 321-363, 612-616).               *)
THEOREM RequestsSeeResults == Spec => []RequestSeesAllResults
<1>1. DanglingInv /\ KnownInv => RequestSeesAllResults
  BY DEF DanglingInv, KnownInv, RequestSeesAllResults, SettledPC, ExitPC
<1>2. Spec => []DanglingInv
  BY DanglingInit, DanglingInvStep, PTL DEF Spec
<1>3. Spec => []KnownInv
  BY KnownInit, KnownInvStep, PTL DEF Spec
<1> QED
  BY <1>1, <1>2, <1>3, PTL

(* A prompt that ends without an error leaves a call open only because a    *)
(* result asked to terminate or to suspend, and reports Suspended only if   *)
(* a call is left open (prompt.go:813-842).                                 *)
THEOREM CleanEndsAreExplained == Spec => []CleanEndExplained
<1>1. DanglingInv => CleanEndExplained
  BY DEF DanglingInv
<1> QED
  BY <1>1, DanglingInit, DanglingInvStep, PTL DEF Spec
=============================================================================
