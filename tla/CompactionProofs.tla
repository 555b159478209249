-------------------------- MODULE CompactionProofs --------------------------
(***************************************************************************)
(* TLAPS proofs about Compaction, for any number of calls of Compact, of   *)
(* retries, of entries and of imported summaries: where a log is cut, what *)
(* a summary was made from, how retries and failures are counted, and what *)
(* BuildLLMContext, a fold over the sorted summaries, makes of a log.      *)
(***************************************************************************)
EXTENDS Compaction, FoldTheorems

USE CompactionAssumption

-----------------------------------------------------------------------------
(* Where a log is cut.                                                      *)

(* A cut leaves at least one message after it, and the message before which *)
(* it is made is no tool result and no active_tools_change, unless only     *)
(* those follow (findCutPoint, compact.go:360-394).                         *)
LEMMA CutPoint ==
  ASSUME NEW msgs \in Seq(Type), NEW keep \in Nat \ {0}
  PROVE  LET k == FindCutPoint(msgs, keep) IN
         /\ k \in Nat
         /\ k > 0 => /\ k < Len(msgs)
                     /\ \/ IsValidCutPoint(msgs[k + 1])
                        \/ \A j \in k + 1 .. Len(msgs) : ~IsValidCutPoint(msgs[j])
<1> DEFINE full == {i \in DOMAIN msgs : Len(msgs) - i + 1 >= keep}
           valid == {j \in DOMAIN msgs : j >= Max(full) /\ IsValidCutPoint(msgs[j])}
           k == FindCutPoint(msgs, keep)
<1>1. DOMAIN msgs = 1 .. Len(msgs) /\ Len(msgs) \in Nat
  OBVIOUS
<1>2. CASE full = {}
  <2>1. k = 0
    BY <1>2 DEF FindCutPoint
  <2> QED
    BY <2>1
<1>3. CASE full # {}
  <2> DEFINE last == Len(msgs) - keep + 1
  <2>1. last \in full /\ \A y \in full : last >= y
    BY <1>1, <1>3
  <2>2. \E m \in full : \A y \in full : m >= y
    BY <2>1
  <2>3. Max(full) \in full /\ \A y \in full : Max(full) >= y
    BY <2>2 DEF Max
  <2>4. Max(full) \in 1 .. Len(msgs)
    BY <2>3, <1>1
  <2> HIDE DEF full, last
  <2>5. CASE valid = {}
    <3>1. k = Max(full) - 1
      BY <1>3, <2>5 DEF FindCutPoint, full
    <3>2. \A j \in DOMAIN msgs : j >= Max(full) => ~IsValidCutPoint(msgs[j])
      BY <2>5
    <3> QED
      BY <3>1, <3>2, <2>4, <1>1
  <2>6. CASE valid # {}
    <3>1. k = Min(valid) - 1
      BY <1>3, <2>6 DEF FindCutPoint, full
    <3>2. valid \in SUBSET Nat
      BY <1>1
    <3>3. Min(valid) \in valid
      BY <3>2, <2>6, LeastElement
    <3>4. Min(valid) \in 1 .. Len(msgs) /\ IsValidCutPoint(msgs[Min(valid)])
      BY <3>3, <1>1
    <3> QED
      BY <3>1, <3>4, <1>1
  <2> QED
    BY <2>5, <2>6
<1> QED
  BY <1>2, <1>3

-----------------------------------------------------------------------------
(* Type correctness, in three parts: the session, the prompt and the calls  *)
(* of Compact.                                                              *)

SessionTyped ==
  log \in Seq(Type) /\ Len(log) <= MaxLog /\ sums \in Seq(Summary)
    /\ imports \in 0 .. MaxImports
PromptTyped ==
  stage \in {"none", "load summaries", "loop"}
    /\ view \in Seq(Type) /\ viewSums \in Seq(Summary) /\ loaded \in 0 .. MaxLog
CallsTyped ==
  /\ pc \in [Compactor -> PC] /\ cut \in [Compactor -> 0 .. MaxLog]
  /\ saw \in [Compactor -> SUBSET (1 .. MaxLog)] /\ call \in [Compactor -> 1 .. 2]
  /\ attempt \in [Compactor -> Nat] /\ result \in [Compactor -> Result]
HooksTyped == hook \in [Compactor -> Phase]

LEMMA TypeParts ==
  TypeOK <=> SessionTyped /\ PromptTyped /\ CallsTyped /\ HooksTyped
  BY Zenon DEF TypeOK, SessionTyped, PromptTyped, CallsTyped, HooksTyped

LEMMA TypePartsNext ==
  TypeOK' <=> SessionTyped' /\ PromptTyped' /\ CallsTyped' /\ HooksTyped'
  BY Zenon DEF TypeOK, SessionTyped, PromptTyped, CallsTyped, HooksTyped

LEMMA TypeInit == Init => TypeOK
<1> SUFFICES ASSUME Init
             PROVE  SessionTyped /\ PromptTyped /\ CallsTyped /\ HooksTyped
  BY TypeParts
<1>1. SessionTyped
  BY DEF Init, SessionTyped
<1>2. PromptTyped
  BY DEF Init, PromptTyped
<1>3. CallsTyped /\ HooksTyped
  BY DEF Init, CallsTyped, HooksTyped, PC, Result, Phase
<1> QED
  BY <1>1, <1>2, <1>3

LEMMA SessionUnchanged ==
  ASSUME SessionTyped, UNCHANGED sessionVars
  PROVE  SessionTyped'
  BY DEF SessionTyped, sessionVars

LEMMA PromptUnchanged ==
  ASSUME PromptTyped, UNCHANGED promptVars
  PROVE  PromptTyped'
  BY DEF PromptTyped, promptVars

LEMMA CallsUnchanged ==
  ASSUME CallsTyped, HooksTyped, UNCHANGED <<pc, planVars, retryVars, result>>
  PROVE  CallsTyped' /\ HooksTyped'
  BY DEF CallsTyped, HooksTyped, planVars, retryVars

LEMMA MessagesTyped ==
  /\ <<"text">> \in Seq(Type) /\ <<"active_tools_change">> \in Seq(Type)
  /\ <<"tool_result">> \in Seq(Type)
  /\ \A n \in Nat : [i \in 1 .. n |-> "tool_call"] \in Seq(Type)
  BY DEF Type

LEMMA PromptAppended ==
  ASSUME PromptAppends
  PROVE  \E msgs \in Seq(Type) : PromptAppend(msgs)
<1>1. CASE PromptAppend(<<"text">>)
  BY <1>1, MessagesTyped
<1>2. CASE PromptAppend(<<"active_tools_change">>)
  BY <1>2, MessagesTyped
<1>3. CASE \E n \in 1 .. MaxCalls : PromptAppend([i \in 1 .. n |-> "tool_call"])
  <2>1. PICK n \in 1 .. MaxCalls : PromptAppend([i \in 1 .. n |-> "tool_call"])
    BY <1>3
  <2>2. n \in Nat
    BY <2>1
  <2> QED
    BY <2>1, <2>2, MessagesTyped
<1>4. CASE PromptAppend(<<"tool_result">>)
  BY <1>4, MessagesTyped
<1> QED
  BY <1>1, <1>2, <1>3, <1>4 DEF PromptAppends

LEMMA SummaryTyped ==
  ASSUME NEW start \in 0 .. MaxLog, NEW end \in 0 .. MaxLog,
         NEW seen \in SUBSET (1 .. MaxLog)
  PROVE  [start |-> start, end |-> end, saw |-> seen] \in Summary
  BY DEF Summary

(* The prompt, its end, and what happens to the session beside it.          *)
LEMMA SessionTypes ==
  ASSUME TypeOK,
         \/ PromptStart \/ PromptLoadSummaries \/ PromptAppends \/ PromptEnd
         \/ ChangeOutsidePrompt \/ ImportSummary
  PROVE  TypeOK'
<1>0. SessionTyped /\ PromptTyped /\ CallsTyped /\ HooksTyped
  BY TypeParts
<1>1. CallsTyped' /\ HooksTyped'
  <2>1. UNCHANGED <<pc, planVars, retryVars, result>>
    BY DEF PromptStart, PromptLoadSummaries, PromptAppends, PromptAppend, PromptEnd,
       ChangeOutsidePrompt, ImportSummary
  <2> QED
    BY <1>0, <2>1, CallsUnchanged
<1> SUFFICES SessionTyped' /\ PromptTyped'
  BY <1>1, TypePartsNext
<1>2. CASE PromptStart \/ PromptLoadSummaries \/ PromptEnd
  <2>1. SessionTyped'
    BY <1>0, <1>2, SessionUnchanged DEF PromptStart, PromptLoadSummaries, PromptEnd
  <2>2. CASE PromptStart
    <3>1. stage' = "load summaries" /\ view' = log /\ loaded' = Len(log) /\ viewSums' = viewSums
      BY <2>2 DEF PromptStart
    <3>2. Len(log) \in 0 .. MaxLog
      BY <1>0 DEF SessionTyped
    <3> QED
      BY <1>0, <2>1, <3>1, <3>2 DEF SessionTyped, PromptTyped
  <2>3. CASE PromptLoadSummaries
    <3>1. stage' = "loop" /\ viewSums' = sums /\ view' = view /\ loaded' = loaded
      BY <2>3 DEF PromptLoadSummaries
    <3> QED
      BY <1>0, <2>1, <3>1 DEF SessionTyped, PromptTyped
  <2>4. CASE PromptEnd
    <3>1. stage' = "none" /\ view' = <<>> /\ viewSums' = <<>> /\ loaded' = 0
      BY <2>4 DEF PromptEnd
    <3>2. <<>> \in Seq(Type) /\ <<>> \in Seq(Summary) /\ 0 \in 0 .. MaxLog
      BY CompactionAssumption
    <3> QED
      BY <2>1, <3>1, <3>2 DEF PromptTyped
  <2> QED
    BY <1>2, <2>2, <2>3, <2>4
<1>3. CASE PromptAppends
  <2>1. PICK msgs \in Seq(Type) : PromptAppend(msgs)
    BY <1>3, PromptAppended
  <2>2. /\ log \o msgs \in Seq(Type) /\ Len(log \o msgs) = Len(log) + Len(msgs)
        /\ view \o msgs \in Seq(Type)
    BY <1>0, Concatenation DEF SessionTyped, PromptTyped
  <2> QED
    BY <1>0, <2>1, <2>2 DEF PromptAppend, SessionTyped, PromptTyped
<1>4. CASE ChangeOutsidePrompt
  <2>1. "active_tools_change" \in Type
    BY DEF Type
  <2>2. /\ Append(log, "active_tools_change") \in Seq(Type)
        /\ Len(Append(log, "active_tools_change")) = Len(log) + 1
    BY <1>0, <2>1, Appending DEF SessionTyped
  <2> QED
    BY <1>0, <1>4, <2>2, PromptUnchanged DEF ChangeOutsidePrompt, SessionTyped
<1>5. CASE ImportSummary
  <2>1. PICK start \in 0 .. Len(log) - 1, end \in 1 .. Len(log) :
          sums' = Append(sums, [start |-> start, end |-> end, saw |-> start + 1 .. end])
    BY <1>5 DEF ImportSummary
  <2>2. /\ start \in 0 .. MaxLog /\ end \in 0 .. MaxLog
        /\ start + 1 .. end \in SUBSET (1 .. MaxLog)
    BY <1>0 DEF SessionTyped
  <2>3. sums' \in Seq(Summary)
    BY <1>0, <2>1, <2>2, SummaryTyped, Appending DEF SessionTyped
  <2>4. imports' \in 0 .. MaxImports /\ log' = log
    BY <1>0, <1>5 DEF ImportSummary, SessionTyped
  <2> QED
    BY <1>0, <1>5, <2>3, <2>4, PromptUnchanged DEF ImportSummary, SessionTyped
<1> QED
  BY <1>2, <1>3, <1>4, <1>5

(* Compact returns, moves on, and reports a phase of a retry.               *)
LEMMA ReturnTypes ==
  ASSUME CallsTyped, NEW c \in Compactor, NEW from, NEW r \in Result, Return(c, from, r)
  PROVE  CallsTyped'
<1>1. /\ "done" \in PC /\ 0 \in 0 .. MaxLog /\ {} \in SUBSET (1 .. MaxLog)
      /\ 1 \in 1 .. 2 /\ 0 \in Nat
  BY DEF PC
<1>2. pc' \in [Compactor -> PC] /\ result' \in [Compactor -> Result]
  BY <1>1 DEF Return, Go, CallsTyped
<1>3. cut' \in [Compactor -> 0 .. MaxLog]
  BY <1>1 DEF Return, CallsTyped
<1>4. saw' \in [Compactor -> SUBSET (1 .. MaxLog)]
  BY <1>1 DEF Return, CallsTyped
<1>5. call' \in [Compactor -> 1 .. 2] /\ attempt' \in [Compactor -> Nat]
  BY <1>1 DEF Return, CallsTyped
<1> QED
  BY <1>2, <1>3, <1>4, <1>5 DEF CallsTyped

LEMMA GoTypes ==
  ASSUME CallsTyped, NEW c \in Compactor, NEW from, NEW to \in PC, Go(c, from, to),
         Keep(c)
  PROVE  CallsTyped'
<1>1. pc' \in [Compactor -> PC]
  BY DEF Go, CallsTyped
<1> QED
  BY <1>1 DEF Keep, CallsTyped, planVars

LEMMA NotifyTypes ==
  ASSUME HooksTyped, NEW c \in Compactor,
         \/ \E phase \in Phase : Notify(c, phase)
         \/ CloseEpisode(c) \/ UNCHANGED hook
  PROVE  HooksTyped'
  BY DEF Notify, CloseEpisode, HooksTyped, Phase

(* What Compact does before and after its requests.                         *)
LEMMA CompactTypes ==
  ASSUME TypeOK, NEW c \in Compactor,
         Begin(c) \/ LoadLog(c) \/ PlanSummary(c) \/ Persist(c)
  PROVE  TypeOK'
<1>0. /\ SessionTyped /\ PromptTyped /\ CallsTyped /\ HooksTyped
      /\ {"failed", "nothing", "unsaved", "compacted"} \subseteq Result
      /\ {"load", "plan", "call", "wait", "persist", "done"} \subseteq PC
  BY TypeParts DEF Result, PC
<1>1. PromptTyped' /\ HooksTyped'
  BY <1>0, PromptUnchanged, NotifyTypes DEF Begin, LoadLog, PlanSummary, Persist
<1> SUFFICES SessionTyped' /\ CallsTyped'
  BY <1>1, TypePartsNext
<1>2. CASE Begin(c)
  BY <1>0, <1>2, ReturnTypes, GoTypes, SessionUnchanged DEF Begin
<1>3. CASE LoadLog(c)
  <2>1. CASE Return(c, "load", "failed") \/ Return(c, "load", "nothing")
    BY <1>0, <1>3, <2>1, ReturnTypes, SessionUnchanged DEF LoadLog
  <2>2. CASE ~ (Return(c, "load", "failed") \/ Return(c, "load", "nothing"))
    <3>1. PICK keep \in 1 .. MaxLog + 1 :
            /\ FindCutPoint(log, keep) > 0
            /\ Go(c, "load", "plan")
            /\ cut' = [cut EXCEPT ![c] = FindCutPoint(log, keep)]
            /\ UNCHANGED <<saw, call, attempt, result>>
      BY <1>3, <2>2 DEF LoadLog
    <3>2. log \in Seq(Type) /\ keep \in Nat \ {0} /\ Len(log) \in 0 .. MaxLog
      BY <1>0 DEF SessionTyped
    <3>3. FindCutPoint(log, keep) \in Nat /\ FindCutPoint(log, keep) < Len(log)
      BY <3>1, <3>2, CutPoint
    <3>4. cut' \in [Compactor -> 0 .. MaxLog]
      BY <1>0, <3>1, <3>2, <3>3 DEF CallsTyped
    <3>5. pc' \in [Compactor -> PC]
      BY <1>0, <3>1 DEF Go, CallsTyped
    <3> QED
      BY <1>0, <1>3, <3>1, <3>4, <3>5, SessionUnchanged DEF LoadLog, CallsTyped
  <2> QED
    BY <2>1, <2>2
<1>4. CASE PlanSummary(c)
  <2>1. CASE Return(c, "plan", "failed")
    BY <1>0, <1>4, <2>1, ReturnTypes, SessionUnchanged DEF PlanSummary
  <2>2. CASE ~Return(c, "plan", "failed")
    <3>1. sums # <<>> => Last(sums) \in Summary
      BY <1>0 DEF Last, SessionTyped
    <3>2. sums # <<>> => Last(sums).saw \in SUBSET (1 .. MaxLog)
      BY <3>1 DEF Summary
    <3>3. 1 .. cut[c] \in SUBSET (1 .. MaxLog)
      BY <1>0 DEF CallsTyped
    <3> DEFINE more == IF Split(c) \/ sums = <<>> THEN {} ELSE Last(sums).saw
    <3>4. /\ saw' = [saw EXCEPT ![c] = (1 .. cut[c]) \cup more]
          /\ Go(c, "plan", "call") /\ UNCHANGED <<cut, call, attempt, result>>
      BY <1>4, <2>2 DEF PlanSummary
    <3>5. (1 .. cut[c]) \cup more \in SUBSET (1 .. MaxLog)
      BY <3>2, <3>3
    <3> HIDE DEF more
    <3>6. saw' \in [Compactor -> SUBSET (1 .. MaxLog)]
      BY <1>0, <3>4, <3>5 DEF CallsTyped
    <3>7. pc' \in [Compactor -> PC]
      BY <1>0, <3>4 DEF Go, CallsTyped
    <3> QED
      BY <1>0, <1>4, <3>4, <3>6, <3>7, SessionUnchanged DEF PlanSummary, CallsTyped
  <2> QED
    BY <2>1, <2>2
<1>5. CASE Persist(c)
  <2>1. 0 \in 0 .. MaxLog /\ cut[c] \in 0 .. MaxLog /\ saw[c] \in SUBSET (1 .. MaxLog)
    BY <1>0 DEF CallsTyped
  <2>2. SummaryOf(c) \in Summary
    BY <2>1, SummaryTyped DEF SummaryOf
  <2>3. Append(sums, SummaryOf(c)) \in Seq(Summary)
    BY <1>0, <2>2, Appending DEF SessionTyped
  <2>4. SessionTyped'
    BY <1>0, <1>5, <2>3 DEF Persist, SessionTyped
  <2> QED
    BY <1>0, <1>5, <2>4, ReturnTypes DEF Persist
<1> QED
  BY <1>2, <1>3, <1>4, <1>5

(* Its requests and their retries.                                          *)
LEMMA RetryTypes ==
  ASSUME TypeOK, NEW c \in Compactor,
         SummarizeOnce(c) \/ RetryWaited(c) \/ RetryCancelled(c)
  PROVE  TypeOK'
<1>0. /\ SessionTyped /\ PromptTyped /\ CallsTyped /\ HooksTyped
      /\ "failed" \in Result /\ {"call", "wait", "persist"} \subseteq PC
      /\ {"closed", "scheduled", "attempt_start"} \subseteq Phase
  BY TypeParts DEF Result, PC, Phase
<1>1. SessionTyped' /\ PromptTyped'
  BY <1>0, SessionUnchanged, PromptUnchanged DEF SummarizeOnce, RetryWaited,
     RetryCancelled
<1> SUFFICES CallsTyped' /\ HooksTyped'
  BY <1>1, TypePartsNext
<1>2. CASE RetryWaited(c)
  BY <1>0, <1>2, GoTypes, NotifyTypes DEF RetryWaited
<1>3. CASE RetryCancelled(c)
  BY <1>0, <1>3, ReturnTypes, NotifyTypes DEF RetryCancelled
<1>4. CASE Summarized(c)
  <2>1. HooksTyped'
    BY <1>0, <1>4, NotifyTypes DEF Summarized
  <2>2. CASE Go(c, "call", "persist") /\ Keep(c)
    BY <1>0, <2>1, <2>2, GoTypes
  <2>3. CASE ~ (Go(c, "call", "persist") /\ Keep(c))
    <3>1. /\ Go(c, "call", "call") /\ call' = [call EXCEPT ![c] = 2]
          /\ attempt' = [attempt EXCEPT ![c] = 0] /\ UNCHANGED <<planVars, result>>
      BY <1>4, <2>3 DEF Summarized
    <3>2. pc' \in [Compactor -> PC]
      BY <1>0, <3>1 DEF Go, CallsTyped
    <3>3. call' \in [Compactor -> 1 .. 2] /\ attempt' \in [Compactor -> Nat]
      BY <1>0, <3>1 DEF CallsTyped
    <3> QED
      BY <1>0, <2>1, <3>1, <3>2, <3>3 DEF CallsTyped, planVars
  <2> QED
    BY <2>2, <2>3
<1>5. CASE ScheduleRetry(c)
  <2>1. HooksTyped'
    BY <1>0, <1>5, NotifyTypes DEF ScheduleRetry
  <2>2. pc' \in [Compactor -> PC]
    BY <1>0, <1>5 DEF ScheduleRetry, Go, CallsTyped
  <2>3. attempt' \in [Compactor -> Nat]
    BY <1>0, <1>5 DEF ScheduleRetry, CallsTyped
  <2> QED
    BY <1>0, <1>5, <2>1, <2>2, <2>3 DEF ScheduleRetry, CallsTyped, planVars
<1>6. CASE GiveUp(c)
  BY <1>0, <1>6, ReturnTypes, NotifyTypes DEF GiveUp
<1> QED
  BY <1>2, <1>3, <1>4, <1>5, <1>6 DEF SummarizeOnce

LEMMA TypeStep == TypeOK /\ [Next]_vars => TypeOK'
<1> SUFFICES ASSUME TypeOK, [Next]_vars
             PROVE  TypeOK'
  OBVIOUS
<1>1. CASE UNCHANGED vars
  BY <1>1, TypeParts, TypePartsNext, SessionUnchanged, PromptUnchanged, CallsUnchanged
     DEF vars
<1> QED
  BY <1>1, SessionTypes, CompactTypes, RetryTypes DEF Next, Compact

(* Every variable keeps its range: a cut is a place in the log, and what a  *)
(* request holds are positions of the log (compact.go:330-412).             *)
THEOREM TypeCorrect == Spec => []TypeOK
  BY TypeInit, TypeStep, PTL DEF Spec

-----------------------------------------------------------------------------
(* One call of Compact at a time: what a step of another leaves alone, and  *)
(* what a return makes of its own.                                          *)

Unmoved(d) ==
  /\ pc'[d] = pc[d] /\ cut'[d] = cut[d] /\ saw'[d] = saw[d]
  /\ attempt'[d] = attempt[d] /\ hook'[d] = hook[d] /\ result'[d] = result[d]

LEMMA UnchangedUnmoved ==
  ASSUME UNCHANGED <<pc, planVars, retryVars, result>>
  PROVE  \A d \in Compactor : Unmoved(d)
  BY DEF planVars, retryVars, Unmoved

LEMMA Returned ==
  ASSUME CallsTyped, NEW c \in Compactor, NEW from, NEW r, Return(c, from, r)
  PROVE  /\ pc[c] = from /\ pc'[c] = "done" /\ result'[c] = r /\ attempt'[c] = 0
         /\ \A d \in Compactor \ {c} :
              /\ pc'[d] = pc[d] /\ cut'[d] = cut[d] /\ saw'[d] = saw[d]
              /\ attempt'[d] = attempt[d] /\ result'[d] = result[d]
<1>1. /\ pc[c] = from /\ pc'[c] = "done" /\ result'[c] = r /\ attempt'[c] = 0
  BY DEF Return, Go, CallsTyped
<1>2. ASSUME NEW d \in Compactor \ {c}
      PROVE  /\ pc'[d] = pc[d] /\ saw'[d] = saw[d]
             /\ attempt'[d] = attempt[d] /\ result'[d] = result[d]
  BY DEF Return, Go, CallsTyped
<1>3. ASSUME NEW d \in Compactor \ {c}
      PROVE  cut'[d] = cut[d]
  BY DEF Return, CallsTyped
<1> QED
  BY <1>1, <1>2, <1>3

LEMMA Gone ==
  ASSUME CallsTyped, NEW c \in Compactor, NEW from, NEW to, Go(c, from, to)
  PROVE  /\ pc[c] = from /\ pc'[c] = to
         /\ \A d \in Compactor \ {c} : pc'[d] = pc[d]
  BY DEF Go, CallsTyped

LEMMA Notified ==
  ASSUME HooksTyped, NEW c \in Compactor, NEW phase, Notify(c, phase)
  PROVE  hook'[c] = phase /\ \A d \in Compactor \ {c} : hook'[d] = hook[d]
  BY DEF Notify, HooksTyped

LEMMA Closed ==
  ASSUME HooksTyped, NEW c \in Compactor, CloseEpisode(c)
  PROVE  /\ IF attempt[c] = 0 THEN hook'[c] = hook[c] ELSE hook'[c] = "closed"
         /\ \A d \in Compactor \ {c} : hook'[d] = hook[d]
  BY Notified DEF CloseEpisode

(* What a step of one Compact does to it, and that it does nothing to the   *)
(* others: it returns, moves on, or tells the hook of a retry.              *)
LEMMA CallStep ==
  ASSUME TypeOK, NEW c \in Compactor, Begin(c) \/ Compact(c)
  PROVE  /\ pc[c] # "done"
         /\ \A d \in Compactor \ {c} : Unmoved(d)
         /\ \/ pc'[c] = "done" /\ attempt'[c] = 0
            \/ pc'[c] # "done" /\ result'[c] = result[c]
<1>0. CallsTyped /\ HooksTyped
  BY TypeParts
<1>1. CASE Begin(c)
  <2>1. CASE Return(c, "idle", "failed")
    BY <1>0, <1>1, <2>1, Returned DEF Begin, Unmoved
  <2>2. CASE Go(c, "idle", "load") /\ Keep(c)
    BY <1>0, <1>1, <2>2, Gone DEF Begin, Keep, planVars, Unmoved
  <2> QED
    BY <1>1, <2>1, <2>2 DEF Begin
<1>2. CASE LoadLog(c)
  <2>1. CASE Return(c, "load", "failed") \/ Return(c, "load", "nothing")
    BY <1>0, <1>2, <2>1, Returned DEF LoadLog, Unmoved
  <2>2. CASE ~ (Return(c, "load", "failed") \/ Return(c, "load", "nothing"))
    <3>1. /\ Go(c, "load", "plan") /\ \E k : cut' = [cut EXCEPT ![c] = k]
          /\ UNCHANGED <<saw, call, attempt, result, hook>>
      BY <1>2, <2>2 DEF LoadLog
    <3>2. \A d \in Compactor \ {c} : cut'[d] = cut[d]
      BY <1>0, <3>1 DEF CallsTyped
    <3> QED
      BY <1>0, <3>1, <3>2, Gone DEF Unmoved
  <2> QED
    BY <2>1, <2>2
<1>3. CASE PlanSummary(c)
  <2>1. CASE Return(c, "plan", "failed")
    BY <1>0, <1>3, <2>1, Returned DEF PlanSummary, Unmoved
  <2>2. CASE ~Return(c, "plan", "failed")
    <3>1. /\ Go(c, "plan", "call") /\ \E k : saw' = [saw EXCEPT ![c] = k]
          /\ UNCHANGED <<cut, call, attempt, result, hook>>
      BY <1>3, <2>2 DEF PlanSummary
    <3>2. \A d \in Compactor \ {c} : saw'[d] = saw[d]
      BY <1>0, <3>1 DEF CallsTyped
    <3> QED
      BY <1>0, <3>1, <3>2, Gone DEF Unmoved
  <2> QED
    BY <2>1, <2>2
<1>4. CASE Summarized(c)
  <2>1. CASE Go(c, "call", "persist") /\ Keep(c)
    BY <1>0, <1>4, <2>1, Gone, Closed DEF Summarized, Keep, planVars, Unmoved
  <2>2. CASE ~ (Go(c, "call", "persist") /\ Keep(c))
    <3>1. /\ Go(c, "call", "call") /\ attempt' = [attempt EXCEPT ![c] = 0]
          /\ UNCHANGED <<planVars, result>> /\ CloseEpisode(c)
      BY <1>4, <2>2 DEF Summarized
    <3>2. \A d \in Compactor \ {c} : attempt'[d] = attempt[d]
      BY <1>0, <3>1 DEF CallsTyped
    <3> QED
      BY <1>0, <3>1, <3>2, Gone, Closed DEF planVars, Unmoved
  <2> QED
    BY <2>1, <2>2
<1>5. CASE ScheduleRetry(c)
  <2>1. \A d \in Compactor \ {c} : attempt'[d] = attempt[d]
    BY <1>0, <1>5 DEF ScheduleRetry, CallsTyped
  <2> QED
    BY <1>0, <1>5, <2>1, Gone, Notified DEF ScheduleRetry, planVars, Unmoved
<1>6. CASE GiveUp(c)
  BY <1>0, <1>6, Returned, Closed DEF GiveUp, Unmoved
<1>7. CASE RetryWaited(c)
  BY <1>0, <1>7, Gone, Notified DEF RetryWaited, Keep, planVars, Unmoved
<1>8. CASE RetryCancelled(c)
  BY <1>0, <1>8, Returned, Notified DEF RetryCancelled, Unmoved
<1>9. CASE Persist(c)
  BY <1>0, <1>9, Returned DEF Persist, Unmoved
<1> QED
  BY <1>1, <1>2, <1>3, <1>4, <1>5, <1>6, <1>7, <1>8, <1>9 DEF Compact, SummarizeOnce

-----------------------------------------------------------------------------
(* Retries.  The invariant says also that a wait is that of a retry already *)
(* counted, which is why the attempt it leads to is not the first.          *)

EpisodeOf(c) ==
  /\ pc[c] = "done" => hook[c] = "closed"
  /\ pc[c] = "wait" <=> hook[c] = "scheduled"
  /\ hook[c] = "attempt_start" => pc[c] = "call" /\ attempt[c] > 0
  /\ pc[c] = "wait" => attempt[c] > 0

RetryInv == TypeOK /\ \A c \in Compactor : EpisodeOf(c)

LEMMA RetryInit == Init => RetryInv
<1> SUFFICES ASSUME Init
             PROVE  \A c \in Compactor : EpisodeOf(c)
  BY TypeInit DEF RetryInv
<1> QED
  BY DEF Init, EpisodeOf

LEMMA EpisodeUnmoved ==
  ASSUME NEW d \in Compactor, EpisodeOf(d), Unmoved(d)
  PROVE  EpisodeOf(d)'
  BY DEF EpisodeOf, Unmoved

(* A Compact without a retry on its way goes on without one.                *)
LEMMA EpisodeQuiet ==
  ASSUME NEW c \in Compactor, hook'[c] = "closed", pc'[c] # "wait"
  PROVE  EpisodeOf(c)'
  BY DEF EpisodeOf

LEMMA EpisodeStep ==
  ASSUME TypeOK, NEW c \in Compactor, EpisodeOf(c), Begin(c) \/ Compact(c)
  PROVE  EpisodeOf(c)'
<1>0. /\ CallsTyped /\ HooksTyped /\ hook[c] \in Phase /\ attempt[c] \in Nat
  BY TypeParts DEF CallsTyped, HooksTyped
<1>1. CASE Begin(c) \/ LoadLog(c) \/ PlanSummary(c) \/ Persist(c)
  <2>1. UNCHANGED hook
    BY <1>1 DEF Begin, LoadLog, PlanSummary, Persist
  <2>2. /\ pc[c] \in {"idle", "load", "plan", "persist"}
        /\ pc'[c] \in {"load", "plan", "call", "done"}
    BY <1>0, <1>1, Gone, Returned DEF Begin, LoadLog, PlanSummary, Persist
  <2>3. hook[c] = "closed"
    BY <1>0, <2>2 DEF EpisodeOf, Phase
  <2> QED
    BY <2>1, <2>2, <2>3, EpisodeQuiet
<1>2. CASE GiveUp(c) \/ Summarized(c)
  <2>1. CloseEpisode(c) /\ pc[c] = "call" /\ pc'[c] \in {"call", "persist", "done"}
    BY <1>0, <1>2, Gone, Returned DEF GiveUp, Summarized
  <2>2. hook'[c] = "closed"
    BY <1>0, <2>1, Closed DEF EpisodeOf, Phase
  <2> QED
    BY <2>1, <2>2, EpisodeQuiet
<1>3. CASE ScheduleRetry(c)
  <2>1. pc'[c] = "wait" /\ hook'[c] = "scheduled"
    BY <1>0, <1>3, Gone, Notified DEF ScheduleRetry
  <2>2. attempt'[c] > 0
    BY <1>0, <1>3 DEF ScheduleRetry, CallsTyped
  <2> QED
    BY <2>1, <2>2 DEF EpisodeOf
<1>4. CASE RetryWaited(c)
  <2>1. pc[c] = "wait" /\ pc'[c] = "call" /\ hook'[c] = "attempt_start"
    BY <1>0, <1>4, Gone, Notified DEF RetryWaited
  <2>2. attempt'[c] > 0
    BY <1>4, <2>1 DEF RetryWaited, Keep, EpisodeOf
  <2> QED
    BY <2>1, <2>2 DEF EpisodeOf
<1>5. CASE RetryCancelled(c)
  <2>1. pc'[c] = "done" /\ hook'[c] = "closed"
    BY <1>0, <1>5, Returned, Notified DEF RetryCancelled
  <2> QED
    BY <2>1, EpisodeQuiet
<1> QED
  BY <1>1, <1>2, <1>3, <1>4, <1>5 DEF Compact, SummarizeOnce

LEMMA SessionMovesNoCall ==
  ASSUME \/ UNCHANGED vars
         \/ PromptStart \/ PromptLoadSummaries \/ PromptAppends \/ PromptEnd
         \/ ChangeOutsidePrompt \/ ImportSummary
  PROVE  UNCHANGED <<pc, planVars, retryVars, result>>
  BY DEF vars, PromptStart, PromptLoadSummaries, PromptAppends, PromptAppend, PromptEnd,
     ChangeOutsidePrompt, ImportSummary

LEMMA RetryStep == RetryInv /\ [Next]_vars => RetryInv'
<1> SUFFICES ASSUME RetryInv, [Next]_vars, NEW d \in Compactor
             PROVE  EpisodeOf(d)'
  BY TypeStep DEF RetryInv
<1>1. CASE \E c \in Compactor : Begin(c) \/ Compact(c)
  <2>1. PICK c \in Compactor : Begin(c) \/ Compact(c)
    BY <1>1
  <2>2. CASE d = c
    BY <2>1, <2>2, EpisodeStep DEF RetryInv
  <2>3. CASE d # c
    BY <2>1, <2>3, CallStep, EpisodeUnmoved DEF RetryInv
  <2> QED
    BY <2>2, <2>3
<1>2. CASE ~ \E c \in Compactor : Begin(c) \/ Compact(c)
  BY <1>2, SessionMovesNoCall, UnchangedUnmoved, EpisodeUnmoved DEF Next, RetryInv
<1> QED
  BY <1>1, <1>2

(* Every retry that OnSummarizationRetry is told of is started or closed,   *)
(* whatever cancels the wait, and the episode is closed before Compact      *)
(* returns (compact.go:503-551).                                            *)
THEOREM RetriesAreClosed == Spec => []RetryEpisodesClosed
<1>1. RetryInv => RetryEpisodesClosed
  BY DEF RetryInv, EpisodeOf, RetryEpisodesClosed
<1> QED
  BY <1>1, RetryInit, RetryStep, PTL DEF Spec

-----------------------------------------------------------------------------
(* Summaries and the calls that wrote them.  A Compact that has not         *)
(* returned has no result, so that each can be counted once; only finitely  *)
(* many have returned, so that there is a count.                            *)

CountInv ==
  /\ TypeOK
  /\ \A c \in Compactor : pc[c] # "done" => result[c] = "none"
  /\ IsFiniteSet(Calls("compacted")) /\ IsFiniteSet(Calls("unsaved"))
  /\ OneSummaryPerCompact

LEMMA CountInit == Init => CountInv
<1> SUFFICES ASSUME Init
             PROVE  CountInv
  OBVIOUS
<1>1. Calls("compacted") = {} /\ Calls("unsaved") = {}
  BY DEF Init, Calls
<1>2. IsFiniteSet({}) /\ Cardinality({}) = 0
  BY FS_EmptySet
<1>3. /\ Len(sums) = 0 /\ imports = 0
      /\ \A c \in Compactor : pc[c] # "done" => result[c] = "none"
  BY DEF Init
<1>4. OneSummaryPerCompact
  <2>1. Cardinality(Calls("compacted")) = 0 /\ Cardinality(Calls("unsaved")) = 0
    BY <1>1, <1>2, Zenon
  <2> QED
    BY <1>3, <2>1 DEF OneSummaryPerCompact
<1> QED
  BY <1>1, <1>2, <1>3, <1>4, TypeInit DEF CountInv

(* Summaries are appended by the embedding program and by a Compact that    *)
(* has made one, which reports whether it was.                              *)
LEMMA SummaryAppended ==
  ASSUME TypeOK, NEW c \in Compactor, Begin(c) \/ Compact(c)
  PROVE  /\ imports' = imports /\ log' = log
         /\ \/ sums' = sums /\ result'[c] \notin {"compacted", "unsaved"}
            \/ /\ pc[c] = "persist" /\ result'[c] \in {"compacted", "unsaved"}
               /\ sums' = Append(sums, SummaryOf(c))
            \/ /\ pc[c] = "persist" /\ result'[c] = "unsaved"
               /\ sums' = sums
            \/ sums' = sums /\ result'[c] = result[c]
<1>0. CallsTyped
  BY TypeParts
<1>1. CASE Begin(c)
  BY <1>0, <1>1, Returned DEF Begin, Keep, sessionVars
<1>2. CASE LoadLog(c)
  BY <1>0, <1>2, Returned DEF LoadLog, sessionVars
<1>3. CASE PlanSummary(c)
  BY <1>0, <1>3, Returned DEF PlanSummary, sessionVars
<1>4. CASE SummarizeOnce(c)
  <2>1. UNCHANGED sessionVars
    BY <1>4 DEF SummarizeOnce
  <2>2. CASE GiveUp(c)
    BY <1>0, <2>1, <2>2, Returned DEF GiveUp, sessionVars
  <2>3. CASE Summarized(c) \/ ScheduleRetry(c)
    BY <2>1, <2>3 DEF Summarized, ScheduleRetry, Keep, sessionVars
  <2> QED
    BY <1>4, <2>2, <2>3 DEF SummarizeOnce
<1>5. CASE RetryWaited(c)
  BY <1>5 DEF RetryWaited, Keep, sessionVars
<1>6. CASE RetryCancelled(c)
  BY <1>0, <1>6, Returned DEF RetryCancelled, sessionVars
<1>7. CASE Persist(c)
  <2>1. /\ imports' = imports /\ log' = log
        /\ \/ /\ Return(c, "persist", "compacted")
              /\ sums' = Append(sums, SummaryOf(c))
           \/ /\ Return(c, "persist", "unsaved")
              /\ sums' \in {sums, Append(sums, SummaryOf(c))}
    BY <1>7 DEF Persist
  <2>2. CASE Return(c, "persist", "compacted") /\ sums' = Append(sums, SummaryOf(c))
    BY <1>0, <2>1, <2>2, Returned
  <2>3. CASE /\ Return(c, "persist", "unsaved")
             /\ sums' \in {sums, Append(sums, SummaryOf(c))}
    BY <1>0, <2>1, <2>3, Returned
  <2> QED
    BY <2>1, <2>2, <2>3
<1> QED
  BY <1>1, <1>2, <1>3, <1>4, <1>5, <1>6, <1>7 DEF Compact

(* A call that gets its result joins the calls of that result and no others. *)
LEMMA CallsJoined ==
  ASSUME NEW c \in Compactor, NEW r, result[c] = "none", r # "none",
         \A d \in Compactor \ {c} : result'[d] = result[d],
         IsFiniteSet(Calls(r))
  PROVE  /\ Cardinality(Calls(r)) \in Nat /\ IsFiniteSet(Calls(r)')
         /\ Cardinality(Calls(r)') =
              IF result'[c] = r THEN Cardinality(Calls(r)) + 1 ELSE Cardinality(Calls(r))
<1>1. Cardinality(Calls(r)) \in Nat
  BY FS_CardinalityType
<1>2. CASE result'[c] = r
  <2>1. Calls(r)' = Calls(r) \cup {c} /\ c \notin Calls(r)
    BY <1>2 DEF Calls
  <2> QED
    BY <1>1, <1>2, <2>1, FS_AddElement
<1>3. CASE result'[c] # r
  <2>1. Calls(r)' = Calls(r)
    BY <1>3 DEF Calls
  <2> QED
    BY <1>1, <1>3, <2>1
<1> QED
  BY <1>2, <1>3

LEMMA CountStep == CountInv /\ [Next]_vars => CountInv'
<1> SUFFICES ASSUME CountInv, [Next]_vars
             PROVE  CountInv'
  OBVIOUS
<1> DEFINE n == Cardinality(Calls("compacted"))
           m == Cardinality(Calls("unsaved"))
<1>0. /\ TypeOK /\ TypeOK' /\ sums \in Seq(Summary) /\ imports \in Nat
      /\ IsFiniteSet(Calls("compacted")) /\ IsFiniteSet(Calls("unsaved"))
      /\ n \in Nat /\ m \in Nat /\ Len(sums) \in Nat
      /\ imports + n <= Len(sums) /\ Len(sums) <= imports + n + m
  BY TypeStep, TypeParts, FS_CardinalityType DEF CountInv, SessionTyped, OneSummaryPerCompact
<1>1. CASE \E c \in Compactor : Begin(c) \/ Compact(c)
  <2>1. PICK c \in Compactor : Begin(c) \/ Compact(c)
    BY <1>1
  <2>2. /\ pc[c] # "done" /\ result[c] = "none"
        /\ \A d \in Compactor \ {c} : pc'[d] = pc[d] /\ result'[d] = result[d]
        /\ pc'[c] = "done" \/ (pc'[c] # "done" /\ result'[c] = result[c])
    BY <1>0, <2>1, CallStep DEF CountInv, Unmoved
  <2>3. \A d \in Compactor : pc'[d] # "done" => result'[d] = "none"
    BY <2>2 DEF CountInv
  <2>4. /\ IsFiniteSet(Calls("compacted")') /\ IsFiniteSet(Calls("unsaved")')
        /\ n' = IF result'[c] = "compacted" THEN n + 1 ELSE n
        /\ m' = IF result'[c] = "unsaved" THEN m + 1 ELSE m
    BY <1>0, <2>2, CallsJoined
  <2>5. /\ imports' = imports
        /\ \/ sums' = sums /\ result'[c] \notin {"compacted", "unsaved"}
           \/ /\ result'[c] \in {"compacted", "unsaved"}
              /\ sums' = Append(sums, SummaryOf(c))
           \/ sums' = sums /\ result'[c] = "unsaved"
    BY <1>0, <2>1, <2>2, SummaryAppended
  <2>6. Len(Append(sums, SummaryOf(c))) = Len(sums) + 1
    BY <1>0
  <2>7. imports' + n' <= Len(sums') /\ Len(sums') <= imports' + n' + m'
    <3> HIDE DEF n, m
    <3>1. CASE sums' = sums
      BY <1>0, <2>4, <2>5, <2>6, <3>1
    <3>2. CASE sums' = Append(sums, SummaryOf(c)) /\ result'[c] = "compacted"
      BY <1>0, <2>4, <2>5, <2>6, <3>2
    <3>3. CASE sums' = Append(sums, SummaryOf(c)) /\ result'[c] = "unsaved"
      BY <1>0, <2>4, <2>5, <2>6, <3>3
    <3> QED
      BY <2>5, <3>1, <3>2, <3>3
  <2> QED
    BY <1>0, <2>3, <2>4, <2>7 DEF CountInv, OneSummaryPerCompact
<1>2. CASE ~ \E c \in Compactor : Begin(c) \/ Compact(c)
  <2>1. pc' = pc /\ result' = result
    BY <1>2, SessionMovesNoCall DEF Next
  <2>2. Calls("compacted")' = Calls("compacted") /\ Calls("unsaved")' = Calls("unsaved")
    BY <2>1 DEF Calls
  <2>3. \/ Len(sums') = Len(sums) + 1 /\ imports' = imports + 1
        \/ Len(sums') = Len(sums) /\ imports' = imports
    <3>1. CASE ImportSummary
      <4>1. PICK b : sums' = Append(sums, b) /\ imports' = imports + 1
        BY <3>1 DEF ImportSummary
      <4> QED
        BY <1>0, <4>1
    <3>2. CASE ~ImportSummary
      BY <1>2, <3>2 DEF Next, vars, PromptStart, PromptLoadSummaries, PromptAppends,
         PromptAppend, PromptEnd, ChangeOutsidePrompt, sessionVars
    <3> QED
      BY <3>1, <3>2
  <2>4. OneSummaryPerCompact'
    <3>1. n' = n /\ m' = m
      BY <2>2
    <3>2. imports' + n' <= Len(sums') /\ Len(sums') <= imports' + n' + m'
      <4> HIDE DEF n, m
      <4> QED
        BY <1>0, <2>3, <3>1
    <3> QED
      BY <3>2 DEF OneSummaryPerCompact
  <2> QED
    BY <1>0, <2>1, <2>2, <2>4 DEF CountInv
<1> QED
  BY <1>1, <1>2

(* A session has a summary of every Compact that succeeded and of every one *)
(* the embedding program wrote, and beyond them at most one of each Compact *)
(* whose AppendBranchSummary reported an error: none of one that failed     *)
(* before, none of half a split turn (compact.go:311-326, 462-481).         *)
THEOREM SuccessesAreCounted == Spec => []OneSummaryPerCompact
<1>1. CountInv => OneSummaryPerCompact
  BY DEF CountInv
<1> QED
  BY <1>1, CountInit, CountStep, PTL DEF Spec

-----------------------------------------------------------------------------
(* What summaries stand for.  Each was made from at least the positions of  *)
(* its range, and from positions the log has.  Behind it: the cut of a      *)
(* Compact under way leaves a message of the log after it, although the log *)
(* may grow at any moment; what its requests hold starts at the beginning   *)
(* of the log, also when the last summary did not.                          *)

Covers(b, n) ==
  /\ b.start < b.end /\ b.end <= n
  /\ b.start + 1 .. b.end \subseteq b.saw
  /\ b.saw \subseteq 1 .. n

AllCover(s, n) == \A i \in 1 .. Len(s) : Covers(s[i], n)

CutInLog(c) ==
  pc[c] \in {"plan", "call", "wait", "persist"} => cut[c] > 0 /\ cut[c] < Len(log)

RequestCovers(c) ==
  pc[c] \in {"call", "wait", "persist"} =>
    1 .. cut[c] \subseteq saw[c] /\ saw[c] \subseteq 1 .. Len(log)

CoverInv ==
  /\ TypeOK
  /\ AllCover(sums, Len(log)) /\ AllCover(viewSums, Len(log))
  /\ \A c \in Compactor : CutInLog(c) /\ RequestCovers(c)

LEMMA CoverInit == Init => CoverInv
<1> SUFFICES ASSUME Init
             PROVE  CoverInv
  OBVIOUS
<1>1. AllCover(sums, Len(log)) /\ AllCover(viewSums, Len(log))
  BY DEF Init, AllCover
<1>2. \A c \in Compactor : CutInLog(c) /\ RequestCovers(c)
  BY DEF Init, CutInLog, RequestCovers
<1> QED
  BY <1>1, <1>2, TypeInit DEF CoverInv

LEMMA CoverLonger ==
  ASSUME NEW s \in Seq(Summary), NEW m \in Nat, NEW n \in Nat, m <= n, AllCover(s, m)
  PROVE  AllCover(s, n)
<1> SUFFICES ASSUME NEW i \in 1 .. Len(s)
             PROVE  Covers(s[i], n)
  BY DEF AllCover
<1>1. Covers(s[i], m) /\ s[i] \in Summary
  BY DEF AllCover
<1>2. s[i].end \in 0 .. MaxLog
  BY <1>1 DEF Summary
<1>3. s[i].end <= n
  BY <1>1, <1>2 DEF Covers
<1>4. 1 .. m \subseteq 1 .. n
  OBVIOUS
<1> QED
  BY <1>1, <1>3, <1>4 DEF Covers

LEMMA CoverAppend ==
  ASSUME NEW s \in Seq(Summary), NEW b \in Summary, NEW n, AllCover(s, n), Covers(b, n)
  PROVE  AllCover(Append(s, b), n)
<1>1. /\ Len(s) \in Nat /\ Len(Append(s, b)) = Len(s) + 1
      /\ \A i \in 1 .. Len(s) : Append(s, b)[i] = s[i]
      /\ Append(s, b)[Len(s) + 1] = b
  BY Appending
<1> SUFFICES ASSUME NEW i \in 1 .. Len(s) + 1
             PROVE  Covers(Append(s, b)[i], n)
  BY <1>1 DEF AllCover
<1>2. CASE i = Len(s) + 1
  BY <1>1, <1>2
<1>3. CASE i # Len(s) + 1
  <2>1. i \in 1 .. Len(s)
    BY <1>1, <1>3
  <2> QED
    BY <1>1, <2>1 DEF AllCover
<1> QED
  BY <1>2, <1>3

(* The log only grows, and the calls under way do not see it.               *)
LEMMA LogGrows ==
  ASSUME TypeOK, [Next]_vars
  PROVE  Len(log) \in Nat /\ Len(log') \in Nat /\ Len(log) <= Len(log')
<1>0. log \in Seq(Type) /\ view \in Seq(Type) /\ log' \in Seq(Type)
  BY TypeStep, TypeParts, TypePartsNext DEF SessionTyped, PromptTyped
<1>1. CASE PromptAppends
  <2>1. PICK msgs \in Seq(Type) : log' = log \o msgs
    BY <1>1, PromptAppended DEF PromptAppend
  <2> QED
    BY <1>0, <2>1, Concatenation
<1>2. CASE ChangeOutsidePrompt
  <2>1. log' = Append(log, "active_tools_change")
    BY <1>2 DEF ChangeOutsidePrompt
  <2> QED
    BY <1>0, <2>1
<1>3. CASE PromptStart \/ PromptLoadSummaries \/ PromptEnd \/ ImportSummary \/ UNCHANGED vars
  <2>1. log' = log
    BY <1>3 DEF PromptStart, PromptLoadSummaries, PromptEnd, ImportSummary, vars,
       sessionVars
  <2> QED
    BY <1>0, <2>1
<1>4. CASE \E c \in Compactor : Begin(c) \/ Compact(c)
  <2>1. log' = log
    BY <1>4, SummaryAppended
  <2> QED
    BY <1>0, <2>1
<1> QED
  BY <1>1, <1>2, <1>3, <1>4 DEF Next

LEMMA CallLonger ==
  ASSUME TypeOK, [Next]_vars, NEW d \in Compactor, CutInLog(d), RequestCovers(d),
         Unmoved(d)
  PROVE  CutInLog(d)' /\ RequestCovers(d)'
<1>1. Len(log) \in Nat /\ Len(log') \in Nat /\ Len(log) <= Len(log')
  BY LogGrows
<1>2. cut[d] \in 0 .. MaxLog
  BY TypeParts DEF CallsTyped
<1>3. CutInLog(d)'
  BY <1>1, <1>2 DEF CutInLog, Unmoved
<1>4. 1 .. Len(log) \subseteq 1 .. Len(log')
  BY <1>1
<1>5. RequestCovers(d)'
  BY <1>4 DEF RequestCovers, Unmoved
<1> QED
  BY <1>3, <1>5

(* The plan: the cut that was found when the log was loaded is in the log,  *)
(* and the request holds everything before it.                              *)
LEMMA CallCovers ==
  ASSUME CoverInv, NEW c \in Compactor, Begin(c) \/ Compact(c)
  PROVE  CutInLog(c)' /\ RequestCovers(c)'
<1>0. /\ TypeOK /\ CallsTyped /\ log \in Seq(Type) /\ Len(log) \in Nat
      /\ sums \in Seq(Summary) /\ AllCover(sums, Len(log))
      /\ CutInLog(c) /\ RequestCovers(c)
  BY TypeParts DEF CoverInv, SessionTyped
<1>1. log' = log
  BY <1>0, SummaryAppended
<1>2. CASE pc'[c] \in {"done", "load"}
  BY <1>2 DEF CutInLog, RequestCovers
<1>3. CASE LoadLog(c) /\ pc'[c] # "done"
  <2>1. PICK keep \in 1 .. MaxLog + 1 :
          /\ FindCutPoint(log, keep) > 0 /\ Go(c, "load", "plan")
          /\ cut' = [cut EXCEPT ![c] = FindCutPoint(log, keep)]
    BY <1>0, <1>3, Returned DEF LoadLog
  <2>2. keep \in Nat \ {0}
    BY <2>1
  <2>3. FindCutPoint(log, keep) \in Nat /\ FindCutPoint(log, keep) < Len(log)
    BY <1>0, <2>1, <2>2, CutPoint
  <2>4. cut'[c] = FindCutPoint(log, keep)
    BY <1>0, <2>1 DEF CallsTyped
  <2>5. pc'[c] = "plan"
    BY <1>0, <2>1, Gone
  <2> QED
    BY <1>1, <2>1, <2>3, <2>4, <2>5 DEF CutInLog, RequestCovers
<1>4. CASE PlanSummary(c) /\ pc'[c] # "done"
  <2> DEFINE more == IF Split(c) \/ sums = <<>> THEN {} ELSE Last(sums).saw
  <2>1. /\ Go(c, "plan", "call") /\ cut' = cut
        /\ saw' = [saw EXCEPT ![c] = (1 .. cut[c]) \cup more]
    BY <1>0, <1>4, Returned DEF PlanSummary
  <2>2. more \subseteq 1 .. Len(log)
    <3>1. sums # <<>> => Len(sums) \in 1 .. Len(sums) /\ Last(sums) = sums[Len(sums)]
      BY <1>0 DEF Last
    <3>2. sums # <<>> => Last(sums).saw \subseteq 1 .. Len(log)
      BY <1>0, <3>1 DEF AllCover, Covers
    <3> QED
      BY <3>2
  <2> HIDE DEF more
  <2>3. pc[c] = "plan" /\ pc'[c] = "call"
    BY <1>0, <2>1, Gone
  <2>4. cut[c] > 0 /\ cut[c] < Len(log) /\ cut[c] \in Nat
    BY <1>0, <2>3 DEF CutInLog, CallsTyped
  <2>5. saw'[c] = (1 .. cut[c]) \cup more
    BY <1>0, <2>1 DEF CallsTyped
  <2>6. 1 .. cut[c] \subseteq 1 .. Len(log)
    BY <1>0, <2>4
  <2> QED
    BY <1>1, <2>1, <2>2, <2>3, <2>4, <2>5, <2>6 DEF CutInLog, RequestCovers
<1>5. CASE SummarizeOnce(c) /\ pc'[c] # "done"
  <2>1. CASE Summarized(c) \/ ScheduleRetry(c)
    <3>1. cut' = cut /\ saw' = saw
      BY <2>1 DEF Summarized, ScheduleRetry, Keep, planVars
    <3>2. pc[c] = "call"
      BY <1>5 DEF SummarizeOnce
    <3> QED
      BY <1>0, <1>1, <3>1, <3>2 DEF CutInLog, RequestCovers
  <2>2. ~GiveUp(c)
    BY <1>0, <1>5, Returned DEF GiveUp
  <2> QED
    BY <1>5, <2>1, <2>2 DEF SummarizeOnce
<1>6. CASE RetryWaited(c)
  <2>1. cut' = cut /\ saw' = saw /\ pc[c] = "wait"
    BY <1>0, <1>6, Gone DEF RetryWaited, Keep, planVars
  <2> QED
    BY <1>0, <1>1, <2>1 DEF CutInLog, RequestCovers
<1>7. CASE Begin(c) \/ RetryCancelled(c) \/ Persist(c)
  <2>1. pc'[c] \in {"done", "load"}
    BY <1>0, <1>7, Gone, Returned DEF Begin, RetryCancelled, Persist
  <2> QED
    BY <1>2, <2>1
<1> QED
  BY <1>2, <1>3, <1>4, <1>5, <1>6, <1>7 DEF Compact

(* What the embedding program writes is a range of the log it read.         *)
LEMMA ImportCovers ==
  ASSUME TypeOK, ImportSummary, AllCover(sums, Len(log))
  PROVE  AllCover(sums', Len(log))
<1>0. log \in Seq(Type) /\ Len(log) <= MaxLog /\ sums \in Seq(Summary)
  BY TypeParts DEF SessionTyped
<1>1. PICK start \in 0 .. Len(log) - 1, end \in 1 .. Len(log) :
        /\ start < end
        /\ sums' = Append(sums, [start |-> start, end |-> end, saw |-> start + 1 .. end])
  BY DEF ImportSummary
<1> DEFINE b == [start |-> start, end |-> end, saw |-> start + 1 .. end]
<1>2. /\ start \in 0 .. MaxLog /\ end \in 0 .. MaxLog
      /\ start + 1 .. end \in SUBSET (1 .. MaxLog)
      /\ start + 1 .. end \subseteq 1 .. Len(log) /\ end <= Len(log)
  BY <1>0
<1>3. b \in Summary
  BY <1>2, SummaryTyped
<1>4. b.start = start /\ b.end = end /\ b.saw = start + 1 .. end
  OBVIOUS
<1>5. sums' = Append(sums, b)
  BY <1>1
<1> HIDE DEF b
<1>6. Covers(b, Len(log))
  BY <1>1, <1>2, <1>4 DEF Covers
<1> QED
  BY <1>0, <1>3, <1>5, <1>6, CoverAppend

LEMMA PersistCovers ==
  ASSUME CoverInv, NEW c \in Compactor, Begin(c) \/ Compact(c)
  PROVE  AllCover(sums', Len(log))
<1>0. /\ TypeOK /\ CallsTyped /\ Len(log) \in Nat
      /\ sums \in Seq(Summary) /\ AllCover(sums, Len(log))
      /\ CutInLog(c) /\ RequestCovers(c)
  BY TypeParts DEF CoverInv, SessionTyped
<1>1. CASE sums' = sums
  BY <1>0, <1>1
<1>2. CASE sums' # sums
  <2> DEFINE b == SummaryOf(c)
  <2>1. pc[c] = "persist" /\ sums' = Append(sums, b)
    BY <1>0, <1>2, SummaryAppended
  <2>2. 0 \in 0 .. MaxLog /\ cut[c] \in 0 .. MaxLog /\ saw[c] \in SUBSET (1 .. MaxLog)
    BY <1>0 DEF CallsTyped
  <2>3. b \in Summary
    BY <2>2, SummaryTyped DEF SummaryOf
  <2>4. b.start = 0 /\ b.end = cut[c] /\ b.saw = saw[c]
    BY DEF SummaryOf
  <2> HIDE DEF b
  <2>5. cut[c] > 0 /\ cut[c] < Len(log) /\ 1 .. cut[c] \subseteq saw[c]
        /\ saw[c] \subseteq 1 .. Len(log)
    BY <1>0, <2>1 DEF CutInLog, RequestCovers
  <2>6. Covers(b, Len(log))
    BY <1>0, <2>2, <2>4, <2>5 DEF Covers
  <2> QED
    BY <1>0, <2>1, <2>3, <2>6, CoverAppend
<1> QED
  BY <1>1, <1>2

LEMMA CoverStep == CoverInv /\ [Next]_vars => CoverInv'
<1> SUFFICES ASSUME CoverInv, [Next]_vars
             PROVE  CoverInv'
  OBVIOUS
<1>0. /\ TypeOK /\ TypeOK' /\ Len(log) \in Nat /\ Len(log') \in Nat
      /\ Len(log) <= Len(log')
      /\ sums \in Seq(Summary) /\ sums' \in Seq(Summary)
      /\ viewSums \in Seq(Summary) /\ viewSums' \in Seq(Summary)
      /\ AllCover(sums, Len(log)) /\ AllCover(viewSums, Len(log))
  BY TypeStep, TypeParts, TypePartsNext, LogGrows DEF CoverInv, SessionTyped, PromptTyped
<1>1. AllCover(sums', Len(log))
  <2>1. CASE ImportSummary
    BY <1>0, <2>1, ImportCovers
  <2>2. CASE \E c \in Compactor : Begin(c) \/ Compact(c)
    BY <2>2, PersistCovers
  <2>3. CASE ~ImportSummary /\ ~ \E c \in Compactor : Begin(c) \/ Compact(c)
    <3>1. sums' = sums
      BY <2>3 DEF Next, vars, PromptStart, PromptLoadSummaries, PromptAppends,
         PromptAppend, PromptEnd, ChangeOutsidePrompt, sessionVars
    <3> QED
      BY <1>0, <3>1
  <2> QED
    BY <2>1, <2>2, <2>3
<1>2. AllCover(viewSums', Len(log))
  <2>1. CASE PromptLoadSummaries
    BY <1>0, <2>1 DEF PromptLoadSummaries
  <2>2. CASE PromptEnd
    <3>1. viewSums' = <<>>
      BY <2>2 DEF PromptEnd
    <3> QED
      BY <3>1 DEF AllCover
  <2>3. CASE ~PromptLoadSummaries /\ ~PromptEnd
    <3>1. viewSums' = viewSums
      BY <2>3 DEF Next, vars, promptVars, PromptStart, PromptAppends, PromptAppend,
         ChangeOutsidePrompt, ImportSummary, Begin, Compact, LoadLog, PlanSummary,
         SummarizeOnce, RetryWaited, RetryCancelled, Persist
    <3> QED
      BY <1>0, <3>1
  <2> QED
    BY <2>1, <2>2, <2>3
<1>3. ASSUME NEW d \in Compactor
      PROVE  CutInLog(d)' /\ RequestCovers(d)'
  <2>0. CutInLog(d) /\ RequestCovers(d)
    BY DEF CoverInv
  <2>1. CASE \E c \in Compactor : Begin(c) \/ Compact(c)
    <3>1. PICK c \in Compactor : Begin(c) \/ Compact(c)
      BY <2>1
    <3>2. CASE d = c
      BY <3>1, <3>2, CallCovers
    <3>3. CASE d # c
      BY <1>0, <2>0, <3>1, <3>3, CallStep, CallLonger
    <3> QED
      BY <3>2, <3>3
  <2>2. CASE ~ \E c \in Compactor : Begin(c) \/ Compact(c)
    BY <1>0, <2>0, <2>2, SessionMovesNoCall, UnchangedUnmoved, CallLonger DEF Next
  <2> QED
    BY <2>1, <2>2
<1>4. AllCover(sums, Len(log))' /\ AllCover(viewSums, Len(log))'
  BY <1>0, <1>1, <1>2, CoverLonger
<1> QED
  BY <1>0, <1>3, <1>4 DEF CoverInv

(* Every summary of the session, and every one a prompt loaded, stands for  *)
(* a range of the log and was made from all of it and from nothing that is  *)
(* not in the log, whatever was appended and summarized in the meantime     *)
(* (summarize, compact.go:414-455).                                         *)
THEOREM SummariesAreMadeFromTheirRange ==
  Spec => [](AllCover(sums, Len(log)) /\ AllCover(viewSums, Len(log)))
<1>1. CoverInv => AllCover(sums, Len(log)) /\ AllCover(viewSums, Len(log))
  BY DEF CoverInv
<1> QED
  BY <1>1, CoverInit, CoverStep, PTL DEF Spec

-----------------------------------------------------------------------------
(* Contexts.  Each loop of BuildLLMContext and of excludeBookkeeping is a   *)
(* fold: the lemmas ...Steps name the values it goes through, for the proof *)
(* to follow one by one.                                                    *)

Entry == [summary : BOOLEAN, from : Nat, to : Nat, saw : SUBSET Nat]
PlaceState == [out : Seq(Entry), lastEnd : Nat]

(* The sort: a rearrangement brings in no summary that was not in the list, *)
(* which is all that a complete context asks of it.                         *)
DrawnFrom(s) ==
  {t \in Seq(Summary) :
     /\ Len(t) = Len(s)
     /\ \A k \in 1 .. Len(s) : \E j \in 1 .. Len(s) : t[k] = s[j]}

LEMMA ExchangeStays ==
  ASSUME NEW s \in Seq(Summary), NEW t \in DrawnFrom(s), NEW i \in 1 .. Len(s),
         NEW j \in 1 .. Len(s)
  PROVE  Exchange(t, i, j) \in DrawnFrom(s)
<1>a. t \in Seq(Summary) /\ Len(t) = Len(s)
  BY Zenon DEF DrawnFrom
<1>1. t \in Seq(Summary) /\ Len(t) = Len(s) /\ t[i] \in Summary /\ t[j] \in Summary
  <2> HIDE DEF DrawnFrom
  <2> QED
    BY <1>a
<1> DEFINE u == [t EXCEPT ![i] = t[j], ![j] = t[i]]
<1>2. u \in Seq(Summary) /\ Len(u) = Len(s)
  BY <1>1
<1>3. ASSUME NEW k \in 1 .. Len(s)
      PROVE  \E l \in 1 .. Len(s) : u[k] = s[l]
  <2>1. u[k] = t[k] \/ u[k] = t[j] \/ u[k] = t[i]
    BY <1>1
  <2> QED
    BY <2>1 DEF DrawnFrom
<1>4. u \in DrawnFrom(s)
  BY <1>2, <1>3 DEF DrawnFrom
<1> QED
  BY <1>4 DEF Exchange

LEMMA PlacesAfterRange ==
  ASSUME NEW s \in Seq(Summary), NEW i \in 0 .. Len(s)
  PROVE  /\ Len(s) - i \in Nat /\ DOMAIN PlacesAfter(s, i) = 1 .. Len(s) - i
         /\ \A k \in 1 .. Len(s) - i : PlacesAfter(s, i)[k] \in 1 .. Len(s)
  BY DEF PlacesAfter

LEMMA ExchangeRestSteps ==
  ASSUME NEW s \in Seq(Summary), NEW p \in 1 .. Len(s)
  PROVE  \E h : /\ h[0] = s
                /\ \A i \in 1 .. (Len(s) - p) :
                     h[i] = Exchange(h[i - 1], p, PlacesAfter(s, p)[i])
                /\ ExchangeRest(s, p) = h[(Len(s) - p)]
<1> DEFINE n == (Len(s) - p)
           base == s
           step == [x \in (1 .. n) \X DrawnFrom(s) |-> Exchange(x[2], p, PlacesAfter(s, p)[x[1]])]
           Sol(g) == g = [t \in SUBSET (1 .. n) |->
                        IF t = {} THEN base
                        ELSE Exchange(g[t \ {Max(t)}], p, PlacesAfter(s, p)[Max(t)])]
           iter == CHOOSE g : Sol(g)
<1>1. n \in Nat /\ base \in DrawnFrom(s) /\ DOMAIN PlacesAfter(s, p) = 1 .. n
  BY PlacesAfterRange DEF DrawnFrom
<1>2. step \in [(1 .. n) \X DrawnFrom(s) -> DrawnFrom(s)]
  BY PlacesAfterRange, ExchangeStays
<1>3. \E g : Sol(g)
  <2> HIDE DEF base, step, n
  <2>1. PICK g \in [SUBSET (1 .. n) -> DrawnFrom(s)] : IsSequenceFold(g, n, base, step)
    BY <1>1, <1>2, SequenceFoldExists
  <2>2. ASSUME NEW t \in SUBSET (1 .. n), t # {}
        PROVE  step[<<Max(t), g[t \ {Max(t)}]>>]
                 = Exchange(g[t \ {Max(t)}], p, PlacesAfter(s, p)[Max(t)])
    <3>1. Max(t) \in 1 .. n
      BY <1>1, <2>2, LargestElement
    <3>2. g[t \ {Max(t)}] \in DrawnFrom(s)
      BY <2>1
    <3> QED
      BY <3>1, <3>2 DEF step
  <2>3. Sol(g)
    BY <2>1, <2>2 DEF IsSequenceFold
  <2> QED
    BY <2>3
<1>4. Sol(iter)
  <2> HIDE DEF Sol
  <2> QED
    BY <1>3
<1>5. ExchangeRest(s, p) = iter[1 .. n]
  <2>1. ExchangeRest(s, p) = iter[DOMAIN PlacesAfter(s, p)]
    BY <1>1 DEF ExchangeRest, FoldLeft, MapThenFoldSet
  <2> QED
    BY <1>1, <2>1
<1> HIDE DEF iter
<1> DEFINE h == [i \in 0 .. n |-> iter[1 .. i]]
<1>6. h[0] = base
  BY <1>1, <1>4, PrefixIntervals
<1>7. ASSUME NEW i \in 1 .. n
      PROVE  h[i] = Exchange(h[i - 1], p, PlacesAfter(s, p)[i])
  <2>1. /\ 1 .. i \in SUBSET (1 .. n) /\ 1 .. i # {}
        /\ Max(1 .. i) = i /\ (1 .. i) \ {i} = 1 .. i - 1
    BY <1>1, PrefixIntervals
  <2>2. iter[1 .. i] = Exchange(iter[1 .. i - 1], p, PlacesAfter(s, p)[i])
    BY <1>4, <2>1
  <2> QED
    BY <1>1, <2>2
<1>8. h[n] = iter[1 .. n]
  BY <1>1
<1> HIDE DEF h
<1> QED
  BY <1>5, <1>6, <1>7, <1>8

LEMMA ExchangeRestStays ==
  ASSUME NEW s \in Seq(Summary), NEW t \in DrawnFrom(s), NEW p \in 1 .. Len(s)
  PROVE  ExchangeRest(t, p) \in DrawnFrom(s)
<1>1. t \in Seq(Summary) /\ Len(t) = Len(s) /\ p \in 1 .. Len(t) /\ p \in 0 .. Len(t)
  BY DEF DrawnFrom
<1> DEFINE n == Len(t) - p
<1>2. /\ n \in Nat
      /\ \A i \in 1 .. n : PlacesAfter(t, p)[i] \in 1 .. Len(s)
  BY <1>1, PlacesAfterRange
<1>3. PICK h : /\ h[0] = t
               /\ \A i \in 1 .. n : h[i] = Exchange(h[i - 1], p, PlacesAfter(t, p)[i])
               /\ ExchangeRest(t, p) = h[n]
  BY <1>1, ExchangeRestSteps
<1> HIDE DEF n
<1>4. \A i \in 0 .. n : h[i] \in DrawnFrom(s)
  <2>1. \A i \in 1 .. n : h[i - 1] \in DrawnFrom(s) => h[i] \in DrawnFrom(s)
    BY <1>2, <1>3, ExchangeStays
  <2> QED
    BY <1>2, <1>3, <2>1, StepsStay
<1> QED
  BY <1>2, <1>3, <1>4

LEMMA SortSteps ==
  ASSUME NEW s \in Seq(Summary)
  PROVE  \E h : /\ h[0] = s
                /\ \A i \in 1 .. Len(s) :
                     h[i] = ExchangeRest(h[i - 1], PlacesAfter(s, 0)[i])
                /\ SortedByStart(s) = h[Len(s)]
<1> DEFINE n == Len(s)
           base == s
           step == [x \in (1 .. n) \X DrawnFrom(s) |-> ExchangeRest(x[2], PlacesAfter(s, 0)[x[1]])]
           Sol(g) == g = [t \in SUBSET (1 .. n) |->
                        IF t = {} THEN base
                        ELSE ExchangeRest(g[t \ {Max(t)}], PlacesAfter(s, 0)[Max(t)])]
           iter == CHOOSE g : Sol(g)
<1>1. n \in Nat /\ base \in DrawnFrom(s) /\ DOMAIN PlacesAfter(s, 0) = 1 .. n
  BY PlacesAfterRange DEF DrawnFrom
<1>2. step \in [(1 .. n) \X DrawnFrom(s) -> DrawnFrom(s)]
  BY PlacesAfterRange, ExchangeRestStays
<1>3. \E g : Sol(g)
  <2> HIDE DEF base, step, n
  <2>1. PICK g \in [SUBSET (1 .. n) -> DrawnFrom(s)] : IsSequenceFold(g, n, base, step)
    BY <1>1, <1>2, SequenceFoldExists
  <2>2. ASSUME NEW t \in SUBSET (1 .. n), t # {}
        PROVE  step[<<Max(t), g[t \ {Max(t)}]>>]
                 = ExchangeRest(g[t \ {Max(t)}], PlacesAfter(s, 0)[Max(t)])
    <3>1. Max(t) \in 1 .. n
      BY <1>1, <2>2, LargestElement
    <3>2. g[t \ {Max(t)}] \in DrawnFrom(s)
      BY <2>1
    <3> QED
      BY <3>1, <3>2 DEF step
  <2>3. Sol(g)
    BY <2>1, <2>2 DEF IsSequenceFold
  <2> QED
    BY <2>3
<1>4. Sol(iter)
  <2> HIDE DEF Sol
  <2> QED
    BY <1>3
<1>5. SortedByStart(s) = iter[1 .. n]
  <2>1. SortedByStart(s) = iter[DOMAIN PlacesAfter(s, 0)]
    BY <1>1 DEF SortedByStart, FoldLeft, MapThenFoldSet
  <2> QED
    BY <1>1, <2>1
<1> HIDE DEF iter
<1> DEFINE h == [i \in 0 .. n |-> iter[1 .. i]]
<1>6. h[0] = base
  BY <1>1, <1>4, PrefixIntervals
<1>7. ASSUME NEW i \in 1 .. n
      PROVE  h[i] = ExchangeRest(h[i - 1], PlacesAfter(s, 0)[i])
  <2>1. /\ 1 .. i \in SUBSET (1 .. n) /\ 1 .. i # {}
        /\ Max(1 .. i) = i /\ (1 .. i) \ {i} = 1 .. i - 1
    BY <1>1, PrefixIntervals
  <2>2. iter[1 .. i] = ExchangeRest(iter[1 .. i - 1], PlacesAfter(s, 0)[i])
    BY <1>4, <2>1
  <2> QED
    BY <1>1, <2>2
<1>8. h[n] = iter[1 .. n]
  BY <1>1
<1> HIDE DEF h
<1> QED
  BY <1>5, <1>6, <1>7, <1>8

(* Sorting brings in no summary that was not in the list.                   *)
LEMMA SortKeeps ==
  ASSUME NEW s \in Seq(Summary)
  PROVE  SortedByStart(s) \in DrawnFrom(s)
<1>1. Len(s) \in Nat /\ s \in DrawnFrom(s)
  BY DEF DrawnFrom
<1>2. PICK h : /\ h[0] = s
               /\ \A i \in 1 .. Len(s) : h[i] = ExchangeRest(h[i - 1], PlacesAfter(s, 0)[i])
               /\ SortedByStart(s) = h[Len(s)]
  BY SortSteps
<1>3. \A i \in 1 .. Len(s) : PlacesAfter(s, 0)[i] \in 1 .. Len(s)
  BY <1>1, PlacesAfterRange
<1>4. \A i \in 0 .. Len(s) : h[i] \in DrawnFrom(s)
  <2>1. \A i \in 1 .. Len(s) : h[i - 1] \in DrawnFrom(s) => h[i] \in DrawnFrom(s)
    BY <1>2, <1>3, ExchangeRestStays
  <2> QED
    BY <1>1, <1>2, <2>1, StepsStay
<1> QED
  BY <1>1, <1>2, <1>4

(* Placing the summaries, and dropping the bookkeeping.                     *)
LEMMA VerbatimTyped ==
  ASSUME NEW from \in Nat, NEW to \in Nat
  PROVE  /\ Verbatim(from, to) \in Seq(Entry)
         /\ Len(Verbatim(from, to)) = IF from <= to THEN to - from ELSE 0
<1> DEFINE n == IF from <= to THEN to - from ELSE 0
<1>1. n \in Nat /\ 1 .. to - from = 1 .. n
  OBVIOUS
<1>2. \A k \in 1 .. n : [summary |-> FALSE, from |-> from + k, to |-> from + k,
                         saw |-> {from + k}] \in Entry
  BY <1>1 DEF Entry
<1>3. CASE ~ (from < to)
  BY <1>3 DEF Verbatim
<1> SUFFICES ASSUME from < to
             PROVE  /\ Verbatim(from, to) \in Seq(Entry)
                    /\ Len(Verbatim(from, to)) = IF from <= to THEN to - from ELSE 0
  BY <1>3
<1>4. Verbatim(from, to) \in [1 .. n -> Entry]
  BY <1>1, <1>2 DEF Verbatim
<1> HIDE DEF n
<1>5. Verbatim(from, to) \in Seq(Entry) /\ Len(Verbatim(from, to)) = n
  BY <1>1, <1>4, FunctionIsSequence
<1> QED
  BY <1>5 DEF n

LEMMA PlaceTyped ==
  ASSUME NEW transcript \in Seq(Type), NEW acc \in PlaceState, NEW b \in Summary
  PROVE  Place(transcript, acc, b) \in PlaceState
<1>1. /\ acc.out \in Seq(Entry) /\ acc.lastEnd \in Nat
      /\ b.start \in Nat /\ b.end \in Nat /\ b.saw \in SUBSET Nat
  BY DEF PlaceState, Summary
<1>2. Verbatim(acc.lastEnd, b.start) \in Seq(Entry)
  BY <1>1, VerbatimTyped
<1>3. Substitute(b) \in Seq(Entry)
  BY <1>1 DEF Substitute, Entry
<1>4. acc.out \o Verbatim(acc.lastEnd, b.start) \in Seq(Entry)
  BY <1>1, <1>2, Concatenation
<1> QED
  BY <1>1, <1>3, <1>4, Concatenation DEF Place, PlaceState

LEMMA PlacedSteps ==
  ASSUME NEW transcript \in Seq(Type), NEW s \in Seq(Summary)
  PROVE  \E h : /\ h[0] = [out |-> <<>>, lastEnd |-> 0]
                /\ \A i \in 1 .. Len(s) : h[i] = Place(transcript, h[i - 1], s[i])
                /\ Placed(transcript, s) = h[Len(s)]
<1> DEFINE n == Len(s)
           base == [out |-> <<>>, lastEnd |-> 0]
           step == [x \in (1 .. n) \X PlaceState |-> Place(transcript, x[2], s[x[1]])]
           Sol(g) == g = [t \in SUBSET (1 .. n) |->
                        IF t = {} THEN base ELSE Place(transcript, g[t \ {Max(t)}], s[Max(t)])]
           iter == CHOOSE g : Sol(g)
<1>1. n \in Nat /\ base \in PlaceState /\ DOMAIN s = 1 .. n
  BY DEF PlaceState
<1>2. step \in [(1 .. n) \X PlaceState -> PlaceState]
  BY PlaceTyped
<1>3. \E g : Sol(g)
  <2> HIDE DEF base, step, n
  <2>1. PICK g \in [SUBSET (1 .. n) -> PlaceState] : IsSequenceFold(g, n, base, step)
    BY <1>1, <1>2, SequenceFoldExists
  <2>2. ASSUME NEW t \in SUBSET (1 .. n), t # {}
        PROVE  step[<<Max(t), g[t \ {Max(t)}]>>] = Place(transcript, g[t \ {Max(t)}], s[Max(t)])
    <3>1. Max(t) \in 1 .. n
      BY <1>1, <2>2, LargestElement
    <3>2. g[t \ {Max(t)}] \in PlaceState
      BY <2>1
    <3> QED
      BY <3>1, <3>2 DEF step
  <2>3. Sol(g)
    BY <2>1, <2>2 DEF IsSequenceFold
  <2> QED
    BY <2>3
<1>4. Sol(iter)
  <2> HIDE DEF Sol
  <2> QED
    BY <1>3
<1>5. Placed(transcript, s) = iter[1 .. n]
  <2>1. Placed(transcript, s) = iter[DOMAIN s]
    BY <1>1 DEF Placed, FoldLeft, MapThenFoldSet
  <2> QED
    BY <1>1, <2>1
<1> HIDE DEF iter
<1> DEFINE h == [i \in 0 .. n |-> iter[1 .. i]]
<1>6. h[0] = base
  BY <1>1, <1>4, PrefixIntervals
<1>7. ASSUME NEW i \in 1 .. n
      PROVE  h[i] = Place(transcript, h[i - 1], s[i])
  <2>1. /\ 1 .. i \in SUBSET (1 .. n) /\ 1 .. i # {}
        /\ Max(1 .. i) = i /\ (1 .. i) \ {i} = 1 .. i - 1
    BY <1>1, PrefixIntervals
  <2>2. iter[1 .. i] = Place(transcript, iter[1 .. i - 1], s[i])
    BY <1>4, <2>1
  <2> QED
    BY <1>1, <2>2
<1>8. h[n] = iter[1 .. n]
  BY <1>1
<1> HIDE DEF h
<1> QED
  BY <1>5, <1>6, <1>7, <1>8

LEMMA KeepTyped ==
  ASSUME NEW transcript, NEW out \in Seq(Entry), NEW e \in Entry
  PROVE  KeepConversational(transcript, out, e) \in Seq(Entry)
  BY DEF KeepConversational

LEMMA KeptSteps ==
  ASSUME NEW transcript \in Seq(Type), NEW c \in Seq(Entry)
  PROVE  \E h : /\ h[0] = <<>>
                /\ \A i \in 1 .. Len(c) : h[i] = KeepConversational(transcript, h[i - 1], c[i])
                /\ Conversational(transcript, c) = h[Len(c)]
<1> DEFINE n == Len(c)
           base == <<>>
           step == [x \in (1 .. n) \X Seq(Entry) |-> KeepConversational(transcript, x[2], c[x[1]])]
           Sol(g) == g = [t \in SUBSET (1 .. n) |->
                        IF t = {} THEN base ELSE KeepConversational(transcript, g[t \ {Max(t)}], c[Max(t)])]
           iter == CHOOSE g : Sol(g)
<1>1. n \in Nat /\ base \in Seq(Entry) /\ DOMAIN c = 1 .. n
  OBVIOUS
<1>2. step \in [(1 .. n) \X Seq(Entry) -> Seq(Entry)]
  BY KeepTyped
<1>3. \E g : Sol(g)
  <2> HIDE DEF base, step, n
  <2>1. PICK g \in [SUBSET (1 .. n) -> Seq(Entry)] : IsSequenceFold(g, n, base, step)
    BY <1>1, <1>2, SequenceFoldExists
  <2>2. ASSUME NEW t \in SUBSET (1 .. n), t # {}
        PROVE  step[<<Max(t), g[t \ {Max(t)}]>>] = KeepConversational(transcript, g[t \ {Max(t)}], c[Max(t)])
    <3>1. Max(t) \in 1 .. n
      BY <1>1, <2>2, LargestElement
    <3>2. g[t \ {Max(t)}] \in Seq(Entry)
      BY <2>1
    <3> QED
      BY <3>1, <3>2 DEF step
  <2>3. Sol(g)
    BY <2>1, <2>2 DEF IsSequenceFold
  <2> QED
    BY <2>3
<1>4. Sol(iter)
  <2> HIDE DEF Sol
  <2> QED
    BY <1>3
<1>5. Conversational(transcript, c) = iter[1 .. n]
  <2>1. Conversational(transcript, c) = iter[DOMAIN c]
    BY <1>1 DEF Conversational, FoldLeft, MapThenFoldSet
  <2> QED
    BY <1>1, <2>1
<1> HIDE DEF iter
<1> DEFINE h == [i \in 0 .. n |-> iter[1 .. i]]
<1>6. h[0] = base
  BY <1>1, <1>4, PrefixIntervals
<1>7. ASSUME NEW i \in 1 .. n
      PROVE  h[i] = KeepConversational(transcript, h[i - 1], c[i])
  <2>1. /\ 1 .. i \in SUBSET (1 .. n) /\ 1 .. i # {}
        /\ Max(1 .. i) = i /\ (1 .. i) \ {i} = 1 .. i - 1
    BY <1>1, PrefixIntervals
  <2>2. iter[1 .. i] = KeepConversational(transcript, iter[1 .. i - 1], c[i])
    BY <1>4, <2>1
  <2> QED
    BY <1>1, <2>2
<1>8. h[n] = iter[1 .. n]
  BY <1>1
<1> HIDE DEF h
<1> QED
  BY <1>5, <1>6, <1>7, <1>8

-----------------------------------------------------------------------------
(* Entries that stand for m + 1 .. n, each position once and in order.      *)
Tiles(out, m, n) ==
  /\ \A k \in 1 .. Len(out) :
       m < out[k].from /\ out[k].from <= out[k].to /\ out[k].to <= n
  /\ \A j, k \in 1 .. Len(out) : j < k => out[j].to < out[k].from
  /\ \A p \in m + 1 .. n : \E k \in 1 .. Len(out) : Shows(out[k], p)

(* An entry is a message, or stands for the range of one of the summaries.  *)
StandsFor(e, s) ==
  IF e.summary
  THEN \E j \in 1 .. Len(s) :
         e.from = s[j].start + 1 /\ e.to = s[j].end /\ e.saw = s[j].saw
  ELSE e.from = e.to

Standing(out, s) == \A k \in 1 .. Len(out) : StandsFor(out[k], s)

LEMMA EntryFields ==
  ASSUME NEW c \in Seq(Entry), NEW k \in 1 .. Len(c)
  PROVE  /\ c[k] \in Entry /\ c[k].summary \in BOOLEAN
         /\ c[k].from \in Nat /\ c[k].to \in Nat /\ c[k].saw \in SUBSET Nat
<1>1. c[k] \in Entry
  OBVIOUS
<1> QED
  BY <1>1 DEF Entry

LEMMA TilesJoined ==
  ASSUME NEW a \in Seq(Entry), NEW b \in Seq(Entry),
         NEW m \in Nat, NEW n \in Nat, NEW p \in Nat, m <= n, n <= p,
         Tiles(a, m, n), Tiles(b, n, p)
  PROVE  Tiles(a \o b, m, p)
<1> DEFINE c == a \o b
<1>1. /\ c \in Seq(Entry) /\ Len(c) = Len(a) + Len(b)
      /\ Len(a) \in Nat /\ Len(b) \in Nat
      /\ \A k \in 1 .. Len(a) : c[k] = a[k]
      /\ \A k \in 1 .. Len(b) : c[Len(a) + k] = b[k]
  BY Concatenation
<1>2. \A k \in 1 .. Len(c) :
        \/ k \in 1 .. Len(a) /\ c[k] = a[k]
        \/ k - Len(a) \in 1 .. Len(b) /\ c[k] = b[k - Len(a)]
  BY JoinedElement
<1>3. /\ \A k \in 1 .. Len(a) : a[k].from \in Nat /\ a[k].to \in Nat
      /\ \A k \in 1 .. Len(b) : b[k].from \in Nat /\ b[k].to \in Nat
  BY EntryFields
<1> HIDE DEF c
<1>4. ASSUME NEW k \in 1 .. Len(c)
      PROVE  m < c[k].from /\ c[k].from <= c[k].to /\ c[k].to <= p
  <2>1. CASE k \in 1 .. Len(a) /\ c[k] = a[k]
    BY <1>3, <2>1 DEF Tiles
  <2>2. CASE k - Len(a) \in 1 .. Len(b) /\ c[k] = b[k - Len(a)]
    BY <1>3, <2>2 DEF Tiles
  <2> QED
    BY <1>2, <2>1, <2>2
<1>5. ASSUME NEW j \in 1 .. Len(c), NEW k \in 1 .. Len(c), j < k
      PROVE  c[j].to < c[k].from
  <2>1. CASE k \in 1 .. Len(a)
    <3>1. j \in 1 .. Len(a) /\ c[j] = a[j] /\ c[k] = a[k]
      BY <1>1, <1>5, <2>1
    <3> QED
      BY <1>5, <2>1, <3>1 DEF Tiles
  <2>2. CASE j - Len(a) \in 1 .. Len(b)
    <3>1. /\ k - Len(a) \in 1 .. Len(b)
          /\ c[j] = b[j - Len(a)] /\ c[k] = b[k - Len(a)]
          /\ j - Len(a) < k - Len(a)
      <4>1. j \notin 1 .. Len(a) /\ k \notin 1 .. Len(a) /\ j - Len(a) < k - Len(a)
        BY <1>1, <1>5, <2>2
      <4> QED
        BY <1>2, <4>1
    <3>2. \A x, y \in 1 .. Len(b) : x < y => b[x].to < b[y].from
      BY DEF Tiles
    <3>3. b[j - Len(a)].to < b[k - Len(a)].from
      <4>1. j - Len(a) \in 1 .. Len(b) /\ k - Len(a) \in 1 .. Len(b)
              /\ j - Len(a) < k - Len(a)
        BY <2>2, <3>1
      <4> QED
        BY <3>2, <4>1
    <3> QED
      BY <3>1, <3>3
  <2>3. CASE j \in 1 .. Len(a) /\ k - Len(a) \in 1 .. Len(b)
    <3>1. c[j] = a[j] /\ c[k] = b[k - Len(a)]
      BY <1>1, <1>2, <2>3
    <3>2. c[j].to <= n /\ n < c[k].from
      BY <2>3, <3>1 DEF Tiles
    <3>3. c[j].to \in Nat /\ c[k].from \in Nat
      <4>1. a[j].to \in Nat /\ b[k - Len(a)].from \in Nat
        BY <1>3, <2>3
      <4> QED
        BY <3>1, <4>1
    <3> QED
      BY <3>2, <3>3
  <2> QED
    BY <1>2, <2>1, <2>2, <2>3
<1>6. ASSUME NEW q \in m + 1 .. p
      PROVE  \E k \in 1 .. Len(c) : Shows(c[k], q)
  <2>1. CASE q <= n
    <3>1. PICK k \in 1 .. Len(a) : Shows(a[k], q)
      BY <2>1 DEF Tiles
    <3>2. k \in 1 .. Len(c) /\ c[k] = a[k]
      BY <1>1
    <3> QED
      BY <3>1, <3>2
  <2>2. CASE q > n
    <3>1. PICK k \in 1 .. Len(b) : Shows(b[k], q)
      BY <2>2 DEF Tiles
    <3>2. Len(a) + k \in 1 .. Len(c) /\ c[Len(a) + k] = b[k]
      BY <1>1
    <3> QED
      BY <3>1, <3>2
  <2> QED
    BY <2>1, <2>2
<1>7. Tiles(c, m, p)
  BY <1>4, <1>5, <1>6 DEF Tiles
<1> QED
  BY <1>7 DEF c

LEMMA StandingJoined ==
  ASSUME NEW a \in Seq(Entry), NEW b \in Seq(Entry), NEW s,
         Standing(a, s), Standing(b, s)
  PROVE  Standing(a \o b, s)
<1> SUFFICES ASSUME NEW k \in 1 .. Len(a \o b)
             PROVE  StandsFor((a \o b)[k], s)
  BY DEF Standing
<1> QED
  BY JoinedElement DEF Standing

LEMMA VerbatimTiles ==
  ASSUME NEW m \in Nat, NEW n \in Nat, m <= n, NEW s
  PROVE  Tiles(Verbatim(m, n), m, n) /\ Standing(Verbatim(m, n), s)
<1> DEFINE v == Verbatim(m, n)
<1>1. v \in Seq(Entry) /\ Len(v) = n - m /\ n - m \in Nat
  BY VerbatimTyped
<1>2. \A k \in 1 .. n - m : v[k].summary = FALSE /\ v[k].from = m + k /\ v[k].to = m + k
  BY DEF Verbatim
<1> HIDE DEF v
<1>3. ASSUME NEW p \in m + 1 .. n
      PROVE  \E k \in 1 .. Len(v) : Shows(v[k], p)
  <2>1. p - m \in 1 .. n - m /\ v[p - m].from = p /\ v[p - m].to = p
    BY <1>2
  <2> QED
    BY <1>1, <2>1 DEF Shows
<1>4. Tiles(v, m, n)
  <2>1. \A k \in 1 .. Len(v) : m < v[k].from /\ v[k].from <= v[k].to /\ v[k].to <= n
    BY <1>1, <1>2
  <2>2. \A j, k \in 1 .. Len(v) : j < k => v[j].to < v[k].from
    BY <1>1, <1>2
  <2> QED
    BY <1>3, <2>1, <2>2 DEF Tiles
<1>5. Standing(v, s)
  BY <1>1, <1>2 DEF Standing, StandsFor
<1> QED
  BY <1>4, <1>5 DEF v

LEMMA SubstituteTiles ==
  ASSUME NEW s \in Seq(Summary), NEW b \in Summary, b.start < b.end,
         \E j \in 1 .. Len(s) : b = s[j]
  PROVE  /\ Substitute(b) \in Seq(Entry)
         /\ Tiles(Substitute(b), b.start, b.end) /\ Standing(Substitute(b), s)
<1> DEFINE v == Substitute(b)
<1>1. b.start \in Nat /\ b.end \in Nat /\ b.saw \in SUBSET Nat
  BY DEF Summary
<1>2. /\ v \in Seq(Entry) /\ Len(v) = 1
      /\ v[1].summary = TRUE /\ v[1].from = b.start + 1 /\ v[1].to = b.end
      /\ v[1].saw = b.saw
  BY <1>1 DEF Substitute, Entry
<1> HIDE DEF v
<1>3. Tiles(v, b.start, b.end)
  BY <1>1, <1>2 DEF Tiles, Shows
<1>4. Standing(v, s)
  BY <1>2 DEF Standing, StandsFor
<1> QED
  BY <1>2, <1>3, <1>4 DEF v

(* Ranges within a transcript of n messages.                                *)
Within(s, n) ==
  \A j \in 1 .. Len(s) : s[j].start < s[j].end /\ s[j].end <= n

LEMMA FromWithin ==
  ASSUME NEW s \in Seq(Summary), NEW n, Within(s, n), NEW t \in DrawnFrom(s)
  PROVE  /\ t \in Seq(Summary) /\ Len(t) = Len(s) /\ Within(t, n)
         /\ \A k \in 1 .. Len(t) : \E j \in 1 .. Len(s) : t[k] = s[j]
  BY DEF DrawnFrom, Within

LEMMA PlaceTiles ==
  ASSUME NEW transcript \in Seq(Type), NEW s \in Seq(Summary), NEW acc \in PlaceState,
         NEW b \in Summary, b.start < b.end, b.end <= Len(transcript),
         \E j \in 1 .. Len(s) : b = s[j],
         Tiles(acc.out, 0, acc.lastEnd), Standing(acc.out, s),
         acc.lastEnd <= Len(transcript)
  PROVE  LET next == Place(transcript, acc, b) IN
         /\ Tiles(next.out, 0, next.lastEnd) /\ Standing(next.out, s)
         /\ next.lastEnd <= Len(transcript)
<1>0. /\ acc.out \in Seq(Entry) /\ acc.lastEnd \in Nat
      /\ b.start \in Nat /\ b.end \in Nat
  BY DEF PlaceState, Summary
<1>1. CASE b.start < acc.lastEnd
  BY <1>1 DEF Place
<1>2. CASE ~ (b.start < acc.lastEnd)
  <2> DEFINE v == Verbatim(acc.lastEnd, b.start)
             u == Substitute(b)
  <2>1. acc.lastEnd <= b.start /\ b.start <= b.end /\ b.start <= Len(transcript)
    BY <1>0, <1>2
  <2>2. v \in Seq(Entry) /\ Tiles(v, acc.lastEnd, b.start) /\ Standing(v, s)
    BY <1>0, <2>1, VerbatimTiles, VerbatimTyped
  <2>3. u \in Seq(Entry) /\ Tiles(u, b.start, b.end) /\ Standing(u, s)
    BY SubstituteTiles
  <2>4. Place(transcript, acc, b) = [out |-> (acc.out \o v) \o u, lastEnd |-> b.end]
    BY <1>2, <2>1 DEF Place
  <2> HIDE DEF v, u
  <2>5. /\ acc.out \o v \in Seq(Entry) /\ Standing(acc.out \o v, s)
        /\ Tiles(acc.out \o v, 0, b.start)
    BY <1>0, <2>1, <2>2, TilesJoined, StandingJoined, Concatenation
  <2>6. Standing((acc.out \o v) \o u, s) /\ Tiles((acc.out \o v) \o u, 0, b.end)
    <3> DEFINE w == acc.out \o v
    <3>1. w \in Seq(Entry) /\ Standing(w, s) /\ Tiles(w, 0, b.start) /\ 0 <= b.start
      BY <1>0, <2>5
    <3> HIDE DEF w
    <3>2. Standing(w \o u, s)
      BY <2>3, <3>1, StandingJoined
    <3>3. Tiles(w \o u, 0, b.end)
      BY <1>0, <2>1, <2>3, <3>1, TilesJoined
    <3> QED
      BY <3>2, <3>3 DEF w
  <2> QED
    BY <2>4, <2>6
<1> QED
  BY <1>1, <1>2

LEMMA PlacedTiles ==
  ASSUME NEW transcript \in Seq(Type), NEW s \in Seq(Summary),
         NEW t \in DrawnFrom(s), Within(s, Len(transcript))
  PROVE  LET placed == Placed(transcript, t) IN
         /\ placed \in PlaceState /\ placed.lastEnd <= Len(transcript)
         /\ Tiles(placed.out, 0, placed.lastEnd) /\ Standing(placed.out, s)
<1>0. /\ t \in Seq(Summary) /\ Len(t) \in Nat /\ Within(t, Len(transcript))
      /\ \A k \in 1 .. Len(t) : \E j \in 1 .. Len(s) : t[k] = s[j]
  BY FromWithin
<1> DEFINE Fine(acc) == /\ acc \in PlaceState /\ acc.lastEnd <= Len(transcript)
                        /\ Tiles(acc.out, 0, acc.lastEnd) /\ Standing(acc.out, s)
           A == {acc \in PlaceState : Fine(acc)}
<1>1. PICK h : /\ h[0] = [out |-> <<>>, lastEnd |-> 0]
               /\ \A i \in 1 .. Len(t) : h[i] = Place(transcript, h[i - 1], t[i])
               /\ Placed(transcript, t) = h[Len(t)]
  BY <1>0, PlacedSteps
<1>2. h[0] \in A
  <2> DEFINE none == [out |-> <<>>, lastEnd |-> 0]
  <2>1. none \in PlaceState /\ none.out = <<>> /\ none.lastEnd = 0 /\ 0 <= Len(transcript)
    BY DEF PlaceState
  <2>2. Tiles(<<>>, 0, 0) /\ Standing(<<>>, s)
    BY DEF Tiles, Standing
  <2> HIDE DEF none
  <2>3. Fine(none)
    BY <2>1, <2>2
  <2> QED
    BY <1>1, <2>3 DEF none
<1>3. ASSUME NEW i \in 1 .. Len(t), h[i - 1] \in A
      PROVE  h[i] \in A
  <2>1. Fine(h[i - 1]) /\ t[i] \in Summary
    BY <1>0, <1>3
  <2>2. /\ t[i].start < t[i].end /\ t[i].end <= Len(transcript)
        /\ \E j \in 1 .. Len(s) : t[i] = s[j]
    BY <1>0 DEF Within
  <2>3. h[i] = Place(transcript, h[i - 1], t[i])
    BY <1>1
  <2>4. Place(transcript, h[i - 1], t[i]) \in PlaceState
    BY <2>1, PlaceTyped
  <2> DEFINE next == Place(transcript, h[i - 1], t[i])
  <2>5. /\ Tiles(next.out, 0, next.lastEnd) /\ Standing(next.out, s)
        /\ next.lastEnd <= Len(transcript)
    BY <2>1, <2>2, PlaceTiles
  <2> QED
    BY <2>3, <2>4, <2>5
<1> HIDE DEF A
<1>4. \A i \in 0 .. Len(t) : h[i] \in A
  BY <1>0, <1>2, <1>3, StepsStay
<1>5. h[Len(t)] \in A
  BY <1>0, <1>4
<1> QED
  BY <1>1, <1>5 DEF A

-----------------------------------------------------------------------------
(* What is left of a context without its bookkeeping.                       *)

IsConversational(transcript, e) ==
  e.summary \/ transcript[e.from] # "active_tools_change"

(* out holds the conversational ones of the first i entries of c, in order. *)
Kept(transcript, c, out, i) ==
  /\ out \in Seq(Entry)
  /\ \A k \in 1 .. Len(out) : \E l \in 1 .. i : out[k] = c[l]
  /\ \A j, k \in 1 .. Len(out) : j < k => out[j].to < out[k].from
  /\ \A l \in 1 .. i :
       IsConversational(transcript, c[l]) => \E k \in 1 .. Len(out) : out[k] = c[l]

LEMMA KeepOne ==
  ASSUME NEW transcript, NEW c \in Seq(Entry), NEW m, NEW n, Tiles(c, m, n),
         NEW i \in 1 .. Len(c), NEW out, Kept(transcript, c, out, i - 1)
  PROVE  Kept(transcript, c, KeepConversational(transcript, out, c[i]), i)
<1>0. /\ out \in Seq(Entry) /\ c[i] \in Entry /\ Len(out) \in Nat
      /\ \A k \in 1 .. Len(out) : \E l \in 1 .. i - 1 : out[k] = c[l]
      /\ \A j, k \in 1 .. Len(out) : j < k => out[j].to < out[k].from
      /\ \A l \in 1 .. i - 1 : IsConversational(transcript, c[l]) =>
           \E k \in 1 .. Len(out) : out[k] = c[l]
  BY DEF Kept
<1>1. CASE ~IsConversational(transcript, c[i])
  <2>1. KeepConversational(transcript, out, c[i]) = out
    BY <1>1 DEF KeepConversational, IsConversational
  <2>2. \A l \in 1 .. i : l \in 1 .. i - 1 \/ l = i
    OBVIOUS
  <2>3. 1 .. i - 1 \subseteq 1 .. i
    OBVIOUS
  <2> QED
    BY <1>0, <1>1, <2>1, <2>2, <2>3 DEF Kept
<1>2. CASE IsConversational(transcript, c[i])
  <2> DEFINE next == Append(out, c[i])
  <2>1. KeepConversational(transcript, out, c[i]) = next
    BY <1>2 DEF KeepConversational, IsConversational
  <2>2. /\ next \in Seq(Entry) /\ Len(next) = Len(out) + 1
        /\ next[Len(out) + 1] = c[i]
        /\ \A k \in 1 .. Len(out) : next[k] = out[k]
    BY <1>0, Appending
  <2> HIDE DEF next
  <2>3. \A k \in 1 .. Len(next) : k \in 1 .. Len(out) \/ k = Len(out) + 1
    BY <1>0, <2>2
  <2>4. ASSUME NEW k \in 1 .. Len(next)
        PROVE  \E l \in 1 .. i : next[k] = c[l]
    <3>1. CASE k \in 1 .. Len(out)
      <4>1. PICK l \in 1 .. i - 1 : out[k] = c[l]
        BY <1>0, <3>1
      <4>2. l \in 1 .. i
        OBVIOUS
      <4> QED
        BY <2>2, <3>1, <4>1, <4>2
    <3>2. CASE k = Len(out) + 1
      BY <2>2, <3>2
    <3> QED
      BY <2>3, <3>1, <3>2
  <2>5. ASSUME NEW j \in 1 .. Len(next), NEW k \in 1 .. Len(next), j < k
        PROVE  next[j].to < next[k].from
    <3>0. j \in 1 .. Len(out)
      BY <1>0, <2>2, <2>5
    <3>1. CASE k \in 1 .. Len(out)
      BY <1>0, <2>2, <2>5, <3>0, <3>1
    <3>2. CASE k = Len(out) + 1
      <4>1. PICK l \in 1 .. i - 1 : out[j] = c[l]
        BY <1>0, <3>0
      <4>2. l \in 1 .. Len(c) /\ l < i
        OBVIOUS
      <4>3. c[l].to < c[i].from
        BY <4>2 DEF Tiles
      <4> QED
        BY <2>2, <3>0, <3>2, <4>1, <4>3
    <3> QED
      BY <2>3, <3>1, <3>2
  <2>6. ASSUME NEW l \in 1 .. i, IsConversational(transcript, c[l])
        PROVE  \E k \in 1 .. Len(next) : next[k] = c[l]
    <3>1. CASE l = i
      <4>1. Len(out) + 1 \in 1 .. Len(next)
        BY <1>0, <2>2
      <4> QED
        BY <2>2, <3>1, <4>1
    <3>2. CASE l # i
      <4>1. l \in 1 .. i - 1
        BY <3>2
      <4>2. PICK k \in 1 .. Len(out) : out[k] = c[l]
        BY <1>0, <2>6, <4>1
      <4>3. k \in 1 .. Len(next)
        BY <1>0, <2>2
      <4> QED
        BY <2>2, <4>2, <4>3
    <3> QED
      BY <3>1, <3>2
  <2>7. Kept(transcript, c, next, i)
    BY <2>2, <2>4, <2>5, <2>6 DEF Kept
  <2> QED
    BY <2>1, <2>7
<1> QED
  BY <1>1, <1>2

LEMMA ConversationalKept ==
  ASSUME NEW transcript \in Seq(Type), NEW c \in Seq(Entry), NEW m, NEW n, Tiles(c, m, n)
  PROVE  Kept(transcript, c, Conversational(transcript, c), Len(c))
<1>0. Len(c) \in Nat
  OBVIOUS
<1>1. PICK h : /\ h[0] = <<>>
               /\ \A i \in 1 .. Len(c) :
                    h[i] = KeepConversational(transcript, h[i - 1], c[i])
               /\ Conversational(transcript, c) = h[Len(c)]
  BY KeptSteps
<1> DEFINE S == {i \in 0 .. Len(c) : Kept(transcript, c, h[i], i)}
<1>2. 0 \in S
  <2>1. Kept(transcript, c, <<>>, 0)
    BY DEF Kept
  <2> QED
    BY <1>0, <1>1, <2>1
<1>3. ASSUME NEW i \in 1 .. Len(c), i - 1 \in S
      PROVE  i \in S
  <2>1. Kept(transcript, c, h[i - 1], i - 1) /\ h[i] = KeepConversational(transcript, h[i - 1], c[i])
    BY <1>1, <1>3
  <2>2. Kept(transcript, c, h[i], i)
    BY <2>1, KeepOne
  <2> QED
    BY <1>0, <2>2
<1>4. S \in SUBSET (0 .. Len(c))
  OBVIOUS
<1> HIDE DEF S
<1>5. S = 0 .. Len(c)
  BY <1>0, <1>2, <1>3, <1>4, BoundedInduction
<1>6. Len(c) \in S
  BY <1>0, <1>5
<1> QED
  BY <1>1, <1>6 DEF S

-----------------------------------------------------------------------------
(* A context is complete when its summaries stand for ranges of its         *)
(* transcript, however they overlap and in whatever order they come.        *)

LEMMA KeptComplete ==
  ASSUME NEW transcript \in Seq(Type), NEW c \in Seq(Entry), NEW s,
         Tiles(c, 0, Len(transcript)), Standing(c, s),
         NEW context, Kept(transcript, c, context, Len(c))
  PROVE  /\ \A p \in DOMAIN transcript :
              transcript[p] # "active_tools_change" =>
                Cardinality({k \in DOMAIN context : Shows(context[k], p)}) = 1
         /\ \A k \in DOMAIN context : k > 1 => context[k - 1].to < context[k].from
         /\ Standing(context, s)
<1>0. /\ context \in Seq(Entry) /\ DOMAIN context = 1 .. Len(context)
      /\ Len(context) \in Nat /\ DOMAIN transcript = 1 .. Len(transcript)
      /\ Len(transcript) \in Nat
      /\ \A j, k \in 1 .. Len(context) : j < k => context[j].to < context[k].from
      /\ \A k \in 1 .. Len(context) : \E l \in 1 .. Len(c) : context[k] = c[l]
  BY DEF Kept
<1>1. ASSUME NEW p \in DOMAIN transcript, transcript[p] # "active_tools_change"
      PROVE  Cardinality({k \in DOMAIN context : Shows(context[k], p)}) = 1
  <2>1. PICK l \in 1 .. Len(c) : Shows(c[l], p)
    BY <1>0 DEF Tiles
  <2>2. IsConversational(transcript, c[l])
    <3>1. CASE c[l].summary
      BY <3>1 DEF IsConversational
    <3>2. CASE ~c[l].summary
      <4>1. c[l].from = c[l].to /\ c[l].from \in Nat
        BY <3>2, EntryFields DEF Standing, StandsFor
      <4>2. c[l].from = p
        BY <1>0, <2>1, <4>1 DEF Shows
      <4> QED
        BY <1>1, <4>2 DEF IsConversational
    <3> QED
      BY <3>1, <3>2
  <2>3. PICK k \in 1 .. Len(context) : context[k] = c[l]
    BY <2>2 DEF Kept
  <2>4. Shows(context[k], p)
    BY <2>1, <2>3
  <2>5. ASSUME NEW j \in 1 .. Len(context), Shows(context[j], p)
        PROVE  j = k
    <3>1. /\ context[j].from \in Nat /\ context[j].to \in Nat
          /\ context[k].from \in Nat /\ context[k].to \in Nat
      BY <1>0, EntryFields
    <3>2. /\ context[j].from <= p /\ p <= context[j].to
          /\ context[k].from <= p /\ p <= context[k].to /\ p \in Nat
      BY <1>0, <2>4, <2>5 DEF Shows
    <3>3. ~ (j < k) /\ ~ (k < j)
      BY <1>0, <3>1, <3>2
    <3> QED
      BY <3>3
  <2>6. {j \in DOMAIN context : Shows(context[j], p)} = {k}
    BY <1>0, <2>4, <2>5
  <2> QED
    BY <2>6, FS_Singleton
<1>2. ASSUME NEW k \in DOMAIN context, k > 1
      PROVE  context[k - 1].to < context[k].from
  <2>1. k - 1 \in 1 .. Len(context) /\ k \in 1 .. Len(context) /\ k - 1 < k
    BY <1>0, <1>2
  <2> QED
    BY <1>0, <2>1
<1>3. Standing(context, s)
  BY <1>0 DEF Standing
<1> QED
  BY <1>1, <1>2, <1>3

LEMMA ContextComplete ==
  ASSUME NEW transcript \in Seq(Type), NEW s \in Seq(Summary),
         Within(s, Len(transcript))
  PROVE  /\ Complete(transcript, s)
         /\ BuildLLMContext(transcript, s) \in Seq(Entry)
         /\ Standing(BuildLLMContext(transcript, s), s)
<1>0. Len(transcript) \in Nat
  OBVIOUS
<1> DEFINE context == BuildLLMContext(transcript, s)
<1>1. \E c \in Seq(Entry) :
        /\ Tiles(c, 0, Len(transcript)) /\ Standing(c, s)
        /\ context = Conversational(transcript, c)
  <2>1. CASE s = <<>>
    <3> DEFINE c == Verbatim(0, Len(transcript))
    <3>1. c \in Seq(Entry)
      BY <1>0, VerbatimTyped
    <3>2. 0 \in Nat /\ 0 <= Len(transcript)
      BY <1>0
    <3>3. Tiles(c, 0, Len(transcript)) /\ Standing(c, s)
      BY <1>0, <3>2, VerbatimTiles
    <3> HIDE DEF c
    <3>4. context = Conversational(transcript, c)
      BY <2>1 DEF BuildLLMContext, c
    <3> QED
      BY <3>1, <3>3, <3>4
  <2>2. CASE s # <<>>
    <3> DEFINE placed == Placed(transcript, SortedByStart(s))
               rest == Verbatim(placed.lastEnd, Len(transcript))
               c == placed.out \o rest
    <3>1. /\ placed \in PlaceState /\ placed.lastEnd <= Len(transcript)
          /\ Tiles(placed.out, 0, placed.lastEnd) /\ Standing(placed.out, s)
      BY SortKeeps, PlacedTiles
    <3>2. context = Conversational(transcript, c)
      BY <2>2 DEF BuildLLMContext
    <3> HIDE DEF placed
    <3>3. placed.out \in Seq(Entry) /\ placed.lastEnd \in Nat
      BY <3>1 DEF PlaceState
    <3>4. /\ rest \in Seq(Entry) /\ Tiles(rest, placed.lastEnd, Len(transcript))
          /\ Standing(rest, s)
      BY <1>0, <3>1, <3>3, VerbatimTyped, VerbatimTiles
    <3> HIDE DEF rest
    <3>5. c \in Seq(Entry) /\ Standing(c, s)
      BY <3>1, <3>3, <3>4, StandingJoined, Concatenation
    <3>6. Tiles(c, 0, Len(transcript))
      BY <1>0, <3>1, <3>3, <3>4, TilesJoined
    <3> QED
      BY <3>2, <3>5, <3>6
  <2> QED
    BY <2>1, <2>2
<1>2. PICK c \in Seq(Entry) :
        /\ Tiles(c, 0, Len(transcript)) /\ Standing(c, s)
        /\ context = Conversational(transcript, c)
  BY <1>1
<1>3. Kept(transcript, c, context, Len(c))
  BY <1>2, ConversationalKept
<1> HIDE DEF context
<1>4. /\ \A p \in DOMAIN transcript :
           transcript[p] # "active_tools_change" =>
             Cardinality({k \in DOMAIN context : Shows(context[k], p)}) = 1
      /\ \A k \in DOMAIN context : k > 1 => context[k - 1].to < context[k].from
      /\ Standing(context, s)
  BY <1>2, <1>3, KeptComplete
<1>5. context \in Seq(Entry)
  BY <1>3 DEF Kept
<1> QED
  BY <1>4, <1>5 DEF Complete, context

-----------------------------------------------------------------------------
(* The contexts of the session and of a prompt under way.  A prompt has in  *)
(* its transcript at least what it loaded.                                  *)

ContextInv == CoverInv /\ loaded <= Len(view)

LEMMA ContextInit == Init => ContextInv
  BY CoverInit DEF Init, ContextInv

LEMMA ContextFacts ==
  ASSUME ContextInv
  PROVE  /\ log \in Seq(Type) /\ view \in Seq(Type)
         /\ sums \in Seq(Summary) /\ viewSums \in Seq(Summary)
         /\ AllCover(sums, Len(log)) /\ AllCover(viewSums, Len(log))
         /\ loaded \in Nat /\ Len(view) \in Nat /\ loaded <= Len(view)
<1>1. SessionTyped /\ PromptTyped
  BY TypeParts DEF ContextInv, CoverInv
<1>2. loaded \in 0 .. MaxLog /\ view \in Seq(Type)
  BY <1>1 DEF PromptTyped
<1>3. loaded \in Nat /\ Len(view) \in Nat
  BY <1>2
<1> QED
  BY <1>1, <1>3 DEF ContextInv, CoverInv, SessionTyped, PromptTyped

LEMMA ContextStep == ContextInv /\ [Next]_vars => ContextInv'
<1> SUFFICES ASSUME ContextInv, [Next]_vars
             PROVE  (loaded <= Len(view))'
  BY CoverStep DEF ContextInv
<1>0. /\ log \in Seq(Type) /\ view \in Seq(Type) /\ Len(view) \in Nat
      /\ loaded \in Nat /\ loaded <= Len(view)
  BY ContextFacts
<1>1. CASE PromptAppends
  <2>1. PICK msgs \in Seq(Type) : PromptAppend(msgs)
    BY <1>1, PromptAppended
  <2>2. loaded' = loaded /\ Len(view') = Len(view) + Len(msgs) /\ Len(msgs) \in Nat
    BY <1>0, <2>1, Concatenation DEF PromptAppend
  <2> QED
    BY <1>0, <2>2
<1>2. CASE PromptStart
  <2>1. view' = log /\ loaded' = Len(log)
    BY <1>2 DEF PromptStart
  <2> QED
    BY <1>0, <2>1
<1>3. CASE PromptEnd
  <2>1. view' = <<>> /\ loaded' = 0
    BY <1>3 DEF PromptEnd
  <2> QED
    BY <2>1
<1>4. CASE ~PromptAppends /\ ~PromptStart /\ ~PromptEnd
  <2>1. view' = view /\ loaded' = loaded
    BY <1>4 DEF Next, vars, promptVars, PromptLoadSummaries, ChangeOutsidePrompt,
       ImportSummary, Begin, Compact, LoadLog, PlanSummary, SummarizeOnce, RetryWaited,
       RetryCancelled, Persist
  <2> QED
    BY <1>0, <2>1
<1> QED
  BY <1>1, <1>2, <1>3, <1>4

LEMMA LogComplete ==
  ASSUME ContextInv
  PROVE  /\ Complete(log, sums)
         /\ BuildLLMContext(log, sums) \in Seq(Entry)
         /\ Standing(BuildLLMContext(log, sums), sums)
<1>1. Within(sums, Len(log))
  BY ContextFacts DEF AllCover, Covers, Within
<1> QED
  BY <1>1, ContextFacts, ContextComplete

(* No message of the conversation is lost, repeated or moved in the context *)
(* of the session, whatever overlapping summaries concurrent Compacts and   *)
(* the embedding program wrote (BuildLLMContext, compact.go:197-236).       *)
THEOREM NoMessageIsLost == Spec => []NoMessageLost
<1>1. ContextInv => NoMessageLost
  BY LogComplete DEF NoMessageLost
<1> QED
  BY <1>1, ContextInit, ContextStep, PTL DEF Spec

(* The same of every request of a prompt (prompt.go:424), as long as no     *)
(* summary that it loaded covers an entry that it did not load.             *)
THEOREM PromptMissesNothing == Spec => []PromptSeesEverything
<1>1. ASSUME ContextInv, \A i \in DOMAIN viewSums : viewSums[i].end <= loaded
      PROVE  Complete(view, viewSums)
  <2>1. Within(viewSums, Len(view))
    <3>1. ASSUME NEW i \in 1 .. Len(viewSums)
          PROVE  viewSums[i].start < viewSums[i].end /\ viewSums[i].end <= Len(view)
      <4>1. viewSums[i] \in Summary /\ i \in DOMAIN viewSums
        BY <1>1, ContextFacts
      <4>2. viewSums[i].end \in 0 .. MaxLog /\ viewSums[i].end <= loaded
        BY <1>1, <4>1 DEF Summary
      <4>3. viewSums[i].start < viewSums[i].end
        BY <1>1, ContextFacts DEF AllCover, Covers
      <4> QED
        BY <1>1, <4>2, <4>3, ContextFacts
    <3> QED
      BY <3>1 DEF Within
  <2> QED
    BY <1>1, <2>1, ContextFacts, ContextComplete
<1>2. ContextInv => PromptSeesEverything
  BY <1>1 DEF PromptSeesEverything
<1> QED
  BY <1>2, ContextInit, ContextStep, PTL DEF Spec

(* A summary in the context of the session was made from every message it   *)
(* stands for (summarize, compact.go:414-455).                              *)
THEOREM SummariesCoverTheirRange == Spec => []SummaryCoversItsRange
<1>1. ASSUME ContextInv, NEW k \in DOMAIN BuildLLMContext(log, sums),
             BuildLLMContext(log, sums)[k].summary
      PROVE  LET e == BuildLLMContext(log, sums)[k] IN e.from .. e.to \subseteq e.saw
  <2> DEFINE context == BuildLLMContext(log, sums)
  <2>1. StandsFor(context[k], sums)
    <3>1. context \in Seq(Entry) /\ Standing(context, sums)
      BY <1>1, LogComplete
    <3> HIDE DEF context
    <3>2. DOMAIN context = 1 .. Len(context)
      BY <3>1
    <3> QED
      BY <1>1, <3>1, <3>2 DEF Standing, context
  <2>2. PICK j \in 1 .. Len(sums) :
          /\ context[k].from = sums[j].start + 1 /\ context[k].to = sums[j].end
          /\ context[k].saw = sums[j].saw
    BY <1>1, <2>1 DEF StandsFor
  <2>3. Covers(sums[j], Len(log))
    BY <1>1, ContextFacts DEF AllCover
  <2> QED
    BY <2>2, <2>3 DEF Covers
<1>2. ContextInv => SummaryCoversItsRange
  BY <1>1 DEF SummaryCoversItsRange
<1> QED
  BY <1>2, ContextInit, ContextStep, PTL DEF Spec
=============================================================================
