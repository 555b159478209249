------------------------ MODULE AgentLifecycleProofs ------------------------
(***************************************************************************)
(* TLAPS proofs about AgentLifecycle, for any number of prompts, of         *)
(* SetActiveTools calls and of sessions, with or without failures.          *)
(***************************************************************************)
EXTENDS AgentLifecycle, TLAPS

USE LifecycleAssumption

-----------------------------------------------------------------------------
(* Type correctness and mutual exclusion are proved together: that running  *)
(* stays in {0, 1} needs the exclusion, and the exclusion needs the types.  *)

TypeInv == TypeOK /\ SingleRunner

LEMMA TypeInit == Init => TypeInv
  BY DEF Init, TypeInv, TypeOK, SingleRunner, Prompt, Change, Tools, Stage,
         Starting, Looping, Unwinding, Holding, Entry

(* The last recorded set of a session, or all tools, is a set of tools.     *)
LEMMA LastToolsType ==
  ASSUME TypeOK, NEW s \in Session
  PROVE  LastTools(s) \in Tools
<1>1. store[s] \in Seq(Entry)
  BY DEF TypeOK
<1>2. CASE store[s] = <<>>
  BY <1>2 DEF LastTools, Tools
<1>3. CASE store[s] # <<>>
  <2>1. store[s][Len(store[s])] \in Entry
    BY <1>1, <1>3
  <2> QED
    BY <2>1, <1>3 DEF LastTools, Entry
<1> QED
  BY <1>2, <1>3

(* Appending to a session, or to no session at all, keeps the store typed.  *)
LEMMA AppendEntryType ==
  ASSUME TypeOK, NEW s, NEW e \in Entry, AppendEntry(s, e)
  PROVE  store' \in [Session -> Seq(Entry)]
<1>1. CASE s \in Session
  <2>1. Append(store[s], e) \in Seq(Entry)
    BY <1>1 DEF TypeOK
  <2> QED
    BY <2>1 DEF TypeOK, AppendEntry
<1>2. CASE s \notin Session
  BY <1>2 DEF TypeOK, AppendEntry
<1> QED
  BY <1>1, <1>2

(* A start moves to another starting stage or, launched, to the loop.       *)
LEMMA StartTypes ==
  ASSUME TypeInv, NEW p \in Prompt, StartStep(p)
  PROVE  TypeOK'
<1> USE DEF TypeInv, TypeOK, Move, Stage, Starting, Looping, Unwinding, vars,
            agentVars, toolVars, promptVars, storeVars, setterVars, Prompt
<1>1. CASE Begin(p)
  BY <1>1 DEF Begin
<1>2. CASE \E s \in Session : CreateSession(p, s)
  BY <1>2 DEF CreateSession
<1>3. CASE \E s \in Session : LoadSession(p, s)
  BY <1>3, LastToolsType DEF LoadSession
<1>4. CASE RecordActiveTools(p)
  <2>1. Bind(read[p]) \in Entry
    BY DEF Bind, Entry
  <2>2. store' \in [Session -> Seq(Entry)]
    BY <1>4, <2>1, AppendEntryType DEF RecordActiveTools
  <2> QED
    BY <1>4, <2>2 DEF RecordActiveTools
<1>5. CASE RestoreActiveTools(p)
  BY <1>5 DEF RestoreActiveTools
<1>6. CASE AppendPrompt(p)
  BY <1>6 DEF AppendPrompt
<1>7. CASE Publish(p)
  BY <1>7 DEF Publish
<1>8. CASE StartFails(p)
  <2>1. Bind(read[p]) \in Entry
    BY DEF Bind, Entry
  <2>2. store' \in [Session -> Seq(Entry)]
    <3>1. CASE UNCHANGED store
      BY <3>1
    <3>2. CASE AppendEntry(session[p], Bind(read[p]))
      BY <3>2, <2>1, AppendEntryType
    <3> QED
      BY <1>8, <3>1, <3>2 DEF StartFails
  <2> QED
    BY <1>8, <2>2 DEF StartFails
<1> QED
  BY <1>1, <1>2, <1>3, <1>4, <1>5, <1>6, <1>7, <1>8 DEF StartStep

(* A loop step keeps the types: a slot that is given back was taken.        *)
LEMMA LoopTypes ==
  ASSUME TypeInv, NEW p \in Prompt, LoopStep(p)
  PROVE  TypeOK'
<1> USE DEF TypeInv, TypeOK, Move, Stage, Starting, Looping, Unwinding, vars,
            agentVars, toolVars, promptVars, storeVars, setterVars, Prompt
<1>1. CASE TurnEnds(p) \/ FinalFlush(p)
  <2>1. PICK to \in Stage : /\ stage' = [stage EXCEPT ![p] = to]
                           /\ taken' = [taken EXCEPT ![p] = queue]
                           /\ queue' = <<>>
                           /\ UNCHANGED <<agentVars, active, session, read, ctx,
                                         storeVars, setterVars>>
    BY <1>1 DEF TurnEnds, FinalFlush, TakeQueue
  <2>2. <<>> \in Seq(Change)
    OBVIOUS
  <2> QED
    BY <2>1, <2>2
<1>2. CASE AppendTaken(p)
  <2>1. taken[p] \in Seq(Change) /\ taken[p] # <<>>
    BY <1>2 DEF AppendTaken
  <2>2. Head(taken[p]) \in Change /\ Tail(taken[p]) \in Seq(Change)
    BY <2>1
  <2>3. Changed(Head(taken[p])) \in Entry
    BY <2>2 DEF Changed, Entry, Change, Tools
  <2>4. store' \in [Session -> Seq(Entry)]
    BY <1>2, <2>3, AppendEntryType DEF AppendTaken
  <2> QED
    BY <1>2, <2>2, <2>4 DEF AppendTaken
<1>3. CASE FlushEnds(p)
  BY <1>3 DEF FlushEnds
<1>4. CASE FlushFails(p)
  <2>1. taken[p] \in Seq(Change)
    OBVIOUS
  <2>2. {taken[p][i] : i \in 1 .. Len(taken[p])} \subseteq Change
    BY <2>1
  <2>3. taken' \in [Prompt -> Seq(Change)]
    BY <1>4 DEF FlushFails
  <2>4. store' \in [Session -> Seq(Entry)]
    <3>1. Head(taken[p]) \in Change
      BY <1>4, <2>1 DEF FlushFails
    <3>2. Changed(Head(taken[p])) \in Entry
      BY <3>1 DEF Changed, Entry, Change, Tools
    <3>3. CASE UNCHANGED store
      BY <3>3
    <3>4. CASE AppendEntry(session[p], Changed(Head(taken[p])))
      BY <3>4, <3>2, AppendEntryType
    <3> QED
      BY <1>4, <3>3, <3>4 DEF FlushFails
  <2> QED
    BY <1>4, <2>2, <2>3, <2>4 DEF FlushFails
<1>5. CASE TurnFails(p)
  BY <1>5 DEF TurnFails
<1>6. CASE Release(p)
  <2>1. running = 1
    BY <1>6 DEF Release, SingleRunner, Holding
  <2> QED
    BY <1>6, <2>1 DEF Release
<1>7. CASE FinalFlushEnds(p)
  BY <1>7 DEF FinalFlushEnds
<1>8. CASE Unwind(p)
  BY <1>8 DEF Unwind
<1> QED
  BY <1>1, <1>2, <1>3, <1>4, <1>5, <1>6, <1>7, <1>8 DEF LoopStep

(* SetActiveTools names the holder of the slot as the owner of what it      *)
(* queues: there is one whenever running is 1.                              *)
LEMMA SetterTypes ==
  ASSUME TypeInv, NEW k \in Change,
         SetActiveTools(k) \/ PersistChange(k) \/ PersistChangeFails(k)
  PROVE  TypeOK'
<1> USE DEF TypeInv, TypeOK, vars, agentVars, toolVars, promptVars, storeVars,
            setterVars
<1>1. CASE SetActiveTools(k)
  <2>1. Append(queue, k) \in Seq(Change)
    OBVIOUS
  <2>2. running > 0 => (CHOOSE p \in Prompt : Holding(p)) \in 0 .. MaxPrompts
    <3>1. ASSUME running > 0
          PROVE  \E p \in Prompt : Holding(p)
      BY <3>1 DEF SingleRunner
    <3>2. ASSUME \E p \in Prompt : Holding(p)
          PROVE  (CHOOSE p \in Prompt : Holding(p)) \in Prompt
      BY <3>2, Zenon
    <3> QED
      BY <3>1, <3>2 DEF Prompt
  <2>3. k \in Tools
    BY DEF Change, Tools
  <2> QED
    BY <1>1, <2>1, <2>2, <2>3 DEF SetActiveTools
<1>2. CASE PersistChange(k)
  <2>1. Changed(k) \in Entry
    BY DEF Changed, Entry, Change, Tools
  <2>2. store' \in [Session -> Seq(Entry)]
    BY <1>2, <2>1, AppendEntryType DEF PersistChange
  <2> QED
    BY <1>2, <2>2 DEF PersistChange
<1>3. CASE PersistChangeFails(k)
  <2>1. Changed(k) \in Entry
    BY DEF Changed, Entry, Change, Tools
  <2>2. store' \in [Session -> Seq(Entry)]
    <3>1. CASE UNCHANGED store
      BY <3>1
    <3>2. CASE AppendEntry(target[k], Changed(k))
      BY <3>2, <2>1, AppendEntryType
    <3> QED
      BY <1>3, <3>1, <3>2 DEF PersistChangeFails
  <2> QED
    BY <1>3, <2>2 DEF PersistChangeFails
<1> QED
  BY <1>1, <1>2, <1>3

LEMMA StopTypes ==
  ASSUME TypeInv, Stop
  PROVE  TypeOK'
  BY DEF Stop, TypeInv, TypeOK, agentVars, toolVars, storeVars, setterVars

-----------------------------------------------------------------------------
(* Mutual exclusion.                                                        *)

(* A start takes the slot, moves with it, or gives it back.                 *)
LEMMA StartExclusive ==
  ASSUME TypeInv, NEW p \in Prompt, StartStep(p)
  PROVE  SingleRunner'
<1> USE DEF TypeInv, TypeOK, SingleRunner, Holding, Move, Starting, Looping,
            agentVars
<1>1. CASE Begin(p)
  BY <1>1 DEF Begin
<1>2. CASE StartFails(p)
  BY <1>2 DEF StartFails
<1>3. ASSUME \/ \E s \in Session : CreateSession(p, s) \/ LoadSession(p, s)
             \/ RecordActiveTools(p) \/ RestoreActiveTools(p)
             \/ AppendPrompt(p) \/ Publish(p)
      PROVE  SingleRunner'
  <2>1. /\ running' = running
        /\ stage[p] \in Starting
        /\ \E st \in Starting \cup Looping : stage' = [stage EXCEPT ![p] = st]
    BY <1>3 DEF CreateSession, LoadSession, RecordActiveTools,
       RestoreActiveTools, AppendPrompt, Publish
  <2> QED
    BY <2>1
<1> QED
  BY <1>1, <1>2, <1>3 DEF StartStep

(* A loop keeps the slot until Release, which gives it back; the deferred   *)
(* calls that follow have no slot to give.                                  *)
LEMMA LoopExclusive ==
  ASSUME TypeInv, NEW p \in Prompt, LoopStep(p)
  PROVE  SingleRunner'
<1> USE DEF TypeInv, TypeOK, SingleRunner, Holding, Move, Starting, Looping,
            agentVars
<1>1. CASE Release(p)
  BY <1>1 DEF Release
<1>2. CASE \/ TurnEnds(p) \/ AppendTaken(p) \/ FlushEnds(p) \/ FlushFails(p)
           \/ TurnFails(p) \/ FinalFlush(p) \/ FinalFlushEnds(p) \/ Unwind(p)
  <2>1. /\ running' = running
        /\ \E st : /\ stage' = [stage EXCEPT ![p] = st]
                   /\ stage[p] \in Looping <=> st \in Looping
                   /\ stage[p] \notin Starting /\ st \notin Starting
    BY <1>2 DEF TurnEnds, AppendTaken, FlushEnds, FlushFails, TurnFails,
       FinalFlush, FinalFlushEnds, Unwind, TakeQueue
  <2> QED
    BY <2>1
<1> QED
  BY <1>1, <1>2 DEF LoopStep

LEMMA TypeStep == TypeInv /\ [Next]_vars => TypeInv'
<1> SUFFICES ASSUME TypeInv, [Next]_vars
             PROVE  TypeInv'
  OBVIOUS
<1>1. ASSUME NEW p \in Prompt, StartStep(p) \/ LoopStep(p)
      PROVE  TypeInv'
  BY <1>1, StartTypes, LoopTypes, StartExclusive, LoopExclusive DEF TypeInv
<1>2. ASSUME NEW k \in Change,
             SetActiveTools(k) \/ PersistChange(k) \/ PersistChangeFails(k)
      PROVE  TypeInv'
  <2>1. UNCHANGED <<running, stage>>
    BY <1>2 DEF SetActiveTools, PersistChange, PersistChangeFails, agentVars,
       promptVars
  <2>2. SingleRunner'
    BY <2>1 DEF TypeInv, SingleRunner, Holding
  <2> QED
    BY <1>2, <2>2, SetterTypes DEF TypeInv
<1>3. CASE Stop
  <2>1. SingleRunner'
    BY <1>3 DEF Stop, TypeInv, SingleRunner, Holding, agentVars
  <2> QED
    BY <1>3, <2>1, StopTypes DEF TypeInv
<1>4. CASE UNCHANGED vars
  BY <1>4 DEF TypeInv, TypeOK, SingleRunner, Holding, vars, agentVars, toolVars,
     promptVars, storeVars, setterVars
<1> QED
  BY <1>1, <1>2, <1>3, <1>4 DEF Next, Over

(* Every variable keeps its range; in particular Agent.running is 0 or 1,   *)
(* whatever the order in which a failed start stores 0 and a finished loop  *)
(* adds -1 (agent.go:131-139, prompt.go:271).                               *)
THEOREM TypeCorrect == Spec => []TypeOK
<1>1. TypeInv => TypeOK
  BY DEF TypeInv
<1> QED
  BY <1>1, TypeInit, TypeStep, PTL DEF Spec

(* At most one prompt is starting or looping at any time, and the slot is   *)
(* taken exactly while one is (agent.go:129-139).                           *)
THEOREM AtMostOneRunner == Spec => []SingleRunner
<1>1. TypeInv => SingleRunner
  BY DEF TypeInv
<1> QED
  BY <1>1, TypeInit, TypeStep, PTL DEF Spec

-----------------------------------------------------------------------------
(* What a published prompt is.                                              *)

(* A start has a session once it is resolved, and a live context belongs to *)
(* a launched prompt that has not unwound.                                  *)
Bound == {"record", "restore", "append", "hook"}
SessionBound == \A p \in Prompt : stage[p] \in Bound => session[p] \in Session
LiveIsLaunched ==
  \A p \in Prompt : ctx[p] = "live" => stage[p] \in Looping \cup Unwinding

PublishInv ==
  TypeInv /\ SessionBound /\ LiveIsLaunched /\ CurrentIsInFlight

LEMMA PublishInit == Init => PublishInv
  BY TypeInit DEF Init, PublishInv, SessionBound, LiveIsLaunched,
     CurrentIsInFlight, Bound, InFlight, Looping

(* A start changes current only when its own prompt enters the loop; no     *)
(* other prompt is in flight then, for this one holds the slot.             *)
LEMMA PublishStart ==
  ASSUME PublishInv, NEW p \in Prompt, StartStep(p)
  PROVE  SessionBound' /\ LiveIsLaunched' /\ CurrentIsInFlight'
<1> USE DEF PublishInv, TypeInv, TypeOK, SessionBound, LiveIsLaunched,
            CurrentIsInFlight, Bound, InFlight, Looping, Unwinding, Starting,
            Move, agentVars
<1>1. CASE Begin(p)
  BY <1>1 DEF Begin, storeVars
<1>2. CASE \E s \in Session : CreateSession(p, s)
  BY <1>2 DEF CreateSession, storeVars
<1>3. CASE \E s \in Session : LoadSession(p, s)
  BY <1>3 DEF LoadSession, storeVars
<1>4. CASE RecordActiveTools(p) \/ RestoreActiveTools(p) \/ AppendPrompt(p)
  BY <1>4 DEF RecordActiveTools, RestoreActiveTools, AppendPrompt, storeVars
<1>5. CASE Publish(p)
  <2>1. \A q \in Prompt : InFlight(q) => q = p
    BY <1>5 DEF Publish, SingleRunner, Holding
  <2> QED
    BY <1>5, <2>1 DEF Publish, storeVars
<1>6. CASE StartFails(p)
  BY <1>6 DEF StartFails, storeVars
<1> QED
  BY <1>1, <1>2, <1>3, <1>4, <1>5, <1>6 DEF StartStep

(* A loop never touches current, the sessions or a context, but for the     *)
(* context that Unwind cancels.                                             *)
LEMMA PublishLoop ==
  ASSUME PublishInv, NEW p \in Prompt, LoopStep(p)
  PROVE  SessionBound' /\ LiveIsLaunched' /\ CurrentIsInFlight'
<1> USE DEF PublishInv, TypeInv, TypeOK, SessionBound, LiveIsLaunched,
            CurrentIsInFlight, Bound, InFlight, Looping, Unwinding,
            Move, agentVars
<1>1. CASE Unwind(p)
  BY <1>1 DEF Unwind, storeVars
<1>2. CASE \/ TurnEnds(p) \/ AppendTaken(p) \/ FlushEnds(p) \/ FlushFails(p)
           \/ TurnFails(p) \/ Release(p) \/ FinalFlush(p) \/ FinalFlushEnds(p)
  <2>1. /\ UNCHANGED <<current, lastSession, session, ctx>>
        /\ \E st \in Looping \cup Unwinding :
             /\ stage' = [stage EXCEPT ![p] = st]
             /\ st \in Looping => stage[p] \in Looping
    BY <1>2 DEF TurnEnds, AppendTaken, FlushEnds, FlushFails, TurnFails,
       Release, FinalFlush, FinalFlushEnds, TakeQueue, storeVars
  <2> QED
    BY <2>1
<1> QED
  BY <1>1, <1>2 DEF LoopStep

LEMMA PublishStep == PublishInv /\ [Next]_vars => PublishInv'
<1> SUFFICES ASSUME PublishInv, [Next]_vars
             PROVE  PublishInv'
  OBVIOUS
<1> TypeInv'
  BY TypeStep DEF PublishInv
<1>1. ASSUME NEW p \in Prompt, StartStep(p) \/ LoopStep(p)
      PROVE  PublishInv'
  BY <1>1, PublishStart, PublishLoop DEF PublishInv
<1>2. CASE Stop
  BY <1>2 DEF Stop, PublishInv, TypeInv, TypeOK, SessionBound, LiveIsLaunched,
     CurrentIsInFlight, InFlight, agentVars, storeVars
<1>3. CASE UNCHANGED <<current, lastSession, promptVars>>
  BY <1>3 DEF PublishInv, SessionBound, LiveIsLaunched, CurrentIsInFlight,
     InFlight, promptVars
<1> QED
  BY <1>1, <1>2, <1>3 DEF Next, Over, SetActiveTools, PersistChange,
     PersistChangeFails, vars, agentVars, storeVars

(* While a loop runs, Stop, Steer, FollowUp and Context address it, and the *)
(* Agent is bound to its session (agent.go:252-255).                        *)
THEOREM InFlightIsCurrent == Spec => []CurrentIsInFlight
<1>1. PublishInv => CurrentIsInFlight
  BY DEF PublishInv
<1> QED
  BY <1>1, PublishInit, PublishStep, PTL DEF Spec

(* Context hands out a live context only for a prompt that has not unwound  *)
(* (agent.go:258-267, 294-309).                                             *)
THEOREM LiveContextIsUnfinished == Spec => []LiveContextMeansUnfinished
<1>1. ASSUME PublishInv, AgentContext = "live"
      PROVE  stage[current] \notin {"none", "failed", "over"}
  <2>1. current \in Prompt /\ ctx[current] = "live"
    <3>1. current \in 0 .. MaxPrompts
      BY <1>1 DEF PublishInv, TypeInv, TypeOK
    <3>2. current # 0 /\ ctx[current] = "live"
      BY <1>1 DEF AgentContext
    <3> QED
      BY <3>1, <3>2 DEF Prompt
  <2>2. stage[current] \in Looping \cup Unwinding
    BY <1>1, <2>1 DEF PublishInv, LiveIsLaunched
  <2> QED
    BY <2>2 DEF Looping, Unwinding
<1>2. PublishInv => LiveContextMeansUnfinished
  BY <1>1 DEF LiveContextMeansUnfinished
<1> QED
  BY <1>2, PublishInit, PublishStep, PTL DEF Spec

-----------------------------------------------------------------------------
(* Somebody writes what was queued.                                         *)

DrainInv == TypeInv /\ QueueHasADrain

LEMMA DrainInit == Init => DrainInv
  BY TypeInit DEF Init, DrainInv, QueueHasADrain

(* A start that does not fail keeps the slot; one that fails stays behind   *)
(* as the exception the property names.                                     *)
LEMMA DrainStart ==
  ASSUME DrainInv, NEW p \in Prompt, StartStep(p)
  PROVE  QueueHasADrain'
<1>1. /\ queue' = queue
      /\ \E st \in Starting \cup Looping \cup {"failed"} :
           stage' = [stage EXCEPT ![p] = st]
  BY DEF StartStep, Begin, CreateSession, LoadSession, RecordActiveTools,
     RestoreActiveTools, AppendPrompt, Publish, StartFails, Move, Starting,
     Looping, toolVars
<1> QED
  BY <1>1 DEF DrainInv, TypeInv, TypeOK, QueueHasADrain, Holding, Starting,
     Looping

(* The step that takes a drain away, FinalFlush, empties the queue.         *)
LEMMA DrainLoop ==
  ASSUME DrainInv, NEW p \in Prompt, LoopStep(p)
  PROVE  QueueHasADrain'
<1> USE DEF DrainInv, TypeInv, TypeOK, QueueHasADrain, Holding, Starting, Looping
<1>1. CASE TurnEnds(p) \/ FinalFlush(p)
  BY <1>1 DEF TurnEnds, FinalFlush, TakeQueue
<1>2. CASE \/ AppendTaken(p) \/ FlushEnds(p) \/ FlushFails(p) \/ TurnFails(p)
           \/ Release(p) \/ FinalFlushEnds(p) \/ Unwind(p)
  <2>1. /\ queue' = queue
        /\ \E st : /\ stage' = [stage EXCEPT ![p] = st]
                   /\ stage[p] \in Looping => st \in Looping \cup {"released"}
                   /\ stage[p] \notin Starting \cup {"failed"}
                   /\ stage[p] = "released" => st = "released"
    BY <1>2 DEF AppendTaken, FlushEnds, FlushFails, TurnFails, Release,
       FinalFlushEnds, Unwind, Move, toolVars
  <2> QED
    BY <2>1
<1> QED
  BY <1>1, <1>2 DEF LoopStep

(* A change is queued only while the slot is taken, so a prompt holds it.   *)
LEMMA DrainSet ==
  ASSUME DrainInv, NEW k \in Change, SetActiveTools(k)
  PROVE  QueueHasADrain'
<1>1. stage' = stage
  BY DEF SetActiveTools, promptVars
<1>2. CASE running > 0
  <2>1. PICK p \in Prompt : Holding(p)
    BY <1>2 DEF DrainInv, TypeInv, TypeOK, SingleRunner
  <2> QED
    BY <2>1, <1>1 DEF QueueHasADrain, Holding
<1>3. CASE ~ (running > 0)
  <2>1. running = 0
    BY <1>3 DEF DrainInv, TypeInv, TypeOK
  <2>2. queue' = queue
    BY <2>1 DEF SetActiveTools
  <2> QED
    BY <2>2, <1>1 DEF DrainInv, QueueHasADrain, Holding
<1> QED
  BY <1>2, <1>3

LEMMA DrainStep == DrainInv /\ [Next]_vars => DrainInv'
<1> SUFFICES ASSUME DrainInv, [Next]_vars
             PROVE  DrainInv'
  OBVIOUS
<1> TypeInv'
  BY TypeStep DEF DrainInv
<1>1. ASSUME NEW p \in Prompt, StartStep(p) \/ LoopStep(p)
      PROVE  DrainInv'
  BY <1>1, DrainStart, DrainLoop DEF DrainInv
<1>2. ASSUME NEW k \in Change, SetActiveTools(k)
      PROVE  DrainInv'
  BY <1>2, DrainSet DEF DrainInv
<1>3. CASE UNCHANGED <<queue, stage>>
  BY <1>3 DEF DrainInv, QueueHasADrain, Holding
<1> QED
  BY <1>1, <1>2, <1>3 DEF Next, Over, Stop, PersistChange, PersistChangeFails,
     vars, toolVars, promptVars

(* A queued change waits for a prompt that will flush or drain it, or was   *)
(* left by a start that failed (prompt.go:264-270, setters.go:104-107).     *)
THEOREM QueueIsDrained == Spec => []QueueHasADrain
<1>1. DrainInv => QueueHasADrain
  BY DEF DrainInv
<1> QED
  BY <1>1, DrainInit, DrainStep, PTL DEF Spec

-----------------------------------------------------------------------------
(* A change is in one place.                                                *)
(*                                                                         *)
(* Where a change is, as a function of the queue, of what the flushes have  *)
(* taken, of the sessions and of how far its own call is: Places of a state *)
(* and of its successor are two values of it.                               *)

PlacesIn(k, q, t, st, how) ==
  {<<"queue", 0, i>> : i \in Occurrences(k, q)}
    \cup (UNION {{<<"taken", p, i>> : i \in Occurrences(k, t[p])} : p \in Prompt})
    \cup (UNION {{<<"store", s, i>> : i \in Occurrences(Changed(k), st[s])} : s \in Session})
    \cup (IF how = "append" THEN {<<"setter", k, 0>>} ELSE {})

LEMMA PlacesOfState ==
  ASSUME NEW k \in Change
  PROVE  Places(k) = PlacesIn(k, queue, taken, store, setter[k])
  BY DEF Places, PlacesIn

LEMMA PlacesOfNext ==
  ASSUME NEW k \in Change
  PROVE  Places(k)' = PlacesIn(k, queue', taken', store', setter'[k])
  BY DEF Places, PlacesIn

(* The places one by one.                                                   *)
LEMMA PlaceIsOneOf ==
  ASSUME NEW k, NEW q, NEW t, NEW st, NEW how, NEW x
  PROVE  x \in PlacesIn(k, q, t, st, how) <=>
           \/ \E i \in Occurrences(k, q) : x = <<"queue", 0, i>>
           \/ \E p \in Prompt : \E i \in Occurrences(k, t[p]) : x = <<"taken", p, i>>
           \/ \E s \in Session : \E i \in Occurrences(Changed(k), st[s]) :
                x = <<"store", s, i>>
           \/ how = "append" /\ x = <<"setter", k, 0>>
  BY DEF PlacesIn

(* An append adds one occurrence of what it appends and moves nothing else. *)
LEMMA OccurrencesAppend ==
  ASSUME NEW S, NEW s \in Seq(S), NEW e \in S, NEW k
  PROVE  Occurrences(k, Append(s, e)) =
           Occurrences(k, s) \cup (IF e = k THEN {Len(s) + 1} ELSE {})
<1>1. Len(Append(s, e)) = Len(s) + 1 /\ Len(s) \in Nat
  OBVIOUS
<1>2. \A i \in 1 .. Len(s) : Append(s, e)[i] = s[i]
  OBVIOUS
<1>3. Append(s, e)[Len(s) + 1] = e
  OBVIOUS
<1>4. 1 .. Len(s) + 1 = 1 .. Len(s) \cup {Len(s) + 1}
  BY <1>1
<1> QED
  BY <1>1, <1>2, <1>3, <1>4 DEF Occurrences

(* Taking the head off a sequence moves every other occurrence up.          *)
LEMMA OccurrencesTail ==
  ASSUME NEW S, NEW s \in Seq(S), s # <<>>, NEW k
  PROVE  /\ \A i : i \in Occurrences(k, Tail(s)) <=>
                     i \in Nat \ {0} /\ i + 1 \in Occurrences(k, s)
         /\ 1 \in Occurrences(k, s) <=> Head(s) = k
<1>1. /\ Len(Tail(s)) = Len(s) - 1 /\ Len(s) \in Nat /\ Len(s) > 0
      /\ Head(s) = s[1]
      /\ \A i \in 1 .. Len(s) - 1 : Tail(s)[i] = s[i + 1]
  OBVIOUS
<1> QED
  BY <1>1 DEF Occurrences

LEMMA OccurrencesEmpty ==
  ASSUME NEW k
  PROVE  Occurrences(k, <<>>) = {}
  BY DEF Occurrences

(* What the invariant says of one change: a call that has not been accepted *)
(* is nowhere; an accepted one is in one place; a lost one in one session   *)
(* or nowhere.                                                              *)
Accepted(how) == how \in {"queued", "append", "done"}
Placed(k, places, how, gone) ==
  IF Accepted(how) THEN \/ k \notin gone /\ \E x \in places : places = {x}
                        \/ k \in gone /\ \A x \in places : InSession(x) /\ places = {x}
                   ELSE k \notin gone /\ places = {}

(* Places that are moved, each to one place, stay as many as they were; no  *)
(* entry leaves a session.                                                  *)
LEMMA MovedPlaces ==
  ASSUME NEW P, NEW Q, NEW f, NEW k, NEW how, NEW gone,
         Placed(k, P, how, gone), \A y : y \in Q <=> \E x \in P : y = f[x],
         \A x \in P : InSession(x) => f[x] = x
  PROVE  Placed(k, Q, how, gone)
<1>1. CASE P = {}
  <2>1. Q = {}
    BY <1>1
  <2> QED
    BY <1>1, <2>1 DEF Placed
<1>2. ASSUME NEW x \in P, P = {x}
      PROVE  Placed(k, Q, how, gone)
  <2>1. Q = {f[x]}
    BY <1>2
  <2> QED
    BY <1>2, <2>1 DEF Placed
<1> QED
  BY <1>1, <1>2 DEF Placed

(* One flush has something else in hand; one session has got an entry more. *)
HandBecomes(t, u, p, x) == u[p] = x /\ \A r \in Prompt \ {p} : u[r] = t[r]
Gains(st, v, s, e) ==
  v[s] = Append(st[s], e) /\ \A r \in Session \ {s} : v[r] = st[r]

(* A flush takes the queue when it has nothing left to append.              *)
LEMMA TakingMoves ==
  ASSUME NEW k \in Change, NEW q \in Seq(Change), NEW t \in [Prompt -> Seq(Change)],
         NEW st, NEW how, NEW p \in Prompt, t[p] = <<>>,
         NEW gone, NEW u, HandBecomes(t, u, p, q),
         Placed(k, PlacesIn(k, q, t, st, how), how, gone)
  PROVE  Placed(k, PlacesIn(k, <<>>, u, st, how), how, gone)
<1> DEFINE P == PlacesIn(k, q, t, st, how)
           Q == PlacesIn(k, <<>>, u, st, how)
           f == [x \in P |-> IF x[1] = "queue" THEN <<"taken", p, x[3]>> ELSE x]
<1>1. Occurrences(k, <<>>) = {} /\ Occurrences(k, t[p]) = {}
  BY OccurrencesEmpty
<1>2. u[p] = q /\ \A r \in Prompt \ {p} : u[r] = t[r]
  BY DEF HandBecomes
<1>3. ASSUME NEW y \in Q
      PROVE  \E x \in P : y = f[x]
  <2>1. \A x \in P : x[1] # "queue" => f[x] = x
    OBVIOUS
  <2>2. CASE \E i \in Occurrences(k, q) : y = <<"taken", p, i>>
    <3>1. PICK i \in Occurrences(k, q) : y = <<"taken", p, i>>
      BY <2>2
    <3>2. <<"queue", 0, i>> \in P
      BY <3>1, PlaceIsOneOf
    <3>3. f[<<"queue", 0, i>>] = y
      BY <3>1, <3>2
    <3> QED
      BY <3>2, <3>3
  <2>3. CASE \E r \in Prompt \ {p} : \E i \in Occurrences(k, t[r]) : y = <<"taken", r, i>>
    <3>1. y \in P
      BY <2>3, PlaceIsOneOf
    <3> QED
      BY <3>1, <2>1, <2>3
  <2>4. CASE \E s \in Session : \E i \in Occurrences(Changed(k), st[s]) :
               y = <<"store", s, i>>
    <3>1. y \in P
      BY <2>4, PlaceIsOneOf
    <3> QED
      BY <3>1, <2>1, <2>4
  <2>5. CASE how = "append" /\ y = <<"setter", k, 0>>
    <3>1. y \in P
      BY <2>5, PlaceIsOneOf
    <3> QED
      BY <3>1, <2>1, <2>5
  <2> HIDE DEF P, f
  <2> QED
    BY <1>1, <1>2, <2>2, <2>3, <2>4, <2>5, PlaceIsOneOf
<1>4. ASSUME NEW x \in P
      PROVE  f[x] \in Q
  <2>2. CASE \E i \in Occurrences(k, q) : x = <<"queue", 0, i>>
    <3>1. PICK i \in Occurrences(k, q) : x = <<"queue", 0, i>>
      BY <2>2
    <3>2. f[x] = <<"taken", p, i>>
      BY <3>1
    <3>3. i \in Occurrences(k, u[p])
      BY <1>2
    <3> HIDE DEF f, P
    <3> QED
      BY <3>2, <3>3, PlaceIsOneOf
  <2>3. CASE \E r \in Prompt : \E i \in Occurrences(k, t[r]) : x = <<"taken", r, i>>
    <3>0. PICK r \in Prompt : \E i \in Occurrences(k, t[r]) : x = <<"taken", r, i>>
      BY <2>3
    <3>1. PICK i \in Occurrences(k, t[r]) : x = <<"taken", r, i>>
      BY <3>0
    <3>2. r # p /\ f[x] = x
      BY <1>1, <3>1
    <3>3. i \in Occurrences(k, u[r])
      BY <1>2, <3>2
    <3> HIDE DEF f, P
    <3> QED
      BY <3>1, <3>2, <3>3, PlaceIsOneOf
  <2>4. CASE \E s \in Session : \E i \in Occurrences(Changed(k), st[s]) :
               x = <<"store", s, i>>
    <3>1. f[x] = x
      BY <2>4
    <3> QED
      BY <3>1, <2>4, PlaceIsOneOf
  <2>5. CASE how = "append" /\ x = <<"setter", k, 0>>
    <3>1. f[x] = x
      BY <2>5
    <3> QED
      BY <3>1, <2>5, PlaceIsOneOf
  <2> HIDE DEF Q, f
  <2> QED
    BY <2>2, <2>3, <2>4, <2>5, PlaceIsOneOf
<1>5. \A x \in P : InSession(x) => f[x] = x
  BY DEF InSession
<1> HIDE DEF P, Q, f
<1>6. \A y : y \in Q <=> \E x \in P : y = f[x]
  BY <1>3, <1>4
<1>7. Placed(k, P, how, gone)
  BY DEF P
<1>8. Placed(k, Q, how, gone)
  BY <1>5, <1>6, <1>7, MovedPlaces
<1> QED
  BY <1>8 DEF Q

(* An entry that is no change of k, appended to a session, moves no k.      *)
LEMMA OtherEntryMovesNothing ==
  ASSUME NEW k, NEW q, NEW t, NEW st \in [Session -> Seq(Entry)],
         NEW how, NEW e \in Entry, e # Changed(k), NEW u,
         \A r \in Session : u[r] \in {st[r], Append(st[r], e)}
  PROVE  PlacesIn(k, q, t, u, how) = PlacesIn(k, q, t, st, how)
<1>1. ASSUME NEW r \in Session
      PROVE  Occurrences(Changed(k), u[r]) = Occurrences(Changed(k), st[r])
  <2>1. Occurrences(Changed(k), Append(st[r], e)) =
          Occurrences(Changed(k), st[r])
            \cup (IF e = Changed(k) THEN {Len(st[r]) + 1} ELSE {})
    BY OccurrencesAppend
  <2> QED
    BY <2>1
<1>2. \A x : x \in PlacesIn(k, q, t, u, how) <=> x \in PlacesIn(k, q, t, st, how)
  BY <1>1, PlaceIsOneOf
<1> QED
  BY <1>2 DEF PlacesIn

(* The first of the entries a flush has taken goes to the end of a session. *)
LEMMA AppendingMoves ==
  ASSUME NEW k \in Change, NEW q, NEW t \in [Prompt -> Seq(Change)],
         NEW st \in [Session -> Seq(Entry)], NEW how, NEW p \in Prompt,
         t[p] # <<>>, NEW s \in Session, NEW gone,
         NEW u, HandBecomes(t, u, p, Tail(t[p])),
         NEW v, Gains(st, v, s, Changed(Head(t[p]))),
         Placed(k, PlacesIn(k, q, t, st, how), how, gone)
  PROVE  Placed(k, PlacesIn(k, q, u, v, how), how, gone)
<1> DEFINE e == Changed(Head(t[p]))
           P == PlacesIn(k, q, t, st, how)
           Q == PlacesIn(k, q, u, v, how)
<1>1. /\ u[p] = Tail(t[p]) /\ \A r \in Prompt \ {p} : u[r] = t[r]
      /\ v[s] = Append(st[s], e) /\ \A r \in Session \ {s} : v[r] = st[r]
      /\ t[p] \in Seq(Change) /\ st[s] \in Seq(Entry)
  BY DEF HandBecomes, Gains
<1>2. Head(t[p]) \in Change /\ e \in Entry
  BY <1>1 DEF Changed, Entry, Change, Tools
<1>3. /\ \A i : i \in Occurrences(k, u[p]) <=>
                 i \in Nat \ {0} /\ i + 1 \in Occurrences(k, t[p])
      /\ 1 \in Occurrences(k, t[p]) <=> Head(t[p]) = k
  BY <1>1, OccurrencesTail
<1>4. CASE Head(t[p]) = k
  <2>1. Occurrences(Changed(k), v[s]) = Occurrences(Changed(k), st[s]) \cup {Len(st[s]) + 1}
    BY <1>1, <1>2, <1>4, OccurrencesAppend
  <2>2. <<"taken", p, 1>> \in P
    BY <1>3, <1>4, PlaceIsOneOf
  <2>3. P = {<<"taken", p, 1>>} /\ Accepted(how) /\ k \notin gone
    <3>1. ~InSession(<<"taken", p, 1>>)
      BY DEF InSession
    <3> HIDE DEF P
    <3>2. Placed(k, P, how, gone)
      BY DEF P
    <3> QED
      BY <2>2, <3>1, <3>2 DEF Placed
  <2> DEFINE new == <<"store", s, Len(st[s]) + 1>>
  <2>4. new \in Q
    <3>1. Len(st[s]) + 1 \in Occurrences(Changed(k), v[s])
      BY <2>1
    <3> QED
      BY <3>1, PlaceIsOneOf
  <2>5. ASSUME NEW y \in Q
        PROVE  y = new
    <3>1. ASSUME NEW i \in Occurrences(k, q), y = <<"queue", 0, i>>
          PROVE  FALSE
      <4>1. y \in P
        BY <3>1, PlaceIsOneOf
      <4> QED
        BY <4>1, <3>1, <2>3
    <3>2. ASSUME NEW r \in Prompt, NEW i \in Occurrences(k, u[r]), y = <<"taken", r, i>>
          PROVE  FALSE
      <4>1. CASE r = p
        <5>1. i \in Nat \ {0} /\ i + 1 \in Occurrences(k, t[p])
          BY <4>1, <1>3
        <5>2. <<"taken", p, i + 1>> \in P
          BY <5>1, PlaceIsOneOf
        <5>3. <<"taken", p, i + 1>> = <<"taken", p, 1>>
          BY <5>2, <2>3
        <5> QED
          BY <5>1, <5>3
      <4>2. CASE r # p
        <5>1. i \in Occurrences(k, t[r])
          BY <4>2, <1>1
        <5>2. <<"taken", r, i>> \in P
          BY <5>1, PlaceIsOneOf
        <5> QED
          BY <5>2, <2>3, <4>2
      <4> QED
        BY <4>1, <4>2
    <3>3. ASSUME NEW r \in Session, NEW i \in Occurrences(Changed(k), st[r]),
                 y = <<"store", r, i>>
          PROVE  FALSE
      <4>1. y \in P
        BY <3>3, PlaceIsOneOf
      <4> QED
        BY <4>1, <3>3, <2>3
    <3>4. ASSUME NEW r \in Session, NEW i \in Occurrences(Changed(k), v[r]),
                 y = <<"store", r, i>>, i \notin Occurrences(Changed(k), st[r])
          PROVE  y = new
      <4>1. r = s
        BY <3>4, <1>1
      <4>2. i = Len(st[s]) + 1
        BY <3>4, <4>1, <2>1
      <4> QED
        BY <3>4, <4>1, <4>2
    <3>5. ASSUME how = "append", y = <<"setter", k, 0>>
          PROVE  FALSE
      <4>1. y \in P
        BY <3>5, PlaceIsOneOf
      <4> QED
        BY <4>1, <3>5, <2>3
    <3>6. \/ \E i \in Occurrences(k, q) : y = <<"queue", 0, i>>
          \/ \E r \in Prompt : \E i \in Occurrences(k, u[r]) : y = <<"taken", r, i>>
          \/ \E r \in Session : \E i \in Occurrences(Changed(k), v[r]) :
               y = <<"store", r, i>>
          \/ how = "append" /\ y = <<"setter", k, 0>>
      <4> QED
        BY PlaceIsOneOf
    <3> HIDE DEF new
    <3> QED
      BY <3>1, <3>2, <3>3, <3>4, <3>5, <3>6
  <2> HIDE DEF P, Q, new
  <2>6. Q = {new}
    BY <2>4, <2>5
  <2>7. Placed(k, Q, how, gone)
    BY <2>3, <2>6 DEF Placed
  <2> QED
    BY <2>7 DEF Q
<1>5. CASE Head(t[p]) # k
  <2> DEFINE f == [x \in P |-> IF x[1] = "taken" /\ x[2] = p
                               THEN <<"taken", p, x[3] - 1>> ELSE x]
  <2>1. \A r \in Session : Occurrences(Changed(k), v[r]) = Occurrences(Changed(k), st[r])
    <3>1. e # Changed(k)
      BY <1>5 DEF Changed
    <3>2. Occurrences(Changed(k), v[s]) = Occurrences(Changed(k), st[s])
            \cup (IF e = Changed(k) THEN {Len(st[s]) + 1} ELSE {})
      BY <1>1, <1>2, OccurrencesAppend
    <3> QED
      BY <3>1, <3>2, <1>1
  <2>2. /\ \A i : i \in Occurrences(k, u[p]) => /\ i \in Nat
                                                /\ i + 1 \in Occurrences(k, t[p])
        /\ \A i \in Occurrences(k, t[p]) : i \in Nat \ {0, 1} /\ i - 1 \in Occurrences(k, u[p])
    <3>1. \A i \in Occurrences(k, t[p]) : i \in Nat \ {0, 1}
      BY <1>3, <1>5 DEF Occurrences
    <3>2. ASSUME NEW i \in Occurrences(k, t[p])
          PROVE  i - 1 \in Occurrences(k, u[p])
      <4>1. i - 1 \in Nat \ {0} /\ (i - 1) + 1 = i
        BY <3>1
      <4> QED
        BY <4>1, <1>3
    <3> QED
      BY <3>1, <3>2, <1>3
  <2>3. \A x \in P : x[1] # "taken" \/ x[2] # p => f[x] = x
    OBVIOUS
  <2>4. ASSUME NEW y \in Q
        PROVE  \E x \in P : y = f[x]
    <3>1. ASSUME NEW i \in Occurrences(k, u[p]), y = <<"taken", p, i>>
          PROVE  \E x \in P : y = f[x]
      <4>1. i \in Nat /\ i + 1 \in Occurrences(k, t[p])
        BY <3>1, <2>2
      <4>2. <<"taken", p, i + 1>> \in P
        BY <4>1, PlaceIsOneOf
      <4>3. (i + 1) - 1 = i
        BY <4>1
      <4>4. f[<<"taken", p, i + 1>>] = <<"taken", p, i>>
        <5> HIDE DEF P
        <5> QED
          BY <4>2, <4>3
      <4> QED
        BY <4>2, <4>4, <3>1
    <3>2. CASE \E r \in Prompt \ {p} : \E i \in Occurrences(k, u[r]) : y = <<"taken", r, i>>
      <4>1. y \in P
        BY <3>2, <1>1, PlaceIsOneOf
      <4> QED
        BY <4>1, <3>2, <2>3
    <3>3. CASE \/ \E i \in Occurrences(k, q) : y = <<"queue", 0, i>>
               \/ \E r \in Session : \E i \in Occurrences(Changed(k), v[r]) :
                    y = <<"store", r, i>>
               \/ how = "append" /\ y = <<"setter", k, 0>>
      <4>1. y \in P
        BY <3>3, <2>1, PlaceIsOneOf
      <4> QED
        BY <4>1, <3>3, <2>3
    <3>4. \/ \E i \in Occurrences(k, q) : y = <<"queue", 0, i>>
          \/ \E r \in Prompt : \E i \in Occurrences(k, u[r]) : y = <<"taken", r, i>>
          \/ \E r \in Session : \E i \in Occurrences(Changed(k), v[r]) :
               y = <<"store", r, i>>
          \/ how = "append" /\ y = <<"setter", k, 0>>
      BY PlaceIsOneOf
    <3> HIDE DEF P, Q, f
    <3> QED
      BY <3>1, <3>2, <3>3, <3>4
  <2>5. ASSUME NEW x \in P
        PROVE  f[x] \in Q
    <3>1. ASSUME NEW i \in Occurrences(k, t[p]), x = <<"taken", p, i>>
          PROVE  f[x] \in Q
      <4>1. f[x] = <<"taken", p, i - 1>> /\ i - 1 \in Occurrences(k, u[p])
        BY <3>1, <2>2
      <4>2. <<"taken", p, i - 1>> \in Q
        BY <4>1, PlaceIsOneOf
      <4> HIDE DEF f, Q
      <4> QED
        BY <4>1, <4>2
    <3>2. ASSUME NEW r \in Prompt \ {p}, NEW i \in Occurrences(k, t[r]), x = <<"taken", r, i>>
          PROVE  f[x] \in Q
      <4>1. f[x] = x /\ i \in Occurrences(k, u[r])
        BY <3>2, <1>1
      <4> HIDE DEF f
      <4> QED
        BY <4>1, <3>2, PlaceIsOneOf
    <3>3. CASE \/ \E i \in Occurrences(k, q) : x = <<"queue", 0, i>>
               \/ \E r \in Session : \E i \in Occurrences(Changed(k), st[r]) :
                    x = <<"store", r, i>>
               \/ how = "append" /\ x = <<"setter", k, 0>>
      <4>1. f[x] = x
        BY <3>3
      <4>2. x \in Q
        BY <3>3, <2>1, PlaceIsOneOf
      <4> QED
        BY <4>1, <4>2
    <3> HIDE DEF Q, f
    <3> QED
      BY <3>1, <3>2, <3>3, PlaceIsOneOf
  <2>6. \A x \in P : InSession(x) => f[x] = x
    BY <2>3 DEF InSession
  <2> HIDE DEF P, Q, f, e
  <2>7. \A y : y \in Q <=> \E x \in P : y = f[x]
    BY <2>4, <2>5
  <2>8. Placed(k, P, how, gone)
    BY DEF P
  <2>9. Placed(k, Q, how, gone)
    BY <2>6, <2>7, <2>8, MovedPlaces
  <2> QED
    BY <2>9 DEF Q
<1> QED
  BY <1>4, <1>5

(* A change that was nowhere is queued.                                     *)
LEMMA QueueingPlaces ==
  ASSUME NEW k \in Change, NEW q \in Seq(Change), NEW t, NEW st,
         NEW how, how # "append", PlacesIn(k, q, t, st, how) = {}
  PROVE  PlacesIn(k, Append(q, k), t, st, how) = {<<"queue", 0, Len(q) + 1>>}
<1>1. Occurrences(k, Append(q, k)) = Occurrences(k, q) \cup {Len(q) + 1}
  <2>1. Occurrences(k, Append(q, k)) =
          Occurrences(k, q) \cup (IF k = k THEN {Len(q) + 1} ELSE {})
    BY OccurrencesAppend
  <2> QED
    BY <2>1
<1>2. \A x : x \notin PlacesIn(k, q, t, st, how)
  OBVIOUS
<1>3. ASSUME NEW i \in Occurrences(k, q)
      PROVE  FALSE
  <2>1. <<"queue", 0, i>> \in PlacesIn(k, q, t, st, how)
    BY PlaceIsOneOf
  <2> QED
    BY <2>1
<1>4. \A x : x \in PlacesIn(k, Append(q, k), t, st, how) <=> x = <<"queue", 0, Len(q) + 1>>
  BY <1>1, <1>2, <1>3, PlaceIsOneOf
<1> QED
  BY <1>4

(* Another change is queued: k stays where it is.                           *)
LEMMA OtherQueueingMovesNothing ==
  ASSUME NEW k, NEW q \in Seq(Change), NEW t, NEW st, NEW how,
         NEW j \in Change, j # k
  PROVE  PlacesIn(k, Append(q, j), t, st, how) = PlacesIn(k, q, t, st, how)
<1>1. Occurrences(k, Append(q, j)) = Occurrences(k, q)
  <2>1. Occurrences(k, Append(q, j)) =
          Occurrences(k, q) \cup (IF j = k THEN {Len(q) + 1} ELSE {})
    BY OccurrencesAppend
  <2> QED
    BY <2>1
<1> QED
  BY <1>1 DEF PlacesIn

(* The caller of an accepted change is the only place it is in.             *)
LEMMA OwnPlaces ==
  ASSUME NEW k \in Change, NEW q, NEW t, NEW st, NEW other, other # "append"
  PROVE  /\ PlacesIn(k, q, t, st, "append")
              = PlacesIn(k, q, t, st, other) \cup {<<"setter", k, 0>>}
         /\ <<"setter", k, 0>> \notin PlacesIn(k, q, t, st, other)
<1>1. \A x : x \in PlacesIn(k, q, t, st, "append")
               <=> x \in PlacesIn(k, q, t, st, other) \/ x = <<"setter", k, 0>>
  BY DEF PlacesIn
<1>2. <<"setter", k, 0>> \notin PlacesIn(k, q, t, st, other)
  BY PlaceIsOneOf
<1> QED
  BY <1>1, <1>2

(* It appends the change: it is at the end of a session now.                *)
Nowhere(k, q, t, st, how) == PlacesIn(k, q, t, st, how) = {}
Recorded(k, q, t, st, how) ==
  \E s, i : PlacesIn(k, q, t, st, how) = {<<"store", s, i>>}

LEMMA PersistingPlaces ==
  ASSUME NEW k \in Change, NEW q, NEW t, NEW st \in [Session -> Seq(Entry)],
         NEW s \in Session, NEW how, how # "append", Nowhere(k, q, t, st, how),
         NEW u, Gains(st, u, s, Changed(k))
  PROVE  Recorded(k, q, t, u, how)
<1>1. Occurrences(Changed(k), u[s]) = Occurrences(Changed(k), st[s]) \cup {Len(st[s]) + 1}
  <2>1. Changed(k) \in Entry
    BY DEF Changed, Entry, Change, Tools
  <2>2. Occurrences(Changed(k), Append(st[s], Changed(k))) =
          Occurrences(Changed(k), st[s])
            \cup (IF Changed(k) = Changed(k) THEN {Len(st[s]) + 1} ELSE {})
    BY <2>1, OccurrencesAppend
  <2> QED
    BY <2>2 DEF Gains
<1>2. \A r \in Session \ {s} : u[r] = st[r]
  BY DEF Gains
<1>3. \A x : x \notin PlacesIn(k, q, t, st, how)
  BY DEF Nowhere
<1>4. ASSUME NEW r \in Session, NEW i \in Occurrences(Changed(k), st[r])
      PROVE  FALSE
  <2>1. <<"store", r, i>> \in PlacesIn(k, q, t, st, how)
    BY DEF PlacesIn
  <2> QED
    BY <2>1, <1>3
<1>5. \A x : x \in PlacesIn(k, q, t, u, how) <=> x = <<"store", s, Len(st[s]) + 1>>
  <2>1. \A r \in Session : Occurrences(Changed(k), u[r])
                             = IF r = s THEN {Len(st[s]) + 1} ELSE {}
    BY <1>1, <1>2, <1>4
  <2>2. Len(st[s]) + 1 \in Occurrences(Changed(k), u[s])
    BY <2>1
  <2>3. <<"store", s, Len(st[s]) + 1>> \in PlacesIn(k, q, t, u, how)
    BY <2>2, PlaceIsOneOf
  <2>4. ASSUME NEW x \in PlacesIn(k, q, t, u, how)
        PROVE  x = <<"store", s, Len(st[s]) + 1>>
    <3>1. ASSUME NEW r \in Session, NEW i \in Occurrences(Changed(k), u[r]),
                 x = <<"store", r, i>>
          PROVE  x = <<"store", s, Len(st[s]) + 1>>
      BY <2>1, <3>1
    <3>2. CASE \/ \E i \in Occurrences(k, q) : x = <<"queue", 0, i>>
               \/ \E p \in Prompt : \E i \in Occurrences(k, t[p]) : x = <<"taken", p, i>>
      <4>1. x \in PlacesIn(k, q, t, st, how)
        BY <3>2 DEF PlacesIn
      <4> QED
        BY <4>1, <1>3
    <3> QED
      BY <3>1, <3>2, PlaceIsOneOf
  <2> QED
    BY <2>3, <2>4
<1>6. PlacesIn(k, q, t, u, how) = {<<"store", s, Len(st[s]) + 1>>}
  BY <1>5
<1> QED
  BY <1>6 DEF Recorded

(* A flush that fails drops what it has taken.                              *)
LEMMA DroppingPlaces ==
  ASSUME NEW k \in Change, NEW q, NEW t \in [Prompt -> Seq(Change)], NEW st,
         NEW how, NEW p \in Prompt, NEW gone,
         NEW u, HandBecomes(t, u, p, <<>>),
         NEW now, k \in now <=> k \in gone \/ \E i \in 1 .. Len(t[p]) : t[p][i] = k,
         Placed(k, PlacesIn(k, q, t, st, how), how, gone)
  PROVE  /\ Placed(k, PlacesIn(k, q, u, st, how), how, now)
         /\ (\E i \in 1 .. Len(t[p]) : t[p][i] = k)
              => Accepted(how) /\ Nowhere(k, q, u, st, how)
<1> DEFINE P == PlacesIn(k, q, t, st, how)
           Q == PlacesIn(k, q, u, st, how)
<1>1. /\ Occurrences(k, u[p]) = {} /\ \A r \in Prompt \ {p} : u[r] = t[r]
  BY OccurrencesEmpty DEF HandBecomes
<1>2. Q \subseteq P
  <2> SUFFICES ASSUME NEW x \in Q PROVE x \in P
    OBVIOUS
  <2>1. \A r \in Prompt : Occurrences(k, u[r]) \subseteq Occurrences(k, t[r])
    BY <1>1
  <2> QED
    BY <2>1, PlaceIsOneOf
<1>3. CASE \E i \in 1 .. Len(t[p]) : t[p][i] = k
  <2>1. PICK i \in Occurrences(k, t[p]) : TRUE
    BY <1>3 DEF Occurrences
  <2>2. <<"taken", p, i>> \in P
    BY PlaceIsOneOf
  <2>3. <<"taken", p, i>> \notin Q
    <3>1. ASSUME NEW r \in Prompt, NEW j \in Occurrences(k, u[r]),
                 <<"taken", p, i>> = <<"taken", r, j>>
          PROVE  FALSE
      <4>1. r = p
        BY <3>1
      <4> QED
        BY <4>1, <1>1
    <3> QED
      BY <3>1, PlaceIsOneOf
  <2> HIDE DEF P, Q
  <2>4. Placed(k, P, how, gone)
    BY DEF P
  <2>5. Q = {} /\ Accepted(how)
    <3>1. ~InSession(<<"taken", p, i>>)
      BY DEF InSession
    <3> QED
      BY <2>2, <2>3, <2>4, <3>1, <1>2 DEF Placed
  <2>6. Placed(k, Q, how, now)
    BY <2>5, <1>3 DEF Placed
  <2> QED
    BY <2>5, <2>6 DEF Q, Nowhere
<1>4. CASE ~ \E i \in 1 .. Len(t[p]) : t[p][i] = k
  <2>1. Occurrences(k, t[p]) = {}
    BY <1>4 DEF Occurrences
  <2>2. \A r \in Prompt : Occurrences(k, u[r]) = Occurrences(k, t[r])
    BY <2>1, <1>1
  <2>3. Q = P
    <3>1. \A x : x \in Q <=> x \in P
      BY <2>2, PlaceIsOneOf
    <3> QED
      BY <3>1
  <2> HIDE DEF P, Q
  <2>4. Placed(k, Q, how, gone)
    BY <2>3 DEF P
  <2>5. k \in now <=> k \in gone
    BY <1>4
  <2>6. Placed(k, Q, how, now)
    BY <2>4, <2>5 DEF Placed
  <2> QED
    BY <1>4, <2>6 DEF Q
<1> QED
  BY <1>3, <1>4

(* What the steps need to be moves from one place to one place: a flush has *)
(* entries in hand only while it appends them, and whoever appends has a    *)
(* session to append to.                                                    *)
TakenInFlush ==
  \A p \in Prompt : taken[p] # <<>> => stage[p] \in {"flushing", "draining"}
LaunchedHasSession ==
  \A p \in Prompt : stage[p] \in Looping \cup Unwinding => session[p] \in Session
TargetIsBound ==
  \A k \in Change : setter[k] = "append" => target[k] \in Session

FlushInv == PublishInv /\ TakenInFlush /\ LaunchedHasSession /\ TargetIsBound

LEMMA FlushInit == Init => FlushInv
  BY PublishInit DEF Init, FlushInv, TakenInFlush, LaunchedHasSession,
     TargetIsBound, Looping, Unwinding

(* A start takes nothing, and it has a session once it is resolved.         *)
LEMMA FlushStart ==
  ASSUME FlushInv, NEW p \in Prompt, StartStep(p)
  PROVE  TakenInFlush' /\ LaunchedHasSession' /\ TargetIsBound'
<1> USE DEF FlushInv, PublishInv, TypeInv, TypeOK, Move, Starting
<1>1. /\ UNCHANGED <<taken, setter, target>>
      /\ stage[p] \in Starting \cup {"none"}
      /\ \E st \in Starting \cup {"loop", "failed"} :
           /\ stage' = [stage EXCEPT ![p] = st]
           /\ st = "loop" => stage[p] = "hook" /\ session' = session
      /\ \A q \in Prompt \ {p} : session'[q] = session[q]
  BY DEF StartStep, Begin, CreateSession, LoadSession, RecordActiveTools,
     RestoreActiveTools, AppendPrompt, Publish, StartFails, setterVars
<1>2. TakenInFlush'
  BY <1>1 DEF TakenInFlush
<1>3. LaunchedHasSession'
  <2>1. \A q \in Prompt \ {p} : stage'[q] = stage[q]
    BY <1>1
  <2>2. stage'[p] \in Looping \cup Unwinding => session'[p] \in Session
    <3>1. stage'[p] \in Looping \cup Unwinding => stage[p] = "hook" /\ session' = session
      BY <1>1 DEF Looping, Unwinding
    <3>2. stage[p] = "hook" => session[p] \in Session
      BY DEF SessionBound, Bound
    <3> QED
      BY <3>1, <3>2
  <2> QED
    BY <2>1, <2>2, <1>1 DEF LaunchedHasSession
<1>4. TargetIsBound'
  BY <1>1 DEF TargetIsBound
<1> QED
  BY <1>2, <1>3, <1>4

(* A flush leaves its stage with nothing in hand.                           *)
LEMMA FlushLoop ==
  ASSUME FlushInv, NEW p \in Prompt, LoopStep(p)
  PROVE  TakenInFlush' /\ LaunchedHasSession' /\ TargetIsBound'
<1> USE DEF FlushInv, PublishInv, TypeInv, TypeOK, Move
<1>1. /\ UNCHANGED <<session, setter, target>>
      /\ stage[p] \in Looping \cup Unwinding
      /\ \A q \in Prompt \ {p} : stage'[q] = stage[q] /\ taken'[q] = taken[q]
  BY DEF LoopStep, TurnEnds, AppendTaken, FlushEnds, FlushFails, TurnFails, Release,
     FinalFlush, FinalFlushEnds, Unwind, TakeQueue, Looping, Unwinding, setterVars
<1>2. taken'[p] # <<>> => stage'[p] \in {"flushing", "draining"}
  <2> USE DEF TakenInFlush
  <2>1. CASE TurnEnds(p) \/ FinalFlush(p)
    BY <2>1 DEF TurnEnds, FinalFlush, TakeQueue
  <2>2. CASE AppendTaken(p)
    BY <2>2 DEF AppendTaken
  <2>3. CASE FlushFails(p)
    BY <2>3 DEF FlushFails
  <2>4. CASE FlushEnds(p) \/ FinalFlushEnds(p)
    BY <2>4 DEF FlushEnds, FinalFlushEnds
  <2>5. CASE TurnFails(p) \/ Release(p) \/ Unwind(p)
    BY <2>5 DEF TurnFails, Release, Unwind
  <2> QED
    BY <2>1, <2>2, <2>3, <2>4, <2>5 DEF LoopStep
<1>3. TakenInFlush'
  BY <1>1, <1>2 DEF TakenInFlush
<1>4. LaunchedHasSession'
  BY <1>1 DEF LaunchedHasSession
<1>5. TargetIsBound'
  BY <1>1 DEF TargetIsBound
<1> QED
  BY <1>3, <1>4, <1>5

LEMMA FlushStep == FlushInv /\ [Next]_vars => FlushInv'
<1> SUFFICES ASSUME FlushInv, [Next]_vars
             PROVE  FlushInv'
  OBVIOUS
<1> PublishInv'
  BY PublishStep DEF FlushInv
<1>1. ASSUME NEW p \in Prompt, StartStep(p) \/ LoopStep(p)
      PROVE  FlushInv'
  BY <1>1, FlushStart, FlushLoop DEF FlushInv
<1>2. ASSUME NEW k \in Change, SetActiveTools(k)
      PROVE  FlushInv'
  <2>1. TakenInFlush' /\ LaunchedHasSession'
    BY <1>2 DEF SetActiveTools, FlushInv, TakenInFlush, LaunchedHasSession, promptVars
  <2>2. /\ setter'[k] = "append" => lastSession # NoSession
        /\ target'[k] = lastSession
        /\ \A j \in Change \ {k} : setter'[j] = setter[j] /\ target'[j] = target[j]
    BY <1>2 DEF SetActiveTools, FlushInv, PublishInv, TypeInv, TypeOK
  <2>3. lastSession \in Session \cup {NoSession}
    BY DEF FlushInv, PublishInv, TypeInv, TypeOK
  <2>4. TargetIsBound'
    BY <2>2, <2>3 DEF FlushInv, TargetIsBound
  <2> QED
    BY <2>1, <2>4 DEF FlushInv
<1>3. ASSUME NEW k \in Change, PersistChange(k) \/ PersistChangeFails(k)
      PROVE  FlushInv'
  <2>1. TakenInFlush' /\ LaunchedHasSession'
    BY <1>3 DEF PersistChange, PersistChangeFails, FlushInv, TakenInFlush,
       LaunchedHasSession, promptVars
  <2>2. /\ setter'[k] = "done" /\ target' = target
        /\ \A j \in Change \ {k} : setter'[j] = setter[j]
    BY <1>3 DEF PersistChange, PersistChangeFails, FlushInv, PublishInv, TypeInv, TypeOK
  <2>3. TargetIsBound'
    BY <2>2 DEF FlushInv, TargetIsBound
  <2> QED
    BY <2>1, <2>3 DEF FlushInv
<1>4. CASE UNCHANGED <<taken, stage, session, setter, target>>
  BY <1>4 DEF FlushInv, TakenInFlush, LaunchedHasSession, TargetIsBound
<1> QED
  BY <1>1, <1>2, <1>3, <1>4 DEF Next, Over, Stop, vars, promptVars, setterVars

AllPlaced == \A k \in Change : Placed(k, Places(k), setter[k], lost)
PlacedInv == FlushInv /\ AllPlaced

LEMMA PlacedInit == Init => PlacedInv
<1> SUFFICES ASSUME Init, NEW k \in Change
             PROVE  Placed(k, Places(k), setter[k], lost)
  BY FlushInit DEF PlacedInv, AllPlaced
<1>1. setter[k] = "idle" /\ lost = {}
  BY DEF Init
<1>2. /\ queue = <<>> /\ \A p \in Prompt : taken[p] = <<>>
      /\ \A s \in Session : store[s] = <<>>
  BY DEF Init
<1>3. \A x : x \notin PlacesIn(k, queue, taken, store, setter[k])
  BY <1>1, <1>2, OccurrencesEmpty DEF PlacesIn
<1>4. Places(k) = {}
  BY <1>3, PlacesOfState
<1> QED
  BY <1>1, <1>4 DEF Placed, Accepted

(* What moves nothing and changes no verdict on k leaves it placed.         *)
LEMMA StillPlaced ==
  ASSUME AllPlaced, NEW k \in Change, setter'[k] = setter[k],
         k \in lost' <=> k \in lost,
         PlacesIn(k, queue', taken', store', setter[k])
           = PlacesIn(k, queue, taken, store, setter[k])
  PROVE  Placed(k, Places(k)', setter'[k], lost')
<1>1. Places(k)' = Places(k)
  BY PlacesOfState, PlacesOfNext
<1> QED
  BY <1>1 DEF AllPlaced, Placed

(* The only entry a start writes is the active set of a new session.        *)
LEMMA PlacedStart ==
  ASSUME PlacedInv, NEW p \in Prompt, StartStep(p), NEW k \in Change
  PROVE  Placed(k, Places(k)', setter'[k], lost')
<1>1. UNCHANGED <<queue, taken, setter, lost>>
  BY DEF StartStep, Begin, CreateSession, LoadSession, RecordActiveTools,
     RestoreActiveTools, AppendPrompt, Publish, StartFails, toolVars, storeVars, setterVars
<1>2. CASE UNCHANGED store
  BY <1>1, <1>2, StillPlaced DEF PlacedInv
<1>3. CASE ~UNCHANGED store
  <2>1. AppendEntry(session[p], Bind(read[p]))
    BY <1>3 DEF StartStep, Begin, CreateSession, LoadSession, RecordActiveTools,
       RestoreActiveTools, AppendPrompt, Publish, StartFails, storeVars
  <2>2. Bind(read[p]) \in Entry /\ Bind(read[p]) # Changed(k)
    BY DEF Bind, Changed, Entry, PlacedInv, FlushInv, PublishInv, TypeInv, TypeOK
  <2>3. store \in [Session -> Seq(Entry)]
    BY DEF PlacedInv, FlushInv, PublishInv, TypeInv, TypeOK
  <2>4. \A r \in Session : store'[r] \in {store[r], Append(store[r], Bind(read[p]))}
    BY <2>1, <2>3 DEF AppendEntry
  <2>5. PlacesIn(k, queue, taken, store', setter[k])
          = PlacesIn(k, queue, taken, store, setter[k])
    BY <2>2, <2>3, <2>4, OtherEntryMovesNothing
  <2> QED
    BY <1>1, <2>5, StillPlaced DEF PlacedInv
<1> QED
  BY <1>2, <1>3

(* A flush moves what is queued into its hand and from there, one by one,   *)
(* into the session of its prompt; failing, it drops what it holds, and the *)
(* first of that may be in the session.                                     *)
LEMMA PlacedLoop ==
  ASSUME PlacedInv, NEW p \in Prompt, LoopStep(p), NEW k \in Change
  PROVE  Placed(k, Places(k)', setter'[k], lost')
<1>1. /\ setter' = setter /\ p \in Prompt
      /\ queue \in Seq(Change) /\ taken \in [Prompt -> Seq(Change)]
      /\ store \in [Session -> Seq(Entry)]
  BY DEF PlacedInv, FlushInv, PublishInv, TypeInv, TypeOK, LoopStep, TurnEnds,
     AppendTaken, FlushEnds, FlushFails, TurnFails, Release, FinalFlush,
     FinalFlushEnds, Unwind, TakeQueue, setterVars
<1>2. Placed(k, PlacesIn(k, queue, taken, store, setter[k]), setter[k], lost)
  BY PlacesOfState DEF PlacedInv, AllPlaced
<1>3. Places(k)' = PlacesIn(k, queue', taken', store', setter[k])
  BY <1>1, PlacesOfNext
<1>4. CASE TurnEnds(p) \/ FinalFlush(p)
  <2>1. /\ taken' = [taken EXCEPT ![p] = queue] /\ queue' = <<>>
        /\ UNCHANGED <<store, lost>>
    BY <1>4 DEF TurnEnds, FinalFlush, TakeQueue, storeVars
  <2>2. taken[p] = <<>>
    BY <1>4 DEF TurnEnds, FinalFlush, TakeQueue, Move, PlacedInv, FlushInv, TakenInFlush
  <2>3. HandBecomes(taken, taken', p, queue)
    BY <1>1, <2>1 DEF HandBecomes
  <2>4. Placed(k, PlacesIn(k, <<>>, taken', store, setter[k]), setter[k], lost)
    BY <1>1, <1>2, <2>2, <2>3, TakingMoves
  <2> QED
    BY <1>1, <1>3, <2>1, <2>4
<1>5. CASE AppendTaken(p)
  <2>1. /\ taken[p] # <<>> /\ taken' = [taken EXCEPT ![p] = Tail(@)]
        /\ store' = [store EXCEPT ![session[p]] = Append(@, Changed(Head(taken[p])))]
        /\ UNCHANGED <<queue, lost>>
    BY <1>5 DEF AppendTaken, AppendEntry, toolVars
  <2>2. session[p] \in Session
    BY <1>5 DEF AppendTaken, PlacedInv, FlushInv, LaunchedHasSession, Looping, Unwinding
  <2>3. /\ HandBecomes(taken, taken', p, Tail(taken[p]))
        /\ Gains(store, store', session[p], Changed(Head(taken[p])))
        /\ taken[p] # <<>>
    BY <1>1, <2>1, <2>2 DEF HandBecomes, Gains
  <2>4. Placed(k, PlacesIn(k, queue, taken', store', setter[k]), setter[k], lost)
    BY <1>1, <1>2, <2>2, <2>3, AppendingMoves
  <2> QED
    BY <1>1, <1>3, <2>1, <2>4
<1>6. CASE FlushFails(p)
  <2>1. /\ lost' = lost \cup {taken[p][i] : i \in 1 .. Len(taken[p])}
        /\ taken' = [taken EXCEPT ![p] = <<>>] /\ taken[p] # <<>>
        /\ UNCHANGED queue
        /\ UNCHANGED store \/ AppendEntry(session[p], Changed(Head(taken[p])))
    BY <1>6 DEF FlushFails, toolVars
  <2>2. HandBecomes(taken, taken', p, <<>>)
    BY <1>1, <2>1 DEF HandBecomes
  <2>3. k \in lost' <=> k \in lost \/ \E i \in 1 .. Len(taken[p]) : taken[p][i] = k
    BY <2>1
  <2>4. /\ Placed(k, PlacesIn(k, queue, taken', store, setter[k]), setter[k], lost')
        /\ (\E i \in 1 .. Len(taken[p]) : taken[p][i] = k)
             => Accepted(setter[k]) /\ Nowhere(k, queue, taken', store, setter[k])
    BY ONLY k \in Change, <1>1, <1>2, <2>2, <2>3, DroppingPlaces
  <2>5. CASE UNCHANGED store
    BY <1>1, <1>3, <2>1, <2>4, <2>5
  <2>6. CASE AppendEntry(session[p], Changed(Head(taken[p])))
    <3>1. session[p] \in Session
      BY <1>6 DEF FlushFails, Move, PlacedInv, FlushInv, LaunchedHasSession, Looping,
         Unwinding
    <3>2. taken[p] \in Seq(Change) /\ Head(taken[p]) \in Change
      BY <1>1, <2>1
    <3>3. store' = [store EXCEPT ![session[p]] = Append(@, Changed(Head(taken[p])))]
      BY <2>6 DEF AppendEntry
    <3>4. CASE Head(taken[p]) = k
      <4>1. 1 \in 1 .. Len(taken[p]) /\ taken[p][1] = k
        BY <2>1, <3>2, <3>4
      <4>2. /\ Accepted(setter[k]) /\ k \in lost'
            /\ Nowhere(k, queue, taken', store, setter[k])
        BY <2>3, <2>4, <4>1
      <4>3. setter[k] # "append"
        BY <4>2 DEF Nowhere, PlacesIn
      <4>4. Gains(store, store', session[p], Changed(k))
        BY <1>1, <3>1, <3>3, <3>4 DEF Gains
      <4>5. Recorded(k, queue, taken', store', setter[k])
        BY <1>1, <3>1, <4>2, <4>3, <4>4, PersistingPlaces
      <4>6. Placed(k, PlacesIn(k, queue, taken', store', setter[k]), setter[k], lost')
        BY <4>2, <4>5 DEF Recorded, Placed, InSession
      <4> QED
        BY <1>1, <1>3, <2>1, <4>6
    <3>5. CASE Head(taken[p]) # k
      <4>1. Changed(Head(taken[p])) \in Entry /\ Changed(Head(taken[p])) # Changed(k)
        BY <3>2, <3>5 DEF Changed, Entry, Change, Tools
      <4>2. \A r \in Session :
              store'[r] \in {store[r], Append(store[r], Changed(Head(taken[p])))}
        BY <1>1, <3>3
      <4>3. PlacesIn(k, queue, taken', store', setter[k])
              = PlacesIn(k, queue, taken', store, setter[k])
        BY <1>1, <4>1, <4>2, OtherEntryMovesNothing
      <4> QED
        BY <1>1, <1>3, <2>1, <2>4, <4>3
    <3> QED
      BY <3>4, <3>5
  <2> QED
    BY <2>1, <2>5, <2>6
<1>7. CASE \/ FlushEnds(p) \/ TurnFails(p) \/ Release(p) \/ FinalFlushEnds(p)
           \/ Unwind(p)
  <2>1. UNCHANGED <<queue, taken, store, lost>>
    BY <1>7 DEF FlushEnds, TurnFails, Release, FinalFlushEnds, Unwind, toolVars, storeVars
  <2> QED
    BY <1>1, <1>2, <1>3, <2>1
<1> QED
  BY <1>4, <1>5, <1>6, <1>7 DEF LoopStep

(* A change is accepted when it gets its first place.                       *)
LEMMA PlacedSet ==
  ASSUME PlacedInv, NEW j \in Change, SetActiveTools(j), NEW k \in Change
  PROVE  Placed(k, Places(k)', setter'[k], lost')
<1>1. /\ UNCHANGED <<taken, store, lost, lastSession, running>>
      /\ setter[j] = "idle" /\ setter \in [Change -> {"idle", "unbound", "queued", "append", "done"}]
      /\ queue \in Seq(Change) /\ running \in {0, 1}
  BY DEF SetActiveTools, promptVars, storeVars, agentVars, PlacedInv, FlushInv,
     PublishInv, TypeInv, TypeOK
<1> DEFINE bound == lastSession # NoSession
           choice == CASE ~ bound -> "unbound"
                       [] bound /\ running > 0 -> "queued"
                       [] bound /\ running = 0 -> "append"
<1>2. PICK how : /\ setter' = [setter EXCEPT ![j] = how]
                 /\ queue' = IF how = "queued" THEN Append(queue, j) ELSE queue
                 /\ how \in {"unbound", "queued", "append"}
  <2>1. /\ setter' = [setter EXCEPT ![j] = choice]
        /\ queue' = IF choice = "queued" THEN Append(queue, j) ELSE queue
    BY Zenon DEF SetActiveTools
  <2>2. choice \in {"unbound", "queued", "append"}
    BY <1>1
  <2> HIDE DEF choice
  <2> QED
    BY <2>1, <2>2
<1>3. setter'[j] = how /\ \A i \in Change \ {j} : setter'[i] = setter[i]
  BY <1>1, <1>2
<1>4. CASE k # j
  <2>1. PlacesIn(k, queue', taken, store, setter[k])
          = PlacesIn(k, queue, taken, store, setter[k])
    BY <1>1, <1>2, <1>4, OtherQueueingMovesNothing
  <2> QED
    BY <1>1, <1>3, <1>4, <2>1, StillPlaced DEF PlacedInv
<1>5. CASE k = j
  <2>1. setter[k] # "append" /\ ~Accepted(setter[k])
    BY <1>1, <1>5 DEF Accepted
  <2>2. PlacesIn(k, queue, taken, store, setter[k]) = {} /\ k \notin lost
    BY <2>1, PlacesOfState DEF PlacedInv, AllPlaced, Placed
  <2>3. setter'[k] = how /\ Places(k)' = PlacesIn(k, queue', taken, store, how)
    BY <1>1, <1>3, <1>5, PlacesOfNext
  <2>4. how # "append" => PlacesIn(k, queue, taken, store, how) = {}
    BY <2>1, <2>2 DEF PlacesIn
  <2>5. CASE how = "unbound"
    BY <1>1, <1>2, <2>2, <2>3, <2>4, <2>5 DEF Placed, Accepted
  <2>6. CASE how = "queued"
    <3>1. PlacesIn(k, Append(queue, k), taken, store, how) = {<<"queue", 0, Len(queue) + 1>>}
      BY <1>1, <2>4, <2>6, QueueingPlaces
    <3> QED
      BY <1>1, <1>2, <1>5, <2>2, <2>3, <2>6, <3>1 DEF Placed, Accepted
  <2>7. CASE how = "append"
    <3>1. PlacesIn(k, queue, taken, store, "append")
            = PlacesIn(k, queue, taken, store, setter[k]) \cup {<<"setter", k, 0>>}
      BY <2>1 DEF PlacesIn
    <3> QED
      BY <1>1, <1>2, <2>2, <2>3, <2>7, <3>1 DEF Placed, Accepted
  <2> QED
    BY <1>2, <2>5, <2>6, <2>7
<1> QED
  BY <1>4, <1>5

(* Its caller appends it, or fails to, before or after the entry is written. *)
LEMMA PlacedPersist ==
  ASSUME PlacedInv, NEW j \in Change, PersistChange(j) \/ PersistChangeFails(j),
         NEW k \in Change
  PROVE  Placed(k, Places(k)', setter'[k], lost')
<1>1. /\ UNCHANGED <<queue, taken>> /\ setter[j] = "append"
      /\ setter' = [setter EXCEPT ![j] = "done"]
      /\ setter \in [Change -> {"idle", "unbound", "queued", "append", "done"}]
      /\ store \in [Session -> Seq(Entry)] /\ target[j] \in Session
  BY DEF PersistChange, PersistChangeFails, toolVars, promptVars, PlacedInv, FlushInv,
     PublishInv, TypeInv, TypeOK, TargetIsBound
<1>2. \/ /\ store' = [store EXCEPT ![target[j]] = Append(@, Changed(j))]
         /\ lost' = lost
      \/ store' = store /\ lost' = lost \cup {j}
      \/ /\ store' = [store EXCEPT ![target[j]] = Append(@, Changed(j))]
         /\ lost' = lost \cup {j}
  BY DEF PersistChange, PersistChangeFails, AppendEntry
<1>3. CASE k # j
  <2>1. setter'[k] = setter[k] /\ (k \in lost' <=> k \in lost)
    BY <1>1, <1>2, <1>3
  <2>2. Changed(j) \in Entry /\ Changed(j) # Changed(k)
    BY <1>3 DEF Changed, Entry, Change, Tools
  <2>3. PlacesIn(k, queue, taken, store', setter[k])
          = PlacesIn(k, queue, taken, store, setter[k])
    <3>1. CASE store' = [store EXCEPT ![target[j]] = Append(@, Changed(j))]
      <4>1. \A r \in Session : store'[r] \in {store[r], Append(store[r], Changed(j))}
        BY <1>1, <3>1
      <4> QED
        BY <1>1, <2>2, <4>1, OtherEntryMovesNothing
    <3> QED
      BY <1>2, <3>1
  <2> QED
    BY <1>1, <2>1, <2>3, StillPlaced DEF PlacedInv
<1>4. CASE k = j
  <2>1. setter[k] = "append" /\ setter'[k] = "done"
    BY <1>1, <1>4
  <2>2. /\ PlacesIn(k, queue, taken, store, "append")
              = PlacesIn(k, queue, taken, store, "done") \cup {<<"setter", k, 0>>}
        /\ <<"setter", k, 0>> \notin PlacesIn(k, queue, taken, store, "done")
    BY OwnPlaces
  <2>3. Placed(k, PlacesIn(k, queue, taken, store, "append"), "append", lost)
    BY <2>1, PlacesOfState DEF PlacedInv, AllPlaced
  <2>4. k \notin lost /\ PlacesIn(k, queue, taken, store, "done") = {}
    <3>1. ~InSession(<<"setter", k, 0>>)
      BY DEF InSession
    <3> QED
      BY <2>2, <2>3, <3>1 DEF Placed, Accepted
  <2>5. Places(k)' = PlacesIn(k, queue, taken, store', "done")
    BY <1>1, <2>1, PlacesOfNext
  <2>6. CASE store' = store /\ lost' = lost \cup {j}
    BY <1>4, <2>1, <2>4, <2>5, <2>6 DEF Placed, Accepted
  <2>7. CASE store' = [store EXCEPT ![target[j]] = Append(@, Changed(j))]
    <3>1. Gains(store, store', target[j], Changed(k))
      BY <1>1, <1>4, <2>7 DEF Gains
    <3>2. Recorded(k, queue, taken, store', "done")
      <4>1. "done" # "append"
        OBVIOUS
      <4>2. Nowhere(k, queue, taken, store, "done")
        BY <2>4 DEF Nowhere
      <4>3. store \in [Session -> Seq(Entry)] /\ target[j] \in Session
        BY <1>1
      <4> QED
        BY <3>1, <4>1, <4>2, <4>3, PersistingPlaces
    <3>3. PICK place : InSession(place) /\ PlacesIn(k, queue, taken, store', "done") = {place}
      <4>1. PICK s, i : PlacesIn(k, queue, taken, store', "done") = {<<"store", s, i>>}
        BY <3>2 DEF Recorded
      <4>2. InSession(<<"store", s, i>>)
        BY DEF InSession
      <4> QED
        BY <4>1, <4>2
    <3>4. /\ \E x \in Places(k)' : Places(k)' = {x}
          /\ \A x \in Places(k)' : InSession(x) /\ Places(k)' = {x}
      BY <2>5, <3>3
    <3> QED
      BY <2>1, <3>4 DEF Placed, Accepted
  <2> QED
    BY <1>2, <2>6, <2>7
<1> QED
  BY <1>3, <1>4

LEMMA PlacedStep == PlacedInv /\ [Next]_vars => PlacedInv'
<1> SUFFICES ASSUME PlacedInv, [Next]_vars
             PROVE  PlacedInv'
  OBVIOUS
<1> FlushInv'
  BY FlushStep DEF PlacedInv
<1> SUFFICES ASSUME NEW k \in Change
             PROVE  Placed(k, Places(k)', setter'[k], lost')
  BY DEF PlacedInv, AllPlaced
<1>1. CASE \E p \in Prompt : StartStep(p) \/ LoopStep(p)
  BY <1>1, PlacedStart, PlacedLoop
<1>2. CASE \E j \in Change : SetActiveTools(j) \/ PersistChange(j) \/ PersistChangeFails(j)
  BY <1>2, PlacedSet, PlacedPersist
<1>3. CASE UNCHANGED <<queue, taken, store, setter, lost>>
  BY <1>3, StillPlaced DEF PlacedInv
<1> QED
  BY <1>1, <1>2, <1>3 DEF Next, Over, Stop, vars, toolVars, promptVars, storeVars, setterVars

(* An accepted change is in one place at any time - queued, in the hand of  *)
(* one flush, about to be appended by its caller, or once in one session -  *)
(* and one whose Append failed waits nowhere and is in a session at most    *)
(* once (setters.go:104-114, prompt.go:230-241).                            *)
THEOREM ChangeIsInOnePlace == Spec => []ChangeInOnePlace
<1>1. PlacedInv => ChangeInOnePlace
  BY DEF PlacedInv, AllPlaced, ChangeInOnePlace, Placed, Accepted
<1> QED
  BY <1>1, PlacedInit, PlacedStep, PTL DEF Spec
=============================================================================
