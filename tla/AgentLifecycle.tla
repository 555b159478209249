--------------------------- MODULE AgentLifecycle ---------------------------
(***************************************************************************)
(* The single-runner Agent (agent.go, setters.go): successive prompts of    *)
(* one Agent compete for Agent.running, bind it to a session, publish       *)
(* themselves as Agent.current and unwind, while SetActiveTools, Stop and   *)
(* Context are called from other goroutines.  What a prompt does between    *)
(* its launch and its deferred calls is PromptLoop; here a turn is its      *)
(* turn-end flush.                                                          *)
(*                                                                         *)
(* A session is reduced to its active_tools_change entries, and a set of    *)
(* active tools to the SetActiveTools call that chose it: 0 is nil, every   *)
(* registered tool, and a chosen set differs from it.                       *)
(***************************************************************************)
EXTENDS Integers, Sequences

CONSTANTS
  MaxPrompts,         \* bound: calls of Prompt and Resume that get the slot
  MaxChanges,         \* bound: calls of SetActiveTools
  Session,            \* session ids
  NoSession,          \* the zero SessionID
  MayFail             \* whether a start or an Append may return an error

ASSUME LifecycleAssumption ==
  /\ MaxPrompts \in Nat \ {0}
  /\ MaxChanges \in Nat
  /\ NoSession \notin Session
  /\ MayFail \in BOOLEAN

Prompt == 1 .. MaxPrompts
Change == 1 .. MaxChanges
Tools == 0 .. MaxChanges

VARIABLES
  running,      \* Agent.running
  current,      \* Agent.current; 0 is nil
  lastSession,  \* Agent.lastSessionID
  active,       \* Agent.activeToolNames
  queue,        \* Agent.pendingActiveTools
  stage,        \* where each prompt is
  session,      \* the session of each prompt
  read,         \* active set a start has read and not yet used
  taken,        \* entries a flush has taken and not yet appended
  ctx,          \* context of each prompt: "live" or its cause
  named,        \* session ids created, or named by a caller
  store,        \* active_tools_change entries of each session
  setter,       \* progress of each SetActiveTools call
  target,       \* session id a SetActiveTools call read under the mutex
  owner,        \* history: prompt holding the slot when a change was queued
  lost          \* history: changes dropped by a failed Append

agentVars == <<running, current, lastSession>>
toolVars == <<active, queue>>
promptVars == <<stage, session, read, taken, ctx>>
storeVars == <<named, store, lost>>
setterVars == <<setter, target, owner>>
vars == <<agentVars, toolVars, promptVars, storeVars, setterVars>>

Starting == {"resolve", "record", "restore", "append", "hook"}
Looping == {"loop", "flushing", "finished"}
Unwinding == {"released", "draining", "closing"}
Stage == Starting \cup Looping \cup Unwinding \cup {"none", "failed", "over"}

(* The prompts that count in Agent.running, and those a caller would call   *)
(* in flight.                                                               *)
Holding(p) == stage[p] \in Starting \cup Looping
InFlight(p) == stage[p] \in Looping

Entry == [type : {"bind", "change"}, tools : Tools]
Bind(v) == [type |-> "bind", tools |-> v]
Changed(k) == [type |-> "change", tools |-> k]

LastTools(s) == IF store[s] = <<>> THEN 0 ELSE store[s][Len(store[s])].tools

-----------------------------------------------------------------------------
Init ==
  /\ running = 0 /\ current = 0 /\ lastSession = NoSession
  /\ active = 0 /\ queue = <<>>
  /\ stage = [p \in Prompt |-> "none"]
  /\ session = [p \in Prompt |-> NoSession]
  /\ read = [p \in Prompt |-> 0]
  /\ taken = [p \in Prompt |-> <<>>]
  /\ ctx = [p \in Prompt |-> "none"]
  /\ named = {}
  /\ store = [s \in Session |-> <<>>]
  /\ setter = [k \in Change |-> "idle"]
  /\ target = [k \in Change |-> NoSession]
  /\ owner = [k \in Change |-> 0]
  /\ lost = {}

Move(p, from, to) == stage[p] = from /\ stage' = [stage EXCEPT ![p] = to]

AppendEntry(s, e) == store' = [store EXCEPT ![s] = Append(@, e)]

-----------------------------------------------------------------------------
(* Agent.start.                                                             *)

(* Mutant: the slot is taken without looking whether it is free.            *)
BugBeginWithoutGuard(p) ==
  /\ running' = 1
  /\ Move(p, "none", "resolve")
  /\ UNCHANGED <<current, lastSession, toolVars, session, read, taken, ctx,
                 storeVars, setterVars>>

(* CompareAndSwap(0, 1); a call that loses it returns ErrAgentBusy and      *)
(* changes nothing.                                                         *)
Begin(p) ==
  /\ running = 0
  /\ running' = 1
  /\ Move(p, "none", "resolve")
  /\ UNCHANGED <<current, lastSession, toolVars, session, read, taken, ctx,
                 storeVars, setterVars>>

(* A new session; recordActiveToolsOnCreate reads the active set under the  *)
(* read lock and appends it after releasing it.                             *)
CreateSession(p, s) ==
  /\ Move(p, "resolve", "record")
  /\ s \notin named
  /\ named' = named \cup {s}
  /\ session' = [session EXCEPT ![p] = s]
  /\ read' = [read EXCEPT ![p] = active]
  /\ UNCHANGED <<agentVars, toolVars, taken, ctx, store, lost, setterVars>>

RecordActiveTools(p) ==
  /\ Move(p, "record", "append")
  /\ IF read[p] = 0 THEN UNCHANGED store
                    ELSE AppendEntry(session[p], Bind(read[p]))
  /\ UNCHANGED <<agentVars, toolVars, session, read, taken, ctx, named, lost,
                 setterVars>>

(* The session the caller names; restoreActiveToolsFromSession loads it,    *)
(* then overwrites the active set under the mutex.  Both repositories load  *)
(* an id they have never seen as an empty session, without an error.        *)
LoadSession(p, s) ==
  /\ Move(p, "resolve", "restore")
  /\ named' = named \cup {s}
  /\ session' = [session EXCEPT ![p] = s]
  /\ read' = [read EXCEPT ![p] = LastTools(s)]
  /\ UNCHANGED <<agentVars, toolVars, taken, ctx, store, lost, setterVars>>

RestoreActiveTools(p) ==
  /\ Move(p, "restore", "append")
  /\ active' = read[p]
  /\ UNCHANGED <<agentVars, queue, session, read, taken, ctx, storeVars, setterVars>>

(* The user message is appended, or a resume checks the tail.               *)
AppendPrompt(p) ==
  /\ Move(p, "append", "hook")
  /\ UNCHANGED <<agentVars, toolVars, session, read, taken, ctx, storeVars, setterVars>>

(* Mutant: launched stays false, so start's defer gives the slot back.      *)
BugLaunchNotRecorded(p) ==
  /\ Move(p, "hook", "loop")
  /\ running' = 0
  /\ lastSession' = session[p]
  /\ current' = p
  /\ ctx' = [ctx EXCEPT ![p] = "live"]
  /\ UNCHANGED <<toolVars, session, read, taken, storeVars, setterVars>>

(* Mutant: lastSessionID keeps the session of the previous prompt.          *)
BugSessionNotBound(p) ==
  /\ Move(p, "hook", "loop")
  /\ lastSession' = IF lastSession = NoSession THEN session[p] ELSE lastSession
  /\ current' = p
  /\ ctx' = [ctx EXCEPT ![p] = "live"]
  /\ UNCHANGED <<running, toolVars, session, read, taken, storeVars, setterVars>>

(* After BeforeAgentStart: the prompt becomes visible and its loop is       *)
(* launched.                                                                *)
Publish(p) ==
  /\ Move(p, "hook", "loop")
  /\ lastSession' = session[p]
  /\ current' = p
  /\ ctx' = [ctx EXCEPT ![p] = "live"]
  /\ UNCHANGED <<running, toolVars, session, read, taken, storeVars, setterVars>>

(* Any error on the way gives the slot back.  The Append of the bind record *)
(* may return its error with the record in the file.                        *)
StartFails(p) ==
  /\ MayFail
  /\ stage[p] \in Starting
  /\ stage' = [stage EXCEPT ![p] = "failed"]
  /\ running' = 0
  /\ \/ UNCHANGED store
     \/ /\ stage[p] = "record" /\ read[p] # 0
        /\ AppendEntry(session[p], Bind(read[p]))
  /\ UNCHANGED <<current, lastSession, toolVars, session, read, taken, ctx,
                 named, lost, setterVars>>

-----------------------------------------------------------------------------
(* The loop, up to its turn-end flush, and its deferred calls.              *)

(* Mutant: the queue is taken and not reset.                                *)
BugQueueNotReset(p, from, to) ==
  /\ Move(p, from, to)
  /\ taken' = [taken EXCEPT ![p] = queue]
  /\ UNCHANGED <<agentVars, toolVars, session, read, ctx, storeVars, setterVars>>

(* flushPendingActiveTools takes the queue under the mutex ...              *)
TakeQueue(p, from, to) ==
  /\ Move(p, from, to)
  /\ taken' = [taken EXCEPT ![p] = queue]
  /\ queue' = <<>>
  /\ UNCHANGED <<agentVars, active, session, read, ctx, storeVars, setterVars>>

(* ... and appends it entry by entry without the mutex.                     *)
AppendTaken(p) ==
  /\ stage[p] \in {"flushing", "draining"}
  /\ taken[p] # <<>>
  /\ AppendEntry(session[p], Changed(Head(taken[p])))
  /\ taken' = [taken EXCEPT ![p] = Tail(@)]
  /\ UNCHANGED <<agentVars, toolVars, stage, session, read, ctx, named, lost,
                 setterVars>>

TurnEnds(p) == TakeQueue(p, "loop", "flushing")

FlushEnds(p) ==
  /\ taken[p] = <<>>
  /\ Move(p, "flushing", "loop") \/ Move(p, "flushing", "finished")
  /\ UNCHANGED <<agentVars, toolVars, session, read, taken, ctx, storeVars, setterVars>>

(* An Append error drops what is left and ends the prompt or its drain; the *)
(* entry it was about may be in the file nevertheless.                      *)
FlushFails(p) ==
  /\ MayFail
  /\ taken[p] # <<>>
  /\ Move(p, "flushing", "finished") \/ Move(p, "draining", "closing")
  /\ lost' = lost \cup {taken[p][i] : i \in 1 .. Len(taken[p])}
  /\ taken' = [taken EXCEPT ![p] = <<>>]
  /\ UNCHANGED store \/ AppendEntry(session[p], Changed(Head(taken[p])))
  /\ UNCHANGED <<agentVars, toolVars, session, read, ctx, named, setterVars>>

(* finish on an error or a cancellation inside a turn.                      *)
TurnFails(p) ==
  /\ Move(p, "loop", "finished")
  /\ UNCHANGED <<agentVars, toolVars, session, read, taken, ctx, storeVars, setterVars>>

(* running.Add(-1).                                                         *)
Release(p) ==
  /\ Move(p, "finished", "released")
  /\ running' = running - 1
  /\ UNCHANGED <<current, lastSession, toolVars, session, read, taken, ctx,
                 storeVars, setterVars>>

(* Mutant: the loop exits without a final drain.                            *)
BugNoFinalFlush(p) ==
  /\ Move(p, "released", "draining")
  /\ UNCHANGED <<agentVars, toolVars, session, read, taken, ctx, storeVars, setterVars>>

FinalFlush(p) == TakeQueue(p, "released", "draining")

FinalFlushEnds(p) ==
  /\ taken[p] = <<>>
  /\ Move(p, "draining", "closing")
  /\ UNCHANGED <<agentVars, toolVars, session, read, taken, ctx, storeVars, setterVars>>

(* Mutant: the inner context is never cancelled on a clean exit.            *)
BugContextNotCancelled(p) ==
  /\ Move(p, "closing", "over")
  /\ UNCHANGED <<agentVars, toolVars, session, read, taken, ctx, storeVars, setterVars>>

(* Done and Events are closed, then cancel(ErrNoPromptInFlight).            *)
Unwind(p) ==
  /\ Move(p, "closing", "over")
  /\ ctx' = [ctx EXCEPT ![p] = IF @ = "live" THEN "idle" ELSE @]
  /\ UNCHANGED <<agentVars, toolVars, session, read, taken, storeVars, setterVars>>

-----------------------------------------------------------------------------
(* Calls from other goroutines.                                             *)

(* The part of SetActiveTools under the mutex: who persists the change?     *)
SetActiveTools(k) ==
  /\ setter[k] = "idle"
  /\ active' = k
  /\ LET bound == lastSession # NoSession
         how == CASE ~ bound -> "unbound"
                  [] bound /\ running > 0 -> "queued"
                  [] bound /\ running = 0 -> "append"
     IN  /\ setter' = [setter EXCEPT ![k] = how]
         /\ queue' = IF how = "queued" THEN Append(queue, k) ELSE queue
         /\ target' = [target EXCEPT ![k] = lastSession]
         /\ owner' = [owner EXCEPT ![k] =
                        IF how = "queued" THEN CHOOSE p \in Prompt : Holding(p) ELSE 0]
  /\ UNCHANGED <<agentVars, promptVars, storeVars>>

(* An idle Agent's change is appended after the mutex is released.          *)
PersistChange(k) ==
  /\ setter[k] = "append"
  /\ setter' = [setter EXCEPT ![k] = "done"]
  /\ AppendEntry(target[k], Changed(k))
  /\ UNCHANGED <<agentVars, toolVars, promptVars, named, lost, target, owner>>

PersistChangeFails(k) ==
  /\ MayFail
  /\ setter[k] = "append"
  /\ setter' = [setter EXCEPT ![k] = "done"]
  /\ lost' = lost \cup {k}
  /\ UNCHANGED store \/ AppendEntry(target[k], Changed(k))
  /\ UNCHANGED <<agentVars, toolVars, promptVars, named, target, owner>>

(* Stop reaches whatever prompt is current, finished or not.                *)
Stop ==
  /\ current # 0
  /\ ctx[current] = "live"
  /\ ctx' = [ctx EXCEPT ![current] = "stopped"]
  /\ UNCHANGED <<agentVars, toolVars, stage, session, read, taken, storeVars, setterVars>>

(* What Context returns.                                                    *)
AgentContext == IF running = 0 \/ current = 0 THEN "idle" ELSE ctx[current]

(* Every prompt this model starts is over, and every call has returned.     *)
Over ==
  /\ \A p \in Prompt : stage[p] \in {"failed", "over"}
  /\ \A k \in Change : setter[k] \in {"unbound", "queued", "done"}
  /\ UNCHANGED vars

StartStep(p) ==
  \/ Begin(p)
  \/ \E s \in Session : CreateSession(p, s) \/ LoadSession(p, s)
  \/ RecordActiveTools(p) \/ RestoreActiveTools(p)
  \/ AppendPrompt(p) \/ Publish(p) \/ StartFails(p)

LoopStep(p) ==
  \/ TurnEnds(p) \/ AppendTaken(p) \/ FlushEnds(p) \/ FlushFails(p)
  \/ TurnFails(p) \/ Release(p) \/ FinalFlush(p) \/ FinalFlushEnds(p)
  \/ Unwind(p)

Next ==
  \/ \E p \in Prompt : StartStep(p) \/ LoopStep(p)
  \/ \E k \in Change : SetActiveTools(k) \/ PersistChange(k) \/ PersistChangeFails(k)
  \/ Stop
  \/ Over

Spec == Init /\ [][Next]_vars

-----------------------------------------------------------------------------
(* One type invariant.  Agent.running is 0 or 1: Add(-1) and Store(0) never *)
(* both give back the same slot.                                            *)
TypeOK ==
  /\ running \in {0, 1}
  /\ current \in 0 .. MaxPrompts
  /\ lastSession \in Session \cup {NoSession}
  /\ active \in Tools
  /\ queue \in Seq(Change)
  /\ stage \in [Prompt -> Stage]
  /\ session \in [Prompt -> Session \cup {NoSession}]
  /\ read \in [Prompt -> Tools]
  /\ taken \in [Prompt -> Seq(Change)]
  /\ ctx \in [Prompt -> {"none", "live", "stopped", "idle"}]
  /\ named \subseteq Session
  /\ store \in [Session -> Seq(Entry)]
  /\ setter \in [Change -> {"idle", "unbound", "queued", "append", "done"}]
  /\ target \in [Change -> Session \cup {NoSession}]
  /\ owner \in [Change -> 0 .. MaxPrompts]
  /\ lost \subseteq Change

(* "At most one prompt in flight per Agent" (agent.go:129-139), counting    *)
(* the starts that have not launched their loop yet; and the slot is taken  *)
(* exactly while somebody holds it.                                         *)
SingleRunner ==
  /\ \A p, q \in Prompt : Holding(p) /\ Holding(q) => p = q
  /\ running = 1 <=> \E p \in Prompt : Holding(p)

(* While a loop holds the slot it is the prompt that Stop, Steer, FollowUp  *)
(* and Context address, with a context of its own, and the Agent is bound   *)
(* to its session (agent.go:252-255).                                       *)
CurrentIsInFlight ==
  \A p \in Prompt : InFlight(p) =>
    /\ current = p
    /\ lastSession = session[p]
    /\ ctx[p] \in {"live", "stopped"}

(* A queued change has somebody to write it: a prompt that will still flush *)
(* or drain.  The exception is a start that failed, which leaves what was   *)
(* queued in its time for the next prompt (prompt.go:264-270).              *)
QueueHasADrain ==
  queue # <<>> =>
    \E p \in Prompt : Holding(p) \/ stage[p] \in {"released", "failed"}

Occurrences(k, s) == {i \in 1 .. Len(s) : s[i] = k}
Places(k) ==
  {<<"queue", 0, i>> : i \in Occurrences(k, queue)}
    \cup (UNION {{<<"taken", p, i>> : i \in Occurrences(k, taken[p])} : p \in Prompt})
    \cup (UNION {{<<"store", s, i>> : i \in Occurrences(Changed(k), store[s])} : s \in Session})
    \cup (IF setter[k] = "append" THEN {<<"setter", k, 0>>} ELSE {})
InSession(x) == x[1] = "store"

(* A change accepted on a bound Agent is in one place at any time: queued,  *)
(* taken by one flush, about to be appended by its caller, or in one        *)
(* session.  One whose Append failed waits nowhere any more, and is in a    *)
(* session at most once: nothing writes it again (setters.go:104-114,       *)
(* prompt.go:230-241).                                                      *)
ChangeInOnePlace ==
  \A k \in Change : setter[k] \in {"queued", "append", "done"} =>
    \/ k \notin lost /\ \E x \in Places(k) : Places(k) = {x}
    \/ k \in lost /\ \A x \in Places(k) : InSession(x) /\ Places(k) = {x}

(* Context hands out a live context only for a prompt that has not unwound  *)
(* ("never hands out a permanently-live context for a finished prompt",     *)
(* ADR-0004), also while the next prompt is being started.                  *)
LiveContextMeansUnfinished ==
  AgentContext = "live" => stage[current] \notin {"none", "failed", "over"}

(* "nothing can race in behind this final drain", "guaranteeing no entry is *)
(* stranded or leaked into the next prompt's session" (prompt.go:264-270):  *)
(* what a prompt flushes was queued while that prompt held the slot.        *)
FlushTakesOwnEntries ==
  \A p \in Prompt : \A i \in 1 .. Len(taken[p]) : owner[taken[p][i]] = p

(* Before the first prompt "nothing is persisted - instead the change is    *)
(* recorded at bind time ... so resume still restores it"                   *)
(* (setters.go:89-92).                                                      *)
BindRecordsUnboundChange ==
  \A k \in Change :
    setter[k] = "unbound" /\ active = k /\ lastSession # NoSession
      => \E i \in 1 .. Len(store[lastSession]) : store[lastSession][i].tools = k
=============================================================================
