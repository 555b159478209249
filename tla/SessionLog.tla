----------------------------- MODULE SessionLog -----------------------------
(***************************************************************************)
(* What a SessionRepo promises of one session: a log that grows at its end, *)
(* in the order of the calls, and whose acknowledged part is never lost.    *)
(* A message is its number in the order in which Append was given it.       *)
(***************************************************************************)
EXTENDS Naturals, Sequences

CONSTANT Message

VARIABLES
  log,      \* what Load returns
  durable   \* how much of it an Append that returned nil has promised

logVars == <<log, durable>>

Init == log = <<>> /\ durable = 0

Put ==
  /\ \E m \in Message :
       /\ \A i \in DOMAIN log : log[i] < m
       /\ log' = Append(log, m)
  /\ UNCHANGED durable

Acknowledge == durable' = Len(log) /\ UNCHANGED log

(* A crash may lose the end of what was never acknowledged.                 *)
Lose ==
  /\ \E n \in durable .. Len(log) : log' = SubSeq(log, 1, n)
  /\ UNCHANGED durable

Forget == log' = <<>> /\ durable' = 0

Next == Put \/ Acknowledge \/ Lose \/ Forget

Spec == Init /\ [][Next]_logVars
=============================================================================
