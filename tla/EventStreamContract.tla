------------------------- MODULE EventStreamContract -------------------------
(***************************************************************************)
(* What Agent.Prompt promises to the holder of an EventStream (the godoc of *)
(* EventStream, PromptResult and Agent.Stop, and ADR-0004), with no turns,  *)
(* tools or queues: the session log grows while the prompt is open; the     *)
(* prompt concludes once, with a result whose Messages are the log of that  *)
(* moment - without its last entry when the prompt failed to append that    *)
(* one and the log has it all the same; afterwards the log gets bookkeeping *)
(* entries only; Done is closed before Events; and a cancelled prompt       *)
(* concludes.                                                               *)
(***************************************************************************)
EXTENDS Integers, Sequences, SequencesExt

CONSTANT
  IsBookkeeping(_)  \* entries the model never sees

VARIABLES
  status,     \* "open", "concluded", "doneClosed" or "closed"
  cancelled,  \* the prompt's context is cancelled
  failed,     \* the result has an error
  log,        \* what the prompt appended to the session
  messages    \* length of PromptResult.Messages; -1 before the result

vars == <<status, cancelled, failed, log, messages>>

Init ==
  /\ status = "open"
  /\ cancelled = FALSE
  /\ failed = FALSE
  /\ log = <<>>
  /\ messages = -1

(* The prompt's context is cancelled by Stop, by the caller, or by the end. *)
Cancel ==
  /\ ~ cancelled
  /\ cancelled' = TRUE
  /\ UNCHANGED <<status, failed, log, messages>>

Extend ==
  /\ status = "open"
  /\ IsStrictPrefix(log, log')
  /\ UNCHANGED <<status, cancelled, failed, messages>>

Conclude ==
  /\ status = "open"
  /\ status' = "concluded"
  /\ IsPrefix(log, log')
  /\ failed' \in BOOLEAN
  /\ messages' = Len(log') \/ (failed' /\ messages' = Len(log') - 1)
  /\ UNCHANGED cancelled

Bookkeep ==
  /\ status = "concluded"
  /\ IsStrictPrefix(log, log')
  /\ \A i \in Len(log) + 1 .. Len(log') : IsBookkeeping(log'[i])
  /\ UNCHANGED <<status, cancelled, failed, messages>>

CloseDone ==
  /\ status = "concluded"
  /\ status' = "doneClosed"
  /\ UNCHANGED <<cancelled, failed, log, messages>>

CloseEvents ==
  /\ status = "doneClosed"
  /\ status' = "closed"
  /\ UNCHANGED <<cancelled, failed, log, messages>>

Next == Cancel \/ Extend \/ Conclude \/ Bookkeep \/ CloseDone \/ CloseEvents

(* What the stream may do, and what it must do in the end.                  *)
SafeSpec == Init /\ [][Next]_vars

Spec ==
  /\ SafeSpec
  /\ cancelled ~> status # "open"
  /\ status = "concluded" ~> status = "closed"
=============================================================================
