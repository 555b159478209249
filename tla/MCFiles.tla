------------------------------- MODULE MCFiles -------------------------------
(***************************************************************************)
(* What the library does to files, on small instances: one file of a       *)
(* JSONLSession, the calls of write and edit on two files, or one job of    *)
(* the text tools.  The three share nothing: a behaviour is one of them,    *)
(* and the other two rest in an initial state.                              *)
(***************************************************************************)
EXTENDS SessionFile, MCMutationQueue, MCTextTools

VARIABLE part

filesVars == <<part, vars, queueVars, textVars>>

FilesInit ==
  /\ part \in {"session", "calls", "job"}
  /\ Init /\ QueueInit /\ TextInit
  /\ part # "calls" => \A c \in Caller : path[c] = "old.txt"
  /\ part # "job" => job.kind = "capture"

SessionStep == part = "session" /\ Next /\ UNCHANGED <<part, queueVars, textVars>>
QueueStep   == part = "calls" /\ QueueNext /\ UNCHANGED <<part, vars, textVars>>
TextStep    == part = "job" /\ TextNext /\ UNCHANGED <<part, vars, queueVars>>

FilesNext == SessionStep \/ QueueStep \/ TextStep

(* The fairness of MutationQueue; nothing is asked of the other two.        *)
FilesSpec ==
  /\ FilesInit /\ [][FilesNext]_filesVars
  /\ \A c \in Caller :
       WF_filesVars(part = "calls" /\ CallStep(c) /\ UNCHANGED <<part, vars, textVars>>)
=============================================================================
