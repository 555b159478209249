----------------------------- MODULE SessionFile -----------------------------
(***************************************************************************)
(* One append-only file of a JSONLSession (session/jsonl.go): the messages   *)
(* of a session, or its branch summaries, which the same code writes.  Calls *)
(* are serialized by the mutex; a call may fail, or its process die, after   *)
(* any of its writes or in the middle of one, and the machine may crash.     *)
(*                                                                          *)
(* The file is a sequence of tokens: a whole record, a proper prefix of one  *)
(* (which is not JSON), or a newline.  A message is its number in the order  *)
(* of the calls.  Assumed of the environment: one process writes the file, a *)
(* crash of the machine keeps what was synced and loses a suffix of the      *)
(* rest, and no line is longer than bufio.Scanner takes.                     *)
(***************************************************************************)
EXTENDS Naturals, SequencesExt

CONSTANTS
  MaxMessages,   \* bound: messages given to Append
  MaxBatch,      \* bound: messages of one call
  MaxFailures    \* bound: calls interrupted, and crashes

ASSUME FileAssumption ==
  MaxMessages \in Nat /\ MaxBatch \in Nat /\ MaxFailures \in Nat

Message == 1 .. MaxMessages

VARIABLES
  file,      \* the content of the file
  synced,    \* how many of its tokens are on the disk
  pc,        \* the call that holds the mutex
  batch,     \* the messages of that call
  pending,   \* those it has still to write
  given,     \* messages given to Append so far
  failures,  \* interruptions and crashes so far
  acked,     \* history: messages of calls that returned nil
  durable    \* history: length of the log when the last one did

fileVars == <<file, synced>>
callVars == <<pc, batch, pending, given>>
historyVars == <<acked, durable>>
vars == <<fileVars, callVars, failures, historyVars>>

LineEnd == [kind |-> "newline", msg |-> 0]
Torn == [kind |-> "torn", msg |-> 0]
Record(m) == [kind |-> "record", msg |-> m]
Token == {LineEnd, Torn} \cup {Record(m) : m \in Message}

(* A token that is a line by itself; the last line needs no newline.        *)
IsLine(f, i) ==
  /\ i > 1 => f[i - 1] = LineEnd
  /\ i < Len(f) => f[i + 1] = LineEnd

Readable(f, i) == f[i].kind = "record" /\ IsLine(f, i)

(* Load: a line that is not one JSON value is skipped.                      *)
Load(f) ==
  LET take(msgs, i) == IF Readable(f, i) THEN Append(msgs, f[i].msg) ELSE msgs
  IN  FoldLeft(take, <<>>, [i \in DOMAIN f |-> i])

-----------------------------------------------------------------------------
Init ==
  /\ file = <<>> /\ synced = 0
  /\ pc = "idle" /\ batch = {} /\ pending = <<>> /\ given = 0
  /\ failures = 0
  /\ acked = {} /\ durable = 0

Goto(from, to) == pc = from /\ pc' = to

AppendMessages(n) ==
  /\ Goto("idle", "repair")
  /\ given + n <= MaxMessages
  /\ given' = given + n
  /\ batch' = given + 1 .. given + n
  /\ pending' = [i \in 1 .. n |-> given + i]
  /\ UNCHANGED <<fileVars, failures, historyVars>>

NextWrite(msgs) == IF msgs = <<>> THEN "sync" ELSE "line"

(* Plausible bug: the file is taken to end in a newline.                    *)
BugNoRepair ==
  /\ Goto("repair", NextWrite(pending))
  /\ UNCHANGED <<fileVars, batch, pending, given, failures, historyVars>>

(* Plausible bug: only a torn record is terminated, not a whole one.        *)
BugRepairTornOnly ==
  /\ Goto("repair", NextWrite(pending))
  /\ file' = IF file # <<>> /\ Last(file) = Torn THEN Append(file, LineEnd) ELSE file
  /\ UNCHANGED <<synced, batch, pending, given, failures, historyVars>>

EnsureTrailingNewline ==
  /\ Goto("repair", NextWrite(pending))
  /\ file' = IF file = <<>> \/ Last(file) = LineEnd THEN file
             ELSE Append(file, LineEnd)
  /\ UNCHANGED <<synced, batch, pending, given, failures, historyVars>>

WriteLine ==
  /\ Goto("line", "newline")
  /\ file' = Append(file, Record(Head(pending)))
  /\ UNCHANGED <<synced, batch, pending, given, failures, historyVars>>

WriteNewline ==
  /\ Goto("newline", NextWrite(Tail(pending)))
  /\ file' = Append(file, LineEnd)
  /\ pending' = Tail(pending)
  /\ UNCHANGED <<synced, batch, given, failures, historyVars>>

(* Plausible bug: Append returns without having synced the file.            *)
BugNoSync ==
  /\ Goto("sync", "idle")
  /\ acked' = acked \cup batch /\ durable' = Len(Load(file))
  /\ batch' = {}
  /\ UNCHANGED <<fileVars, pending, given, failures>>

Sync ==
  /\ Goto("sync", "idle")
  /\ synced' = Len(file)
  /\ acked' = acked \cup batch /\ durable' = Len(Load(file))
  /\ batch' = {}
  /\ UNCHANGED <<file, pending, given, failures>>

Abort ==
  /\ failures < MaxFailures
  /\ failures' = failures + 1
  /\ pc' = "idle" /\ batch' = {} /\ pending' = <<>>
  /\ UNCHANGED <<given, historyVars>>

(* A write or the sync fails, or the process dies and is started again: the *)
(* record being written may be there in part.                               *)
Interrupt ==
  /\ pc # "idle"
  /\ \/ UNCHANGED file
     \/ pc = "line" /\ file' = Append(file, Torn)
  /\ UNCHANGED synced
  /\ Abort

(* What a machine crash leaves of the file when it cuts it after n tokens.  *)
Cuts(n) ==
  {SubSeq(file, 1, n)} \cup
  (IF n < Len(file) /\ file[n + 1] # LineEnd
   THEN {Append(SubSeq(file, 1, n), Torn)} ELSE {})

MachineCrash ==
  /\ \E n \in synced .. Len(file) : file' \in Cuts(n)
  /\ synced' = Len(file')
  /\ Abort

Delete ==
  /\ pc = "idle"
  /\ file' = <<>> /\ synced' = 0
  /\ acked' = {} /\ durable' = 0
  /\ UNCHANGED <<callVars, failures>>

Next ==
  \/ \E n \in 0 .. MaxBatch : AppendMessages(n)
  \/ EnsureTrailingNewline \/ WriteLine \/ WriteNewline \/ Sync
  \/ Interrupt \/ MachineCrash \/ Delete

Spec == Init /\ [][Next]_vars

-----------------------------------------------------------------------------
TypeOK ==
  /\ file \in Seq(Token) /\ synced \in 0 .. Len(file)
  /\ pc \in {"idle", "repair", "line", "newline", "sync"}
  /\ batch \subseteq Message /\ pending \in Seq(Message) /\ given \in 0 .. MaxMessages
  /\ pc \in {"line", "newline"} => pending # <<>>
  /\ failures \in 0 .. MaxFailures
  /\ acked \subseteq Message

(* Append and AppendBranchSummary (jsonl.go:44-75): a message whose call    *)
(* returned nil can be read, whatever calls failed and whatever crashed     *)
(* before and after it, until the session is deleted.                       *)
AckedIsReadable ==
  \A m \in acked : \E i \in 1 .. synced : Readable(file, i) /\ file[i].msg = m

(* JSONLSession (jsonl.go) keeps what a SessionRepo promises: what Load     *)
(* returns only grows, in the order of the calls, except that a crash of    *)
(* the machine may lose what no call has acknowledged.                      *)
Abstract == INSTANCE SessionLog WITH log <- Load(file)
ImplementsLog == Abstract!Spec
=============================================================================
