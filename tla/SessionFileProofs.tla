-------------------------- MODULE SessionFileProofs --------------------------
(***************************************************************************)
(* Proofs about SessionFile, for any number of messages, of messages of a   *)
(* call, and of failures: what Append acknowledged stays readable, and the   *)
(* file implements the log of SessionLog.                                   *)
(***************************************************************************)
EXTENDS SessionFile, FoldTheorems

USE FileAssumption

FileTypes ==
  /\ file \in Seq(Token) /\ synced \in 0 .. Len(file)
  /\ batch \subseteq Message /\ pending \in Seq(Message)
  /\ given \in 0 .. MaxMessages /\ acked \subseteq Message

EndsLine(f) == f = <<>> \/ f[Len(f)] = LineEnd

(* A record that ends before position n of the file, newline included: no   *)
(* append can spoil it, nor a crash that keeps n tokens.                    *)
Settled(f, m, n) ==
  \E i \in 1 .. Len(f) : i < n /\ f[i] = Record(m) /\ IsLine(f, i)

(* A message that was acknowledged is settled in what is on the disk; one   *)
(* of the call in progress is settled in the file, or still to be written.  *)
FileInv ==
  /\ FileTypes
  /\ \A m \in acked : Settled(file, m, synced)
  /\ pc # "idle" => \A m \in batch :
       Settled(file, m, Len(file)) \/ \E i \in 1 .. Len(pending) : pending[i] = m
  /\ pc \in {"line", "newline"} => pending # <<>>
  /\ pc = "line" => EndsLine(file)
  /\ pc = "newline" =>
       /\ Len(file) > 0 /\ file[Len(file)] = Record(Head(pending))
       /\ IsLine(file, Len(file))
  /\ pc = "sync" => EndsLine(file) /\ pending = <<>>

-----------------------------------------------------------------------------
(* What is settled before n stays so as long as the first n tokens do.      *)
LEMMA SettledStays ==
  ASSUME NEW f \in Seq(Token), NEW g \in Seq(Token), NEW m, NEW n \in Nat,
         n <= Len(f), n <= Len(g), \A i \in 1 .. n : g[i] = f[i],
         Settled(f, m, n)
  PROVE  Settled(g, m, n)
<1>1. PICK i \in 1 .. Len(f) : i < n /\ f[i] = Record(m) /\ IsLine(f, i)
  BY DEF Settled
<1>2. i \in 1 .. Len(g) /\ i < n /\ g[i] = Record(m) /\ g[i + 1] = LineEnd
  BY <1>1 DEF IsLine
<1>3. i > 1 => g[i - 1] = LineEnd
  BY <1>1 DEF IsLine
<1>4. QED
  BY <1>2, <1>3 DEF Settled, IsLine

LEMMA SettledLater ==
  ASSUME NEW f, NEW m, NEW n \in Nat, NEW k \in Nat, n <= k, Len(f) \in Nat,
         Settled(f, m, n)
  PROVE  Settled(f, m, k)
BY DEF Settled

(* Appending to the file unsettles nothing.                                 *)
LEMMA SettledAppend ==
  ASSUME NEW f \in Seq(Token), NEW t \in Token, NEW m, NEW n \in 0 .. Len(f),
         Settled(f, m, n)
  PROVE  Settled(Append(f, t), m, n)
<1>1. Append(f, t) \in Seq(Token) /\ Len(Append(f, t)) = Len(f) + 1
  OBVIOUS
<1>2. n \in Nat /\ n <= Len(f) /\ \A i \in 1 .. n : Append(f, t)[i] = f[i]
  OBVIOUS
<1>3. PICK g \in Seq(Token) : g = Append(f, t)
  BY <1>1
<1>4. n <= Len(g) /\ \A i \in 1 .. n : g[i] = f[i]
  BY <1>1, <1>2, <1>3
<1>5. Settled(g, m, n)
  BY <1>2, <1>4, SettledStays
<1>6. QED
  BY <1>3, <1>5

LEMMA TokensAreTokens ==
  LineEnd \in Token /\ Torn \in Token /\ \A m \in Message : Record(m) \in Token
BY DEF Token

LEMMA FileInit ==
  ASSUME Init
  PROVE  FileInv
BY DEF Init, FileInv, FileTypes, Message

LEMMA LastIsLast ==
  ASSUME file \in Seq(Token), file # <<>>
  PROVE  Last(file) = file[Len(file)] /\ Len(file) > 0
BY DEF Last

-----------------------------------------------------------------------------
LEMMA AppendStep ==
  ASSUME FileInv, NEW n \in 0 .. MaxBatch, AppendMessages(n)
  PROVE  FileInv'
<1>1. n \in Nat /\ given \in Nat /\ given + n \in 0 .. MaxMessages
  BY DEF FileInv, FileTypes, AppendMessages
<1>2. /\ pending' \in Seq(Message) /\ Len(pending') = n
      /\ batch' \subseteq Message
      /\ \A m \in batch' : m - given \in 1 .. n /\ pending'[m - given] = m
  BY <1>1 DEF AppendMessages, Message
<1>3. pc' = "repair" /\ file' = file /\ synced' = synced /\ acked' = acked
  BY DEF AppendMessages, Goto, fileVars, historyVars
<1>4. given' \in 0 .. MaxMessages
  BY <1>1 DEF AppendMessages
<1>5. QED
  BY <1>2, <1>3, <1>4 DEF FileInv, FileTypes, Settled, IsLine

(* The file is made to end in a newline.                                    *)
LEMMA RepairStep ==
  ASSUME FileInv, EnsureTrailingNewline
  PROVE  FileInv'
<1>1. /\ UNCHANGED <<synced, batch, pending, given, acked>>
      /\ pc = "repair" /\ pc' = NextWrite(pending)
  BY DEF EnsureTrailingNewline, Goto, historyVars
<1>2. \/ file' = file /\ EndsLine(file)
      \/ file' = Append(file, LineEnd)
  BY LastIsLast DEF EnsureTrailingNewline, EndsLine, FileInv, FileTypes
<1>3. file' \in Seq(Token) /\ EndsLine(file') /\ Len(file) <= Len(file')
  BY <1>2, TokensAreTokens DEF FileInv, FileTypes, EndsLine
<1>4. \A m, n : n \in 0 .. Len(file) /\ Settled(file, m, n) => Settled(file', m, n)
  BY <1>2, SettledAppend, TokensAreTokens DEF FileInv, FileTypes
<1>5. \A m \in batch :
        Settled(file', m, Len(file')) \/ \E i \in 1 .. Len(pending) : pending[i] = m
  BY <1>1, <1>3, <1>4, SettledLater DEF FileInv, FileTypes
<1>6. \A m \in acked : Settled(file', m, synced)
  BY <1>4 DEF FileInv, FileTypes
<1>7. QED
  BY <1>1, <1>3, <1>5, <1>6 DEF FileInv, FileTypes, NextWrite

LEMMA LineStep ==
  ASSUME FileInv, WriteLine
  PROVE  FileInv'
<1>1. /\ UNCHANGED <<synced, batch, pending, given, acked>>
      /\ pc = "line" /\ pc' = "newline"
      /\ file' = Append(file, Record(Head(pending)))
  BY DEF WriteLine, Goto, historyVars
<1>2. file \in Seq(Token) /\ Record(Head(pending)) \in Token
  BY <1>1, TokensAreTokens DEF FileInv, FileTypes
<1>3. /\ file' \in Seq(Token) /\ Len(file') = Len(file) + 1
      /\ file'[Len(file')] = Record(Head(pending))
      /\ IsLine(file', Len(file'))
  BY <1>1, <1>2 DEF FileInv, EndsLine, IsLine
<1>4. \A m, n : n \in 0 .. Len(file) /\ Settled(file, m, n) => Settled(file', m, n)
  BY <1>1, <1>2, SettledAppend
<1>5. \A m \in batch :
        Settled(file', m, Len(file')) \/ \E i \in 1 .. Len(pending) : pending[i] = m
  BY <1>1, <1>2, <1>3, <1>4, SettledLater DEF FileInv
<1>6. \A m \in acked : Settled(file', m, synced)
  BY <1>4 DEF FileInv, FileTypes
<1>7. QED
  BY <1>1, <1>2, <1>3, <1>5, <1>6 DEF FileInv, FileTypes

(* The record just written is settled by its newline.                       *)
LEMMA NewlineStep ==
  ASSUME FileInv, WriteNewline
  PROVE  FileInv'
<1>1. /\ UNCHANGED <<synced, batch, given, acked>>
      /\ pc = "newline" /\ pc' = NextWrite(Tail(pending))
      /\ pending' = Tail(pending)
      /\ file' = Append(file, LineEnd)
  BY DEF WriteNewline, Goto, historyVars
<1>2. file \in Seq(Token) /\ pending \in Seq(Message) /\ pending # <<>>
  BY <1>1 DEF FileInv, FileTypes
<1>3. file' \in Seq(Token) /\ Len(file') = Len(file) + 1 /\ EndsLine(file')
  BY <1>1, <1>2, TokensAreTokens DEF EndsLine
<1>4. \A m, n : n \in 0 .. Len(file) /\ Settled(file, m, n) => Settled(file', m, n)
  BY <1>1, <1>2, SettledAppend, TokensAreTokens
<1>5. Settled(file', Head(pending), Len(file'))
  <2>1. /\ Len(file) \in 1 .. Len(file') /\ Len(file) < Len(file')
        /\ file'[Len(file)] = Record(Head(pending))
    BY <1>1, <1>2, <1>3 DEF FileInv
  <2>2. IsLine(file', Len(file))
    BY <1>1, <1>2, <1>3 DEF FileInv, IsLine
  <2>3. QED
    BY <2>1, <2>2 DEF Settled
<1>6. \A m \in batch :
        Settled(file', m, Len(file')) \/ \E i \in 1 .. Len(pending') : pending'[i] = m
  <2>1. SUFFICES ASSUME NEW m \in batch, ~Settled(file', m, Len(file'))
                 PROVE  \E i \in 1 .. Len(pending') : pending'[i] = m
    OBVIOUS
  <2>2. ~Settled(file, m, Len(file))
    BY <1>2, <1>3, <1>4, <2>1, SettledLater
  <2>3. PICK i \in 1 .. Len(pending) : pending[i] = m
    BY <1>1, <2>1, <2>2 DEF FileInv
  <2>4. i # 1
    BY <1>2, <1>5, <2>1, <2>3
  <2>5. i - 1 \in 1 .. Len(pending') /\ pending'[i - 1] = m
    BY <1>1, <1>2, <2>3, <2>4
  <2>6. QED
    BY <2>5
<1>7. \A m \in acked : Settled(file', m, synced)
  BY <1>4 DEF FileInv, FileTypes
<1>8. pending' \in Seq(Message)
  BY <1>1, <1>2
<1>9. QED
  BY <1>1, <1>2, <1>3, <1>6, <1>7, <1>8 DEF FileInv, FileTypes, NextWrite

LEMMA SyncStep ==
  ASSUME FileInv, Sync
  PROVE  FileInv'
<1>1. /\ UNCHANGED <<file, pending, given>>
      /\ pc = "sync" /\ pc' = "idle" /\ batch' = {}
      /\ synced' = Len(file) /\ acked' = acked \cup batch
  BY DEF Sync, Goto
<1>2. file \in Seq(Token) /\ synced \in 0 .. Len(file) /\ pending = <<>>
  BY <1>1 DEF FileInv, FileTypes
<1>3. \A m \in acked \cup batch : Settled(file, m, Len(file))
  BY <1>1, <1>2, SettledLater DEF FileInv
<1>4. QED
  BY <1>1, <1>2, <1>3 DEF FileInv, FileTypes

-----------------------------------------------------------------------------
(* After a failure, a file that keeps what was synced keeps what is settled *)
(* in it, and no call is in progress.                                       *)
LEMMA AbortStep ==
  ASSUME FileInv, Abort,
         file' \in Seq(Token), synced' \in synced .. Len(file'),
         \A i \in 1 .. synced : file'[i] = file[i]
  PROVE  FileInv'
<1>1. /\ pc' = "idle" /\ batch' = {} /\ pending' = <<>>
      /\ UNCHANGED <<given, acked>>
  BY DEF Abort, historyVars
<1>2. file \in Seq(Token) /\ synced \in 0 .. Len(file)
  BY DEF FileInv, FileTypes
<1>3. \A m \in acked : Settled(file', m, synced)
  BY <1>2, SettledStays DEF FileInv
<1>4. \A m \in acked : Settled(file', m, synced')
  BY <1>2, <1>3, SettledLater
<1>5. QED
  BY <1>1, <1>2, <1>4 DEF FileInv, FileTypes

LEMMA InterruptStep ==
  ASSUME FileInv, Interrupt
  PROVE  FileInv'
<1>1. file \in Seq(Token) /\ synced \in 0 .. Len(file)
  BY DEF FileInv, FileTypes
<1>2. file' = file \/ file' = Append(file, Torn)
  BY DEF Interrupt
<1>3. /\ file' \in Seq(Token) /\ Len(file) <= Len(file')
      /\ \A i \in 1 .. synced : file'[i] = file[i]
  BY <1>1, <1>2, TokensAreTokens
<1>4. Abort /\ synced' = synced
  BY DEF Interrupt
<1>5. QED
  BY <1>1, <1>3, <1>4, AbortStep

LEMMA CrashStep ==
  ASSUME FileInv, MachineCrash
  PROVE  FileInv'
<1>1. file \in Seq(Token) /\ synced \in 0 .. Len(file)
  BY DEF FileInv, FileTypes
<1>2. PICK n \in synced .. Len(file) : file' \in Cuts(n)
  BY DEF MachineCrash
<1>3. /\ SubSeq(file, 1, n) \in Seq(Token) /\ Len(SubSeq(file, 1, n)) = n
      /\ \A i \in 1 .. n : SubSeq(file, 1, n)[i] = file[i]
  BY <1>1, <1>2
<1>4. file' = SubSeq(file, 1, n) \/ file' = Append(SubSeq(file, 1, n), Torn)
  BY <1>2 DEF Cuts
<1>5. /\ file' \in Seq(Token) /\ n <= Len(file')
      /\ \A i \in 1 .. n : file'[i] = file[i]
  <2>1. PICK g \in Seq(Token) : g = SubSeq(file, 1, n)
    BY <1>3
  <2>2. Len(g) = n /\ \A i \in 1 .. n : g[i] = file[i]
    BY <1>3, <2>1
  <2>3. file' = g \/ file' = Append(g, Torn)
    BY <1>4, <2>1
  <2>4. n \in Nat
    BY <1>1, <1>2
  <2>5. QED
    BY <2>2, <2>3, <2>4, TokensAreTokens
<1>6. Abort /\ synced' = Len(file')
  BY DEF MachineCrash
<1>7. QED
  BY <1>1, <1>2, <1>5, <1>6, AbortStep

LEMMA FileStep ==
  ASSUME FileInv, [Next]_vars
  PROVE  FileInv'
<1>1. CASE Delete
  BY <1>1 DEF Delete, FileInv, FileTypes, callVars
<1>2. CASE UNCHANGED vars
  BY <1>2 DEF vars, fileVars, callVars, historyVars, FileInv, FileTypes,
              Settled, IsLine, EndsLine
<1>3. QED
  BY <1>1, <1>2, AppendStep, RepairStep, LineStep, NewlineStep, SyncStep,
     InterruptStep, CrashStep DEF Next

(* session/jsonl.go:44-75: a message whose Append returned nil can be read  *)
(* until the session is deleted, whatever is written, fails or crashes.     *)
THEOREM AcknowledgedIsKept == Spec => []AckedIsReadable
<1>1. Init => FileInv
  BY FileInit
<1>2. FileInv /\ [Next]_vars => FileInv'
  BY FileStep
<1>3. FileInv => AckedIsReadable
  <2>1. SUFFICES ASSUME FileInv, NEW m \in acked
                 PROVE  \E i \in 1 .. synced : Readable(file, i) /\ file[i].msg = m
    BY DEF AckedIsReadable
  <2>2. synced \in 0 .. Len(file) /\ Len(file) \in Nat
    BY <2>1 DEF FileInv, FileTypes
  <2>3. PICK i \in 1 .. Len(file) : /\ i < synced /\ file[i] = Record(m)
                                   /\ IsLine(file, i)
    BY <2>1 DEF FileInv, Settled
  <2>4. i \in 1 .. synced
    BY <2>2, <2>3
  <2>5. Readable(file, i) /\ file[i].msg = m
    BY <2>3 DEF Readable, Record
  <2>6. QED
    BY <2>4, <2>5
<1>4. QED
  BY <1>1, <1>2, <1>3, PTL DEF Spec

(* The phases of a call and the bound of the failures, beside FileInv.       *)
CallTypes ==
  /\ pc \in {"idle", "repair", "line", "newline", "sync"}
  /\ failures \in 0 .. MaxFailures

LEMMA CallTypesStep ==
  ASSUME CallTypes, [Next]_vars
  PROVE  CallTypes'
<1>1. CASE Interrupt \/ MachineCrash
  BY <1>1 DEF CallTypes, Interrupt, MachineCrash, Abort
<1>2. CASE \/ \E n \in 0 .. MaxBatch : AppendMessages(n)
           \/ EnsureTrailingNewline \/ WriteLine \/ WriteNewline \/ Sync
  BY <1>2 DEF CallTypes, AppendMessages, EnsureTrailingNewline, WriteLine,
              WriteNewline, Sync, Goto, NextWrite, historyVars
<1>3. CASE Delete \/ UNCHANGED vars
  BY <1>3 DEF CallTypes, Delete, vars, callVars
<1>4. QED
  BY <1>1, <1>2, <1>3 DEF Next

(* The variables of session/jsonl.go:44-75 keep their types: the file is     *)
(* made of tokens, and a call that writes a line has one to write.           *)
THEOREM FileTypeCorrect == Spec => []TypeOK
<1>1. Init => FileInv /\ CallTypes
  BY FileInit DEF Init, CallTypes
<1>2. FileInv /\ CallTypes /\ [Next]_vars => (FileInv /\ CallTypes)'
  BY FileStep, CallTypesStep
<1>3. FileInv /\ CallTypes => TypeOK
  BY DEF FileInv, FileTypes, CallTypes, TypeOK
<1>4. QED
  BY <1>1, <1>2, <1>3, PTL DEF Spec

-----------------------------------------------------------------------------
(* Load, line by line.                                                      *)

(* Every record, whole or torn, is followed by a newline, unless it is last.*)
LineByLine(f) ==
  \A i \in 1 .. Len(f) : i + 1 <= Len(f) /\ f[i] # LineEnd => f[i + 1] = LineEnd

LEMMA TokenKinds ==
  ASSUME NEW t \in Token
  PROVE  /\ t.kind = "record" => t.msg \in Message /\ t = Record(t.msg)
         /\ t.kind = "record" => t # LineEnd /\ t # Torn
         /\ t \in {LineEnd, Torn} => t.kind # "record"
<1>1. CASE t \in {LineEnd, Torn}
  BY <1>1 DEF LineEnd, Torn
<1>2. ASSUME NEW m \in Message, t = Record(m)
      PROVE  t.kind = "record" /\ t.msg = m /\ t # LineEnd /\ t # Torn
  BY <1>2 DEF Record, LineEnd, Torn
<1> QED
  BY <1>1, <1>2 DEF Token

(* In such a file every record is a line of its own.                        *)
LEMMA RecordsAreReadable ==
  ASSUME NEW f \in Seq(Token), LineByLine(f), NEW i \in 1 .. Len(f)
  PROVE  Readable(f, i) <=> f[i].kind = "record"
<1>1. ASSUME f[i].kind = "record"
      PROVE  IsLine(f, i)
  <2>1. f[i] # LineEnd
    BY <1>1, TokenKinds
  <2>2. i < Len(f) => f[i + 1] = LineEnd
    BY <2>1 DEF LineByLine
  <2>3. ASSUME i > 1
        PROVE  f[i - 1] = LineEnd
    <3>1. i - 1 \in 1 .. Len(f) /\ (i - 1) + 1 = i /\ i <= Len(f)
      BY <2>3
    <3> QED
      BY <2>1, <3>1 DEF LineByLine
  <2> QED
    BY <2>2, <2>3 DEF IsLine
<1> QED
  BY <1>1 DEF Readable

LoadStep(f, msgs, i) == IF Readable(f, i) THEN Append(msgs, f[i].msg) ELSE msgs

LEMMA LoadStepTyped ==
  ASSUME NEW f \in Seq(Token), NEW msgs \in Seq(Message), NEW i \in 1 .. Len(f)
  PROVE  LoadStep(f, msgs, i) \in Seq(Message)
<1>1. f[i] \in Token
  OBVIOUS
<1>2. Readable(f, i) => f[i].msg \in Message
  BY <1>1, TokenKinds DEF Readable
<1> QED
  BY <1>2, Appending DEF LoadStep

(* The values Load goes through.                                            *)
Loads(h, f) ==
  /\ h[0] = <<>>
  /\ \A i \in 1 .. Len(f) : h[i] = LoadStep(f, h[i - 1], i)
  /\ \A i \in 0 .. Len(f) : h[i] \in Seq(Message)
  /\ Load(f) = h[Len(f)]

LEMMA LoadSteps ==
  ASSUME NEW f \in Seq(Token)
  PROVE  \E h : Loads(h, f)
<1> DEFINE n == Len(f)
           base == <<>>
           ids == [i \in DOMAIN f |-> i]
           step == [x \in (1 .. n) \X Seq(Message) |-> LoadStep(f, x[2], x[1])]
           Sol(g) == g = [t \in SUBSET (1 .. n) |->
                        IF t = {} THEN base ELSE LoadStep(f, g[t \ {Max(t)}], ids[Max(t)])]
           iter == CHOOSE g : Sol(g)
<1>1. n \in Nat /\ DOMAIN f = 1 .. n /\ base \in Seq(Message)
      /\ DOMAIN ids = 1 .. n /\ \A i \in 1 .. n : ids[i] = i
  OBVIOUS
<1>2. step \in [(1 .. n) \X Seq(Message) -> Seq(Message)]
  BY <1>1, LoadStepTyped
<1>3. \E g : Sol(g)
  <2> HIDE DEF base, step, n, ids
  <2>1. PICK g \in [SUBSET (1 .. n) -> Seq(Message)] : IsSequenceFold(g, n, base, step)
    BY <1>1, <1>2, SequenceFoldExists
  <2>2. ASSUME NEW t \in SUBSET (1 .. n), t # {}
        PROVE  step[<<Max(t), g[t \ {Max(t)}]>>] = LoadStep(f, g[t \ {Max(t)}], ids[Max(t)])
    <3>1. Max(t) \in 1 .. n
      BY <1>1, <2>2, LargestElement
    <3>2. g[t \ {Max(t)}] \in Seq(Message)
      BY <2>1
    <3> QED
      BY <1>1, <3>1, <3>2 DEF step
  <2>3. Sol(g)
    BY <2>1, <2>2 DEF IsSequenceFold
  <2> QED
    BY <2>3
<1>4. Sol(iter)
  <2> HIDE DEF Sol
  <2> QED
    BY <1>3
<1>5. Load(f) = iter[1 .. n]
  <2>1. Load(f) = iter[DOMAIN ids]
    BY <1>1 DEF Load, LoadStep, FoldLeft, MapThenFoldSet
  <2> QED
    BY <1>1, <2>1
<1> HIDE DEF iter, ids
<1> DEFINE h == [i \in 0 .. n |-> iter[1 .. i]]
<1>6. h[0] = base
  BY <1>1, <1>4, PrefixIntervals
<1>7. ASSUME NEW i \in 1 .. n
      PROVE  h[i] = LoadStep(f, h[i - 1], i)
  <2>1. /\ 1 .. i \in SUBSET (1 .. n) /\ 1 .. i # {}
        /\ Max(1 .. i) = i /\ (1 .. i) \ {i} = 1 .. i - 1
    BY <1>1, PrefixIntervals
  <2>2. iter[1 .. i] = LoadStep(f, iter[1 .. i - 1], ids[i])
    BY <1>4, <2>1
  <2>3. ids[i] = i
    BY <1>1
  <2> QED
    BY <1>1, <2>2, <2>3
<1>8. h[n] = iter[1 .. n]
  BY <1>1
<1> HIDE DEF h
<1>9. \A i \in 0 .. n : h[i] \in Seq(Message)
  <2>1. \A i \in 1 .. n : h[i - 1] \in Seq(Message) => h[i] \in Seq(Message)
    BY <1>7, LoadStepTyped
  <2> QED
    BY <1>1, <1>6, <2>1, StepsStay
<1> QED
  BY <1>5, <1>6, <1>7, <1>8, <1>9 DEF Loads

LEMMA LoadTyped ==
  ASSUME NEW f \in Seq(Token)
  PROVE  Load(f) \in Seq(Message) /\ Len(Load(f)) \in Nat
<1>1. Len(f) \in Nat
  OBVIOUS
<1>2. Load(f) \in Seq(Message)
  BY <1>1, LoadSteps DEF Loads
<1> QED
  BY <1>2

LEMMA LoadEmpty == Load(<<>>) = <<>>
<1>1. <<>> \in Seq(Token) /\ Len(<<>>) = 0
  OBVIOUS
<1> QED
  BY <1>1, LoadSteps DEF Loads

(* Every message that Load returns is that of a record of the file.         *)
RecordedIn(f) ==
  {s \in Seq(Message) : \A k \in 1 .. Len(s) :
     \E i \in 1 .. Len(f) : f[i].kind = "record" /\ f[i].msg = s[k]}

LEMMA LoadedIsRecorded ==
  ASSUME NEW f \in Seq(Token)
  PROVE  Load(f) \in RecordedIn(f)
<1>1. PICK h : Loads(h, f)
  BY LoadSteps
<1>2. h[0] \in RecordedIn(f) /\ Len(f) \in Nat
  BY <1>1 DEF RecordedIn, Loads
<1>3. ASSUME NEW i \in 1 .. Len(f), h[i - 1] \in RecordedIn(f)
      PROVE  h[i] \in RecordedIn(f)
  <2> DEFINE s == h[i - 1]
  <2>1. s \in Seq(Message) /\ f[i] \in Token
    BY <1>3 DEF RecordedIn
  <2>2. CASE ~Readable(f, i)
    BY <1>1, <1>3, <2>2 DEF LoadStep, Loads
  <2>3. CASE Readable(f, i)
    <3>1. f[i].kind = "record" /\ f[i].msg \in Message
      BY <2>1, <2>3, TokenKinds DEF Readable
    <3>2. h[i] = Append(s, f[i].msg)
      BY <1>1, <2>3 DEF LoadStep, Loads
    <3>3. ASSUME NEW k \in 1 .. Len(Append(s, f[i].msg))
          PROVE  \E j \in 1 .. Len(f) : f[j].kind = "record" /\ f[j].msg = Append(s, f[i].msg)[k]
      <4> HIDE DEF s
      <4>1. CASE k \in 1 .. Len(s)
        <5>1. Append(s, f[i].msg)[k] = s[k]
          BY <2>1, <3>1, <4>1, Appending
        <5> QED
          BY <1>3, <4>1, <5>1 DEF RecordedIn, s
      <4>2. CASE k = Len(s) + 1
        BY <2>1, <3>1, <4>2, Appending
      <4>3. k \in 1 .. Len(s) \/ k = Len(s) + 1
        BY <2>1, <3>1, Appending
      <4> QED
        BY <4>1, <4>2, <4>3
    <3>4. Append(s, f[i].msg) \in Seq(Message)
      BY <2>1, <3>1, Appending
    <3> HIDE DEF s
    <3> QED
      BY <3>2, <3>3, <3>4 DEF RecordedIn
  <2> QED
    BY <2>2, <2>3
<1>4. \A i \in 0 .. Len(f) : h[i] \in RecordedIn(f)
  BY <1>2, <1>3, StepsStay
<1> QED
  BY <1>1, <1>2, <1>4 DEF Loads

Agree(f, g, n) == n <= Len(f) /\ n <= Len(g) /\ \A i \in 1 .. n : g[i] = f[i]

(* The steps of a file and of one that begins with it are the same.         *)
LEMMA SameSteps ==
  ASSUME NEW f \in Seq(Token), NEW g \in Seq(Token), NEW n \in Nat,
         Agree(f, g, n), LineByLine(f), LineByLine(g),
         NEW hf, NEW hg, Loads(hf, f), Loads(hg, g)
  PROVE  hf[n] = hg[n]
<1> DEFINE S == {i \in 0 .. n : hf[i] = hg[i]}
<1>1. 0 \in S /\ S \in SUBSET (0 .. n)
  BY DEF Loads
<1>2. ASSUME NEW i \in 1 .. n, i - 1 \in S
      PROVE  i \in S
  <2>1. i \in 1 .. Len(f) /\ i \in 1 .. Len(g) /\ g[i] = f[i]
    BY DEF Agree
  <2>2. Readable(f, i) <=> Readable(g, i)
    BY <2>1, RecordsAreReadable
  <2>3. hf[i - 1] = hg[i - 1]
    BY <1>2
  <2>4. LoadStep(f, hf[i - 1], i) = LoadStep(g, hg[i - 1], i)
    BY <2>1, <2>2, <2>3 DEF LoadStep
  <2> QED
    BY <2>1, <2>4 DEF Loads
<1> HIDE DEF S
<1>3. S = 0 .. n
  BY <1>1, <1>2, BoundedInduction
<1> QED
  BY <1>3 DEF S

(* A token more.                                                            *)
LEMMA LoadAppend ==
  ASSUME NEW f \in Seq(Token), NEW t \in Token, LineByLine(f), LineByLine(Append(f, t))
  PROVE  Load(Append(f, t)) = IF t.kind = "record" THEN Append(Load(f), t.msg) ELSE Load(f)
<1> DEFINE g == Append(f, t)
           n == Len(f)
<1>1. /\ g \in Seq(Token) /\ Len(g) = n + 1 /\ n \in Nat /\ g[n + 1] = t
      /\ \A i \in 1 .. n : g[i] = f[i]
  BY Appending
<1>2. LineByLine(g)
  OBVIOUS
<1> HIDE DEF g
<1>3. PICK hf : Loads(hf, f)
  BY LoadSteps
<1>4. PICK hg : Loads(hg, g)
  BY <1>1, LoadSteps
<1>5. hf[n] = hg[n]
  <2>1. Agree(f, g, n)
    BY <1>1 DEF Agree
  <2> HIDE DEF n
  <2> QED
    BY <1>1, <1>2, <1>3, <1>4, <2>1, SameSteps
<1>6. n + 1 \in 1 .. Len(g) /\ (n + 1) - 1 = n
  BY <1>1
<1>7. Load(g) = LoadStep(g, hg[n], n + 1)
  BY <1>1, <1>4, <1>6 DEF Loads
<1>8. Readable(g, n + 1) <=> t.kind = "record"
  BY <1>1, <1>2, <1>6, RecordsAreReadable
<1> QED
  BY <1>1, <1>3, <1>5, <1>7, <1>8 DEF LoadStep, g, Loads

(* What Load returns of the beginning of a file is the beginning of what it *)
(* returns of the file.                                                     *)
Extends(long, short) ==
  /\ long \in Seq(Message) /\ short \in Seq(Message) /\ Len(short) <= Len(long)
  /\ short = SubSeq(long, 1, Len(short))

LEMMA ExtendsItself ==
  ASSUME NEW s \in Seq(Message) PROVE Extends(s, s)
  BY DEF Extends

LEMMA AppendExtends ==
  ASSUME NEW s, NEW b, NEW m \in Message, Extends(s, b)
  PROVE  Extends(Append(s, m), b)
<1>1. /\ s \in Seq(Message) /\ b \in Seq(Message) /\ Len(b) <= Len(s)
      /\ Len(b) \in Nat /\ Len(s) \in Nat
      /\ b = SubSeq(s, 1, Len(b))
  BY DEF Extends
<1> DEFINE l == Append(s, m)
<1>2. l \in Seq(Message) /\ Len(l) = Len(s) + 1 /\ \A k \in 1 .. Len(s) : l[k] = s[k]
  BY <1>1, Appending
<1> HIDE DEF l
<1>3. SubSeq(l, 1, Len(b)) = b
  <2>1. SubSeq(l, 1, Len(b)) \in Seq(Message) /\ Len(SubSeq(l, 1, Len(b))) = Len(b)
    BY <1>1, <1>2
  <2>2. ASSUME NEW k \in 1 .. Len(b)
        PROVE  SubSeq(l, 1, Len(b))[k] = b[k]
    <3>1. k \in 1 .. Len(s) /\ SubSeq(l, 1, Len(b))[k] = l[k] /\ SubSeq(s, 1, Len(b))[k] = s[k]
      BY <1>1, <1>2
    <3> QED
      BY <1>1, <1>2, <3>1
  <2> QED
    BY <1>1, <2>1, <2>2
<1> QED
  BY <1>1, <1>2, <1>3 DEF Extends, l

LEMMA LoadExtends ==
  ASSUME NEW f \in Seq(Token), NEW g \in Seq(Token), LineByLine(f), LineByLine(g),
         Len(g) <= Len(f), \A i \in 1 .. Len(g) : g[i] = f[i]
  PROVE  Extends(Load(f), Load(g))
<1>1. PICK hf : Loads(hf, f)
  BY LoadSteps
<1>2. PICK hg : Loads(hg, g)
  BY LoadSteps
<1>3. Len(g) \in Nat /\ Len(f) \in Nat
  OBVIOUS
<1>4. hf[Len(g)] = Load(g)
  <2>1. Agree(f, g, Len(g))
    BY <1>3 DEF Agree
  <2>2. hf[Len(g)] = hg[Len(g)]
    BY <1>1, <1>2, <1>3, <2>1, SameSteps
  <2> QED
    BY <1>2, <2>2 DEF Loads
<1> DEFINE d == Len(f) - Len(g)
           A == {s \in Seq(Message) : Extends(s, Load(g))}
           h == [j \in 0 .. d |-> hf[Len(g) + j]]
<1>5. d \in Nat /\ Len(g) + d = Len(f)
  BY <1>3
<1>6. h[0] \in A
  BY <1>3, <1>4, <1>5, LoadTyped, ExtendsItself
<1>7. ASSUME NEW j \in 1 .. d, h[j - 1] \in A
      PROVE  h[j] \in A
  <2> DEFINE i == Len(g) + j
  <2>1. i \in 1 .. Len(f) /\ i - 1 = Len(g) + (j - 1) /\ j - 1 \in 0 .. d
    BY <1>3, <1>5
  <2>2. h[j] = LoadStep(f, hf[i - 1], i) /\ hf[i - 1] = h[j - 1]
    <3> HIDE DEF d
    <3> QED
      BY <1>1, <1>5, <2>1 DEF Loads
  <2>3. Extends(h[j - 1], Load(g)) /\ h[j - 1] \in Seq(Message)
    BY <1>7
  <2>4. f[i] \in Token
    BY <2>1
  <2> HIDE DEF h, i, d
  <2>5. CASE Readable(f, i)
    <3>1. f[i].msg \in Message
      BY <2>4, <2>5, TokenKinds DEF Readable
    <3>2. h[j] = Append(h[j - 1], f[i].msg)
      BY <2>2, <2>5 DEF LoadStep
    <3> QED
      BY <2>3, <3>1, <3>2, AppendExtends, Appending
  <2>6. CASE ~Readable(f, i)
    BY <1>7, <2>2, <2>6 DEF LoadStep
  <2> QED
    BY <2>5, <2>6
<1>8. h[d] = Load(f)
  BY <1>1, <1>5 DEF Loads
<1> HIDE DEF h, A, d
<1>9. \A j \in 0 .. d : h[j] \in A
  BY <1>5, <1>6, <1>7, StepsStay
<1> QED
  BY <1>5, <1>8, <1>9 DEF A

-----------------------------------------------------------------------------
(* The log in the file.                                                     *)

Below(f, m) == \A i \in 1 .. Len(f) : f[i].kind = "record" => f[i].msg < m

(* The messages of the call in progress that are not in the file come after *)
(* all that are, in their order.                                            *)
OrderInv ==
  /\ Below(file, given + 1)
  /\ \A j \in 1 .. Len(pending) : pending[j] <= given
  /\ \A j, k \in 1 .. Len(pending) : j < k => pending[j] < pending[k]
  /\ \A j \in 1 .. Len(pending) : pc # "newline" \/ j > 1 => Below(file, pending[j])

(* A record is a line of its own, so that what Load returns of the synced   *)
(* part is the beginning of what it returns of any file that keeps it; the   *)
(* part of the log that was promised is in there.                           *)
LogInv ==
  /\ FileInv
  /\ LineByLine(file)
  /\ OrderInv
  /\ durable \in Nat /\ durable <= Len(Load(SubSeq(file, 1, synced)))

LEMMA LineByLineAppend ==
  ASSUME NEW f \in Seq(Token), NEW t \in Token, LineByLine(f), EndsLine(f) \/ t = LineEnd
  PROVE  LineByLine(Append(f, t))
<1> DEFINE g == Append(f, t)
<1>1. Len(g) = Len(f) + 1 /\ Len(f) \in Nat /\ g[Len(f) + 1] = t /\ \A i \in 1 .. Len(f) : g[i] = f[i]
  BY Appending
<1> HIDE DEF g
<1>2. ASSUME NEW i \in 1 .. Len(g), i + 1 <= Len(g), g[i] # LineEnd
      PROVE  g[i + 1] = LineEnd
  <2>1. i \in 1 .. Len(f) /\ g[i] = f[i]
    BY <1>1, <1>2
  <2>2. CASE i + 1 <= Len(f)
    BY <1>1, <1>2, <2>1, <2>2 DEF LineByLine
  <2>3. CASE i = Len(f)
    BY <1>1, <1>2, <2>1, <2>3 DEF EndsLine
  <2> QED
    BY <1>1, <2>1, <2>2, <2>3
<1> QED
  BY <1>2 DEF LineByLine, g

LEMMA LineByLineCut ==
  ASSUME NEW f \in Seq(Token), NEW n \in 0 .. Len(f), LineByLine(f)
  PROVE  /\ SubSeq(f, 1, n) \in Seq(Token) /\ Len(SubSeq(f, 1, n)) = n
         /\ \A i \in 1 .. n : SubSeq(f, 1, n)[i] = f[i]
         /\ LineByLine(SubSeq(f, 1, n))
<1> DEFINE g == SubSeq(f, 1, n)
<1>1. /\ g \in Seq(Token) /\ Len(g) = n /\ n \in Nat /\ n <= Len(f)
      /\ \A i \in 1 .. n : g[i] = f[i]
  OBVIOUS
<1> HIDE DEF g
<1>2. LineByLine(g)
  BY <1>1 DEF LineByLine
<1> QED
  BY <1>1, <1>2 DEF g

LEMMA BelowAppend ==
  ASSUME NEW f \in Seq(Token), NEW t \in Token, NEW m, Below(f, m),
         t.kind = "record" => t.msg < m
  PROVE  Below(Append(f, t), m)
<1> DEFINE g == Append(f, t)
<1>1. Len(g) = Len(f) + 1 /\ Len(f) \in Nat /\ g[Len(f) + 1] = t /\ \A i \in 1 .. Len(f) : g[i] = f[i]
  BY Appending
<1> HIDE DEF g
<1>2. \A i \in 1 .. Len(g) : i \in 1 .. Len(f) \/ i = Len(f) + 1
  BY <1>1
<1> QED
  BY <1>1, <1>2 DEF Below, g

LEMMA BelowLoaded ==
  ASSUME NEW f \in Seq(Token), NEW m, Below(f, m)
  PROVE  \A k \in 1 .. Len(Load(f)) : Load(f)[k] < m
<1>1. Load(f) \in RecordedIn(f)
  BY LoadedIsRecorded
<1> QED
  BY <1>1 DEF RecordedIn, Below

(* A file that keeps the first n tokens keeps what was promised in them.    *)
LEMMA PromiseKept ==
  ASSUME NEW f \in Seq(Token), NEW g \in Seq(Token), LineByLine(f), LineByLine(g),
         NEW n \in 0 .. Len(f), NEW k \in n .. Len(g), Agree(f, g, n)
  PROVE  Len(Load(SubSeq(f, 1, n))) <= Len(Load(SubSeq(g, 1, k)))
<1>1. n \in 0 .. Len(g) /\ k \in 0 .. Len(g) /\ n \in Nat /\ n <= k
  BY DEF Agree
<1> DEFINE a == SubSeq(f, 1, n)
           b == SubSeq(g, 1, k)
<1>2. a \in Seq(Token) /\ Len(a) = n /\ LineByLine(a) /\ \A i \in 1 .. n : a[i] = f[i]
  BY LineByLineCut
<1>3. b \in Seq(Token) /\ Len(b) = k /\ LineByLine(b) /\ \A i \in 1 .. k : b[i] = g[i]
  BY <1>1, LineByLineCut
<1> HIDE DEF a, b
<1>4. Len(a) <= Len(b) /\ \A i \in 1 .. Len(a) : a[i] = b[i]
  BY <1>1, <1>2, <1>3 DEF Agree
<1>5. Extends(Load(b), Load(a))
  BY <1>2, <1>3, <1>4, LoadExtends
<1> QED
  BY <1>5 DEF Extends, a, b

LEMMA GrowthAgrees ==
  ASSUME NEW f \in Seq(Token), NEW t \in Token, NEW n \in 0 .. Len(f)
  PROVE  /\ Append(f, t) \in Seq(Token) /\ n \in n .. Len(Append(f, t))
         /\ Agree(f, Append(f, t), n)
<1>1. /\ Append(f, t) \in Seq(Token) /\ Len(Append(f, t)) = Len(f) + 1
      /\ \A i \in 1 .. Len(f) : Append(f, t)[i] = f[i]
  BY Appending
<1> QED
  BY <1>1 DEF Agree

(* A token more at the end of the file.                                     *)
LEMMA GrowthKeepsPromise ==
  ASSUME LogInv, NEW t \in Token, EndsLine(file) \/ t = LineEnd,
         file' = Append(file, t), UNCHANGED <<synced, durable>>
  PROVE  /\ LineByLine(file')
         /\ durable' \in Nat /\ durable' <= Len(Load(SubSeq(file', 1, synced')))
         /\ Load(file') = IF t.kind = "record" THEN Append(Load(file), t.msg) ELSE Load(file)
<1>1. file \in Seq(Token) /\ synced \in 0 .. Len(file) /\ LineByLine(file)
  BY DEF LogInv, FileInv, FileTypes
<1>2. LineByLine(Append(file, t))
  BY <1>1, LineByLineAppend
<1>3. Len(Load(SubSeq(file, 1, synced))) <= Len(Load(SubSeq(Append(file, t), 1, synced)))
  BY <1>1, <1>2, GrowthAgrees, PromiseKept
<1>4. /\ SubSeq(file, 1, synced) \in Seq(Token) /\ SubSeq(Append(file, t), 1, synced) \in Seq(Token)
  <2>1. synced \in 0 .. Len(Append(file, t)) /\ Append(file, t) \in Seq(Token)
    BY <1>1, GrowthAgrees
  <2> QED
    BY <1>1, <1>2, <2>1, LineByLineCut
<1>5. /\ Len(Load(SubSeq(file, 1, synced))) \in Nat
      /\ Len(Load(SubSeq(Append(file, t), 1, synced))) \in Nat
  BY <1>4, LoadTyped
<1>6. durable <= Len(Load(SubSeq(Append(file, t), 1, synced)))
  BY <1>3, <1>5 DEF LogInv
<1>7. Load(Append(file, t)) = IF t.kind = "record" THEN Append(Load(file), t.msg) ELSE Load(file)
  BY <1>1, <1>2, LoadAppend
<1> QED
  BY <1>2, <1>6, <1>7 DEF LogInv

-----------------------------------------------------------------------------
LogStutters == Load(file') = Load(file) /\ durable' = durable

LEMMA LogInit == Init => LogInv /\ Load(file) = <<>>
<1> SUFFICES ASSUME Init PROVE LogInv /\ Load(file) = <<>>
  OBVIOUS
<1>1. file = <<>> /\ synced = 0 /\ pending = <<>> /\ durable = 0 /\ given = 0
  BY DEF Init
<1>2. SubSeq(file, 1, synced) = <<>>
  BY <1>1
<1>3. LineByLine(file) /\ OrderInv
  BY <1>1 DEF LineByLine, OrderInv, Below
<1> QED
  BY <1>1, <1>2, <1>3, FileInit, LoadEmpty DEF LogInv

LEMMA LogAppend ==
  ASSUME LogInv, NEW n \in 0 .. MaxBatch, AppendMessages(n)
  PROVE  LogInv' /\ LogStutters
<1>1. UNCHANGED <<file, synced, durable>> /\ pc' = "repair"
  BY DEF AppendMessages, Goto, fileVars, historyVars
<1>2. FileInv'
  BY AppendStep DEF LogInv
<1>3. n \in Nat /\ given \in Nat /\ given' = given + n /\ file \in Seq(Token)
  BY DEF AppendMessages, LogInv, FileInv, FileTypes
<1>4. Len(pending') = n /\ \A j \in 1 .. n : pending'[j] = given + j
  BY <1>3 DEF AppendMessages
<1>5. \A i \in 1 .. Len(file) : file[i].kind = "record" => file[i].msg \in Nat /\ file[i].msg < given + 1
  <2>1. ASSUME NEW i \in 1 .. Len(file), file[i].kind = "record"
        PROVE  file[i].msg \in Nat
    <3>1. file[i] \in Token
      BY <1>3
    <3> QED
      BY <2>1, <3>1, TokenKinds DEF Message
  <2> QED
    BY <2>1 DEF LogInv, OrderInv, Below
<1>6. \A m \in Nat : m > given => Below(file, m)
  BY <1>3, <1>5 DEF Below
<1>7. OrderInv'
  <2>1. Below(file', given' + 1)
    BY <1>1, <1>3, <1>6
  <2>2. ASSUME NEW j \in 1 .. Len(pending')
        PROVE  pending'[j] \in Nat /\ pending'[j] > given /\ pending'[j] <= given'
    BY <1>3, <1>4
  <2>3. \A j, k \in 1 .. Len(pending') : j < k => pending'[j] < pending'[k]
    BY <1>3, <1>4
  <2> QED
    BY <1>1, <1>6, <2>1, <2>2, <2>3 DEF OrderInv
<1> QED
  BY <1>1, <1>2, <1>7 DEF LogInv, LogStutters

LEMMA LogRepair ==
  ASSUME LogInv, EnsureTrailingNewline
  PROVE  LogInv' /\ LogStutters
<1>1. /\ UNCHANGED <<synced, durable, pending, given>> /\ pc = "repair"
      /\ pc' \in {"sync", "line"} /\ file' \in {file, Append(file, LineEnd)}
  BY DEF EnsureTrailingNewline, Goto, historyVars, NextWrite
<1>2. FileInv'
  BY RepairStep DEF LogInv
<1>3. file \in Seq(Token) /\ LineEnd \in Token /\ LineEnd.kind # "record"
  BY TokensAreTokens, TokenKinds DEF LogInv, FileInv, FileTypes
<1>4. /\ LineByLine(file') /\ durable' \in Nat
      /\ durable' <= Len(Load(SubSeq(file', 1, synced'))) /\ Load(file') = Load(file)
  <2>1. CASE file' = file
    BY <1>1, <2>1 DEF LogInv
  <2>2. CASE file' = Append(file, LineEnd)
    BY <1>1, <1>3, <2>2, GrowthKeepsPromise
  <2> QED
    BY <1>1, <2>1, <2>2
<1>5. ASSUME NEW m, Below(file, m) PROVE Below(file', m)
  BY <1>1, <1>3, <1>5, BelowAppend
<1>6. OrderInv'
  BY <1>1, <1>5 DEF LogInv, OrderInv
<1> QED
  BY <1>1, <1>2, <1>4, <1>6 DEF LogInv, LogStutters

LEMMA LogNewline ==
  ASSUME LogInv, WriteNewline
  PROVE  LogInv' /\ LogStutters
<1>1. /\ UNCHANGED <<synced, durable, given>> /\ pc = "newline" /\ pending' = Tail(pending)
      /\ pc' \in {"sync", "line"} /\ file' = Append(file, LineEnd)
  BY DEF WriteNewline, Goto, historyVars, NextWrite
<1>2. FileInv'
  BY NewlineStep DEF LogInv
<1>3. file \in Seq(Token) /\ LineEnd \in Token /\ LineEnd.kind # "record"
  BY TokensAreTokens, TokenKinds DEF LogInv, FileInv, FileTypes
<1>4. /\ LineByLine(file') /\ durable' \in Nat
      /\ durable' <= Len(Load(SubSeq(file', 1, synced'))) /\ Load(file') = Load(file)
  BY <1>1, <1>3, GrowthKeepsPromise
<1>5. ASSUME NEW m, Below(file, m) PROVE Below(file', m)
  BY <1>1, <1>3, <1>5, BelowAppend
<1>6. /\ pending \in Seq(Message) /\ pending # <<>>
      /\ \A j \in 1 .. Len(pending') : j + 1 \in 1 .. Len(pending) /\ pending'[j] = pending[j + 1]
  <2>1. pending \in Seq(Message) /\ pending # <<>>
    BY <1>1 DEF LogInv, FileInv, FileTypes
  <2> QED
    BY <1>1, <2>1
<1>7. OrderInv'
  <2>1. Below(file', given' + 1)
    BY <1>1, <1>5 DEF LogInv, OrderInv
  <2>2. \A j \in 1 .. Len(pending') : pending'[j] <= given' /\ Below(file', pending'[j])
    BY <1>1, <1>5, <1>6 DEF LogInv, OrderInv
  <2>3. \A j, k \in 1 .. Len(pending') : j < k => pending'[j] < pending'[k]
    BY <1>6 DEF LogInv, OrderInv
  <2> QED
    BY <2>1, <2>2, <2>3 DEF OrderInv
<1> QED
  BY <1>1, <1>2, <1>4, <1>7 DEF LogInv, LogStutters

(* A record is the next message of the log.                                 *)
LEMMA LogLine ==
  ASSUME LogInv, WriteLine
  PROVE  LogInv' /\ Abstract!Put
<1> DEFINE m == Head(pending)
<1>1. /\ UNCHANGED <<synced, durable, given, pending>> /\ pc = "line" /\ pc' = "newline"
      /\ file' = Append(file, Record(m))
  BY DEF WriteLine, Goto, historyVars
<1>2. FileInv'
  BY LineStep DEF LogInv
<1>3. /\ file \in Seq(Token) /\ pending \in Seq(Message) /\ pending # <<>> /\ EndsLine(file)
      /\ given \in Nat
  BY <1>1 DEF LogInv, FileInv, FileTypes
<1>4. m \in Message /\ 1 \in 1 .. Len(pending) /\ m = pending[1]
  BY <1>3
<1>5. Record(m) \in Token /\ Record(m).kind = "record" /\ Record(m).msg = m
  BY <1>4, TokensAreTokens DEF Record
<1> HIDE DEF m
<1>6. /\ LineByLine(file') /\ durable' \in Nat
      /\ durable' <= Len(Load(SubSeq(file', 1, synced'))) /\ Load(file') = Append(Load(file), m)
  BY <1>1, <1>3, <1>5, GrowthKeepsPromise
<1>7. Below(file, m)
  BY <1>1, <1>4 DEF LogInv, OrderInv
<1>8. ASSUME NEW k, Below(file, k), m < k PROVE Below(file', k)
  BY <1>1, <1>3, <1>5, <1>8, BelowAppend
<1>9. OrderInv'
  <2>1. m < given + 1
    <3>1. m <= given /\ m \in Nat
      BY <1>4 DEF LogInv, OrderInv, Message
    <3> QED
      BY <1>3, <3>1
  <2>2. Below(file', given' + 1)
    BY <1>1, <1>8, <2>1 DEF LogInv, OrderInv
  <2>3. ASSUME NEW j \in 1 .. Len(pending), j > 1
        PROVE  Below(file', pending[j])
    <3>1. m < pending[j]
      BY <1>4, <2>3 DEF LogInv, OrderInv
    <3>2. Below(file, pending[j])
      BY <2>3 DEF LogInv, OrderInv
    <3> QED
      BY <1>8, <3>1, <3>2
  <2> QED
    BY <1>1, <2>2, <2>3 DEF LogInv, OrderInv
<1>10. Abstract!Put
  <2>1. \A i \in DOMAIN Load(file) : Load(file)[i] < m
    <3>1. DOMAIN Load(file) = 1 .. Len(Load(file))
      BY <1>3, LoadTyped
    <3> QED
      BY <1>3, <1>7, <3>1, BelowLoaded
  <2> QED
    BY <1>1, <1>4, <1>6, <2>1 DEF Abstract!Put
<1> QED
  BY <1>1, <1>2, <1>6, <1>9, <1>10 DEF LogInv

LEMMA LogSync ==
  ASSUME LogInv, Sync
  PROVE  LogInv' /\ Abstract!Acknowledge
<1>1. /\ UNCHANGED <<file, pending, given>> /\ pc = "sync" /\ pc' = "idle"
      /\ synced' = Len(file) /\ durable' = Len(Load(file))
  BY DEF Sync, Goto
<1>2. FileInv'
  BY SyncStep DEF LogInv
<1>3. file \in Seq(Token)
  BY DEF LogInv, FileInv, FileTypes
<1>4. SubSeq(file', 1, synced') = file
  BY <1>1, <1>3
<1>5. durable' \in Nat /\ durable' <= Len(Load(SubSeq(file', 1, synced')))
  <2>1. Len(Load(file)) \in Nat
    BY <1>3, LoadTyped
  <2>2. Len(Load(SubSeq(file', 1, synced'))) = Len(Load(file))
    BY <1>4
  <2> QED
    BY <1>1, <2>1, <2>2
<1>6. LineByLine(file') /\ OrderInv'
  BY <1>1 DEF LogInv, OrderInv
<1> QED
  BY <1>1, <1>2, <1>5, <1>6 DEF LogInv, Abstract!Acknowledge

LEMMA LogInterrupt ==
  ASSUME LogInv, Interrupt
  PROVE  LogInv' /\ LogStutters
<1>1. /\ UNCHANGED <<synced, durable, given>> /\ pending' = <<>> /\ pc' = "idle"
      /\ file' = file \/ (pc = "line" /\ file' = Append(file, Torn))
  BY DEF Interrupt, Abort, historyVars
<1>2. FileInv'
  BY InterruptStep DEF LogInv
<1>3. file \in Seq(Token) /\ Torn \in Token /\ Torn.kind # "record" /\ (pc = "line" => EndsLine(file))
  BY TokensAreTokens, TokenKinds DEF LogInv, FileInv, FileTypes
<1>4. /\ LineByLine(file') /\ durable' \in Nat
      /\ durable' <= Len(Load(SubSeq(file', 1, synced'))) /\ Load(file') = Load(file)
  <2>1. CASE file' = file
    BY <1>1, <2>1 DEF LogInv
  <2>2. CASE pc = "line" /\ file' = Append(file, Torn)
    BY <1>1, <1>3, <2>2, GrowthKeepsPromise
  <2> QED
    BY <1>1, <2>1, <2>2
<1>5. Below(file', given' + 1)
  BY <1>1, <1>3, BelowAppend DEF LogInv, OrderInv
<1>6. OrderInv'
  BY <1>1, <1>5 DEF OrderInv
<1> QED
  BY <1>1, <1>2, <1>4, <1>6 DEF LogInv, LogStutters

(* A crash leaves a beginning of the log that holds what was promised.      *)
LEMMA LogCrash ==
  ASSUME LogInv, MachineCrash
  PROVE  LogInv' /\ Abstract!Lose
<1>1. /\ UNCHANGED <<durable, given>> /\ pending' = <<>> /\ pc' = "idle"
      /\ synced' = Len(file')
  BY DEF MachineCrash, Abort, historyVars
<1>2. FileInv'
  BY CrashStep DEF LogInv
<1>3. /\ file \in Seq(Token) /\ synced \in 0 .. Len(file) /\ LineByLine(file)
      /\ Torn \in Token /\ Torn.kind # "record"
  BY TokensAreTokens, TokenKinds DEF LogInv, FileInv, FileTypes
<1>4. PICK n \in synced .. Len(file) : file' \in Cuts(n)
  BY DEF MachineCrash
<1>5. n \in 0 .. Len(file) /\ n \in Nat /\ synced <= n
  BY <1>3, <1>4
<1> DEFINE g == SubSeq(file, 1, n)
<1>6. /\ g \in Seq(Token) /\ Len(g) = n /\ LineByLine(g)
      /\ \A i \in 1 .. n : g[i] = file[i]
  BY <1>3, <1>5, LineByLineCut
<1>7. \/ file' = g
      \/ n < Len(file) /\ file[n + 1] # LineEnd /\ file' = Append(g, Torn)
  BY <1>4 DEF Cuts
<1> HIDE DEF g
<1>8. file' = Append(g, Torn) /\ n < Len(file) /\ file[n + 1] # LineEnd => EndsLine(g)
  <2> SUFFICES ASSUME n < Len(file), file[n + 1] # LineEnd, n # 0
               PROVE  g[n] = LineEnd
    BY <1>6 DEF EndsLine
  <2>1. n \in 1 .. Len(file) /\ n + 1 <= Len(file) /\ n \in 1 .. n
    BY <1>5
  <2> QED
    BY <1>6, <2>1, <1>3 DEF LineByLine
<1>9. file' \in Seq(Token) /\ LineByLine(file') /\ Load(file') = Load(g)
  <2>1. CASE file' = g
    BY <1>6, <2>1
  <2>2. CASE n < Len(file) /\ file[n + 1] # LineEnd /\ file' = Append(g, Torn)
    <3>1. EndsLine(g)
      BY <1>8, <2>2
    <3>2. LineByLine(Append(g, Torn))
      BY <1>3, <1>6, <3>1, LineByLineAppend
    <3>3. Append(g, Torn) \in Seq(Token) /\ Load(Append(g, Torn)) = Load(g)
      BY <1>3, <1>6, <3>2, LoadAppend, Appending
    <3> QED
      BY <2>2, <3>2, <3>3
  <2> QED
    BY <1>7, <2>1, <2>2
<1>10. Below(g, given + 1)
  BY <1>5, <1>6 DEF LogInv, OrderInv, Below
<1>11. OrderInv'
  <2>1. Below(file', given' + 1)
    BY <1>1, <1>3, <1>6, <1>7, <1>10, BelowAppend
  <2> QED
    BY <1>1, <2>1 DEF OrderInv
<1>12. Extends(Load(file), Load(g))
  BY <1>3, <1>5, <1>6, LoadExtends
<1>13. durable \in Nat /\ durable <= Len(Load(g))
  <2>1. Agree(file, file, synced) /\ n \in synced .. Len(file)
    BY <1>3, <1>4 DEF Agree
  <2>2. Len(Load(SubSeq(file, 1, synced))) <= Len(Load(g))
    BY <1>3, <2>1, PromiseKept DEF g
  <2>3. SubSeq(file, 1, synced) \in Seq(Token)
    BY <1>3, LineByLineCut
  <2> QED
    BY <1>6, <2>2, <2>3, LoadTyped DEF LogInv
<1>14. durable' \in Nat /\ durable' <= Len(Load(SubSeq(file', 1, synced')))
  <2>1. SubSeq(file', 1, synced') = file'
    BY <1>1, <1>9
  <2> QED
    BY <1>1, <1>9, <1>13, <2>1
<1>15. Abstract!Lose
  <2>1. /\ Len(Load(g)) \in durable .. Len(Load(file))
        /\ Load(file') = SubSeq(Load(file), 1, Len(Load(g)))
    BY <1>3, <1>6, <1>9, <1>12, <1>13, LoadTyped DEF Extends
  <2> QED
    BY <1>1, <2>1 DEF Abstract!Lose
<1> QED
  BY <1>1, <1>2, <1>9, <1>11, <1>14, <1>15 DEF LogInv

LEMMA LogDelete ==
  ASSUME LogInv, Delete
  PROVE  LogInv' /\ Abstract!Forget
<1>1. /\ UNCHANGED <<pc, pending, given>> /\ pc = "idle"
      /\ file' = <<>> /\ synced' = 0 /\ durable' = 0
  BY DEF Delete, callVars
<1>2. FileInv'
  BY FileStep DEF LogInv, Next
<1>3. SubSeq(file', 1, synced') = <<>> /\ Len(Load(<<>>)) = 0
  BY <1>1, LoadEmpty
<1>4. LineByLine(file') /\ OrderInv'
  BY <1>1 DEF LineByLine, LogInv, OrderInv, Below
<1> QED
  BY <1>1, <1>2, <1>3, <1>4, LoadEmpty DEF LogInv, Abstract!Forget

LEMMA LogStep ==
  ASSUME LogInv, [Next]_vars
  PROVE  LogInv' /\ (LogStutters \/ Abstract!Next)
<1>1. CASE UNCHANGED vars
  <2>1. FileInv'
    BY <1>1, FileStep DEF LogInv
  <2> QED
    BY <1>1, <2>1 DEF vars, fileVars, callVars, historyVars, LogInv, OrderInv, LogStutters
<1> QED
  BY <1>1, LogAppend, LogRepair, LogLine, LogNewline, LogSync, LogInterrupt, LogCrash, LogDelete
     DEF Next, Abstract!Next

(* A JSONLSession is the log that SessionRepo promises: what Load returns    *)
(* grows at its end in the order of the calls, and a crash loses no part of  *)
(* it that an Append which returned nil has promised (session/jsonl.go:44-75,*)
(* 77-104).                                                                 *)
THEOREM FileImplementsLog == Spec => ImplementsLog
<1>1. Init => LogInv /\ Abstract!Init
  BY LogInit DEF Init, Abstract!Init
<1>2. LogInv /\ [Next]_vars => LogInv'
  BY LogStep
<1>3. LogInv /\ [Next]_vars => [Abstract!Next]_(Abstract!logVars)
  BY LogStep DEF LogStutters, Abstract!logVars
<1> QED
  BY <1>1, <1>2, <1>3, PTL DEF Spec, ImplementsLog, Abstract!Spec
=============================================================================
