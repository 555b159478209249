--------------------------- MODULE TextToolsProofs ---------------------------
(***************************************************************************)
(* TLAPS proofs about TextTools, for texts of any length and any limits.    *)
(* The capture of a call and these jobs use the same lines, truncation and  *)
(* totals: the lemmas about them are those of BashToolProofs.               *)
(***************************************************************************)
EXTENDS BashToolProofs, TextTools

-----------------------------------------------------------------------------
(* Joining lines.                                                           *)

\* JoinLines, line by line
JoinsInSteps(h, lines) ==
  /\ h[1] = lines[1]
  /\ \A i \in 2 .. Len(lines) : h[i] = h[i - 1] \o <<NL>> \o lines[i]
  /\ JoinLines(lines) = h[Len(lines)]

(* The fold takes one line after the other.                                 *)
LEMMA JoinSteps ==
  ASSUME NEW S, NL \in S, NEW lines \in Lines(S)
  PROVE  \E h : /\ JoinsInSteps(h, lines)
                /\ \A i \in 1 .. Len(lines) : h[i] \in Seq(S)
<1> DEFINE rest == Tail(lines)
           n == Len(rest)
           Op(text, line) == text \o <<NL>> \o line
           base == Head(lines)
           step == [x \in (1 .. n) \X Seq(S) |-> Op(x[2], rest[x[1]])]
           Sol(g) == g = [t \in SUBSET (1 .. n) |->
                        IF t = {} THEN base ELSE Op(g[t \ {Max(t)}], rest[Max(t)])]
           iter == CHOOSE g : Sol(g)
<1>0. /\ lines \in Seq(Seq(S)) /\ lines # <<>> /\ Len(lines) \in Nat \ {0}
      /\ \A k \in 1 .. Len(lines) : lines[k] \in Seq(S)
  BY LinesFacts DEF Lines
<1>1. /\ rest \in Seq(Seq(S)) /\ n = Len(lines) - 1 /\ n \in Nat /\ DOMAIN rest = 1 .. n
      /\ base = lines[1] /\ base \in Seq(S)
      /\ \A i \in 1 .. n : rest[i] = lines[i + 1] /\ rest[i] \in Seq(S)
  BY <1>0, HeadTailProperties
<1> HIDE DEF rest, n, base
<1>a. ASSUME NEW text \in Seq(S), NEW line \in Seq(S)
      PROVE  Op(text, line) \in Seq(S)
  <2>1. <<NL>> \in Seq(S)
    OBVIOUS
  <2> QED
    BY <2>1
<1>2. step \in [(1 .. n) \X Seq(S) -> Seq(S)]
  <2> HIDE DEF Op
  <2> QED
    BY <1>1, <1>a
<1>3. \E g : Sol(g)
  <2> HIDE DEF step, Op
  <2>1. PICK g \in [SUBSET (1 .. n) -> Seq(S)] : IsSequenceFold(g, n, base, step)
    BY <1>1, <1>2, SequenceFoldExists
  <2>2. ASSUME NEW t \in SUBSET (1 .. n), t # {}
        PROVE  step[<<Max(t), g[t \ {Max(t)}]>>] = Op(g[t \ {Max(t)}], rest[Max(t)])
    <3>1. Max(t) \in 1 .. n
      BY <1>1, <2>2, LargestElement
    <3>2. g[t \ {Max(t)}] \in Seq(S)
      BY <2>1
    <3> QED
      BY <3>1, <3>2 DEF step
  <2>3. Sol(g)
    BY <2>1, <2>2 DEF IsSequenceFold
  <2> QED
    BY <2>3
<1>4. Sol(iter)
  <2> HIDE DEF Sol
  <2> QED
    BY <1>3
<1>5. JoinLines(lines) = iter[1 .. n]
  <2>1. JoinLines(lines) = FoldLeft(LAMBDA text, line : text \o <<NL>> \o line, base, rest)
    BY <1>0 DEF JoinLines, base, rest
  <2>2. JoinLines(lines) = iter[DOMAIN rest]
    BY <1>1, <2>1 DEF FoldLeft, MapThenFoldSet
  <2> QED
    BY <1>1, <2>2
<1> HIDE DEF iter
<1> DEFINE h == [i \in 1 .. n + 1 |-> iter[1 .. i - 1]]
<1>6. h[1] = base
  <2>1. h[1] = iter[1 .. 0]
    BY <1>1
  <2> HIDE DEF Op
  <2> QED
    BY <1>1, <1>4, <2>1, PrefixIntervals
<1>7. ASSUME NEW i \in 2 .. n + 1
      PROVE  h[i] = h[i - 1] \o <<NL>> \o lines[i]
  <2> DEFINE j == i - 1
  <2>1. j \in 1 .. n /\ j + 1 = i /\ i \in 1 .. n + 1 /\ i - 1 \in 1 .. n + 1
    BY <1>1
  <2>2. h[i] = iter[1 .. j] /\ h[i - 1] = iter[1 .. j - 1]
    BY <2>1
  <2> HIDE DEF j, h
  <2>3. /\ 1 .. j \in SUBSET (1 .. n) /\ 1 .. j # {}
        /\ Max(1 .. j) = j /\ (1 .. j) \ {j} = 1 .. j - 1
    BY <1>1, <2>1, PrefixIntervals
  <2>4. iter[1 .. j] = Op(iter[1 .. j - 1], rest[j])
    <3> HIDE DEF Op
    <3> QED
      BY <1>4, <2>3
  <2>5. rest[j] = lines[i]
    BY <1>1, <2>1
  <2> QED
    BY <2>2, <2>4, <2>5
<1>8. h[n + 1] = iter[1 .. n]
  <2>1. n + 1 \in 1 .. n + 1 /\ (n + 1) - 1 = n
    BY <1>1
  <2> QED
    BY <2>1
<1> HIDE DEF h
<1>9. \A i \in 1 .. n + 1 : h[i] \in Seq(S)
  <2> DEFINE Good == {i \in 0 .. n : h[i + 1] \in Seq(S)}
  <2>1. 0 \in Good
    BY <1>1, <1>6
  <2>2. ASSUME NEW i \in 1 .. n, i - 1 \in Good
        PROVE  i \in Good
    <3>1. i + 1 \in 2 .. n + 1 /\ (i + 1) - 1 = i /\ (i - 1) + 1 = i
      BY <1>1
    <3>2. h[i] \in Seq(S) /\ rest[i] \in Seq(S) /\ rest[i] = lines[i + 1]
      BY <1>1, <2>2, <3>1
    <3>3. h[i + 1] = Op(h[i], rest[i])
      BY <1>7, <3>1, <3>2
    <3>4. h[i + 1] \in Seq(S)
      <4> HIDE DEF Op
      <4> QED
        BY <1>a, <3>2, <3>3
    <3> QED
      BY <3>4
  <2>3. Good \in SUBSET (0 .. n)
    OBVIOUS
  <2> HIDE DEF Good
  <2>4. Good = 0 .. n
    BY <1>1, <2>1, <2>2, <2>3, BoundedInduction
  <2>5. ASSUME NEW i \in 1 .. n + 1 PROVE h[i] \in Seq(S)
    <3>1. i - 1 \in Good /\ (i - 1) + 1 = i
      BY <1>1, <2>4
    <3> QED
      BY <3>1 DEF Good
  <2> QED
    BY <2>5
<1>10. n + 1 = Len(lines)
  BY <1>0, <1>1
<1>11. JoinsInSteps(h, lines)
  BY <1>1, <1>5, <1>6, <1>7, <1>8, <1>10 DEF JoinsInSteps
<1> QED
  BY <1>9, <1>10, <1>11

(* Lines and more lines, joined, are the two texts with a newline between.  *)
LEMMA JoinTwo ==
  ASSUME NEW S, NL \in S, NEW a \in Lines(S), NEW b \in Lines(S)
  PROVE  /\ JoinLines(a \o b) = JoinLines(a) \o <<NL>> \o JoinLines(b)
         /\ JoinLines(a) \in Seq(S) /\ JoinLines(b) \in Seq(S)
<1> DEFINE c == a \o b
           n == Len(a)
           m == Len(b)
           nl == <<NL>>
<1>0. /\ a \in Seq(Seq(S)) /\ b \in Seq(Seq(S)) /\ n \in Nat \ {0} /\ m \in Nat \ {0}
  BY LinesFacts
<1>1. /\ c \in Seq(Seq(S)) /\ Len(c) = n + m
      /\ \A k \in 1 .. n : c[k] = a[k]
      /\ \A k \in 1 .. m : c[n + k] = b[k]
  BY <1>0, Concatenation
<1> HIDE DEF c
<1>2. c \in Lines(S)
  <2>1. Len(c) # 0
    BY <1>0, <1>1
  <2> QED
    BY <1>1, <2>1 DEF Lines
<1>3. PICK f : JoinsInSteps(f, a) /\ \A i \in 1 .. n : f[i] \in Seq(S)
  BY JoinSteps
<1>4. PICK g : JoinsInSteps(g, b) /\ \A i \in 1 .. m : g[i] \in Seq(S)
  BY JoinSteps
<1>5. PICK h : JoinsInSteps(h, c) /\ \A i \in 1 .. Len(c) : h[i] \in Seq(S)
  BY <1>2, JoinSteps
<1>6. nl \in Seq(S)
  OBVIOUS
<1> HIDE DEF n, m, nl
<1>7. /\ f[1] = a[1] /\ \A i \in 2 .. n : f[i] = f[i - 1] \o nl \o a[i]
      /\ JoinLines(a) = f[n]
  BY <1>3 DEF JoinsInSteps, n, nl
<1>8. /\ g[1] = b[1] /\ \A i \in 2 .. m : g[i] = g[i - 1] \o nl \o b[i]
      /\ JoinLines(b) = g[m]
  BY <1>4 DEF JoinsInSteps, m, nl
<1>9. /\ h[1] = c[1] /\ \A i \in 2 .. n + m : h[i] = h[i - 1] \o nl \o c[i]
      /\ JoinLines(c) = h[n + m]
  BY <1>1, <1>5 DEF JoinsInSteps, nl
<1>10. h[n] = f[n]
  <2> DEFINE Good == {i \in 1 .. n : h[i] = f[i]}
  <2>1. 1 \in Good /\ Good \in SUBSET (1 .. n) /\ 1 <= n
    <3>1. 1 \in 1 .. n
      BY <1>0
    <3> QED
      BY <1>0, <1>1, <1>7, <1>9, <3>1
  <2>2. ASSUME NEW i \in 1 + 1 .. n, i - 1 \in Good PROVE i \in Good
    <3>1. i \in 2 .. n /\ i \in 2 .. n + m /\ i \in 1 .. n
      BY <1>0
    <3>2. h[i] = h[i - 1] \o nl \o c[i] /\ f[i] = f[i - 1] \o nl \o a[i]
      BY <1>7, <1>9, <3>1
    <3>3. h[i - 1] = f[i - 1] /\ c[i] = a[i]
      BY <1>1, <2>2, <3>1
    <3> QED
      BY <3>1, <3>2, <3>3
  <2> HIDE DEF Good
  <2>3. Good = 1 .. n
    BY <1>0, <2>1, <2>2, IntervalInduction
  <2>4. n \in Good
    BY <1>0, <2>3
  <2> QED
    BY <2>4 DEF Good
<1>11. h[n + m] = f[n] \o nl \o g[m]
  <2> DEFINE x == f[n] \o nl
             Good == {i \in 1 .. m : h[n + i] = x \o g[i]}
  <2>0. f[n] \in Seq(S) /\ x \in Seq(S)
    <3>1. f[n] \in Seq(S)
      BY <1>0, <1>3 DEF n
    <3> QED
      BY <1>6, <3>1
  <2>1. 1 \in Good /\ Good \in SUBSET (1 .. m) /\ 1 <= m
    <3>1. n + 1 \in 2 .. n + m /\ (n + 1) - 1 = n /\ 1 \in 1 .. m
      BY <1>0
    <3>2. h[n + 1] = h[n] \o nl \o c[n + 1] /\ c[n + 1] = b[1]
      BY <1>1, <1>9, <3>1
    <3>3. h[n + 1] = x \o g[1]
      BY <1>8, <1>10, <3>1, <3>2
    <3> HIDE DEF x
    <3> QED
      BY <1>0, <3>1, <3>3
  <2> HIDE DEF x
  <2>2. ASSUME NEW i \in 1 + 1 .. m, i - 1 \in Good PROVE i \in Good
    <3> DEFINE y == g[i - 1]
               z == b[i]
               w == y \o nl
    <3>1. /\ i \in 2 .. m /\ i \in 1 .. m /\ i - 1 \in 1 .. m
          /\ n + i \in 2 .. n + m /\ (n + i) - 1 = n + (i - 1)
      BY <1>0
    <3>2. h[n + (i - 1)] = x \o y
      BY <2>2
    <3>3. h[n + i] = h[n + (i - 1)] \o nl \o c[n + i] /\ g[i] = y \o nl \o z
      BY <1>8, <1>9, <3>1
    <3>4. c[n + i] = z
      BY <1>1, <3>1
    <3>5. y \in Seq(S) /\ z \in Seq(S) /\ w \in Seq(S)
      <4>1. y \in Seq(S) /\ z \in Seq(S)
        BY <1>0, <1>4, <3>1 DEF m
      <4> HIDE DEF y
      <4> QED
        BY <1>6, <4>1
    <3> HIDE DEF y, z
    <3>6. (x \o y) \o nl = x \o w
      <4>1. x \in Seq(S) /\ y \in Seq(S) /\ nl \in Seq(S)
        BY <1>6, <2>0, <3>5
      <4>2. (x \o y) \o nl = x \o (y \o nl)
        BY <4>1, ConcatAssociative
      <4> QED
        BY <4>2
    <3>7. (y \o nl) \o z = w \o z
      OBVIOUS
    <3> HIDE DEF w
    <3>8. (x \o w) \o z = x \o (w \o z)
      BY <2>0, <3>5, ConcatAssociative
    <3>9. h[n + i] = x \o g[i]
      BY <3>2, <3>3, <3>4, <3>6, <3>7, <3>8
    <3> QED
      BY <3>1, <3>9
  <2> HIDE DEF Good
  <2>3. Good = 1 .. m
    BY <1>0, <2>1, <2>2, IntervalInduction
  <2>4. m \in Good
    BY <1>0, <2>3
  <2> QED
    BY <2>4 DEF Good, x
<1>12. f[n] \in Seq(S) /\ g[m] \in Seq(S)
  BY <1>0, <1>3, <1>4 DEF n, m
<1> QED
  BY <1>7, <1>8, <1>9, <1>11, <1>12 DEF c, nl

(* One line, and none.                                                      *)
LEMMA JoinOne ==
  ASSUME NEW S, NL \in S, NEW line \in Seq(S)
  PROVE  <<line>> \in Lines(S) /\ JoinLines(<<line>>) = line /\ Len(<<line>>) = 1
<1>1. <<line>> \in Lines(S) /\ Len(<<line>>) = 1 /\ <<line>>[1] = line
  BY DEF Lines
<1>2. PICK h : JoinsInSteps(h, <<line>>)
  BY <1>1, JoinSteps
<1> QED
  BY <1>1, <1>2 DEF JoinsInSteps

(* How long the joined text is.                                             *)
LEMMA JoinLength ==
  ASSUME NEW S, NL \in S, NEW lines \in Seq(Seq(S)), NEW line \in Seq(S)
  PROVE  LET more == IF lines = <<>> THEN 0 ELSE 1 IN
         /\ JoinLines(lines) \in Seq(S)
         /\ Len(JoinLines(Append(lines, line))) = Len(JoinLines(lines)) + Len(line) + more
         /\ Len(JoinLines(<<line>> \o lines)) = Len(JoinLines(lines)) + Len(line) + more
<1>1. <<line>> \in Lines(S) /\ JoinLines(<<line>>) = line /\ Len(line) \in Nat
  BY JoinOne
<1>2. CASE lines = <<>>
  <2>1. Append(lines, line) = <<line>> /\ <<line>> \o lines = <<line>>
    BY <1>2
  <2>2. JoinLines(lines) = <<>>
    BY <1>2, Zenon DEF JoinLines
  <2>3. <<>> \in Seq(S) /\ Len(<<>>) = 0
    OBVIOUS
  <2>4. /\ JoinLines(lines) \in Seq(S) /\ Len(JoinLines(lines)) = 0
        /\ JoinLines(Append(lines, line)) = line
        /\ JoinLines(<<line>> \o lines) = line
    BY <1>1, <2>1, <2>2, <2>3
  <2>5. Len(line) = 0 + Len(line) + 0
    BY <1>1
  <2> QED
    BY <1>2, <2>4, <2>5
<1>3. CASE lines # <<>>
  <2>1. lines \in Lines(S)
    BY <1>3 DEF Lines
  <2> DEFINE j == JoinLines(lines)
  <2>2. /\ JoinLines(lines \o <<line>>) = j \o <<NL>> \o line
        /\ JoinLines(<<line>> \o lines) = line \o <<NL>> \o j
        /\ j \in Seq(S)
    BY <1>1, <2>1, JoinTwo
  <2>3. Append(lines, line) = lines \o <<line>>
    BY AppendIsConcat
  <2>4. <<NL>> \in Seq(S) /\ Len(<<NL>>) = 1
    OBVIOUS
  <2> HIDE DEF j
  <2>5. Len(j \o <<NL>> \o line) = Len(j) + 1 + Len(line) /\ Len(line \o <<NL>> \o j) = Len(line) + 1 + Len(j)
    BY <2>2, <2>4
  <2>6. Len(j) \in Nat
    BY <2>2
  <2> QED
    BY <1>1, <1>3, <2>2, <2>3, <2>5, <2>6 DEF j
<1> QED
  BY <1>2, <1>3

-----------------------------------------------------------------------------
(* The loop that keeps whole lines, whichever end it begins at.             *)

\* The bytes that the lines take, in this order and in the other.
Takes(lines, bytes) == Len(JoinLines(lines)) = bytes /\ Len(JoinLines(Reverse(lines))) = bytes
Exceeds(lines)      == Len(JoinLines(lines)) > MaxBytes /\ Len(JoinLines(Reverse(lines))) > MaxBytes

\* What the loop has kept of its first i lines: the first ones, which fit, and
\* if it met the limit of bytes, they no longer do with one line more.
Fitting(k, lines, i) ==
  /\ Len(k.lines) \in 0 .. i /\ Len(k.lines) <= MaxLines
  /\ k.lines = SubSeq(lines, 1, Len(k.lines))
  /\ Takes(k.lines, k.bytes) /\ k.bytes <= MaxBytes
  /\ Len(k.lines) > 0 => Len(lines[1]) <= MaxBytes
  /\ k.hitBytes => /\ Len(k.lines) < i /\ Len(k.lines) < MaxLines
                   /\ Exceeds(SubSeq(lines, 1, Len(k.lines) + 1))
  /\ ~k.hitBytes /\ Len(k.lines) < MaxLines => Len(k.lines) = i

(* A line more takes its bytes and those of a newline, in either order.     *)
LEMMA OneMoreLine ==
  ASSUME NEW S, NL \in S, NEW kept \in Seq(Seq(S)), NEW line \in Seq(S), NEW bytes \in Nat,
         Takes(kept, bytes)
  PROVE  Takes(Append(kept, line), bytes + (Len(line) + (IF kept = <<>> THEN 0 ELSE 1)))
<1> DEFINE r == Reverse(kept)
           more == Append(kept, line)
           extra == IF kept = <<>> THEN 0 ELSE 1
<1>1. r \in Seq(Seq(S)) /\ (r = <<>> <=> kept = <<>>)
  <2>1. r \in Seq(Seq(S)) /\ Len(r) = Len(kept)
    BY ReverseFacts
  <2> HIDE DEF r
  <2>2. (r = <<>> <=> Len(r) = 0) /\ (kept = <<>> <=> Len(kept) = 0)
    BY <2>1
  <2> QED
    BY <2>1, <2>2
<1>0. Len(JoinLines(kept)) = bytes /\ Len(JoinLines(r)) = bytes
  BY DEF Takes
<1>2. Len(JoinLines(more)) = bytes + Len(line) + extra
  BY <1>0, JoinLength
<1>3. Reverse(more) = <<line>> \o r
  BY ReverseOfAppend
<1>4. Len(JoinLines(<<line>> \o r)) = bytes + Len(line) + (IF r = <<>> THEN 0 ELSE 1)
  <2> HIDE DEF r
  <2> QED
    BY <1>0, <1>1, JoinLength
<1> HIDE DEF r, more
<1>5. Len(line) \in Nat /\ extra \in Nat
  OBVIOUS
<1>6. Len(JoinLines(Reverse(more))) = bytes + Len(line) + extra
  BY <1>1, <1>3, <1>4
<1> HIDE DEF extra
<1>7. bytes + Len(line) + extra = bytes + (Len(line) + extra)
  BY <1>5
<1> QED
  BY <1>2, <1>6, <1>7 DEF extra, more, Takes

(* A turn of the loop keeps what fits.                                      *)
LEMMA FittingStep ==
  ASSUME NEW S, NL \in S, NEW lines \in Seq(Seq(S)), NEW i \in 1 .. Len(lines),
         NEW k \in Keeping(S), Fitting(k, lines, i - 1)
  PROVE  Fitting(KeepLine(k, lines[i]), lines, i)
<1> DEFINE line == lines[i]
           next == KeepLine(k, line)
           n == Len(k.lines)
           P(m) == SubSeq(lines, 1, m)
           size == Size(k, line)
<1>1. Len(lines) \in Nat /\ i \in Nat \ {0} /\ line \in Seq(S) /\ lines[1] \in Seq(S) /\ Len(lines[1]) \in Nat
  <2>1. 1 \in 1 .. Len(lines)
    OBVIOUS
  <2>2. lines[1] \in Seq(S)
    BY <2>1
  <2> QED
    BY <2>2
<1>2. /\ next \in Keeping(S) /\ size \in Nat
      /\ Turns(k, line, next)
  BY <1>1, KeepLineTurns
<1>3. /\ k.lines \in Seq(Seq(S)) /\ k.bytes \in Nat /\ k.hitBytes \in BOOLEAN /\ n \in Nat
      /\ DOMAIN k = {"lines", "bytes", "hitBytes"}
  BY DEF Keeping
<1>4. /\ n <= i - 1 /\ n <= MaxLines
      /\ k.lines = P(n)
      /\ Takes(k.lines, k.bytes) /\ k.bytes <= MaxBytes
      /\ n > 0 => Len(lines[1]) <= MaxBytes
      /\ k.hitBytes => n < i - 1 /\ n < MaxLines /\ Exceeds(P(n + 1))
      /\ ~k.hitBytes /\ n < MaxLines => n = i - 1
  BY <1>3 DEF Fitting
<1>5. Takes(Append(k.lines, line), k.bytes + size)
  BY <1>1, <1>3, <1>4, OneMoreLine DEF Size
<1>6. P(i) = Append(P(i - 1), line)
  BY FirstPartGrows
<1> HIDE DEF P, next, line, size
<1> DEFINE m == Len(next.lines)
<1>7. SUFFICES
      /\ m \in 0 .. i /\ m <= MaxLines
      /\ next.lines = P(m)
      /\ Takes(next.lines, next.bytes) /\ next.bytes <= MaxBytes
      /\ m > 0 => Len(lines[1]) <= MaxBytes
      /\ next.hitBytes => m < i /\ m < MaxLines /\ Exceeds(P(m + 1))
      /\ ~next.hitBytes /\ m < MaxLines => m = i
  BY DEF Fitting, P, next, line
<1>8. CASE Ended(k)
  <2>1. next = k
    BY <1>2, <1>8 DEF Turns
  <2>2. ~k.hitBytes => ~ (n < MaxLines)
    BY <1>3, <1>8, LimitAssumption DEF Ended
  <2> QED
    BY <1>1, <1>3, <1>4, <2>1, <2>2
<1>9. CASE ~Ended(k) /\ k.bytes + size > MaxBytes
  <2>1. next = [k EXCEPT !.hitBytes = TRUE]
    BY <1>2, <1>9 DEF Turns, size
  <2>2. next.lines = k.lines /\ next.bytes = k.bytes /\ next.hitBytes
    BY <1>3, <2>1
  <2>3. ~k.hitBytes /\ n < MaxLines
    BY <1>3, <1>9, LimitAssumption DEF Ended
  <2>4. n = i - 1 /\ n + 1 = i
    BY <1>1, <1>4, <2>3
  <2>5. P(n + 1) = Append(k.lines, line)
    BY <1>4, <1>6, <2>4
  <2>6. Exceeds(P(n + 1))
    <3>1. k.bytes + size > MaxBytes
      BY <1>9
    <3> QED
      BY <1>5, <2>5, <3>1 DEF Takes, Exceeds
  <2>7. n < i /\ n \in 0 .. i
    BY <1>1, <1>3, <2>4
  <2> QED
    BY <1>4, <2>2, <2>3, <2>6, <2>7
<1>10. CASE ~Ended(k) /\ ~ (k.bytes + size > MaxBytes)
  <2>0. k.bytes + size <= MaxBytes
    BY <1>2, <1>3, <1>10, LimitAssumption DEF size
  <2>1. next.lines = Append(k.lines, line) /\ next.bytes = k.bytes + size /\ next.hitBytes = FALSE
    BY <1>2, <1>10, <2>0 DEF Turns, size
  <2>2. ~k.hitBytes /\ n < MaxLines
    BY <1>3, <1>10, LimitAssumption DEF Ended
  <2>3. n = i - 1 /\ n + 1 = i
    BY <1>1, <1>4, <2>2
  <2>4. Len(next.lines) = i /\ next.lines = P(i)
    <3>1. Len(Append(k.lines, line)) = n + 1
      BY <1>1, <1>3, AppendedLength
    <3> QED
      BY <1>4, <1>6, <2>1, <2>3, <3>1
  <2>5. Len(lines[1]) <= MaxBytes
    <3>1. CASE n = 0
      <4>1. i = 1 /\ k.lines = <<>>
        BY <1>3, <2>3, <3>1
      <4>2. size = Len(lines[1]) + 0
        BY <4>1 DEF size, Size, line
      <4> QED
        BY <1>1, <1>3, <2>0, <4>2, LimitAssumption
    <3>2. CASE n # 0
      BY <1>3, <1>4, <3>2
    <3> QED
      BY <3>1, <3>2
  <2>6. i <= MaxLines
    BY <1>3, <2>2, <2>3, LimitAssumption
  <2> QED
    BY <1>1, <1>5, <2>0, <2>1, <2>4, <2>5, <2>6
<1> QED
  BY <1>8, <1>9, <1>10

(* What the loop has kept in the end.                                       *)
LEMMA LoopFits ==
  ASSUME NEW S, NL \in S, NEW lines \in Seq(Seq(S))
  PROVE  /\ Fitting(FoldLeft(KeepLine, NothingKept, lines), lines, Len(lines))
         /\ FoldLeft(KeepLine, NothingKept, lines) \in Keeping(S)
<1> DEFINE n == Len(lines)
<1>1. PICK h : RunOf(h, lines, S)
  BY KeepRuns
<1>2. n \in Nat
  OBVIOUS
<1>3. Fitting(h[0], lines, 0)
  <2>1. /\ NothingKept.lines = <<>> /\ NothingKept.bytes = 0 /\ ~NothingKept.hitBytes
        /\ Len(<<>>) = 0 /\ Reverse(<<>>) = <<>>
    <3>1. <<>> \in Seq({}) /\ Len(<<>>) = 0
      OBVIOUS
    <3>2. Reverse(<<>>) \in Seq({}) /\ Len(Reverse(<<>>)) = 0
      BY <3>1, ReverseFacts
    <3>3. Reverse(<<>>) = <<>>
      <4> DEFINE r == Reverse(<<>>)
      <4> HIDE DEF r
      <4>1. r \in Seq({}) /\ Len(r) = 0
        BY <3>2 DEF r
      <4>2. r = <<>>
        BY <4>1
      <4> QED
        BY <4>2 DEF r
    <3> QED
      BY <3>1, <3>3 DEF NothingKept
  <2>2. JoinLines(<<>>) = <<>>
    BY DEF JoinLines
  <2>3. SubSeq(lines, 1, 0) = <<>>
    BY SubSeqEmpty
  <2>4. h[0] = NothingKept
    BY <1>1 DEF RunOf
  <2>5. MaxBytes >= 0 /\ MaxLines > 0
    BY LimitAssumption
  <2> HIDE DEF n
  <2> HIDE DEF Fitting
  <2> DEFINE k == NothingKept
  <2>6. Takes(k.lines, k.bytes)
    BY <2>1, <2>2 DEF Takes
  <2>7. Fitting(k, lines, 0)
    <3> HIDE DEF k
    <3> QED
      BY <2>1, <2>3, <2>5, <2>6, LimitAssumption DEF Fitting, k
  <2> QED
    BY <2>4, <2>7
<1> DEFINE Good == {i \in 0 .. n : Fitting(h[i], lines, i)}
<1>4. 0 \in Good /\ Good \in SUBSET (0 .. n)
  BY <1>2, <1>3
<1>5. ASSUME NEW i \in 1 .. n, i - 1 \in Good PROVE i \in Good
  <2>1. h[i - 1] \in Keeping(S) /\ h[i] = KeepLine(h[i - 1], lines[i]) /\ Fitting(h[i - 1], lines, i - 1)
    BY <1>1, <1>2, <1>5 DEF RunOf
  <2>2. Fitting(h[i], lines, i)
    BY <2>1, FittingStep
  <2> QED
    BY <2>2
<1> HIDE DEF Good
<1>6. n \in Good
  <2> HIDE DEF n
  <2>1. Good = 0 .. n
    BY <1>2, <1>4, <1>5, BoundedInduction
  <2> QED
    BY <1>2, <2>1
<1>7. Fitting(h[n], lines, n) /\ h[n] \in Keeping(S) /\ FoldLeft(KeepLine, NothingKept, lines) = h[n]
  BY <1>1, <1>2, <1>6 DEF Good, RunOf
<1> QED
  BY <1>7

-----------------------------------------------------------------------------
(* The lines at either end.                                                 *)

LEMMA OfTwo ==
  ASSUME NEW a \in Int, NEW b \in Int
  PROVE  /\ Min({a, b}) = IF a <= b THEN a ELSE b
         /\ Max({a, b}) = IF a <= b THEN b ELSE a
<1> DEFINE T == {a, b}
           lo == IF a <= b THEN a ELSE b
           hi == IF a <= b THEN b ELSE a
<1>1. lo \in T /\ (\A y \in T : lo <= y) /\ T \in SUBSET Int
  OBVIOUS
<1>2. hi \in T /\ \A y \in T : y <= hi
  OBVIOUS
<1> HIDE DEF T, lo, hi
<1>3. Min(T) \in T /\ \A y \in T : Min(T) <= y
  <2>1. \E x \in T : \A y \in T : x <= y
    BY <1>1
  <2> QED
    BY <2>1 DEF Min
<1>4. Max(T) \in T /\ \A y \in T : y <= Max(T)
  <2>1. \E x \in T : \A y \in T : x >= y
    BY <1>1, <1>2
  <2> QED
    BY <1>1, <2>1 DEF Max
<1>5. Min(T) = lo
  <2>1. Min(T) <= lo /\ lo <= Min(T) /\ Min(T) \in Int /\ lo \in Int
    BY <1>1, <1>3
  <2> QED
    BY <2>1
<1>6. Max(T) = hi
  <2>1. Max(T) <= hi /\ hi <= Max(T) /\ Max(T) \in Int /\ hi \in Int
    BY <1>1, <1>2, <1>4
  <2> QED
    BY <2>1
<1> QED
  BY <1>5, <1>6 DEF T, lo, hi

(* The first n lines, and the last n.                                       *)
LEMMA EndsOf ==
  ASSUME NEW S, NEW lines \in Seq(S), NEW n \in 0 .. Len(lines)
  PROVE  /\ FirstOf(lines, n) = SubSeq(lines, 1, n)
         /\ LastOf(lines, n) = SubSeq(lines, Len(lines) - n + 1, Len(lines))
<1>1. Len(lines) \in Nat /\ n \in Nat /\ n <= Len(lines)
  OBVIOUS
<1>2. Min({n, Len(lines)}) = n
  BY <1>1, OfTwo
<1>3. Max({1, Len(lines) - n + 1}) = Len(lines) - n + 1
  <2> DEFINE m == Len(lines) - n + 1
  <2>1. m \in Int /\ m >= 1
    BY <1>1
  <2> HIDE DEF m
  <2>2. Max({1, m}) = IF 1 <= m THEN m ELSE 1
    <3>1. 1 \in Int
      OBVIOUS
    <3> QED
      BY <2>1, <3>1, OfTwo, Zenon
  <2> QED
    BY <2>1, <2>2 DEF m
<1> QED
  BY <1>2, <1>3 DEF FirstOf, LastOf

(* A slice of one element.                                                  *)
LEMMA OneElement ==
  ASSUME NEW S, NEW s \in Seq(S), NEW i \in 1 .. Len(s)
  PROVE  SubSeq(s, i, i) = <<s[i]>>
<1> DEFINE a == SubSeq(s, i, i)
           b == <<s[i]>>
<1>1. i \in 1 .. Len(s) + 1 /\ i \in i - 1 .. Len(s) /\ i - i + 1 = 1 /\ i + 1 - 1 = i /\ s[i] \in S
  OBVIOUS
<1>2. a \in Seq(S) /\ Len(a) = 1 /\ a[1] = s[i]
  <2>1. /\ a \in Seq(S) /\ Len(a) = i - i + 1
        /\ \A k \in 1 .. i - i + 1 : a[k] = s[i + k - 1]
    BY <1>1, Slice
  <2> HIDE DEF a
  <2> QED
    BY <1>1, <2>1
<1>3. b \in Seq(S) /\ Len(b) = 1 /\ b[1] = s[i]
  BY <1>1
<1> HIDE DEF a, b
<1>4. a = b
  <2>1. \A k \in 1 .. Len(a) : a[k] = b[k]
    BY <1>2, <1>3
  <2> QED
    BY <1>2, <1>3, <2>1, SeqEqual
<1> QED
  BY <1>4 DEF a, b

(* The first lines of the reverse are the last lines, reversed.             *)
LEMMA LastInReverse ==
  ASSUME NEW S, NEW lines \in Seq(S), NEW n \in 0 .. Len(lines)
  PROVE  Reverse(SubSeq(Reverse(lines), 1, n)) = LastOf(lines, n)
<1> DEFINE r == Reverse(lines)
           a == SubSeq(r, 1, n)
           b == Reverse(a)
           c == LastOf(lines, n)
           m == Len(lines)
<1>0. m \in Nat /\ n \in Nat /\ n <= m
  OBVIOUS
<1>1. r \in Seq(S) /\ Len(r) = m /\ \A i \in 1 .. m : r[i] = lines[m - i + 1]
  BY ReverseFacts
<1> HIDE DEF r
<1>2. a \in Seq(S) /\ Len(a) = n /\ \A k \in 1 .. n : a[k] = r[k]
  BY <1>1, FirstPart
<1> HIDE DEF a
<1>3. b \in Seq(S) /\ Len(b) = n /\ \A k \in 1 .. n : b[k] = a[n - k + 1]
  BY <1>2, ReverseFacts
<1>4. c \in Seq(S) /\ Len(c) = n /\ \A k \in 1 .. n : c[k] = lines[m - n + k]
  <2> DEFINE i == m - n + 1
  <2>1. c = SubSeq(lines, i, m)
    BY EndsOf
  <2>2. i \in 1 .. Len(lines) + 1 /\ m \in i - 1 .. Len(lines) /\ m - i + 1 = n
    BY <1>0
  <2> HIDE DEF c
  <2>3. /\ c \in Seq(S) /\ Len(c) = n /\ \A k \in 1 .. m - i + 1 : c[k] = lines[i + k - 1]
    <3> HIDE DEF i, m
    <3> QED
      BY <2>1, <2>2, Slice
  <2>4. \A k \in 1 .. n : k \in 1 .. m - i + 1 /\ i + k - 1 = m - n + k
    BY <1>0
  <2> HIDE DEF i
  <2> QED
    BY <2>3, <2>4
<1> HIDE DEF b, c, m
<1>5. ASSUME NEW k \in 1 .. n PROVE b[k] = c[k]
  <2>1. n - k + 1 \in 1 .. n /\ n - k + 1 \in 1 .. m /\ m - (n - k + 1) + 1 = m - n + k
    BY <1>0
  <2>2. b[k] = lines[m - (n - k + 1) + 1]
    BY <1>1, <1>2, <1>3, <2>1
  <2> QED
    BY <1>4, <2>1, <2>2
<1>6. b = c
  BY <1>3, <1>4, <1>5, SeqEqual
<1> QED
  BY <1>6 DEF b, c, a, r

(* A text that does not fit has a line.                                     *)
LEMMA SomeLineCounted ==
  ASSUME NEW S, NEW content \in Seq(S)
  PROVE  /\ CountedLines(content) \in Seq(Seq(S))
         /\ ~Fits(content) => Len(CountedLines(content)) > 0 /\ Len(content) > 0
<1> DEFINE lines == SplitLines(content)
           counted == CountedLines(content)
<1>0. Len(content) \in Nat
  OBVIOUS
<1>1. CASE Len(content) = 0
  <2>1. content = <<>>
    BY <1>1
  <2>2. counted = <<>> /\ Len(<<>>) = 0 /\ <<>> \in Seq(Seq(S))
    BY <2>1 DEF CountedLines
  <2>3. 0 <= MaxLines /\ 0 <= MaxBytes
    BY LimitAssumption
  <2>4. Fits(content)
    BY <1>1, <2>2, <2>3 DEF Fits
  <2> QED
    BY <2>2, <2>4
<1>2. CASE Len(content) > 0
  <2>1. counted \in Seq(Seq(S))
    BY <1>2, CountedOfText
  <2>2. /\ Len(counted) = Len(lines) - 1 + (IF Len(Last(lines)) > 0 THEN 1 ELSE 0)
    BY CountedAndOpen
  <2>3. /\ Len(lines) \in Nat \ {0} /\ Last(lines) = lines[Len(lines)] /\ Len(Last(lines)) \in Nat
        /\ Last(lines) \in Seq(S)
    BY LastOfLines
  <2>4. SplitInto(lines, content, Len(content))
    BY LinesOfText
  <2>5. PICK p : Spans(lines, p, Len(content))
    BY <2>4 DEF SplitInto
  <2> HIDE DEF lines
  <2>6. Len(lines) = 1 => Len(Last(lines)) > 0
    <3> SUFFICES ASSUME Len(lines) = 1 PROVE Len(Last(lines)) > 0
      OBVIOUS
    <3>1. p[1] = 0 /\ p[1 + 1] = Len(content) + 1 /\ p[1 + 1] = p[1] + Len(lines[1]) + 1
      BY <2>5 DEF Spans
    <3> QED
      BY <1>0, <1>2, <2>3, <3>1
  <2> DEFINE a == Len(lines)
             b == Len(Last(lines))
  <2>7. a - 1 + (IF b > 0 THEN 1 ELSE 0) > 0
    <3>1. a \in Nat \ {0} /\ b \in Nat /\ (a = 1 => b > 0)
      BY <2>3, <2>6
    <3> HIDE DEF a, b
    <3> QED
      BY <3>1
  <2> QED
    BY <1>2, <2>1, <2>2, <2>7 DEF lines
<1> QED
  BY <1>0, <1>1, <1>2

-----------------------------------------------------------------------------
(* Truncation keeps what fits.                                              *)

(* Of what fits everything is kept.                                         *)
LEMMA FittingIsKept ==
  ASSUME NEW content, NEW fromHead \in BOOLEAN, Fits(content)
  PROVE  /\ KeepsWhatFits(content, TruncateHead(content), fromHead)
         /\ KeepsWhatFits(content, TruncateTail(content), fromHead)
<1> DEFINE u == Untruncated(content)
<1>1. TruncateHead(content) = u /\ TruncateTail(content) = u
  BY DEF TruncateHead, TruncateTail
<1>2. u.content = content /\ u.truncatedBy = ""
  BY DEF Untruncated
<1> HIDE DEF u
<1>3. KeepsWhatFits(content, u, fromHead)
  BY <1>2 DEF KeepsWhatFits
<1> QED
  BY <1>1, <1>3

\* The head of lines that do not fit: none, or the first ones, within the limits.
ShowsHead(lines, truncated) ==
  \/ truncated.firstLineExceedsLimit /\ Len(lines[1]) > MaxBytes
  \/ /\ ~truncated.firstLineExceedsLimit /\ truncated.truncatedBy # ""
     /\ truncated.outputLines \in 1 .. Len(lines) /\ truncated.outputLines <= MaxLines
     /\ truncated.content = JoinLines(SubSeq(lines, 1, truncated.outputLines))
     /\ Len(truncated.content) <= MaxBytes

(* TruncateHead of a text that does not fit.                                *)
LEMMA HeadKeeps ==
  ASSUME NEW S, NL \in S, NEW content \in Seq(S), ~Fits(content)
  PROVE  /\ KeepsWhatFits(content, TruncateHead(content), TRUE)
         /\ ShowsHead(CountedLines(content), TruncateHead(content))
<1> DEFINE lines == CountedLines(content)
           kept == FoldLeft(KeepLine, NothingKept, lines)
           n == Len(kept.lines)
           m == Len(lines)
           Kept(k) == JoinLines(FirstOf(lines, k))
           truncated == TruncateHead(content)
<1>1. lines \in Seq(Seq(S)) /\ m > 0 /\ m \in Nat /\ lines[1] \in Seq(S) /\ Len(lines[1]) \in Nat
  <2>1. lines \in Seq(Seq(S)) /\ m > 0
    BY SomeLineCounted
  <2> HIDE DEF lines
  <2>2. m \in Nat /\ 1 \in 1 .. m
    BY <2>1
  <2>3. lines[1] \in Seq(S)
    BY <2>1, <2>2
  <2> QED
    BY <2>1, <2>2, <2>3
<1>2. Fitting(kept, lines, m) /\ kept \in Keeping(S)
  <2> HIDE DEF lines
  <2> QED
    BY <1>1, LoopFits
<1>3. truncated = IF Len(lines[1]) > MaxBytes
               THEN [content |-> <<>>, truncatedBy |-> "bytes", outputLines |-> 0,
                     firstLineExceedsLimit |-> TRUE, lastLinePartial |-> FALSE]
               ELSE [content |-> JoinLines(kept.lines), truncatedBy |-> TruncatedBy(kept),
                     outputLines |-> n,
                     firstLineExceedsLimit |-> FALSE, lastLinePartial |-> FALSE]
  BY DEF TruncateHead
<1> HIDE DEF lines, kept, truncated
<1>4. Kept(1) = lines[1]
  <2>1. 1 \in 0 .. m
    BY <1>1
  <2>2. FirstOf(lines, 1) = SubSeq(lines, 1, 1)
    BY <1>1, <2>1, EndsOf
  <2>3. SubSeq(lines, 1, 1) = <<lines[1]>>
    <3>1. 1 \in 1 .. Len(lines)
      BY <1>1
    <3> QED
      BY <1>1, <3>1, OneElement
  <2> QED
    BY <1>1, <2>2, <2>3, JoinOne
<1>5. KeepsWhatFits(content, truncated, TRUE) <=>
        IF Len(lines[1]) > MaxBytes
        THEN truncated.content = <<>> /\ truncated.outputLines = 0 /\ truncated.firstLineExceedsLimit
        ELSE /\ truncated.outputLines \in 1..MaxLines /\ Len(Kept(truncated.outputLines)) <= MaxBytes
             /\ truncated.content = Kept(truncated.outputLines)
             /\ \/ truncated.outputLines = MaxLines \/ truncated.outputLines = m
                \/ Len(Kept(truncated.outputLines + 1)) > MaxBytes
             /\ truncated.truncatedBy = "bytes" <=> truncated.outputLines < MaxLines /\ truncated.outputLines < m
  BY <1>4 DEF KeepsWhatFits, lines
<1>6. CASE Len(lines[1]) > MaxBytes
  <2>1. truncated.content = <<>> /\ truncated.outputLines = 0 /\ truncated.firstLineExceedsLimit
    BY <1>3, <1>6
  <2>2. ShowsHead(lines, truncated)
    BY <1>6, <2>1 DEF ShowsHead
  <2> QED
    BY <1>5, <1>6, <2>1, <2>2 DEF lines, truncated
<1>7. CASE ~ (Len(lines[1]) > MaxBytes)
  <2>1. /\ truncated.content = JoinLines(kept.lines) /\ truncated.truncatedBy = TruncatedBy(kept)
        /\ truncated.outputLines = n /\ ~truncated.firstLineExceedsLimit
    BY <1>3, <1>7
  <2>2. /\ n \in 0 .. m /\ n <= MaxLines
        /\ kept.lines = SubSeq(lines, 1, n)
        /\ Takes(kept.lines, kept.bytes) /\ kept.bytes <= MaxBytes
        /\ kept.hitBytes => n < m /\ n < MaxLines /\ Exceeds(SubSeq(lines, 1, n + 1))
        /\ ~kept.hitBytes /\ n < MaxLines => n = m
    BY <1>2 DEF Fitting
  <2>3. FirstOf(lines, n) = kept.lines /\ (n < m => FirstOf(lines, n + 1) = SubSeq(lines, 1, n + 1))
    <3>1. n < m => n + 1 \in 0 .. m
      BY <1>1, <2>2
    <3> HIDE DEF n
    <3> QED
      BY <1>1, <2>2, <3>1, EndsOf
  <2> HIDE DEF n
  <2>4. Kept(n) = JoinLines(kept.lines) /\ Len(Kept(n)) <= MaxBytes
    BY <2>2, <2>3 DEF Takes
  <2>5. kept.hitBytes => Len(Kept(n + 1)) > MaxBytes
    BY <1>1, <2>2, <2>3 DEF Exceeds
  <2>6. n # 0
    <3> SUFFICES ASSUME n = 0 PROVE FALSE
      OBVIOUS
    <3>1. kept.hitBytes
      BY <1>1, <2>2, LimitAssumption
    <3>2. Len(Kept(1)) > MaxBytes
      BY <2>5, <3>1
    <3> QED
      BY <1>4, <1>7, <3>2
  <2> HIDE DEF Kept
  <2>7. n \in 1 .. MaxLines
    BY <1>1, <2>2, <2>6, LimitAssumption
  <2>8. n = MaxLines \/ n = m \/ Len(Kept(n + 1)) > MaxBytes
    BY <1>1, <2>2, <2>5, LimitAssumption
  <2>9. TruncatedBy(kept) = "bytes" <=> n < MaxLines /\ n < m
    <3>1. TruncatedBy(kept) = "bytes" <=> kept.hitBytes /\ n < MaxLines
      BY DEF TruncatedBy, n
    <3> QED
      BY <1>1, <2>2, <3>1, LimitAssumption
  <2>10. ShowsHead(lines, truncated)
    <3>1. TruncatedBy(kept) # ""
      BY DEF TruncatedBy
    <3>2. n \in 1 .. m /\ Kept(n) = JoinLines(SubSeq(lines, 1, n))
      BY <2>2, <2>3, <2>6, <2>4
    <3> QED
      BY <2>1, <2>2, <2>4, <3>1, <3>2 DEF ShowsHead
  <2> QED
    BY <1>5, <1>7, <2>1, <2>4, <2>7, <2>8, <2>9, <2>10 DEF lines, truncated
<1> QED
  BY <1>6, <1>7

(* A suffix that is cut begins at the first character within the limit.     *)
LEMMA SuffixBegins ==
  ASSUME NEW S, NEW s \in Seq(S), NEW n \in Nat, Len(s) > n
  PROVE  SuffixWithin(s, n) =
           SubSeq(s, Min({i \in 1 .. Len(s) + 1 : Len(s) - i < n /\ (i <= Len(s) => s[i] # Cont)}), Len(s))
<1> DEFINE v == SuffixWithin(s, n)
           starts == {i \in 1 .. Len(s) + 1 : Len(s) - i < n /\ (i <= Len(s) => s[i] # Cont)}
           m == Len(s) - Len(v) + 1
           w == SubSeq(s, m, Len(s))
<1>1. v \in Seq(S) /\ Within(s, n, v)
  BY SuffixIsWithin
<1>2. Len(s) \in Nat /\ Len(v) \in Nat
  BY <1>1
<1> HIDE DEF v
<1>3. /\ Len(v) <= n /\ Len(v) <= Len(s)
      /\ \A k \in 1 .. Len(v) : v[k] = s[Len(s) - Len(v) + k]
      /\ Len(v) > 0 => v[1] # Cont
      /\ \A j \in Len(s) - n + 1 .. Len(s) - Len(v) : s[j] = Cont
  BY <1>1, <1>2 DEF Within, IsEnd
<1>4. m \in 1 .. Len(s) + 1 /\ Len(s) \in m - 1 .. Len(s) /\ Len(s) - m + 1 = Len(v) /\ Len(s) - m < n
  BY <1>2, <1>3
<1>5. m <= Len(s) => s[m] # Cont
  BY <1>2, <1>3
<1>6. m \in starts
  <2> HIDE DEF m
  <2> QED
    BY <1>4, <1>5
<1>7. ASSUME NEW i \in starts PROVE m <= i
  <2> SUFFICES ASSUME i < m PROVE FALSE
    BY <1>2, <1>4
  <2>1. i \in Len(s) - n + 1 .. Len(s) - Len(v) /\ i <= Len(s)
    BY <1>2, <1>3
  <2> QED
    BY <1>3, <2>1
<1>8. starts \in SUBSET Nat
  BY <1>2
<1>9. Min(starts) = m
  <2> HIDE DEF starts, m
  <2>1. Min(starts) \in starts /\ \A y \in starts : Min(starts) <= y
    BY <1>6, <1>8, LeastElement
  <2>2. Min(starts) <= m /\ m <= Min(starts) /\ Min(starts) \in Nat /\ m \in Nat
    BY <1>6, <1>7, <1>8, <2>1
  <2> QED
    BY <2>2
<1>10. w \in Seq(S) /\ Len(w) = Len(v) /\ \A k \in 1 .. Len(v) : w[k] = s[m + k - 1]
  <2> HIDE DEF m
  <2> QED
    BY <1>4, Slice
<1>11. \A k \in 1 .. Len(v) : m + k - 1 = Len(s) - Len(v) + k
  BY <1>2
<1>12. w = v
  <2>1. \A k \in 1 .. Len(v) : w[k] = v[k]
    BY <1>3, <1>10, <1>11
  <2> QED
    BY <1>1, <1>10, <2>1, SeqEqual
<1> QED
  BY <1>9, <1>12 DEF v

(* TruncateTail of a text that does not fit.                                *)
LEMMA TailKeeps ==
  ASSUME NEW S, NL \in S, NEW content \in Seq(S), ~Fits(content)
  PROVE  KeepsWhatFits(content, TruncateTail(content), FALSE)
<1> DEFINE lines == CountedLines(content)
           turned == Reverse(lines)
           kept == FoldLeft(KeepLine, NothingKept, turned)
           n == Len(kept.lines)
           m == Len(lines)
           last == lines[m]
           Kept(k) == JoinLines(LastOf(lines, k))
           partial == kept.hitBytes /\ kept.lines = <<>>
           cut == SuffixWithin(last, MaxBytes)
           chosen == IF partial THEN <<cut>> ELSE kept.lines
           starts == {i \in 1..(Len(last) + 1) : Len(last) - i < MaxBytes /\ (i <= Len(last) => last[i] # Cont)}
           truncated == TruncateTail(content)
<1>1. lines \in Seq(Seq(S)) /\ m > 0 /\ m \in Nat /\ last \in Seq(S) /\ Len(last) \in Nat /\ Last(lines) = last
  <2>1. lines \in Seq(Seq(S)) /\ m > 0
    BY SomeLineCounted
  <2> HIDE DEF lines
  <2>2. m \in Nat /\ m \in 1 .. m
    BY <2>1
  <2>3. last \in Seq(S)
    BY <2>1, <2>2
  <2>4. Last(lines) = last
    BY DEF Last
  <2> QED
    BY <2>1, <2>2, <2>3, <2>4
<1>2. truncated = [content |-> JoinLines(Reverse(chosen)),
                truncatedBy |-> TruncatedBy([kept EXCEPT !.lines = chosen]),
                outputLines |-> Len(chosen),
                firstLineExceedsLimit |-> FALSE, lastLinePartial |-> partial]
  <2>1. truncated = [content |-> JoinLines(Reverse(IF partial THEN <<SuffixWithin(Last(lines), MaxBytes)>>
                                                 ELSE kept.lines)),
                  truncatedBy |-> TruncatedBy([kept EXCEPT !.lines =
                                      IF partial THEN <<SuffixWithin(Last(lines), MaxBytes)>>
                                                 ELSE kept.lines]),
                  outputLines |-> Len(IF partial THEN <<SuffixWithin(Last(lines), MaxBytes)>>
                                                 ELSE kept.lines),
                  firstLineExceedsLimit |-> FALSE, lastLinePartial |-> partial]
    BY Zenon DEF TruncateTail
  <2> HIDE DEF lines, kept, truncated
  <2> QED
    BY <1>1, <2>1, Zenon
<1> HIDE DEF lines
<1>3. /\ turned \in Seq(Seq(S)) /\ Len(turned) = m /\ turned[1] = last
  <2>1. turned \in Seq(Seq(S)) /\ Len(turned) = m /\ \A i \in 1 .. m : turned[i] = lines[m - i + 1]
    BY <1>1, ReverseFacts
  <2>2. 1 \in 1 .. m /\ m - 1 + 1 = m
    BY <1>1
  <2> HIDE DEF turned
  <2> QED
    BY <2>1, <2>2
<1>4. Fitting(kept, turned, m) /\ kept \in Keeping(S)
  <2> HIDE DEF turned
  <2>1. Fitting(kept, turned, Len(turned)) /\ kept \in Keeping(S)
    BY <1>3, LoopFits
  <2> QED
    BY <1>3, <2>1
<1> HIDE DEF kept, truncated
<1>5. /\ n \in 0 .. m /\ n <= MaxLines
      /\ kept.lines = SubSeq(turned, 1, n)
      /\ Takes(kept.lines, kept.bytes) /\ kept.bytes <= MaxBytes
      /\ n > 0 => Len(turned[1]) <= MaxBytes
      /\ kept.hitBytes => n < m /\ n < MaxLines /\ Exceeds(SubSeq(turned, 1, n + 1))
      /\ ~kept.hitBytes /\ n < MaxLines => n = m
      /\ kept.hitBytes \in BOOLEAN /\ kept.lines \in Seq(Seq(S)) /\ kept.bytes \in Nat
  BY <1>4 DEF Fitting, Keeping
<1>6. kept.lines = <<>> <=> n = 0
  BY <1>5
<1>7. Kept(1) = last
  <2>1. 1 \in 0 .. m /\ m - 1 + 1 = m /\ m \in 1 .. m
    BY <1>1
  <2>2. LastOf(lines, 1) = SubSeq(lines, m - 1 + 1, m)
    BY <1>1, <2>1, EndsOf
  <2>3. SubSeq(lines, m, m) = <<last>>
    BY <1>1, <2>1, OneElement
  <2> QED
    BY <1>1, <2>1, <2>2, <2>3, JoinOne
<1>8. partial <=> Len(last) > MaxBytes
  <2>1. ASSUME partial PROVE Len(last) > MaxBytes
    <3>1. n = 0 /\ Exceeds(SubSeq(turned, 1, 1))
      BY <1>5, <1>6, <2>1
    <3>2. 1 \in 1 .. Len(turned)
      BY <1>1, <1>3
    <3>3. SubSeq(turned, 1, 1) = <<last>>
      <4> HIDE DEF turned
      <4> QED
        BY <1>3, <3>2, OneElement
    <3> QED
      BY <1>1, <3>1, <3>3, JoinOne DEF Exceeds
  <2>2. ASSUME ~partial PROVE ~ (Len(last) > MaxBytes)
    <3>1. n # 0
      <4> HIDE DEF n
      <4> QED
        BY <1>1, <1>5, <1>6, <2>2, LimitAssumption
    <3>2. n > 0
      <4> HIDE DEF n
      <4> QED
        BY <1>1, <1>5, <3>1
    <3>3. Len(turned[1]) <= MaxBytes
      BY <1>5, <3>2
    <3> HIDE DEF turned, last
    <3>4. Len(last) <= MaxBytes
      BY <1>3, <3>3
    <3> QED
      BY <1>1, <3>4, LimitAssumption
  <2> QED
    BY <2>1, <2>2
<1>9. KeepsWhatFits(content, truncated, FALSE) <=>
        IF Len(last) > MaxBytes
        THEN truncated.lastLinePartial /\ truncated.content = SubSeq(last, Min(starts), Len(last))
        ELSE /\ truncated.outputLines \in 1..MaxLines /\ Len(Kept(truncated.outputLines)) <= MaxBytes
             /\ truncated.content = Kept(truncated.outputLines)
             /\ \/ truncated.outputLines = MaxLines \/ truncated.outputLines = m
                \/ Len(Kept(truncated.outputLines + 1)) > MaxBytes
             /\ truncated.truncatedBy = "bytes" <=> truncated.outputLines < MaxLines /\ truncated.outputLines < m
  BY <1>7 DEF KeepsWhatFits, lines
<1>10. CASE Len(last) > MaxBytes
  <2>1. partial /\ chosen = <<cut>>
    BY <1>8, <1>10
  <2>2. truncated.lastLinePartial /\ truncated.content = JoinLines(Reverse(chosen))
    BY <1>2, <2>1
  <2>3. cut \in Seq(S) /\ cut = SubSeq(last, Min(starts), Len(last))
    <3>1. MaxBytes \in Nat
      BY LimitAssumption
    <3> QED
      BY <1>1, <1>10, <3>1, SuffixBegins, SuffixTyped
  <2> HIDE DEF cut
  <2>4. Reverse(<<cut>>) = <<cut>>
    BY <2>3 DEF Reverse
  <2> QED
    <3>1. JoinLines(<<cut>>) = cut
      BY <2>3, JoinOne
    <3>2. truncated.lastLinePartial /\ truncated.content = SubSeq(last, Min(starts), Len(last))
      BY <2>1, <2>2, <2>3, <2>4, <3>1
    <3> HIDE DEF starts, last
    <3> QED
      BY <1>9, <1>10, <3>2 DEF truncated
<1>11. CASE ~ (Len(last) > MaxBytes)
  <2>1. ~partial /\ chosen = kept.lines
    BY <1>8, <1>11
  <2>2. [kept EXCEPT !.lines = kept.lines] = kept
    BY <1>4 DEF Keeping
  <2>3. /\ truncated.content = JoinLines(Reverse(kept.lines)) /\ truncated.truncatedBy = TruncatedBy(kept)
        /\ truncated.outputLines = n
    <3> HIDE DEF partial, chosen
    <3> QED
      BY <1>2, <2>1, <2>2
  <2>4. Reverse(kept.lines) = LastOf(lines, n) /\ (n < m => Reverse(SubSeq(turned, 1, n + 1)) = LastOf(lines, n + 1))
    <3>1. n < m => n + 1 \in 0 .. m
      BY <1>1, <1>5
    <3> HIDE DEF n
    <3> QED
      BY <1>1, <1>5, <3>1, LastInReverse
  <2> HIDE DEF n
  <2>5. Kept(n) = JoinLines(Reverse(kept.lines)) /\ Len(Kept(n)) <= MaxBytes
    BY <1>5, <2>4 DEF Takes
  <2>6. kept.hitBytes => Len(Kept(n + 1)) > MaxBytes
    BY <1>1, <1>5, <2>4 DEF Exceeds
  <2>7. n # 0
    BY <1>1, <1>5, <1>6, <2>1, LimitAssumption
  <2> HIDE DEF Kept
  <2>8. n \in 1 .. MaxLines
    BY <1>1, <1>5, <2>7, LimitAssumption
  <2>9. n = MaxLines \/ n = m \/ Len(Kept(n + 1)) > MaxBytes
    BY <1>1, <1>5, <2>6, LimitAssumption
  <2>10. TruncatedBy(kept) = "bytes" <=> n < MaxLines /\ n < m
    <3>1. TruncatedBy(kept) = "bytes" <=> kept.hitBytes /\ n < MaxLines
      BY DEF TruncatedBy, n
    <3> QED
      BY <1>1, <1>5, <3>1, LimitAssumption
  <2> QED
    BY <1>9, <1>11, <2>3, <2>5, <2>8, <2>9, <2>10 DEF truncated
<1> QED
  BY <1>10, <1>11

(* Either end.                                                              *)
LEMMA TruncationKeeps ==
  ASSUME NEW S, NL \in S, NEW content \in Seq(S)
  PROVE  /\ KeepsWhatFits(content, TruncateHead(content), TRUE)
         /\ KeepsWhatFits(content, TruncateTail(content), FALSE)
<1>1. CASE Fits(content)
  BY <1>1, FittingIsKept
<1>2. CASE ~Fits(content)
  BY <1>2, HeadKeeps, TailKeeps
<1> QED
  BY <1>1, <1>2

-----------------------------------------------------------------------------
(* The jobs.                                                                *)

\* The fields of a job that goes on, and the file that is read is one of ReadFiles.
JobFields ==
  /\ job.kind = "capture" => job = [kind |-> "capture", chunks |-> job.chunks, ctxDone |-> job.ctxDone]
  /\ job.kind = "read" =>
       /\ job = [kind |-> "read", file |-> job.file, from |-> job.from, offset |-> job.offset,
                 shown |-> job.shown, status |-> job.status]
       /\ job.file \in ReadFiles

LEMMA FieldsInit == TextInit => JobFields
<1> SUFFICES ASSUME TextInit PROVE JobFields
  OBVIOUS
<1>1. CASE job = [kind |-> "capture", chunks |-> 0, ctxDone |-> FALSE]
  BY <1>1 DEF JobFields
<1>2. ASSUME NEW file \in ReadFiles, NEW from \in 1..3,
             job = [kind |-> "read", file |-> file, from |-> from, offset |-> from,
                    shown |-> <<>>, status |-> "more"]
      PROVE  JobFields
  BY <1>2 DEF JobFields
<1>3. ASSUME NEW file \in EditFiles, job = [kind |-> "edit", file |-> file] PROVE JobFields
  BY <1>3 DEF JobFields
<1>4. ASSUME NEW old \in DiffTexts, job = [kind |-> "diff", old |-> old] PROVE JobFields
  BY <1>4 DEF JobFields
<1> QED
  BY <1>1, <1>2, <1>3, <1>4 DEF TextInit

\* An edit ends its job.
LEMMA EditedIsEdited == Edit => job'.kind = "edited"
<1> SUFFICES ASSUME Edit PROVE job'.kind = "edited"
  OBVIOUS
<1>1. PICK edits \in EditLists : job' = EditDone(job.file, edits, EditFile(job.file, edits))
  BY DEF Edit
<1> DEFINE edited == EditFile(job.file, edits)
           diff == IF edited.error # "" THEN Diffed(<<>>, <<>>)
                   ELSE Diffed(LinesOf(edited.base), LinesOf(edited.new))
<1>2. job' = [kind |-> "edited", before |-> job.file, edits |-> edits, edited |-> edited, diff |-> diff]
  BY <1>1, Zenon DEF EditDone
<1> HIDE DEF edited, diff
<1> QED
  BY <1>2

LEMMA FieldsStep == JobFields /\ [TextNext]_textVars => JobFields'
<1> SUFFICES ASSUME JobFields, [TextNext]_textVars PROVE JobFields'
  OBVIOUS
<1>1. ASSUME NEW chunk \in Chunks, CaptureChunk(chunk) PROVE JobFields'
  <2>1. job.kind = "capture"
    BY <1>1 DEF CaptureChunk
  <2>2. PICK done : job' = [job EXCEPT !.chunks = @ + 1, !.ctxDone = done]
    BY <1>1 DEF CaptureChunk
  <2> QED
    BY <2>1, <2>2 DEF JobFields
<1>2. ASSUME NEW limit \in Limits, ReadMore(limit) PROVE JobFields'
  BY <1>2 DEF ReadMore, JobFields
<1>3. CASE Edit
  <2>1. job'.kind = "edited"
    BY <1>3, EditedIsEdited
  <2> QED
    BY <2>1 DEF JobFields
<1>4. CASE Diff
  <2>1. job'.kind = "diffed"
    BY <1>4 DEF Diff
  <2> QED
    BY <2>1 DEF JobFields
<1>5. CASE UNCHANGED textVars
  BY <1>5 DEF textVars, JobFields
<1> QED
  BY <1>1, <1>2, <1>3, <1>4, <1>5 DEF TextNext

\* Only a chunk changes the capture.
LEMMA OnlyChunksObserve ==
  ASSUME [TextNext]_textVars
  PROVE  \/ UNCHANGED captureVars
         \/ \E chunk \in Chunks : \E done : Observe(chunk, done)
<1>1. ASSUME NEW chunk \in Chunks, CaptureChunk(chunk) PROVE \E done : Observe(chunk, done)
  BY <1>1 DEF CaptureChunk
<1>2. ASSUME NEW limit \in Limits, ReadMore(limit) PROVE UNCHANGED captureVars
  BY <1>2 DEF ReadMore
<1>3. CASE Edit \/ Diff
  BY <1>3 DEF Edit, Diff
<1>4. CASE UNCHANGED textVars
  BY <1>4 DEF textVars
<1> QED
  BY <1>1, <1>2, <1>3, <1>4 DEF TextNext

LEMMA TextTailInit == TextInit => TailInv
BY TailBegins DEF TextInit

LEMMA TextTailStep == TailInv /\ [TextNext]_textVars => TailInv'
<1> SUFFICES ASSUME TailInv, [TextNext]_textVars PROVE TailInv'
  OBVIOUS
<1>1. CASE UNCHANGED captureVars
  BY <1>1, TailLeft
<1>2. ASSUME NEW chunk \in Chunks, NEW done, Observe(chunk, done) PROVE TailInv'
  BY <1>2, ObserveKeepsTail
<1> QED
  BY <1>1, <1>2, OnlyChunksObserve

(* Of every output and every file, truncation keeps all that fits at the end *)
(* it keeps, and cuts only a last line that is too long alone, between two   *)
(* characters (truncate.go:98-112, 173-191).                                 *)
THEOREM KeepsAllThatFits == TextSpec => []TruncationKeepsWhatFits
<1>1. TailInv /\ JobFields => TruncationKeepsWhatFits
  <2> SUFFICES ASSUME TailInv, JobFields PROVE TruncationKeepsWhatFits
    OBVIOUS
  <2> DEFINE content == IF job.kind = "read" THEN job.file ELSE stream
             S == IF job.kind = "read" THEN Range(job.file) \cup {NL} ELSE Byte \cup {NL}
  <2>1. NL \in S /\ content \in Seq(S)
    <3>1. CASE job.kind = "read"
      <4>1. job.file \in Seq(Range(job.file))
        BY <3>1, ReadFileAssumption DEF JobFields
      <4>2. job.file \in Seq(Range(job.file) \cup {NL})
        BY <4>1
      <4> QED
        BY <3>1, <4>2
    <3>2. CASE job.kind # "read"
      <4>1. stream \in Seq(Byte)
        BY DEF TailInv, SpillInv, CaptureType
      <4>2. stream \in Seq(Byte \cup {NL})
        BY <4>1
      <4> QED
        BY <3>2, <4>2
    <3> QED
      BY <3>1, <3>2
  <2> HIDE DEF content, S
  <2>2. /\ KeepsWhatFits(content, TruncateHead(content), TRUE)
        /\ KeepsWhatFits(content, TruncateTail(content), FALSE)
    BY <2>1, TruncationKeeps
  <2> QED
    BY <2>2 DEF content, TruncationKeepsWhatFits
<1> QED
  BY <1>1, TextTailInit, TextTailStep, FieldsInit, FieldsStep, PTL DEF TextSpec

(* The capture of TextSpec, where only chunks arrive, is that of a call: it   *)
(* reports TruncateTail of the whole output, and what overflows is in the     *)
(* file (observeChunk, shell_output.go:134-182).                              *)
THEOREM CaptureIsTrue ==
  ASSUME RoomForCharacters
  PROVE  TextSpec => [](OutputIsTailOfStream /\ SpillHoldsWholeStream)
<1>1. TailInv => OutputIsTailOfStream /\ SpillHoldsWholeStream
  BY TailShowsStream DEF TailInv, SpillInv, SpillHoldsWholeStream
<1> QED
  BY <1>1, TextTailInit, TextTailStep, PTL DEF TextSpec

-----------------------------------------------------------------------------
(* Lines without newlines are the lines of the text they join to.           *)

\* What is not a newline.
Others(S) == S \ {NL}

(* No line holds a newline.                                                 *)
LEMMA LinesAreBare ==
  ASSUME NEW S, NEW text \in Seq(S)
  PROVE  SplitLines(text) \in Lines(Others(S))
<1> DEFINE n == Len(text)
<1>0. n \in Nat /\ \A i \in 1 .. n : text[i] \in S
  OBVIOUS
<1>1. PICK h : /\ h[0] = << <<>> >>
               /\ \A i \in 1 .. n : h[i] = AddByte(h[i - 1], text[i])
               /\ SplitLines(text) = h[n]
  BY LineSteps
<1> HIDE DEF n
<1> DEFINE Good == {i \in 0 .. n : h[i] \in Lines(Others(S))}
<1>2. 0 \in Good /\ Good \in SUBSET (0 .. n)
  <2>1. << <<>> >> \in Lines(Others(S))
    BY DEF Lines
  <2> QED
    BY <1>0, <1>1, <2>1
<1>3. ASSUME NEW i \in 1 .. n, i - 1 \in Good
      PROVE  i \in Good
  <2> DEFINE lines == h[i - 1]
  <2>1. lines \in Lines(Others(S)) /\ h[i] = AddByte(lines, text[i]) /\ text[i] \in S /\ i \in 0 .. n
    BY <1>0, <1>1, <1>3
  <2> HIDE DEF lines
  <2>2. CASE text[i] = NL
    <3>1. h[i] = Append(lines, <<>>)
      BY <2>1, <2>2 DEF AddByte
    <3>2. lines \in Seq(Seq(Others(S))) /\ <<>> \in Seq(Others(S))
      BY <2>1 DEF Lines
    <3>3. Append(lines, <<>>) \in Lines(Others(S))
      <4> DEFINE none == <<>>
                 more == Append(lines, none)
      <4>1. none \in Seq(Others(S)) /\ none = <<>>
        BY <3>2
      <4> HIDE DEF none
      <4>2. more \in Seq(Seq(Others(S))) /\ Len(more) = Len(lines) + 1 /\ Len(lines) \in Nat
        BY <3>2, <4>1, Appending
      <4> HIDE DEF more
      <4>3. more # <<>>
        BY <4>2
      <4> QED
        BY <4>1, <4>2, <4>3 DEF Lines, more
    <3> QED
      BY <2>1, <3>1, <3>3
  <2>3. CASE text[i] # NL
    <3>1. text[i] \in Others(S)
      BY <2>1, <2>3 DEF Others
    <3>2. AddByte(lines, text[i]) \in Lines(Others(S))
      BY <2>1, <3>1, AddByteTyped
    <3> QED
      BY <2>1, <3>2
  <2> QED
    BY <2>2, <2>3
<1> HIDE DEF Good
<1>4. Good = 0 .. n
  BY <1>0, <1>2, <1>3, BoundedInduction
<1>5. n \in Good
  BY <1>0, <1>4
<1> QED
  BY <1>1, <1>5 DEF Good, n

(* A line without a newline is a text of one line.                          *)
LEMMA LineOfBare ==
  ASSUME NEW T, NL \notin T, NEW line \in Seq(T)
  PROVE  SplitLines(line) = <<line>>
<1> DEFINE n == Len(line)
           Upto(i) == SubSeq(line, 1, i)
<1>0. n \in Nat /\ \A i \in 1 .. n : line[i] \in T /\ line[i] # NL
  OBVIOUS
<1>1. PICK h : /\ h[0] = << <<>> >>
               /\ \A i \in 1 .. n : h[i] = AddByte(h[i - 1], line[i])
               /\ SplitLines(line) = h[n]
  BY LineSteps
<1> HIDE DEF n
<1> DEFINE Good == {i \in 0 .. n : h[i] = <<Upto(i)>>}
<1>2. 0 \in Good /\ Good \in SUBSET (0 .. n)
  <2>1. Upto(0) = <<>>
    <3>1. 0 \in 0 .. Len(line)
      BY <1>0 DEF n
    <3>2. Upto(0) \in Seq(T) /\ Len(Upto(0)) = 0
      BY <3>1, FirstPart
    <3> QED
      BY <3>2
  <2> HIDE DEF Upto
  <2> QED
    BY <1>0, <1>1, <2>1
<1>3. ASSUME NEW i \in 1 .. n, i - 1 \in Good
      PROVE  i \in Good
  <2> DEFINE x == Upto(i - 1)
             b == line[i]
  <2>1. h[i - 1] = <<x>> /\ h[i] = AddByte(<<x>>, b) /\ b # NL /\ i \in 0 .. n
    <3> HIDE DEF Upto
    <3>1. h[i - 1] = <<x>>
      BY <1>3
    <3>2. h[i] = AddByte(h[i - 1], b) /\ b # NL /\ i \in 0 .. n
      BY <1>0, <1>1
    <3> QED
      BY <3>1, <3>2
  <2>2. Upto(i) = Append(x, b) /\ x \in Seq(T)
    <3>1. i \in 1 .. Len(line) /\ i - 1 \in 0 .. Len(line)
      BY <1>0 DEF n
    <3> QED
      BY <3>1, FirstPart, FirstPartGrows
  <2> HIDE DEF x, b
  <2>3. AddByte(<<x>>, b) = <<Append(x, b)>>
    <3>1. Front(<<x>>) = <<>> /\ Last(<<x>>) = x
      BY DEF Front, Last
    <3>2. AddByte(<<x>>, b) = Front(<<x>>) \o <<Append(Last(<<x>>), b)>>
      BY <2>1, Zenon DEF AddByte
    <3> DEFINE e == <<Append(x, b)>>
    <3>3. e \in Seq({Append(x, b)})
      OBVIOUS
    <3> HIDE DEF e
    <3>4. <<>> \o e = e
      BY <3>3
    <3> QED
      BY <3>1, <3>2, <3>4 DEF e
  <2>4. h[i] = <<Upto(i)>>
    BY <2>1, <2>2, <2>3
  <2> HIDE DEF Upto
  <2> QED
    BY <2>1, <2>4
<1> HIDE DEF Good
<1>4. Good = 0 .. n
  BY <1>0, <1>2, <1>3, BoundedInduction
<1>5. n \in Good
  BY <1>0, <1>4
<1>6. Upto(n) = line
  BY <1>0 DEF n
<1> QED
  BY <1>1, <1>5, <1>6 DEF Good

(* A newline, and a line without one: a line more.                          *)
LEMMA OneLineMoreSplit ==
  ASSUME NEW S, NL \in S, NEW x \in Seq(S), NEW line \in Seq(Others(S))
  PROVE  SplitLines(x \o <<NL>> \o line) = Append(SplitLines(x), line)
<1> DEFINE nl == <<NL>>
           y == x \o nl
           A == SplitLines(x)
           B == SplitLines(nl)
           C == SplitLines(y)
           D == SplitLines(line)
           E == SplitLines(y \o line)
           a == Len(A)
           F == Append(A, line)
<1>1. nl \in Seq(S) /\ y \in Seq(S) /\ line \in Seq(S)
  <2>1. nl \in Seq(S)
    OBVIOUS
  <2> HIDE DEF nl
  <2> QED
    BY <2>1, Concatenation DEF Others
<1>2. B = << <<>>, <<>> >>
  <2>1. nl \in Seq({NL}) /\ Len(nl) = 1 /\ nl[1] = NL
    OBVIOUS
  <2>2. PICK h : /\ h[0] = << <<>> >>
                 /\ \A i \in 1 .. Len(nl) : h[i] = AddByte(h[i - 1], nl[i])
                 /\ B = h[Len(nl)]
    BY <2>1, LineSteps
  <2> HIDE DEF nl
  <2>3. 1 \in 1 .. Len(nl) /\ 1 - 1 = 0
    BY <2>1
  <2>4. B = AddByte(<< <<>> >>, NL)
    BY <2>1, <2>2, <2>3
  <2>5. B = Append(<< <<>> >>, <<>>)
    BY <2>4 DEF AddByte
  <2>6. ASSUME NEW u, NEW v PROVE Append(<<u>>, v) = <<u, v>>
    <3> DEFINE one == <<u>>
               two == Append(one, v)
               z == <<u, v>>
    <3>1. one \in Seq({u, v}) /\ Len(one) = 1 /\ one[1] = u
      OBVIOUS
    <3>2. z \in Seq({u, v}) /\ Len(z) = 2 /\ z[1] = u /\ z[2] = v
      OBVIOUS
    <3> HIDE DEF one, z
    <3>3. two \in Seq({u, v}) /\ Len(two) = 2 /\ two[1] = u /\ two[2] = v
      <4> DEFINE T == {u, v}
      <4>0. v \in T /\ one \in Seq(T)
        BY <3>1
      <4> HIDE DEF T
      <4>1. /\ two \in Seq(T) /\ Len(two) = Len(one) + 1 /\ two[Len(one) + 1] = v
            /\ \A k \in 1 .. Len(one) : two[k] = one[k]
        BY <4>0, Appending
      <4> HIDE DEF two
      <4> QED
        BY <3>1, <4>1 DEF T
    <3> HIDE DEF two
    <3>4. \A k \in 1 .. 2 : two[k] = z[k]
      BY <3>2, <3>3
    <3>5. two = z
      BY <3>2, <3>3, <3>4, SeqEqual
    <3> QED
      BY <3>5 DEF two, z, one
  <2> QED
    BY <2>5, <2>6
<1>3. D = <<line>>
  BY LineOfBare DEF Others
<1>4. A \in Lines(S) /\ C \in Lines(S) /\ E \in Lines(S)
  <2> HIDE DEF y, nl
  <2>1. y \o line \in Seq(S)
    BY <1>1, Concatenation
  <2> QED
    BY <1>1, <2>1, LinesTyped
<1>5. Joined(A, B, C)
  <2> HIDE DEF nl
  <2> QED
    BY <1>1, LinesOfJoined
<1>6. Joined(C, D, E)
  <2> HIDE DEF y
  <2> QED
    BY <1>1, LinesOfJoined
<1> HIDE DEF A, B, C, D, E
<1>7. A \in Seq(Seq(S)) /\ a \in Nat \ {0} /\ A[a] \in Seq(S) /\ E \in Seq(Seq(S))
  <2>1. a \in 1 .. a
    BY <1>4, LinesFacts
  <2> QED
    BY <1>4, <2>1, LinesFacts
<1>8. /\ Len(C) = a + 1 /\ (\A k \in 1 .. a - 1 : C[k] = A[k])
      /\ C[a] = A[a] \o <<>> /\ C[a + 2 - 1] = <<>>
  <2>1. Len(B) = 2 /\ B[1] = <<>> /\ B[2] = <<>> /\ 2 \in 2 .. Len(B)
    BY <1>2
  <2>2. Len(A) + 2 - 1 = a + 1
    BY <1>7
  <2> QED
    BY <1>5, <2>1, <2>2 DEF Joined
<1>9. Len(D) = 1 /\ D[1] = line
  BY <1>3
<1>10. /\ Len(E) = a + 1 + 1 - 1 /\ (\A k \in 1 .. a + 1 - 1 : E[k] = C[k])
       /\ E[a + 1] = C[a + 1] \o line
  BY <1>6, <1>8, <1>9 DEF Joined
<1>11. C[a] = A[a] /\ C[a + 1] = <<>> /\ a + 2 - 1 = a + 1
  BY <1>7, <1>8
<1>12. E[a + 1] = line
  BY <1>1, <1>10, <1>11
<1>13. ASSUME NEW k \in 1 .. a PROVE E[k] = A[k]
  <2> HIDE DEF a
  <2>1. E[k] = C[k]
    BY <1>7, <1>10
  <2>2. k = a \/ k \in 1 .. a - 1
    BY <1>7
  <2> QED
    BY <1>8, <1>11, <2>1, <2>2
<1>14. /\ F \in Seq(Seq(S)) /\ Len(F) = a + 1 /\ F[a + 1] = line
       /\ \A k \in 1 .. a : F[k] = A[k]
  BY <1>1, <1>7, Appending
<1> HIDE DEF F, a
<1>15. ASSUME NEW k \in 1 .. a + 1 PROVE E[k] = F[k]
  <2>1. k = a + 1 \/ k \in 1 .. a
    BY <1>7
  <2> QED
    BY <1>12, <1>13, <1>14, <2>1
<1>16. E = F
  <2>1. Len(E) = a + 1
    BY <1>7, <1>10
  <2> QED
    BY <1>7, <1>14, <1>15, <2>1, SeqEqual
<1> QED
  BY <1>16 DEF E, F, A, y, nl

(* Lines that hold no newline, joined, split into the same lines.           *)
LEMMA SplitOfJoined ==
  ASSUME NEW S, NL \in S, NEW lines \in Lines(Others(S))
  PROVE  SplitLines(JoinLines(lines)) = lines /\ JoinLines(lines) \in Seq(S)
<1> DEFINE n == Len(lines)
           Upto(i) == SubSeq(lines, 1, i)
<1>0. lines \in Seq(Seq(Others(S))) /\ n \in Nat \ {0}
  BY LinesFacts
<1>1. ASSUME NEW i \in 1 .. n PROVE Upto(i) \in Lines(Others(S)) /\ Upto(i) \in Lines(S)
  <2>1. i \in 0 .. Len(lines) /\ i > 0
    BY <1>0
  <2>2. Upto(i) \in Seq(Seq(Others(S))) /\ Len(Upto(i)) = i
    BY <1>0, <2>1, FirstPart
  <2> HIDE DEF Upto
  <2>3. Upto(i) \in Seq(Seq(S)) /\ Upto(i) # <<>>
    BY <2>1, <2>2 DEF Others
  <2> QED
    BY <2>2, <2>3 DEF Lines
<1>2. ASSUME NEW line \in Seq(Others(S)) PROVE line \in Seq(S) /\ SplitLines(line) = <<line>>
  BY LineOfBare DEF Others
<1> DEFINE Good == {i \in 1 .. n : SplitLines(JoinLines(Upto(i))) = Upto(i)}
<1>3. 1 \in Good /\ Good \in SUBSET (1 .. n)
  <2> DEFINE line == lines[1]
  <2>1. 1 \in 1 .. Len(lines) /\ line \in Seq(Others(S))
    BY <1>0
  <2>2. Upto(1) = <<line>>
    BY <1>0, <2>1, OneElement
  <2> HIDE DEF line
  <2>3. JoinLines(<<line>>) = line
    BY <1>2, <2>1, JoinOne
  <2>4. SplitLines(line) = <<line>>
    BY <1>2, <2>1
  <2> QED
    BY <2>1, <2>2, <2>3, <2>4
<1>4. ASSUME NEW i \in 2 .. n, i - 1 \in Good PROVE i \in Good
  <2> DEFINE a == Upto(i - 1)
             line == lines[i]
             x == JoinLines(a)
  <2>1. i \in 1 .. Len(lines) /\ i - 1 \in 1 .. n /\ line \in Seq(Others(S))
    BY <1>0
  <2>2. Upto(i) = Append(a, line)
    BY <1>0, <2>1, FirstPartGrows
  <2>3. a \in Lines(S) /\ SplitLines(x) = a
    BY <1>1, <1>4, <2>1
  <2> HIDE DEF a, line
  <2>4. line \in Seq(S) /\ <<line>> \in Lines(S) /\ JoinLines(<<line>>) = line
    BY <1>2, <2>1, JoinOne
  <2>5. JoinLines(a \o <<line>>) = x \o <<NL>> \o line /\ x \in Seq(S)
    <3> DEFINE b == <<line>>
    <3>1. b \in Lines(S) /\ JoinLines(b) = line
      BY <2>4
    <3> HIDE DEF b, x
    <3>2. JoinLines(a \o b) = JoinLines(a) \o <<NL>> \o JoinLines(b) /\ JoinLines(a) \in Seq(S)
      BY <2>3, <3>1, JoinTwo
    <3> QED
      BY <3>1, <3>2 DEF b, x
  <2>6. Append(a, line) = a \o <<line>>
    BY <2>3, <2>4, AppendIsConcat DEF Lines
  <2> HIDE DEF x
  <2>7. SplitLines(x \o <<NL>> \o line) = Append(SplitLines(x), line)
    BY <2>1, <2>5, OneLineMoreSplit
  <2>8. SplitLines(JoinLines(Upto(i))) = Upto(i)
    BY <2>2, <2>3, <2>5, <2>6, <2>7
  <2> HIDE DEF Upto
  <2> QED
    BY <2>1, <2>8
<1> HIDE DEF Good
<1>5. Good = 1 .. n
  <2>1. 1 \in Int /\ n \in Int /\ 1 <= n /\ 1 + 1 = 2
    BY <1>0
  <2> HIDE DEF n
  <2> QED
    BY <1>3, <1>4, <2>1, IntervalInduction
<1>6. n \in Good
  BY <1>0, <1>5
<1>7. Upto(n) = lines
  BY <1>0
<1>8. JoinLines(lines) \in Seq(S)
  <2>1. lines \in Lines(S)
    BY <1>0 DEF Lines, Others
  <2> QED
    BY <2>1, JoinTwo
<1> QED
  BY <1>6, <1>7, <1>8 DEF Good

(* The first lines of a window are the lines that follow its beginning.     *)
LEMMA FirstOfWindow ==
  ASSUME NEW S, NEW s \in Seq(S), NEW i \in 1 .. Len(s) + 1, NEW j \in i - 1 .. Len(s),
         NEW n \in 0 .. j - i + 1
  PROVE  SubSeq(SubSeq(s, i, j), 1, n) = SubSeq(s, i, i + n - 1)
<1> DEFINE w == SubSeq(s, i, j)
           a == SubSeq(w, 1, n)
           b == SubSeq(s, i, i + n - 1)
<1>0. Len(s) \in Nat /\ n \in Nat /\ i + n - 1 \in i - 1 .. Len(s) /\ i + n - 1 - i + 1 = n /\ i \in Nat
  OBVIOUS
<1>1. w \in Seq(S) /\ Len(w) = j - i + 1 /\ \A k \in 1 .. j - i + 1 : w[k] = s[i + k - 1]
  BY Slice
<1> HIDE DEF w
<1>2. a \in Seq(S) /\ Len(a) = n /\ \A k \in 1 .. n : a[k] = w[k]
  <2>1. n \in 0 .. Len(w)
    BY <1>1
  <2> QED
    BY <1>1, <2>1, FirstPart
<1>3. b \in Seq(S) /\ Len(b) = n /\ \A k \in 1 .. n : b[k] = s[i + k - 1]
  <2> DEFINE m == i + n - 1
  <2>1. m \in i - 1 .. Len(s) /\ m - i + 1 = n
    BY <1>0
  <2> HIDE DEF m
  <2>2. SubSeq(s, i, m) \in Seq(S) /\ Len(SubSeq(s, i, m)) = m - i + 1
        /\ \A k \in 1 .. m - i + 1 : SubSeq(s, i, m)[k] = s[i + k - 1]
    BY <2>1, Slice
  <2> QED
    BY <2>1, <2>2 DEF m
<1> HIDE DEF a, b
<1>4. \A k \in 1 .. n : k \in 1 .. j - i + 1
  BY <1>0
<1>5. a = b
  BY <1>1, <1>2, <1>3, <1>4, SeqEqual
<1> QED
  BY <1>5 DEF a, b, w

\* The counted lines are the lines, but for an empty one at the end.
CountedOf(lines, counted) ==
  /\ Len(counted) <= Len(lines) /\ Len(counted) \in Nat
  /\ \A n \in 0 .. Len(counted) : SubSeq(counted, 1, n) = SubSeq(lines, 1, n)

LEMMA CountedFirst ==
  ASSUME NEW S, NEW text \in Seq(S), Len(text) > 0
  PROVE  CountedOf(SplitLines(text), CountedLines(text))
<1> DEFINE lines == SplitLines(text)
           counted == CountedLines(text)
           front == Front(lines)
<1>1. lines \in Seq(Seq(S)) /\ Len(lines) \in Nat \ {0}
  BY LinesTyped, LinesFacts
<1>2. counted = IF text[Len(text)] = NL THEN front ELSE lines
  BY CountedOfText
<1> HIDE DEF lines, counted
<1>3. front = SubSeq(lines, 1, Len(lines) - 1)
  BY DEF Front
<1>4. ASSUME counted = lines PROVE CountedOf(lines, counted)
  BY <1>1, <1>4 DEF CountedOf
<1>5. ASSUME counted = front PROVE CountedOf(lines, counted)
  <2> DEFINE j == Len(lines) - 1
  <2>1. 1 \in 1 .. Len(lines) + 1 /\ j \in 1 - 1 .. Len(lines) /\ j \in 0 .. Len(lines) /\ j - 1 + 1 = j
    BY <1>1
  <2>2. Len(front) = j
    <3> HIDE DEF j
    <3>1. Len(SubSeq(lines, 1, j)) = j
      BY <1>1, <2>1, FirstPart
    <3> QED
      BY <1>3, <3>1 DEF j
  <2>3. ASSUME NEW n \in 0 .. j PROVE SubSeq(front, 1, n) = SubSeq(lines, 1, n)
    <3> HIDE DEF j
    <3>1. n \in 0 .. j - 1 + 1 /\ 1 + n - 1 = n
      BY <2>1
    <3>2. SubSeq(SubSeq(lines, 1, j), 1, n) = SubSeq(lines, 1, 1 + n - 1)
      BY <1>1, <2>1, <3>1, FirstOfWindow
    <3> QED
      BY <1>3, <3>1, <3>2 DEF j
  <2> HIDE DEF front
  <2>4. Len(counted) = j /\ j <= Len(lines) /\ j \in Nat
    BY <1>1, <1>5, <2>1, <2>2
  <2> HIDE DEF j
  <2> QED
    BY <1>5, <2>3, <2>4 DEF CountedOf
<1>6. CountedOf(lines, counted)
  BY <1>2, <1>4, <1>5
<1> QED
  BY <1>6 DEF lines, counted

-----------------------------------------------------------------------------
(* Following the notices of the read tool.                                  *)

\* What is shown of the lines of a window.
ShowsWindow(w, truncated) ==
  \/ truncated.firstLineExceedsLimit /\ Len(w[1]) > MaxBytes
  \/ /\ ~truncated.firstLineExceedsLimit /\ truncated.truncatedBy = ""
     /\ SplitLines(truncated.content) = w
  \/ /\ ~truncated.firstLineExceedsLimit /\ truncated.truncatedBy # ""
     /\ truncated.outputLines \in 1 .. Len(w) - 1
     /\ SplitLines(truncated.content) = SubSeq(w, 1, truncated.outputLines)

(* A truncated window shows its first lines, and fewer than all.            *)
LEMMA WindowShown ==
  ASSUME NEW S, NL \in S, NEW w \in Lines(Others(S))
  PROVE  ShowsWindow(w, TruncateHead(JoinLines(w)))
<1> DEFINE text == JoinLines(w)
           counted == CountedLines(text)
           truncated == TruncateHead(text)
           n == truncated.outputLines
<1>0. w \in Seq(Seq(Others(S))) /\ Len(w) \in Nat \ {0}
  BY LinesFacts
<1>1. text \in Seq(S) /\ SplitLines(text) = w
  BY SplitOfJoined
<1>2. CASE Fits(text)
  <2>1. truncated = Untruncated(text)
    BY <1>2 DEF TruncateHead
  <2> DEFINE u == Untruncated(text)
  <2>2. u.content = text /\ u.truncatedBy = "" /\ ~u.firstLineExceedsLimit
    BY DEF Untruncated
  <2> HIDE DEF u, text
  <2>3. ShowsWindow(w, u)
    BY <1>1, <2>2 DEF ShowsWindow
  <2> QED
    BY <2>1, <2>3 DEF u, text
<1>3. CASE ~Fits(text)
  <2> HIDE DEF text, truncated
  <2>1. Len(text) > 0 /\ Len(counted) > 0
    BY <1>1, <1>3, SomeLineCounted
  <2>2. ShowsHead(counted, truncated)
    BY <1>1, <1>3, HeadKeeps DEF truncated
  <2>3. CountedOf(w, counted)
    BY <1>1, <2>1, CountedFirst
  <2> HIDE DEF counted
  <2>4. /\ Len(counted) <= Len(w) /\ Len(counted) \in Nat
        /\ \A k \in 0 .. Len(counted) : SubSeq(counted, 1, k) = SubSeq(w, 1, k)
    BY <2>3 DEF CountedOf
  <2>5. CASE truncated.firstLineExceedsLimit /\ Len(counted[1]) > MaxBytes
    <3>1. SubSeq(counted, 1, 1) = SubSeq(w, 1, 1) /\ 1 \in 1 .. Len(w)
      BY <2>1, <2>4
    <3>2. SubSeq(w, 1, 1) = <<w[1]>>
      BY <1>0, <3>1, OneElement
    <3>3. counted \in Seq(Seq(S)) /\ 1 \in 1 .. Len(counted)
      BY <1>1, <2>1, <2>4, SomeLineCounted DEF counted
    <3>4. SubSeq(counted, 1, 1) = <<counted[1]>>
      BY <3>3, OneElement
    <3>5. counted[1] = w[1]
      BY <3>1, <3>2, <3>4
    <3> QED
      BY <2>5, <3>5 DEF ShowsWindow, truncated, text
  <2>6. CASE /\ ~truncated.firstLineExceedsLimit /\ truncated.truncatedBy # ""
             /\ n \in 1 .. Len(counted) /\ n <= MaxLines
             /\ truncated.content = JoinLines(SubSeq(counted, 1, n))
             /\ Len(truncated.content) <= MaxBytes
    <3> HIDE DEF n
    <3> DEFINE c == Len(counted)
               d == Len(w)
    <3>1. SubSeq(counted, 1, n) = SubSeq(w, 1, n) /\ n \in 1 .. Len(w) /\ n \in Nat /\ n \in 0 .. Len(w)
      <4>1. c <= d /\ c \in Nat /\ n \in 1 .. c /\ d \in Nat
        BY <1>0, <2>4, <2>6
      <4> HIDE DEF c, d
      <4>2. n \in 0 .. c /\ n \in 1 .. d /\ n \in Nat /\ n \in 0 .. d
        BY <4>1
      <4> QED
        BY <2>4, <4>2 DEF c, d
    <3>2. n # Len(w)
      <4> SUFFICES ASSUME n = Len(w) PROVE FALSE
        OBVIOUS
      <4>1. SubSeq(w, 1, n) = w
        BY <1>0
      <4>2. truncated.content = text
        BY <2>6, <3>1, <4>1 DEF text
      <4>3. c <= MaxLines
        <5>1. c <= n /\ c \in Nat /\ n \in Nat /\ n <= MaxLines /\ MaxLines \in Nat
          BY <2>4, <2>6, <3>1, LimitAssumption
        <5> HIDE DEF c
        <5> QED
          BY <5>1
      <4> QED
        BY <1>3, <2>6, <4>2, <4>3 DEF Fits, counted
    <3>3. n \in 1 .. Len(w) - 1
      BY <1>0, <3>1, <3>2
    <3> DEFINE x == SubSeq(w, 1, n)
    <3>4. x \in Lines(Others(S))
      <4>1. x \in Seq(Seq(Others(S))) /\ Len(x) = n
        BY <1>0, <3>1, FirstPart
      <4> HIDE DEF x
      <4>2. x # <<>>
        BY <3>1, <4>1
      <4> QED
        BY <4>1, <4>2 DEF Lines
    <3> HIDE DEF x
    <3>5. SplitLines(JoinLines(x)) = x
      BY <3>4, SplitOfJoined
    <3>6. SplitLines(truncated.content) = SubSeq(w, 1, n)
      BY <2>6, <3>1, <3>5 DEF x
    <3> QED
      BY <2>6, <3>3, <3>6 DEF ShowsWindow, n, truncated, text
  <2> QED
    BY <2>2, <2>5, <2>6 DEF ShowsHead, n
<1> QED
  BY <1>2, <1>3

\* What one call of the read tool says of a file: nothing is there, the line is
\* too long to show, nothing is shown, or the lines are shown up to the offset
\* its notice names, or up to the last one when it has none.
ReadsOn(all, offset, read) ==
  \/ read.kind = "beyond" /\ offset > Len(all)
  \/ read.kind = "tooLong" /\ offset \in 1 .. Len(all) /\ Len(all[offset]) > MaxBytes
  \/ read.kind = "text" /\ read.next = offset /\ offset <= Len(all)
  \/ /\ read.kind = "text" /\ read.next \in offset + 1 .. Len(all)
     /\ SplitLines(read.content) = SubSeq(all, offset, read.next - 1)
  \/ /\ read.kind = "text" /\ read.next = 0 /\ offset <= Len(all)
     /\ SplitLines(read.content) = SubSeq(all, offset, Len(all))

(* The window that a call reads lies in the file.                           *)
LEMMA WindowEnds ==
  ASSUME NEW start \in Nat, NEW length \in Nat, start < length, NEW limit \in Int
  PROVE  Max({start, Min({start + limit, length})}) \in start .. length
<1> DEFINE to == start + limit
           least == Min({to, length})
           most == Max({start, least})
<1>1. to \in Int
  OBVIOUS
<1> HIDE DEF to
<1>2. least = IF to <= length THEN to ELSE length
  BY <1>1, OfTwo
<1>3. least \in Int /\ least <= length
  BY <1>1, <1>2
<1> HIDE DEF least
<1>4. most = IF start <= least THEN least ELSE start
  BY <1>3, OfTwo
<1> QED
  BY <1>3, <1>4 DEF least, to

(* One call, whatever its limit.                                            *)
LEMMA ReadsInOrder ==
  ASSUME NEW S, NL \in S, NEW file \in Seq(S), NEW offset \in Nat \ {0}, NEW limit \in Limits
  PROVE  ReadsOn(SplitLines(file), offset, ReadText(file, offset, limit))
<1> DEFINE all == SplitLines(file)
           length == Len(all)
           start == offset - 1
           end == IF limit = NoLimit THEN length ELSE Max({start, Min({start + limit, length})})
           w == SubSeq(all, start + 1, end)
           page == TruncateHead(JoinLines(w))
           read == ReadText(file, offset, limit)
<1>0. start \in Nat /\ start + 1 = offset
  OBVIOUS
<1>1. Max({offset - 1, 0}) = start
  <2> DEFINE zero == 0
  <2>1. zero \in Int /\ start \in Int /\ zero = 0
    OBVIOUS
  <2> HIDE DEF start, zero
  <2>2. Max({start, zero}) = IF start <= zero THEN zero ELSE start
    BY <2>1, OfTwo
  <2>3. Max({start, zero}) = start
    BY <1>0, <2>1, <2>2
  <2> QED
    BY <2>1, <2>3 DEF start
<1>2. read = CASE start >= length -> [kind |-> "beyond", content |-> <<>>, next |-> 0]
          [] OTHER ->
             IF page.firstLineExceedsLimit THEN [kind |-> "tooLong", content |-> <<>>, next |-> 0]
             ELSE [kind |-> "text", content |-> page.content,
                   next |-> CASE page.truncatedBy # ""                    -> NextOffset(start, page)
                              [] page.truncatedBy = "" /\ end < length -> end + 1
                              [] OTHER                                     -> 0]
  <2> HIDE DEF start
  <2> QED
    BY <1>1, Zenon DEF ReadText
<1>3. all \in Lines(Others(S)) /\ all \in Seq(Seq(Others(S))) /\ length \in Nat \ {0}
  BY LinesAreBare, LinesFacts
<1> HIDE DEF all, read
<1>4. CASE start >= length
  <2>1. read.kind = "beyond"
    BY <1>2, <1>4
  <2>2. offset > Len(all)
    BY <1>3, <1>4
  <2> QED
    BY <2>1, <2>2 DEF ReadsOn, all, read
<1>5. CASE start < length
  <2>1. end \in start .. length
    <3>1. CASE limit = NoLimit
      BY <1>0, <1>3, <1>5, <3>1
    <3>2. CASE limit # NoLimit
      <4>1. limit \in Int
        BY <3>2, LimitsAreIntegers
      <4> HIDE DEF start, length
      <4>2. Max({start, Min({start + limit, length})}) \in start .. length
        BY <1>0, <1>3, <1>5, <4>1, WindowEnds
      <4> QED
        BY <3>2, <4>2
    <3> QED
      BY <3>1, <3>2
  <2>2. read = IF page.firstLineExceedsLimit THEN [kind |-> "tooLong", content |-> <<>>, next |-> 0]
               ELSE [kind |-> "text", content |-> page.content,
                   next |-> IF page.truncatedBy # "" THEN NextOffset(start, page)
                            ELSE IF end < length THEN end + 1 ELSE 0]
    <3>1. ~ (start >= length)
      BY <1>0, <1>3, <1>5
    <3> HIDE DEF end, page, start, length
    <3> QED
      BY <1>2, <3>1
  <2>3. /\ offset \in 1 .. Len(all) + 1 /\ end \in offset - 1 .. Len(all) /\ offset \in 1 .. Len(all)
        /\ start + 1 = offset
    BY <1>0, <1>3, <1>5, <2>1
  <2> HIDE DEF end, start
  <2>5. w = SubSeq(all, offset, end)
    BY <2>3
  <2> HIDE DEF w
  <2>4. /\ w \in Seq(Seq(Others(S))) /\ Len(w) = end - offset + 1
        /\ \A k \in 1 .. end - offset + 1 : w[k] = all[offset + k - 1]
    BY <1>3, <2>3, <2>5, Slice
  <2>6. CASE end = start
    <3>1. w = <<>>
      BY <1>0, <2>3, <2>4, <2>6
    <3>2. JoinLines(w) = <<>>
      BY <3>1, Zenon DEF JoinLines
    <3>3. CountedLines(<<>>) = <<>>
      BY Zenon DEF CountedLines
    <3>4. Fits(<<>>)
      BY <3>3, LimitAssumption DEF Fits
    <3>5. page = Untruncated(<<>>)
      BY <3>2, <3>4 DEF TruncateHead
    <3> DEFINE u == Untruncated(<<>>)
    <3>a. u.truncatedBy = "" /\ ~u.firstLineExceedsLimit
      BY DEF Untruncated
    <3> HIDE DEF page, u
    <3>6. page.truncatedBy = "" /\ ~page.firstLineExceedsLimit
      BY <3>5, <3>a DEF u
    <3>7. end < length /\ end + 1 = offset
      BY <1>5, <2>3, <2>6
    <3> HIDE DEF length
    <3>b. read = [kind |-> "text", content |-> page.content, next |-> end + 1]
      BY <2>2, <3>6, <3>7
    <3>8. read.kind = "text" /\ read.next = offset /\ offset <= Len(all)
      BY <2>3, <3>7, <3>b
    <3> QED
      BY <3>8 DEF ReadsOn, all, read
  <2>7. CASE end # start
    <3>1. end \in Nat /\ end >= offset /\ end <= length /\ Len(w) = end - offset + 1 /\ 1 \in 1 .. end - offset + 1
          /\ offset + 1 - 1 = offset /\ length = Len(all)
      BY <1>0, <1>3, <2>1, <2>3, <2>4, <2>7
    <3>2. w \in Lines(Others(S)) /\ w[1] = all[offset]
      <4>1. w # <<>>
        BY <2>4, <3>1
      <4> QED
        BY <2>4, <3>1, <4>1 DEF Lines
    <3>3. ShowsWindow(w, page)
      BY <3>2, WindowShown
    <3> HIDE DEF page, length
    <3>4. CASE page.firstLineExceedsLimit /\ Len(w[1]) > MaxBytes
      <4>1. read.kind = "tooLong"
        BY <2>2, <3>4
      <4> QED
        BY <2>3, <3>2, <3>4, <4>1 DEF ReadsOn, all, read
    <3>5. CASE /\ ~page.firstLineExceedsLimit /\ page.truncatedBy = ""
               /\ SplitLines(page.content) = w
      <4>1. read.kind = "text" /\ read.content = page.content /\ read.next = IF end < length THEN end + 1 ELSE 0
        BY <2>2, <3>5
      <4>2. CASE end < length
        <5>1. read.next = end + 1 /\ read.next \in offset + 1 .. Len(all) /\ read.next - 1 = end
          BY <2>3, <3>1, <4>1, <4>2
        <5>2. SplitLines(read.content) = SubSeq(all, offset, read.next - 1)
          BY <2>5, <3>5, <4>1, <5>1
        <5> QED
          BY <4>1, <5>1, <5>2 DEF ReadsOn, all, read
      <4>3. CASE ~ (end < length)
        <5>1. read.next = 0 /\ end = Len(all) /\ offset <= Len(all)
          BY <1>3, <2>3, <3>1, <4>1, <4>3
        <5>2. SplitLines(read.content) = SubSeq(all, offset, Len(all))
          BY <2>5, <3>5, <4>1, <5>1
        <5> QED
          BY <4>1, <5>1, <5>2 DEF ReadsOn, all, read
      <4> QED
        BY <4>2, <4>3
    <3>6. CASE /\ ~page.firstLineExceedsLimit /\ page.truncatedBy # ""
               /\ page.outputLines \in 1 .. Len(w) - 1
               /\ SplitLines(page.content) = SubSeq(w, 1, page.outputLines)
      <4> DEFINE n == page.outputLines
      <4>1. read.kind = "text" /\ read.content = page.content /\ read.next = start + n + 1
        BY <2>2, <3>6 DEF NextOffset
      <4>2. n \in 1 .. Len(w) - 1 /\ SplitLines(page.content) = SubSeq(w, 1, n)
        BY <3>6
      <4> HIDE DEF n
      <4>3. /\ read.next = offset + n /\ read.next \in offset + 1 .. Len(all)
            /\ read.next - 1 = offset + n - 1 /\ n \in 0 .. end - offset + 1
        BY <1>0, <2>3, <3>1, <4>1, <4>2
      <4>4. SubSeq(w, 1, n) = SubSeq(all, offset, offset + n - 1)
        BY <1>3, <2>3, <2>5, <4>3, FirstOfWindow
      <4>5. SplitLines(read.content) = SubSeq(all, offset, read.next - 1)
        BY <4>1, <4>2, <4>3, <4>4
      <4> QED
        BY <4>1, <4>3, <4>5 DEF ReadsOn, all, read
    <3> QED
      BY <3>3, <3>4, <3>5, <3>6 DEF ShowsWindow
  <2> QED
    BY <2>6, <2>7
<1> QED
  BY <1>0, <1>3, <1>4, <1>5

(* Two windows that meet are one window.                                    *)
LEMMA WindowsMeet ==
  ASSUME NEW S, NEW s \in Seq(S), NEW i \in 1 .. Len(s), NEW m \in i .. Len(s), NEW j \in m - 1 .. Len(s)
  PROVE  SubSeq(s, i, m - 1) \o SubSeq(s, m, j) = SubSeq(s, i, j)
<1> DEFINE k == m - 1
<1>1. /\ i \in 1 .. Len(s) + 1 /\ k \in i - 1 .. Len(s) /\ k + 1 = m /\ j \in k .. Len(s)
  OBVIOUS
<1> HIDE DEF k
<1>2. SubSeq(s, i, k) \o SubSeq(s, k + 1, j) = SubSeq(s, i, j)
  BY <1>1, ConcatAdjacentSubSeq
<1> QED
  BY <1>1, <1>2 DEF k

\* A reader: where it began, how far it is, and what it has been shown.  An offset
\* beyond the file is only where a reader began.
ReaderInv ==
  /\ JobFields
  /\ job.kind = "read" =>
       /\ job.from \in Nat \ {0} /\ job.offset \in Nat /\ job.from <= job.offset
       /\ job.offset = job.from \/ job.offset <= Len(SplitLines(job.file))
  /\ ReadingIsComplete

LEMMA ReaderInit == TextInit => ReaderInv
<1> SUFFICES ASSUME TextInit PROVE ReaderInv
  OBVIOUS
<1>1. JobFields
  BY FieldsInit
<1>2. CASE job.kind # "read"
  BY <1>1, <1>2 DEF ReaderInv, ReadingIsComplete
<1>3. CASE job.kind = "read"
  <2>1. PICK file \in ReadFiles, from \in 1..3 :
             job = [kind |-> "read", file |-> file, from |-> from, offset |-> from,
                    shown |-> <<>>, status |-> "more"]
    BY <1>3 DEF TextInit
  <2> DEFINE all == SplitLines(job.file)
  <2>2. /\ job.from = from /\ job.offset = from /\ job.shown = <<>> /\ job.status = "more"
        /\ from \in Nat \ {0} /\ from <= from
    BY <2>1
  <2> HIDE DEF all
  <2>3. SubSeq(all, from, from - 1) = <<>>
    BY <2>2, SubSeqEmpty
  <2>4. ReadingIsComplete
    BY <2>2, <2>3 DEF ReadingIsComplete, all
  <2> QED
    BY <1>1, <2>2, <2>4 DEF ReaderInv
<1> QED
  BY <1>2, <1>3

\* What the reader is after a call.
ReadAfter(read) ==
  [job EXCEPT
    !.shown  = IF read.kind # "text" \/ read.next = job.offset THEN @
               ELSE @ \o SplitLines(read.content),
    !.offset = IF read.next = 0 THEN @ ELSE read.next,
    !.status = IF read.kind # "text" THEN read.kind
               ELSE IF read.next = 0 THEN "complete" ELSE @]

\* A notice comes with shown lines only.
LEMMA NoticeOfText ==
  ASSUME NEW file, NEW offset, NEW limit
  PROVE  LET read == ReadText(file, offset, limit) IN read.kind # "text" => read.next = 0
BY DEF ReadText

\* A call keeps what a reader knows.
LEMMA ReadKeeps ==
  ASSUME ReaderInv, NEW limit \in Limits, ReadMore(limit)
  PROVE  ReaderInv'
<1> DEFINE all == SplitLines(job.file)
           read == ReadText(job.file, job.offset, limit)
           S == Range(job.file) \cup {NL}
           T == Seq(Others(S))
<1>1. job.kind = "read" /\ job.status = "more" /\ job' = ReadAfter(read)
  BY DEF ReadMore, ReadAfter
<1>2. JobFields' /\ JobFields
  <2>1. [TextNext]_textVars
    BY DEF TextNext
  <2> QED
    BY <2>1, FieldsStep DEF ReaderInv
<1>3. NL \in S /\ job.file \in Seq(S)
  <2>1. job.file \in Seq(Range(job.file))
    BY <1>1, <1>2, ReadFileAssumption DEF JobFields
  <2> QED
    BY <2>1
<1>4. /\ job.from \in Nat \ {0} /\ job.offset \in Nat \ {0} /\ job.from <= job.offset
      /\ job.offset = job.from \/ job.offset <= Len(all)
      /\ job.shown = SubSeq(all, job.from, job.offset - 1)
  BY <1>1 DEF ReaderInv, ReadingIsComplete
<1>5. ReadsOn(all, job.offset, read)
  <2> HIDE DEF S
  <2> QED
    BY <1>3, <1>4, ReadsInOrder
<1>6. read.kind # "text" => read.next = 0
  BY NoticeOfText
<1>7. all \in Seq(T) /\ Len(all) \in Nat
  <2> HIDE DEF S
  <2> QED
    BY <1>3, LinesAreBare, LinesFacts
<1> HIDE DEF all, read, S, T
<1>8. job = [kind |-> "read", file |-> job.file, from |-> job.from, offset |-> job.offset,
             shown |-> job.shown, status |-> job.status]
  BY <1>1, <1>2 DEF JobFields
<1>9. /\ job'.kind = "read" /\ job'.file = job.file /\ job'.from = job.from
      /\ job'.shown = IF read.kind # "text" \/ read.next = job.offset THEN job.shown
                      ELSE job.shown \o SplitLines(read.content)
      /\ job'.offset = IF read.next = 0 THEN job.offset ELSE read.next
      /\ job'.status = IF read.kind # "text" THEN read.kind
                       ELSE IF read.next = 0 THEN "complete" ELSE job.status
  BY <1>1, <1>8 DEF ReadAfter
\* What is to be shown of the job that follows.
<1>10. ASSUME /\ job'.offset \in Nat /\ job.from <= job'.offset
              /\ job'.offset = job.from \/ job'.offset <= Len(all)
              /\ job'.status = "more" => job'.shown = SubSeq(all, job.from, job'.offset - 1)
              /\ job'.status = "complete" => job'.shown = SubSeq(all, job.from, Len(all))
              /\ job'.status = "beyond" => job.from > Len(all)
              /\ job'.status = "tooLong" => Len(all[job'.offset]) > MaxBytes
       PROVE  ReaderInv'
  <2>1. ReadingIsComplete'
    BY <1>9, <1>10 DEF ReadingIsComplete, all
  <2> QED
    BY <1>2, <1>4, <1>9, <1>10, <2>1 DEF ReaderInv, all
<1>11. CASE read.kind = "beyond" /\ job.offset > Len(all)
  <2>1. job'.status = "beyond" /\ job'.offset = job.offset
    BY <1>6, <1>9, <1>11
  <2>2. job.from > Len(all)
    BY <1>4, <1>7, <1>11
  <2> QED
    BY <1>4, <1>10, <2>1, <2>2
<1>12. CASE /\ read.kind = "tooLong" /\ job.offset \in 1 .. Len(all) /\ Len(all[job.offset]) > MaxBytes
  <2>1. job'.status = "tooLong" /\ job'.offset = job.offset
    BY <1>6, <1>9, <1>12
  <2> QED
    BY <1>4, <1>10, <1>12, <2>1
<1>13. CASE read.kind = "text" /\ read.next = job.offset /\ job.offset <= Len(all)
  <2>1. job'.status = "more" /\ job'.offset = job.offset /\ job'.shown = job.shown
    BY <1>1, <1>4, <1>9, <1>13
  <2> QED
    BY <1>4, <1>10, <2>1
<1>14. CASE /\ read.kind = "text" /\ read.next \in job.offset + 1 .. Len(all)
            /\ SplitLines(read.content) = SubSeq(all, job.offset, read.next - 1)
  <2> DEFINE next == read.next
  <2>1. next \in Nat \ {0} /\ next # job.offset /\ next > job.offset /\ next <= Len(all)
    BY <1>4, <1>7, <1>14
  <2> HIDE DEF next
  <2>2. /\ job'.status = "more" /\ job'.offset = next
        /\ job'.shown = job.shown \o SubSeq(all, job.offset, next - 1)
    BY <1>1, <1>9, <1>14, <2>1 DEF next
  <2>3. /\ job.from \in 1 .. Len(all) /\ job.offset \in job.from .. Len(all)
        /\ next - 1 \in job.offset - 1 .. Len(all) /\ job.from <= next
    BY <1>4, <1>7, <2>1
  <2>4. job'.shown = SubSeq(all, job.from, next - 1)
    <3> DEFINE j == next - 1
    <3> HIDE DEF j
    <3>1. SubSeq(all, job.from, job.offset - 1) \o SubSeq(all, job.offset, j) = SubSeq(all, job.from, j)
      BY <1>7, <2>3, WindowsMeet DEF j
    <3> QED
      BY <1>4, <2>2, <3>1 DEF j
  <2> QED
    BY <1>10, <2>1, <2>2, <2>3, <2>4
<1>15. CASE /\ read.kind = "text" /\ read.next = 0 /\ job.offset <= Len(all)
            /\ SplitLines(read.content) = SubSeq(all, job.offset, Len(all))
  <2>1. /\ job'.status = "complete" /\ job'.offset = job.offset
        /\ job'.shown = job.shown \o SubSeq(all, job.offset, Len(all))
    BY <1>4, <1>9, <1>15
  <2>2. /\ job.from \in 1 .. Len(all) /\ job.offset \in job.from .. Len(all)
        /\ Len(all) \in job.offset - 1 .. Len(all)
    BY <1>4, <1>7, <1>15
  <2>3. job'.shown = SubSeq(all, job.from, Len(all))
    BY <1>4, <1>7, <2>1, <2>2, WindowsMeet
  <2> QED
    BY <1>4, <1>10, <2>1, <2>3
<1> QED
  BY <1>5, <1>11, <1>12, <1>13, <1>14, <1>15 DEF ReadsOn

LEMMA ReaderStep == ReaderInv /\ [TextNext]_textVars => ReaderInv'
<1> SUFFICES ASSUME ReaderInv, [TextNext]_textVars PROVE ReaderInv'
  OBVIOUS
<1>1. JobFields'
  BY FieldsStep DEF ReaderInv
<1>2. ASSUME job'.kind # "read" PROVE ReaderInv'
  BY <1>1, <1>2 DEF ReaderInv, ReadingIsComplete
<1>3. ASSUME NEW chunk \in Chunks, CaptureChunk(chunk) PROVE job'.kind # "read"
  <2>1. job.kind = "capture"
    BY <1>3 DEF CaptureChunk
  <2>2. PICK done : job' = [job EXCEPT !.chunks = @ + 1, !.ctxDone = done]
    BY <1>3 DEF CaptureChunk
  <2> QED
    BY <2>1, <2>2 DEF ReaderInv, JobFields
<1>4. ASSUME NEW limit \in Limits, ReadMore(limit) PROVE ReaderInv'
  BY <1>4, ReadKeeps
<1>5. CASE Edit
  <2>1. job'.kind = "edited"
    BY <1>5, EditedIsEdited
  <2> QED
    BY <1>2, <2>1
<1>6. CASE Diff
  <2>1. job'.kind = "diffed"
    BY <1>6 DEF Diff
  <2> QED
    BY <1>2, <2>1
<1>7. CASE UNCHANGED textVars
  BY <1>1, <1>7 DEF textVars, ReaderInv, ReadingIsComplete
<1> QED
  BY <1>2, <1>3, <1>4, <1>5, <1>6, <1>7 DEF TextNext

(* Whatever limit each call has, whoever follows the offsets of the notices   *)
(* is shown every line once, in order, and all of them when no notice is left *)
(* (readTextToolResult, tools/read.go:61-64, 189-276).                        *)
THEOREM FollowingNoticesReadsAll == TextSpec => []ReadingIsComplete
<1>1. ReaderInv => ReadingIsComplete
  BY DEF ReaderInv
<1> QED
  BY <1>1, ReaderInit, ReaderStep, PTL DEF TextSpec

-----------------------------------------------------------------------------
(* The line diff: its folds.                                                *)

\* The states h of the fold
TakesLanes(old, new, search, n, N, h) ==
  /\ h[0] = search
  /\ \A i \in 1 .. N : h[i] = Diagonal(old, new, h[i - 1], Lanes(search, n)[i])
  /\ EditLength(old, new, search, n) = h[N]

(* One edit length takes the diagonals in order.                            *)
LEMMA DiagonalSteps ==
  ASSUME NEW old, NEW new, NEW search, NEW n, NEW N \in Nat, DOMAIN Lanes(search, n) = 1 .. N
  PROVE  \E h : TakesLanes(old, new, search, n, N, h)
<1> DEFINE top == N
           base == search
           Sol(g, k) == g = [t \in SUBSET (1 .. k) |->
                           IF t = {} THEN base ELSE Diagonal(old, new, g[t \ {Max(t)}], Lanes(search, n)[Max(t)])]
           Good == {k \in 0 .. top : \E g : Sol(g, k)}
           iter == CHOOSE g : Sol(g, top)
<1>1. top \in Nat /\ DOMAIN Lanes(search, n) = 1 .. top
  OBVIOUS
<1>2. 0 \in Good
  <2> DEFINE g == [t \in SUBSET (1 .. 0) |-> base]
  <2>1. \A t \in SUBSET (1 .. 0) : t = {}
    OBVIOUS
  <2>2. Sol(g, 0)
    BY <2>1
  <2> HIDE DEF Sol
  <2> QED
    BY <1>1, <2>2
<1>3. ASSUME NEW k \in 1 .. top, k - 1 \in Good PROVE k \in Good
  <2> HIDE DEF base
  <2>1. PICK f : Sol(f, k - 1)
    BY <1>3
  <2> DEFINE Onward(g, t) == IF t = {} THEN base ELSE Diagonal(old, new, g[t \ {Max(t)}], Lanes(search, n)[Max(t)])
             g == [t \in SUBSET (1 .. k) |-> Onward(f, t)]
  <2>0. k \in Nat /\ 1 .. k - 1 \subseteq 1 .. k
    BY <1>1
  <2>2. ASSUME NEW t \in SUBSET (1 .. k), t # {}
        PROVE  t \ {Max(t)} \in SUBSET (1 .. k - 1) /\ t \ {Max(t)} \in SUBSET (1 .. k)
    <3>1. Max(t) \in t /\ \A y \in t : Max(t) >= y
      BY <2>0, <2>2, LargestElement
    <3>2. ASSUME NEW y \in t \ {Max(t)} PROVE y \in 1 .. k - 1
      <4> DEFINE m == Max(t)
      <4>1. y \in 1 .. k /\ m \in 1 .. k /\ y # m /\ m >= y
        BY <3>1
      <4> HIDE DEF m
      <4> QED
        BY <2>0, <4>1
    <3>3. t \ {Max(t)} \subseteq 1 .. k - 1 /\ t \ {Max(t)} \subseteq 1 .. k
      BY <3>2
    <3> QED
      BY <3>3, Zenon
  <2>3. ASSUME NEW t \in SUBSET (1 .. k - 1) PROVE f[t] = Onward(f, t) /\ t \in SUBSET (1 .. k)
    <3>1. f[t] = Onward(f, t)
      BY <2>1
    <3> QED
      BY <2>0, <3>1
  <2>4. ASSUME NEW t \in SUBSET (1 .. k) PROVE g[t] = Onward(g, t)
    <3>1. CASE t = {}
      BY <3>1
    <3>2. CASE t # {}
      <4>1. t \ {Max(t)} \in SUBSET (1 .. k - 1) /\ t \ {Max(t)} \in SUBSET (1 .. k)
        BY <2>2, <3>2
      <4>2. g[t \ {Max(t)}] = Onward(f, t \ {Max(t)}) /\ f[t \ {Max(t)}] = Onward(f, t \ {Max(t)})
        <5> HIDE DEF Onward
        <5> QED
          BY <2>3, <4>1
      <4>3. g[t] = Onward(f, t)
        OBVIOUS
      <4> HIDE DEF g
      <4> QED
        BY <3>2, <4>2, <4>3 DEF Onward
    <3> QED
      BY <3>1, <3>2
  <2>5. Sol(g, k)
    <3>1. g = [t \in SUBSET (1 .. k) |-> g[t]]
      OBVIOUS
    <3> HIDE DEF g
    <3> QED
      BY <2>4, <3>1 DEF Onward
  <2> HIDE DEF Sol
  <2> QED
    BY <2>5
<1> HIDE DEF Sol
<1>4. Good = 0 .. top
  <2>1. Good \in SUBSET (0 .. top)
    OBVIOUS
  <2> HIDE DEF Good
  <2> QED
    BY <1>1, <1>2, <1>3, <2>1, BoundedInduction
<1>5. Sol(iter, top)
  <2>1. top \in Good
    <3> HIDE DEF Good
    <3> QED
      BY <1>1, <1>4
  <2> QED
    BY <2>1
<1> USE DEF Sol
<1>6. EditLength(old, new, search, n) = iter[1 .. top]
  <2>1. EditLength(old, new, search, n) = iter[DOMAIN Lanes(search, n)]
    BY <1>1 DEF FoldLeft, MapThenFoldSet, EditLength
  <2> QED
    BY <1>1, <2>1
<1> HIDE DEF iter
<1> DEFINE h == [i \in 0 .. top |-> iter[1 .. i]]
<1>7. h[0] = base
  BY <1>1, <1>5, PrefixIntervals
<1>8. ASSUME NEW i \in 1 .. top PROVE h[i] = Diagonal(old, new, h[i - 1], Lanes(search, n)[i])
  <2>1. /\ 1 .. i \in SUBSET (1 .. top) /\ 1 .. i # {}
        /\ Max(1 .. i) = i /\ (1 .. i) \ {i} = 1 .. i - 1
    BY <1>1, PrefixIntervals
  <2>2. iter[1 .. i] = Diagonal(old, new, iter[1 .. i - 1], Lanes(search, n)[i])
    BY <1>5, <2>1
  <2> QED
    BY <1>1, <2>2
<1>9. h[top] = iter[1 .. top]
  BY <1>1
<1> HIDE DEF h
<1> QED
  BY <1>6, <1>7, <1>8, <1>9 DEF TakesLanes


\* The edit lengths that may be tried
Lengths(old, new, N, seq) ==
  N = Longest(old, new) /\ N \in Nat /\ seq = [n \in 1 .. N |-> n]

\* The states h of the fold
TakesLengths(old, new, N, seq, h) ==
  /\ h[0] = FirstSearch(old, new)
  /\ \A i \in 1 .. N : h[i] = EditLength(old, new, h[i - 1], seq[i])
  /\ Searches(old, new) = h[N]

(* The edit lengths are tried in order.                                     *)
LEMMA EditLengthSteps ==
  ASSUME NEW old, NEW new, NEW N, NEW seq, Lengths(old, new, N, seq)
  PROVE  \E h : TakesLengths(old, new, N, seq, h)
<1> DEFINE top == N
           base == FirstSearch(old, new)
           Sol(g, k) == g = [t \in SUBSET (1 .. k) |->
                           IF t = {} THEN base ELSE EditLength(old, new, g[t \ {Max(t)}], seq[Max(t)])]
           Good == {k \in 0 .. top : \E g : Sol(g, k)}
           iter == CHOOSE g : Sol(g, top)
<1>1. top \in Nat /\ DOMAIN seq = 1 .. top
  BY DEF Lengths
<1>2. 0 \in Good
  <2> DEFINE g == [t \in SUBSET (1 .. 0) |-> base]
  <2>1. \A t \in SUBSET (1 .. 0) : t = {}
    OBVIOUS
  <2>2. Sol(g, 0)
    BY <2>1
  <2> HIDE DEF Sol
  <2> QED
    BY <1>1, <2>2
<1>3. ASSUME NEW k \in 1 .. top, k - 1 \in Good PROVE k \in Good
  <2> HIDE DEF base
  <2>1. PICK f : Sol(f, k - 1)
    BY <1>3
  <2> DEFINE Onward(g, t) == IF t = {} THEN base ELSE EditLength(old, new, g[t \ {Max(t)}], seq[Max(t)])
             g == [t \in SUBSET (1 .. k) |-> Onward(f, t)]
  <2>0. k \in Nat /\ 1 .. k - 1 \subseteq 1 .. k
    BY <1>1
  <2>2. ASSUME NEW t \in SUBSET (1 .. k), t # {}
        PROVE  t \ {Max(t)} \in SUBSET (1 .. k - 1) /\ t \ {Max(t)} \in SUBSET (1 .. k)
    <3>1. Max(t) \in t /\ \A y \in t : Max(t) >= y
      BY <2>0, <2>2, LargestElement
    <3>2. ASSUME NEW y \in t \ {Max(t)} PROVE y \in 1 .. k - 1
      <4> DEFINE m == Max(t)
      <4>1. y \in 1 .. k /\ m \in 1 .. k /\ y # m /\ m >= y
        BY <3>1
      <4> HIDE DEF m
      <4> QED
        BY <2>0, <4>1
    <3>3. t \ {Max(t)} \subseteq 1 .. k - 1 /\ t \ {Max(t)} \subseteq 1 .. k
      BY <3>2
    <3> QED
      BY <3>3, Zenon
  <2>3. ASSUME NEW t \in SUBSET (1 .. k - 1) PROVE f[t] = Onward(f, t) /\ t \in SUBSET (1 .. k)
    <3>1. f[t] = Onward(f, t)
      BY <2>1
    <3> QED
      BY <2>0, <3>1
  <2>4. ASSUME NEW t \in SUBSET (1 .. k) PROVE g[t] = Onward(g, t)
    <3>1. CASE t = {}
      BY <3>1
    <3>2. CASE t # {}
      <4>1. t \ {Max(t)} \in SUBSET (1 .. k - 1) /\ t \ {Max(t)} \in SUBSET (1 .. k)
        BY <2>2, <3>2
      <4>2. g[t \ {Max(t)}] = Onward(f, t \ {Max(t)}) /\ f[t \ {Max(t)}] = Onward(f, t \ {Max(t)})
        <5> HIDE DEF Onward
        <5> QED
          BY <2>3, <4>1
      <4>3. g[t] = Onward(f, t)
        OBVIOUS
      <4> HIDE DEF g
      <4> QED
        BY <3>2, <4>2, <4>3 DEF Onward
    <3> QED
      BY <3>1, <3>2
  <2>5. Sol(g, k)
    <3>1. g = [t \in SUBSET (1 .. k) |-> g[t]]
      OBVIOUS
    <3> HIDE DEF g
    <3> QED
      BY <2>4, <3>1 DEF Onward
  <2> HIDE DEF Sol
  <2> QED
    BY <2>5
<1> HIDE DEF Sol
<1>4. Good = 0 .. top
  <2>1. Good \in SUBSET (0 .. top)
    OBVIOUS
  <2> HIDE DEF Good
  <2> QED
    BY <1>1, <1>2, <1>3, <2>1, BoundedInduction
<1>5. Sol(iter, top)
  <2>1. top \in Good
    <3> HIDE DEF Good
    <3> QED
      BY <1>1, <1>4
  <2> QED
    BY <2>1
<1> USE DEF Sol
<1>6. Searches(old, new) = iter[1 .. top]
  <2>1. Searches(old, new) = iter[DOMAIN seq]
    BY <1>1 DEF FoldLeft, MapThenFoldSet, Searches, Lengths
  <2> QED
    BY <1>1, <2>1
<1> HIDE DEF iter
<1> DEFINE h == [i \in 0 .. top |-> iter[1 .. i]]
<1>7. h[0] = base
  BY <1>1, <1>5, PrefixIntervals
<1>8. ASSUME NEW i \in 1 .. top PROVE h[i] = EditLength(old, new, h[i - 1], seq[i])
  <2>1. /\ 1 .. i \in SUBSET (1 .. top) /\ 1 .. i # {}
        /\ Max(1 .. i) = i /\ (1 .. i) \ {i} = 1 .. i - 1
    BY <1>1, PrefixIntervals
  <2>2. iter[1 .. i] = EditLength(old, new, iter[1 .. i - 1], seq[i])
    BY <1>5, <2>1
  <2> QED
    BY <1>1, <2>2
<1>9. h[top] = iter[1 .. top]
  BY <1>1
<1> HIDE DEF h
<1> QED
  BY <1>6, <1>7, <1>8, <1>9 DEF TakesLengths

-----------------------------------------------------------------------------
(* The lines that two texts share.                                          *)

\* Places that come one after the other, n of them within the first m
Increasing(n, m) == {f \in [1..n -> 1..m] : \A a \in 1..n : \A b \in 1..(a - 1) : f[b] < f[a]}

\* The first i lines of the one and j of the other have n lines in common, in order.
Shared(old, new, i, j, n) ==
    \E f \in Increasing(n, i), g \in Increasing(n, j) : \A k \in 1..n : old[f[k]] = new[g[k]]

LEMMA SharedNone ==
  ASSUME NEW old, NEW new, NEW i \in Nat, NEW j \in Nat
  PROVE  Shared(old, new, i, j, 0)
<1> DEFINE f == [k \in 1 .. 0 |-> 0]
<1>1. 1 .. 0 = {}
  OBVIOUS
<1>2. f \in Increasing(0, i) /\ f \in Increasing(0, j)
  BY <1>1 DEF Increasing
<1> QED
  BY <1>1, <1>2 DEF Shared

LEMMA SharedInMore ==
  ASSUME NEW old, NEW new, NEW i \in Nat, NEW j \in Nat, NEW k \in Nat,
         NEW x \in Nat, NEW y \in Nat, i <= x, j <= y, Shared(old, new, i, j, k)
  PROVE  Shared(old, new, x, y, k)
<1>1. PICK f \in Increasing(k, i), g \in Increasing(k, j) : \A m \in 1 .. k : old[f[m]] = new[g[m]]
  BY DEF Shared
<1>2. 1 .. i \subseteq 1 .. x /\ 1 .. j \subseteq 1 .. y
  OBVIOUS
<1>3. f \in Increasing(k, x) /\ g \in Increasing(k, y)
  BY <1>2 DEF Increasing
<1> QED
  BY <1>1, <1>3 DEF Shared

LEMMA ExtendedPlaces ==
  ASSUME NEW i \in Nat, NEW k \in Nat, NEW n \in Nat, NEW f \in Increasing(k, i)
  PROVE  [m \in 1 .. k + n |-> IF m <= k THEN f[m] ELSE i + (m - k)] \in Increasing(k + n, i + n)
<1> DEFINE e == [m \in 1 .. k + n |-> IF m <= k THEN f[m] ELSE i + (m - k)]
<1>1. f \in [1 .. k -> 1 .. i] /\ \A a \in 1 .. k : \A b \in 1 .. (a - 1) : f[b] < f[a]
  BY DEF Increasing
<1>2. ASSUME NEW m \in 1 .. k + n PROVE e[m] \in 1 .. i + n
  <2>1. CASE m <= k
    <3>1. m \in 1 .. k /\ e[m] = f[m]
      BY <2>1
    <3>2. f[m] \in 1 .. i
      BY <1>1, <3>1
    <3> QED
      BY <3>1, <3>2
  <2>2. CASE ~ (m <= k)
    BY <2>2
  <2> QED
    BY <2>1, <2>2
<1>3. ASSUME NEW a \in 1 .. k + n, NEW b \in 1 .. (a - 1) PROVE e[b] < e[a]
  <2>0. b \in 1 .. k + n /\ b < a
    OBVIOUS
  <2>1. CASE a <= k
    <3>1. a \in 1 .. k /\ b \in 1 .. (a - 1) /\ e[a] = f[a] /\ e[b] = f[b]
      BY <2>0, <2>1
    <3> QED
      BY <1>1, <3>1
  <2>2. CASE ~ (a <= k) /\ b <= k
    <3>1. b \in 1 .. k /\ e[b] = f[b] /\ e[a] = i + (a - k)
      BY <2>0, <2>2
    <3>2. f[b] \in 1 .. i
      BY <1>1, <3>1
    <3> QED
      BY <2>2, <3>1, <3>2
  <2>3. CASE ~ (a <= k) /\ ~ (b <= k)
    <3>1. e[b] = i + (b - k) /\ e[a] = i + (a - k)
      BY <2>0, <2>3
    <3> QED
      BY <2>0, <3>1
  <2> QED
    BY <2>1, <2>2, <2>3
<1>4. e \in [1 .. k + n -> 1 .. i + n]
  <2>1. e = [m \in 1 .. k + n |-> e[m]]
    OBVIOUS
  <2> HIDE DEF e
  <2> QED
    BY <1>2, <2>1
<1> HIDE DEF e
<1>5. e \in Increasing(k + n, i + n)
  BY <1>3, <1>4 DEF Increasing
<1> QED
  BY <1>5 DEF e

(* Equal lines that follow are shared too.                                  *)
LEMMA SharedRun ==
  ASSUME NEW old, NEW new, NEW i \in Nat, NEW j \in Nat, NEW k \in Nat, NEW n \in Nat,
         Shared(old, new, i, j, k), \A m \in 1 .. n : old[i + m] = new[j + m]
  PROVE  Shared(old, new, i + n, j + n, k + n)
<1>1. PICK f \in Increasing(k, i), g \in Increasing(k, j) : \A m \in 1 .. k : old[f[m]] = new[g[m]]
  BY DEF Shared
<1> DEFINE e == [m \in 1 .. k + n |-> IF m <= k THEN f[m] ELSE i + (m - k)]
           h == [m \in 1 .. k + n |-> IF m <= k THEN g[m] ELSE j + (m - k)]
<1>2. e \in Increasing(k + n, i + n) /\ h \in Increasing(k + n, j + n)
  BY ExtendedPlaces
<1>3. ASSUME NEW m \in 1 .. k + n PROVE old[e[m]] = new[h[m]]
  <2>1. CASE m <= k
    <3>1. m \in 1 .. k /\ e[m] = f[m] /\ h[m] = g[m]
      BY <2>1
    <3> QED
      BY <1>1, <3>1
  <2>2. CASE ~ (m <= k)
    <3>1. m - k \in 1 .. n /\ e[m] = i + (m - k) /\ h[m] = j + (m - k)
      BY <2>2
    <3> QED
      BY <3>1
  <2> QED
    BY <2>1, <2>2
<1> HIDE DEF e, h
<1> QED
  BY <1>2, <1>3 DEF Shared

LEMMA PlacesNotFewer ==
  ASSUME NEW k \in Nat, NEW i \in Nat, NEW f \in Increasing(k, i)
  PROVE  k <= i
<1>1. f \in [1 .. k -> 1 .. i] /\ \A a \in 1 .. k : \A b \in 1 .. (a - 1) : f[b] < f[a]
  BY DEF Increasing
<1> DEFINE Good == {m \in 0 .. k : m # 0 => f[m] >= m}
<1>2. 0 \in Good /\ Good \in SUBSET (0 .. k)
  OBVIOUS
<1>3. ASSUME NEW m \in 1 .. k, m - 1 \in Good PROVE m \in Good
  <2>1. f[m] \in 1 .. i /\ (m > 1 => f[m - 1] \in 1 .. i /\ f[m - 1] < f[m])
    <3>1. m > 1 => m - 1 \in 1 .. k /\ m - 1 \in 1 .. (m - 1)
      OBVIOUS
    <3> QED
      BY <1>1, <3>1
  <2>2. m > 1 => f[m - 1] >= m - 1
    BY <1>3
  <2> QED
    BY <2>1, <2>2
<1> HIDE DEF Good
<1>4. Good = 0 .. k
  BY <1>2, <1>3, BoundedInduction
<1>5. k # 0 => f[k] >= k /\ f[k] \in 1 .. i
  <2>1. k \in Good
    BY <1>4
  <2> QED
    BY <1>1, <2>1 DEF Good
<1> QED
  BY <1>5

LEMMA SharedFits ==
  ASSUME NEW old, NEW new, NEW i \in Nat, NEW j \in Nat, NEW k \in Nat, Shared(old, new, i, j, k)
  PROVE  k <= i /\ k <= j
  BY PlacesNotFewer DEF Shared

LEMMA FewerPlaces ==
  ASSUME NEW i \in Nat, NEW k \in Nat \ {0}, NEW f \in Increasing(k, i)
  PROVE  /\ i > 0 /\ f[k] \in 1 .. i
         /\ f[k] # i => f \in Increasing(k, i - 1)
         /\ f[k] = i => [m \in 1 .. k - 1 |-> f[m]] \in Increasing(k - 1, i - 1)
<1>1. f \in [1 .. k -> 1 .. i] /\ \A a \in 1 .. k : \A b \in 1 .. (a - 1) : f[b] < f[a]
  BY DEF Increasing
<1>2. k \in 1 .. k /\ f[k] \in 1 .. i
  BY <1>1
<1>3. ASSUME NEW m \in 1 .. k PROVE f[m] \in 1 .. i /\ (m # k => f[m] < f[k])
  <2>1. m # k => m \in 1 .. (k - 1)
    OBVIOUS
  <2> QED
    BY <1>1, <1>2, <2>1
<1>4. ASSUME f[k] # i PROVE f \in Increasing(k, i - 1)
  <2>1. \A m \in 1 .. k : f[m] \in 1 .. i - 1
    BY <1>2, <1>3, <1>4
  <2>2. f \in [1 .. k -> 1 .. i - 1]
    BY <1>1, <2>1
  <2> QED
    BY <1>1, <2>2 DEF Increasing
<1>5. ASSUME f[k] = i PROVE [m \in 1 .. k - 1 |-> f[m]] \in Increasing(k - 1, i - 1)
  <2> DEFINE e == [m \in 1 .. k - 1 |-> f[m]]
  <2>1. ASSUME NEW m \in 1 .. k - 1 PROVE e[m] = f[m] /\ f[m] \in 1 .. i - 1
    <3>1. m \in 1 .. k /\ m # k
      OBVIOUS
    <3> QED
      BY <1>2, <1>3, <1>5, <3>1
  <2>2. e \in [1 .. k - 1 -> 1 .. i - 1]
    BY <2>1
  <2>3. ASSUME NEW a \in 1 .. k - 1, NEW b \in 1 .. (a - 1) PROVE e[b] < e[a]
    <3>1. a \in 1 .. k /\ b \in 1 .. (a - 1) /\ b \in 1 .. k - 1
      OBVIOUS
    <3> QED
      BY <1>1, <2>1, <3>1
  <2> HIDE DEF e
  <2>4. e \in Increasing(k - 1, i - 1)
    BY <2>2, <2>3 DEF Increasing
  <2> QED
    BY <2>4 DEF e
<1> QED
  BY <1>2, <1>4, <1>5

(* A last line is shared with the last line of the other text, or one of    *)
(* them is not shared.                                                      *)
LEMMA SharedSplits ==
  ASSUME NEW old, NEW new, NEW i \in Nat, NEW j \in Nat, NEW k \in Nat,
         Shared(old, new, i, j, k), i + j > 0
  PROVE  \/ /\ i > 0 /\ j > 0 /\ k > 0 /\ old[i] = new[j]
            /\ Shared(old, new, i - 1, j - 1, k - 1)
         \/ i > 0 /\ Shared(old, new, i - 1, j, k)
         \/ j > 0 /\ Shared(old, new, i, j - 1, k)
<1>1. CASE k = 0
  <2>1. CASE i > 0
    <3>1. i - 1 \in Nat
      BY <2>1
    <3> QED
      BY <1>1, <2>1, <3>1, SharedNone
  <2>2. CASE j > 0
    <3>1. j - 1 \in Nat
      BY <2>2
    <3> QED
      BY <1>1, <2>2, <3>1, SharedNone
  <2> QED
    BY <2>1, <2>2
<1>2. CASE k # 0
  <2>1. PICK f \in Increasing(k, i), g \in Increasing(k, j) : \A m \in 1 .. k : old[f[m]] = new[g[m]]
    BY DEF Shared
  <2>2. /\ i > 0 /\ f[k] \in 1 .. i
        /\ f[k] # i => f \in Increasing(k, i - 1)
        /\ f[k] = i => [m \in 1 .. k - 1 |-> f[m]] \in Increasing(k - 1, i - 1)
    BY <1>2, FewerPlaces
  <2>3. /\ j > 0 /\ g[k] \in 1 .. j
        /\ g[k] # j => g \in Increasing(k, j - 1)
        /\ g[k] = j => [m \in 1 .. k - 1 |-> g[m]] \in Increasing(k - 1, j - 1)
    BY <1>2, FewerPlaces
  <2>4. CASE f[k] # i
    BY <2>1, <2>2, <2>4 DEF Shared
  <2>5. CASE g[k] # j
    BY <2>1, <2>3, <2>5 DEF Shared
  <2>6. CASE f[k] = i /\ g[k] = j
    <3> DEFINE e == [m \in 1 .. k - 1 |-> f[m]]
               h == [m \in 1 .. k - 1 |-> g[m]]
    <3>1. e \in Increasing(k - 1, i - 1) /\ h \in Increasing(k - 1, j - 1)
      BY <2>2, <2>3, <2>6
    <3>2. ASSUME NEW m \in 1 .. k - 1 PROVE old[e[m]] = new[h[m]]
      <4>1. m \in 1 .. k
        OBVIOUS
      <4> QED
        BY <2>1, <4>1
    <3> HIDE DEF e, h
    <3>3. Shared(old, new, i - 1, j - 1, k - 1)
      BY <3>1, <3>2 DEF Shared
    <3>4. k \in 1 .. k /\ k > 0
      BY <1>2
    <3>5. old[i] = new[j]
      BY <2>1, <2>6, <3>4
    <3> QED
      BY <2>2, <2>3, <3>3, <3>4, <3>5
  <2> QED
    BY <2>4, <2>5, <2>6
<1> QED
  BY <1>1, <1>2

-----------------------------------------------------------------------------
(* Paths.                                                                   *)

Kinds == {"same", "added", "removed"}
Runs  == [kind : Kinds, count : Nat \ {0}]

\* How far a path is in both texts, and how many lines they share on it
Spots == [old : Nat, new : Nat, same : Nat]

\* What one run goes past
Moves(old, new, a, run, b) ==
  /\ b \in Spots
  /\ b.old = a.old + (IF run.kind = "added" THEN 0 ELSE run.count)
  /\ b.new = a.new + (IF run.kind = "removed" THEN 0 ELSE run.count)
  /\ b.same = a.same + (IF run.kind = "same" THEN run.count ELSE 0)
  /\ b.old <= Len(old) /\ b.new <= Len(new)
  /\ run.kind = "same" => \A m \in 1 .. run.count : old[a.old + m] = new[a.new + m]

\* The spots p between the runs
Walks(old, new, runs, p) ==
  /\ runs \in Seq(Runs)
  /\ p[0] = [old |-> 0, new |-> 0, same |-> 0]
  /\ \A k \in 1 .. Len(runs) : Moves(old, new, p[k - 1], runs[k], p[k])

LEMMA RunsTyped ==
  ASSUME NEW k \in Kinds, NEW n \in Nat \ {0}
  PROVE  Run(k, n) \in Runs /\ Run(k, n).kind = k /\ Run(k, n).count = n
  BY DEF Run, Runs

LEMMA SpotTyped ==
  ASSUME NEW old, NEW new, NEW runs, NEW p, Walks(old, new, runs, p), NEW k \in 0 .. Len(runs)
  PROVE  p[k] \in Spots
<1>1. CASE k = 0
  <2>1. p[0] = [old |-> 0, new |-> 0, same |-> 0]
    BY DEF Walks
  <2> QED
    BY <1>1, <2>1 DEF Spots
<1>2. CASE k # 0
  <2>1. k \in 1 .. Len(runs)
    BY <1>2 DEF Walks
  <2>2. Moves(old, new, p[k - 1], runs[k], p[k])
    BY <2>1 DEF Walks
  <2> QED
    BY <2>2 DEF Moves
<1> QED
  BY <1>1, <1>2

(* One run more.                                                            *)
LEMMA WalkOn ==
  ASSUME NEW old, NEW new, NEW runs, NEW p, Walks(old, new, runs, p),
         NEW run \in Runs, NEW b, Moves(old, new, p[Len(runs)], run, b)
  PROVE  /\ Walks(old, new, Append(runs, run), [k \in 0 .. Len(runs) + 1 |-> IF k = Len(runs) + 1 THEN b ELSE p[k]])
         /\ Len(Append(runs, run)) = Len(runs) + 1
<1> DEFINE n == Len(runs)
           r == Append(runs, run)
           q == [k \in 0 .. n + 1 |-> IF k = n + 1 THEN b ELSE p[k]]
<1>1. runs \in Seq(Runs) /\ n \in Nat
  BY DEF Walks
<1>2. r \in Seq(Runs) /\ Len(r) = n + 1 /\ r[n + 1] = run /\ \A k \in 1 .. n : r[k] = runs[k]
  BY <1>1, Appending
<1> HIDE DEF r
<1>3. q[0] = [old |-> 0, new |-> 0, same |-> 0]
  <2>1. 0 \in 0 .. n + 1 /\ 0 # n + 1
    BY <1>1
  <2> QED
    BY <2>1 DEF Walks
<1>4. ASSUME NEW k \in 1 .. n + 1 PROVE Moves(old, new, q[k - 1], r[k], q[k])
  <2>1. CASE k = n + 1
    <3>1. q[k] = b /\ q[k - 1] = p[n] /\ r[k] = run
      BY <1>1, <1>2, <2>1
    <3> QED
      BY <3>1
  <2>2. CASE k # n + 1
    <3>1. k \in 1 .. n /\ q[k] = p[k] /\ q[k - 1] = p[k - 1] /\ r[k] = runs[k]
      BY <1>1, <1>2, <2>2
    <3> QED
      BY <3>1 DEF Walks
  <2> QED
    BY <2>1, <2>2
<1> HIDE DEF q
<1>5. Walks(old, new, r, q)
  BY <1>2, <1>3, <1>4 DEF Walks
<1> QED
  BY <1>2, <1>5 DEF q, r

LEMMA WalkFront ==
  ASSUME NEW old, NEW new, NEW runs, NEW p, Walks(old, new, runs, p), Len(runs) > 0
  PROVE  Walks(old, new, Front(runs), p) /\ Len(Front(runs)) = Len(runs) - 1
<1>1. runs \in Seq(Runs)
  BY DEF Walks
<1>2. /\ Front(runs) \in Seq(Runs) /\ Len(Front(runs)) = Len(runs) - 1 /\ Len(runs) \in Nat \ {0}
      /\ \A k \in 1 .. Len(runs) - 1 : Front(runs)[k] = runs[k]
  BY <1>1, FrontFacts
<1>3. \A k \in 1 .. Len(runs) - 1 : k \in 1 .. Len(runs)
  BY <1>2
<1> QED
  BY <1>2, <1>3 DEF Walks

\* A path on diagonal d to which at most m edits lead
Leads(old, new, path, p, d, m) ==
  /\ path.old \in 0 .. Len(old) /\ path.old - d \in 0 .. Len(new)
  /\ Walks(old, new, path.runs, p)
  /\ p[Len(path.runs)].old = path.old /\ p[Len(path.runs)].new = path.old - d
  /\ Shared(old, new, path.old, path.old - d, p[Len(path.runs)].same)
  /\ 2 * path.old - d - 2 * p[Len(path.runs)].same <= m

(* One edit more: a line of the one text is gone past.                      *)
LEMMA StepLeads ==
  ASSUME NEW L, NEW old \in Seq(L), NEW new \in Seq(L), NEW path, NEW p, NEW d \in Int, NEW m \in Nat,
         Leads(old, new, path, p, d, m), NEW kind \in {"added", "removed"},
         kind = "removed" => path.old < Len(old), kind = "added" => path.old - d < Len(new),
         NEW e \in Int, e = IF kind = "added" THEN d - 1 ELSE d + 1
  PROVE  \E q : Leads(old, new, Step(path, kind), q, e, m + 1)
<1> DEFINE runs == path.runs
           n == Len(runs)
           x == IF kind = "removed" THEN 1 ELSE 0
           y == IF kind = "added" THEN 1 ELSE 0
           i == path.old
           j == path.old - d
           A == Len(old)
           B == Len(new)
           c == p[n].same
           b == [old |-> i + x, new |-> j + y, same |-> c]
           s == Step(path, kind)
<1>1. /\ i \in Nat /\ j \in Nat /\ i \in 0 .. Len(old) /\ j \in 0 .. Len(new) /\ Len(old) \in Nat /\ Len(new) \in Nat
      /\ Walks(old, new, runs, p) /\ p[n].old = i /\ p[n].new = j
      /\ Shared(old, new, i, j, p[n].same) /\ 2 * i - d - 2 * p[n].same <= m
  BY DEF Leads
<1>2. runs \in Seq(Runs) /\ n \in Nat
  BY <1>1 DEF Walks
<1>3. p[n] \in Spots /\ p[n].same \in Nat
  <2>1. n \in 0 .. Len(runs)
    BY <1>2
  <2> QED
    BY <1>1, <2>1, SpotTyped DEF Spots
<1>a. /\ i \in 0 .. A /\ j \in 0 .. B /\ A \in Nat /\ B \in Nat /\ j = i - d /\ c \in Nat
      /\ (kind = "removed" => i < A) /\ (kind = "added" => j < B) /\ 2 * i - d - 2 * c <= m
  BY <1>1, <1>3
<1>b. /\ x \in {0, 1} /\ y \in {0, 1} /\ x + y = 1 /\ e = d + x - y
      /\ x = 1 => kind = "removed"
      /\ y = 1 => kind = "added"
  OBVIOUS
<1>6. s.old = i + x
  BY DEF Step
<1>4. /\ i + x \in 0 .. A /\ j + y \in 0 .. B /\ i + x \in Nat /\ j + y \in Nat
      /\ (i + x) - e = j + y /\ i <= i + x /\ j <= j + y
      /\ 2 * (i + x) - e - 2 * c <= m + 1
  <2> HIDE DEF i, j, A, B, c, x, y
  <2>1. i \in Nat /\ j \in Nat /\ d \in Int /\ m \in Int /\ c \in Nat
    BY <1>a
  <2>2. CASE x = 1 /\ y = 0
    <3>1. e = d + 1 /\ i < A
      BY <1>a, <1>b, <2>1, <2>2
    <3> QED
      BY <1>a, <2>1, <2>2, <3>1
  <2>3. CASE x = 0 /\ y = 1
    <3>1. e = d - 1 /\ j < B
      BY <1>a, <1>b, <2>1, <2>3
    <3> QED
      BY <1>a, <2>1, <2>3, <3>1
  <2> QED
    BY <1>b, <2>2, <2>3
<1>5. b \in Spots /\ b.old = i + x /\ b.new = j + y /\ b.same = c
  <2> HIDE DEF i, j, A, B, c, x, y
  <2>1. i + x \in Nat /\ j + y \in Nat /\ c \in Nat
    BY <1>a, <1>4
  <2> QED
    BY <2>1 DEF Spots
<1>7. \E q : Walks(old, new, s.runs, q) /\ q[Len(s.runs)] = b
  <2>1. CASE runs # <<>> /\ Last(runs).kind = kind
    <3> DEFINE f == Front(runs)
               r == Run(kind, Last(runs).count + 1)
    <3>1. n > 0 /\ n \in 1 .. n
      BY <1>2, <2>1
    <3>2. Walks(old, new, f, p) /\ Len(f) = n - 1
      BY <1>1, <3>1, WalkFront
    <3>3. Last(runs) \in Runs /\ Last(runs) = runs[n]
      BY <1>2, <3>1, FrontFacts
    <3>4. r \in Runs /\ r.kind = kind /\ r.count = runs[n].count + 1 /\ runs[n].count \in Nat
      <4>1. runs[n].count \in Nat
        BY <3>3 DEF Runs
      <4>2. kind \in Kinds /\ runs[n].count + 1 \in Nat \ {0}
        BY <4>1 DEF Kinds
      <4>3. r = Run(kind, runs[n].count + 1)
        BY <3>3, Zenon
      <4> HIDE DEF r
      <4>4. r \in Runs /\ r.kind = kind /\ r.count = runs[n].count + 1
        BY <4>2, <4>3, RunsTyped
      <4> QED
        BY <4>1, <4>4
    <3>5. Moves(old, new, p[n - 1], runs[n], p[n])
      BY <1>1, <3>1 DEF Walks
    <3>6. Moves(old, new, p[n - 1], r, b)
      <4>1. p[n - 1] \in Spots
        <5>1. n - 1 \in 0 .. n
          BY <3>1, <1>2
        <5> QED
          BY <1>1, <5>1, SpotTyped
      <4>2. runs[n].kind = kind
        BY <2>1, <3>3
      <4> HIDE DEF r
      <4>3. /\ p[n].old = p[n - 1].old + (IF kind = "added" THEN 0 ELSE runs[n].count)
            /\ p[n].new = p[n - 1].new + (IF kind = "removed" THEN 0 ELSE runs[n].count)
            /\ p[n].same = p[n - 1].same + 0
        BY <3>5, <4>2 DEF Moves
      <4>4. p[n - 1].old \in Nat /\ p[n - 1].new \in Nat /\ p[n - 1].same \in Nat
        BY <4>1 DEF Spots
      <4>5. /\ b.old = p[n - 1].old + (IF kind = "added" THEN 0 ELSE runs[n].count + 1)
            /\ b.new = p[n - 1].new + (IF kind = "removed" THEN 0 ELSE runs[n].count + 1)
            /\ b.same = p[n - 1].same + 0 /\ b.old <= Len(old) /\ b.new <= Len(new)
        <5> DEFINE u == p[n - 1].old
                   v == p[n - 1].new
                   w == runs[n].count
        <5>1. /\ i = u + (IF kind = "added" THEN 0 ELSE w) /\ j = v + (IF kind = "removed" THEN 0 ELSE w)
              /\ u \in Nat /\ v \in Nat /\ w \in Nat /\ c = p[n - 1].same + 0
          BY <1>1, <3>4, <4>3, <4>4
        <5>2. i + x <= A /\ j + y <= B
          <6> HIDE DEF i, j, A, B, x, y
          <6> QED
            BY <1>a, <1>4
        <5> HIDE DEF u, v, w, i, j
        <5>3. i + x = u + (IF kind = "added" THEN 0 ELSE w + 1) /\ j + y = v + (IF kind = "removed" THEN 0 ELSE w + 1)
          BY <5>1
        <5> HIDE DEF b, c
        <5> QED
          BY <1>5, <5>1, <5>2, <5>3 DEF u, v, w
      <4> HIDE DEF b
      <4> QED
        BY <1>5, <3>4, <4>5 DEF Moves
    <3>7. s.runs = Append(f, r)
      BY <2>1 DEF Step
    <3> HIDE DEF f, r, b, s
    <3> DEFINE q == [k \in 0 .. Len(f) + 1 |-> IF k = Len(f) + 1 THEN b ELSE p[k]]
    <3>8. Walks(old, new, Append(f, r), q) /\ Len(Append(f, r)) = Len(f) + 1
      BY <3>2, <3>4, <3>6, WalkOn
    <3>9. q[Len(f) + 1] = b
      BY <1>2, <3>1, <3>2
    <3> QED
      BY <3>7, <3>8, <3>9
  <2>2. CASE ~ (runs # <<>> /\ Last(runs).kind = kind)
    <3> DEFINE r == Run(kind, 1)
    <3>1. r \in Runs /\ r.kind = kind /\ r.count = 1
      <4>1. kind \in Kinds /\ 1 \in Nat \ {0}
        BY DEF Kinds
      <4> QED
        BY <4>1, RunsTyped
    <3>2. Moves(old, new, p[n], r, b)
      <4> HIDE DEF r
      <4>1. b.old <= Len(old) /\ b.new <= Len(new) /\ b.same = p[n].same + 0
            /\ b.old = p[n].old + (IF kind = "added" THEN 0 ELSE 1)
            /\ b.new = p[n].new + (IF kind = "removed" THEN 0 ELSE 1)
        <5>1. i + x = i + (IF kind = "added" THEN 0 ELSE 1) /\ j + y = j + (IF kind = "removed" THEN 0 ELSE 1)
          <6> HIDE DEF i, j
          <6> QED
            OBVIOUS
        <5>2. i + x <= A /\ j + y <= B /\ c = c + 0
          <6> HIDE DEF i, j, A, B, x, y, c
          <6> QED
            BY <1>a, <1>4
        <5> HIDE DEF b
        <5> QED
          BY <1>1, <1>5, <5>1, <5>2
      <4> HIDE DEF b
      <4> QED
        BY <1>5, <3>1, <4>1 DEF Moves
    <3>3. s.runs = Append(runs, r)
      BY <2>2 DEF Step
    <3> HIDE DEF r, b, s
    <3> DEFINE q == [k \in 0 .. n + 1 |-> IF k = n + 1 THEN b ELSE p[k]]
    <3>4. Walks(old, new, Append(runs, r), q) /\ Len(Append(runs, r)) = n + 1
      BY <1>1, <3>1, <3>2, WalkOn
    <3>5. q[n + 1] = b
      BY <1>2
    <3> QED
      BY <3>3, <3>4, <3>5
  <2> QED
    BY <2>1, <2>2
<1>8. PICK q : Walks(old, new, s.runs, q) /\ q[Len(s.runs)] = b
  BY <1>7
<1> HIDE DEF b, x, y, s, c
<1>9. Shared(old, new, i + x, j + y, c)
  <2>1. Shared(old, new, i, j, c)
    BY <1>1 DEF c
  <2> HIDE DEF i, j, A, B
  <2> QED
    BY <1>a, <1>4, <2>1, SharedInMore
<1> HIDE DEF i, j, runs, n
<1>12. Leads(old, new, s, q, e, m + 1)
  <2>1. s.old \in 0 .. Len(old) /\ s.old - e \in 0 .. Len(new) /\ s.old - e = j + y
    BY <1>4, <1>6
  <2>2. q[Len(s.runs)].old = s.old /\ q[Len(s.runs)].new = s.old - e /\ q[Len(s.runs)].same = c
    BY <1>5, <1>6, <1>8, <2>1
  <2>3. Shared(old, new, s.old, s.old - e, c) /\ 2 * s.old - e - 2 * c <= m + 1
    BY <1>4, <1>6, <1>9, <2>1
  <2> QED
    BY <1>8, <2>1, <2>2, <2>3 DEF Leads
<1> QED
  BY <1>12 DEF s

\* Slide goes n lines along the diagonal, to the end of a text or to lines that differ.
SlidesBy(old, new, path, d, n) ==
  /\ n \in Nat /\ path.old + n <= Len(old) /\ path.old - d + n <= Len(new)
  /\ \A k \in 1 .. n : old[path.old + k] = new[path.old - d + k]
  /\ path.old + n < Len(old) /\ path.old - d + n < Len(new) =>
        old[path.old + n + 1] # new[path.old - d + n + 1]
  /\ Slide(old, new, path, d) =
        IF n = 0 THEN path ELSE [old |-> path.old + n, runs |-> Append(path.runs, Run("same", n))]

LEMMA Slides ==
  ASSUME NEW L, NEW old \in Seq(L), NEW new \in Seq(L), NEW path, NEW d \in Int,
         path.old \in 0 .. Len(old), path.old - d \in 0 .. Len(new)
  PROVE  \E n : SlidesBy(old, new, path, d, n)
<1> DEFINE i == path.old
           j == path.old - d
           a == Len(old) - i
           b == Len(new) - j
           room == Min({a, b})
           Common(k) == \A m \in 1 .. k : old[i + m] = new[j + m]
           T == {k \in 0 .. room : Common(k)}
           n == Max(T)
<1>1. i \in Nat /\ j \in Nat /\ a \in Nat /\ b \in Nat /\ Len(old) \in Nat /\ Len(new) \in Nat
  OBVIOUS
<1>2. room \in Nat /\ room <= a /\ room <= b /\ (room = a \/ room = b)
  <2> HIDE DEF a, b
  <2>1. room = IF a <= b THEN a ELSE b
    BY <1>1, OfTwo
  <2> HIDE DEF room
  <2> QED
    BY <1>1, <2>1
<1>3. n \in T /\ \A k \in T : k <= n
  <2>1. 0 \in T /\ T \in SUBSET (0 .. room)
    <3>1. 0 \in 0 .. room
      BY <1>2
    <3> HIDE DEF room
    <3>2. Common(0)
      OBVIOUS
    <3> HIDE DEF Common
    <3> QED
      BY <3>1, <3>2
  <2> HIDE DEF T, room
  <2> DEFINE U == T \ {0}
  <2>2. CASE U = {}
    <3>1. T = {0}
      BY <2>1, <2>2
    <3>2. \E k \in T : \A y \in T : k >= y
      BY <3>1
    <3> QED
      BY <3>1, <3>2 DEF Max
  <2>3. CASE U # {}
    <3>1. U \in SUBSET (1 .. room)
      BY <1>2, <2>1
    <3> HIDE DEF U
    <3>2. Max(U) \in U /\ \A y \in U : Max(U) >= y
      BY <1>2, <2>3, <3>1, LargestElement
    <3> DEFINE M == Max(U)
    <3>3. M \in T /\ \A y \in T : M >= y
      <4>1. M \in T
        BY <3>2 DEF U
      <4>2. ASSUME NEW y \in T PROVE M >= y
        <5>1. CASE y \in U
          BY <3>2, <5>1
        <5>2. CASE y \notin U
          <6>1. y = 0
            BY <5>2 DEF U
          <6>2. M \in 1 .. room
            BY <3>1, <3>2
          <6> HIDE DEF M
          <6> QED
            BY <6>1, <6>2
        <5> QED
          BY <5>1, <5>2
      <4> QED
        BY <4>1, <4>2
    <3>4. \E k \in T : \A y \in T : k >= y
      BY <3>3
    <3>5. n \in T /\ \A y \in T : n >= y
      BY <3>4 DEF Max
    <3>6. T \subseteq Nat
      BY <1>2, <2>1
    <3> HIDE DEF n
    <3>7. ASSUME NEW k \in T PROVE k <= n
      <4>1. n >= k /\ k \in Nat /\ n \in Nat
        BY <3>5, <3>6
      <4> QED
        BY <4>1
    <3> QED
      BY <3>5, <3>7
  <2> QED
    BY <2>2, <2>3
<1>4. Slide(old, new, path, d) =
        IF n = 0 THEN path ELSE [old |-> path.old + n, runs |-> Append(path.runs, Run("same", n))]
  BY DEF Slide
<1>5. n \in Nat /\ n <= room /\ Common(n)
  <2>1. n \in T
    BY <1>3
  <2> HIDE DEF n, room, Common
  <2> QED
    BY <1>2, <2>1
<1>6. ASSUME i + n < Len(old), j + n < Len(new), old[i + n + 1] = new[j + n + 1]
      PROVE  FALSE
  <2> HIDE DEF n
  <2>1. n + 1 \in 0 .. room
    <3> HIDE DEF room
    <3>1. n < a /\ n < b
      <4> DEFINE A == Len(old)
                 B == Len(new)
      <4>1. A \in Nat /\ B \in Nat /\ i \in Nat /\ j \in Nat /\ n \in Nat /\ i + n < A /\ j + n < B /\ a = A - i /\ b = B - j
        BY <1>1, <1>5, <1>6
      <4> HIDE DEF A, B, i, j, a, b
      <4> QED
        BY <4>1
    <3> HIDE DEF a, b
    <3> QED
      BY <1>1, <1>2, <1>5, <3>1
  <2>2. Common(n + 1)
    <3> SUFFICES ASSUME NEW m \in 1 .. n + 1 PROVE old[i + m] = new[j + m]
      OBVIOUS
    <3>1. CASE m = n + 1
      <4>1. i + m = i + n + 1 /\ j + m = j + n + 1
        BY <1>1, <1>5, <3>1
      <4> QED
        BY <1>6, <4>1
    <3>2. CASE m # n + 1
      <4>1. m \in 1 .. n
        BY <1>5, <3>2
      <4> QED
        BY <1>5, <4>1
    <3> QED
      BY <3>1, <3>2
  <2>3. n + 1 \in T
    <3> HIDE DEF Common, room
    <3> QED
      BY <2>1, <2>2
  <2> HIDE DEF T
  <2> QED
    BY <1>3, <1>5, <2>3
<1> HIDE DEF n
<1>7. i + n <= Len(old) /\ j + n <= Len(new)
  <2> DEFINE A == Len(old)
             B == Len(new)
  <2> HIDE DEF room
  <2>1. A \in Nat /\ B \in Nat /\ i \in Nat /\ j \in Nat /\ n \in Nat /\ n <= A - i /\ n <= B - j
    BY <1>1, <1>2, <1>5
  <2>2. i + n <= A /\ j + n <= B
    <3> HIDE DEF A, B, i, j
    <3> QED
      BY <2>1
  <2> QED
    BY <2>2
<1>8. SlidesBy(old, new, path, d, n)
  BY <1>4, <1>5, <1>6, <1>7 DEF SlidesBy
<1> QED
  BY <1>8

(* Going along a diagonal is no edit.                                       *)
LEMMA SlideLeads ==
  ASSUME NEW L, NEW old \in Seq(L), NEW new \in Seq(L), NEW path, NEW p, NEW d \in Int, NEW m \in Nat,
         Leads(old, new, path, p, d, m), NEW n, SlidesBy(old, new, path, d, n)
  PROVE  /\ \E q : Leads(old, new, Slide(old, new, path, d), q, d, m)
         /\ Slide(old, new, path, d).old = path.old + n
<1> DEFINE runs == path.runs
           N == Len(runs)
           i == path.old
           j == path.old - d
           s == Slide(old, new, path, d)
           r == Run("same", n)
           b == [old |-> i + n, new |-> j + n, same |-> p[N].same + n]
<1>1. /\ i \in Nat /\ j \in Nat /\ Len(old) \in Nat /\ Len(new) \in Nat
      /\ Walks(old, new, runs, p) /\ p[N].old = i /\ p[N].new = j
      /\ Shared(old, new, i, j, p[N].same) /\ 2 * i - d - 2 * p[N].same <= m
  BY DEF Leads
<1>2. runs \in Seq(Runs) /\ N \in Nat
  BY <1>1 DEF Walks
<1>3. p[N] \in Spots /\ p[N].same \in Nat
  <2>1. N \in 0 .. Len(runs)
    BY <1>2
  <2> QED
    BY <1>1, <2>1, SpotTyped DEF Spots
<1>4. /\ n \in Nat /\ i + n <= Len(old) /\ j + n <= Len(new)
      /\ \A k \in 1 .. n : old[i + k] = new[j + k]
      /\ s = IF n = 0 THEN path ELSE [old |-> i + n, runs |-> Append(runs, r)]
  BY DEF SlidesBy
<1>5. CASE n = 0
  <2>1. s = path /\ path.old = path.old + n
    BY <1>1, <1>4, <1>5
  <2> QED
    BY <2>1
<1>6. CASE n # 0
  <2>1. s.old = i + n /\ s.runs = Append(runs, r)
    BY <1>4, <1>6
  <2>2. r \in Runs /\ r.kind = "same" /\ r.count = n
    <3>1. "same" \in Kinds /\ n \in Nat \ {0}
      BY <1>4, <1>6 DEF Kinds
    <3> QED
      BY <3>1, RunsTyped
  <2>3. b \in Spots /\ b.old = i + n /\ b.new = j + n /\ b.same = p[N].same + n
    <3> DEFINE c == p[N].same
    <3>1. c \in Nat /\ i \in Nat /\ j \in Nat /\ n \in Nat
      BY <1>1, <1>3, <1>4
    <3> HIDE DEF c, i, j
    <3>2. i + n \in Nat /\ j + n \in Nat /\ c + n \in Nat
      BY <3>1
    <3> QED
      BY <3>2 DEF Spots, c
  <2>4. Moves(old, new, p[N], r, b)
    <3> HIDE DEF r, b
    <3> QED
      BY <1>1, <1>4, <2>2, <2>3 DEF Moves
  <2> HIDE DEF r, b, s, runs
  <2> DEFINE q == [k \in 0 .. N + 1 |-> IF k = N + 1 THEN b ELSE p[k]]
  <2>5. Walks(old, new, Append(runs, r), q) /\ Len(Append(runs, r)) = N + 1
    BY <1>1, <2>2, <2>4, WalkOn
  <2>6. q[N + 1] = b
    BY <1>2
  <2> HIDE DEF q, N
  <2>7. Shared(old, new, i + n, j + n, p[N].same + n)
    BY <1>1, <1>3, <1>4, SharedRun
  <2>8. /\ i + n \in 0 .. Len(old) /\ (i + n) - d \in 0 .. Len(new) /\ (i + n) - d = j + n
        /\ 2 * (i + n) - d - 2 * (p[N].same + n) <= m
    <3> DEFINE A == Len(old)
               B == Len(new)
               c == p[N].same
    <3>1. /\ A \in Nat /\ B \in Nat /\ i \in Nat /\ j \in Nat /\ n \in Nat /\ c \in Nat /\ j = i - d
          /\ i + n <= A /\ j + n <= B /\ 2 * i - d - 2 * c <= m
      BY <1>1, <1>3, <1>4
    <3> HIDE DEF A, B, c, i, j
    <3>2. i + n \in 0 .. A /\ (i + n) - d \in 0 .. B /\ (i + n) - d = j + n /\ 2 * (i + n) - d - 2 * (c + n) <= m
      BY <3>1
    <3> QED
      BY <3>2 DEF A, B, c
  <2>9. Leads(old, new, s, q, d, m)
    BY <2>1, <2>3, <2>5, <2>6, <2>7, <2>8 DEF Leads
  <2> QED
    BY <2>1, <2>9 DEF s
<1> QED
  BY <1>5, <1>6

-----------------------------------------------------------------------------
(* One diagonal.                                                            *)

\* What a path begins with: the runs s of the path with no edit, and then a change
Begins(s, runs) ==
  /\ Len(s) < Len(runs) /\ runs[Len(s) + 1].kind # "same"
  /\ \A k \in 1 .. Len(s) : runs[k] = s[k]

\* The runs of a path with no edit: equal lines, or nothing
Plainly(s) == s \in Seq(Runs) /\ (s # <<>> => s[Len(s)].kind = "same")

LEMMA StepBegins ==
  ASSUME NEW s, Plainly(s), NEW path, path.runs \in Seq(Runs), path.runs = s \/ Begins(s, path.runs),
         NEW kind \in {"added", "removed"}
  PROVE  Begins(s, Step(path, kind).runs)
<1> DEFINE runs == path.runs
           n == Len(runs)
           m == Len(s)
           new == Step(path, kind).runs
<1>1. runs \in Seq(Runs) /\ n \in Nat /\ m \in Nat /\ m <= n /\ s \in Seq(Runs)
      /\ \A k \in 1 .. m : runs[k] = s[k]
  BY DEF Plainly, Begins
<1>2. CASE runs # <<>> /\ Last(runs).kind = kind
  <2> DEFINE f == Front(runs)
             r == Run(kind, Last(runs).count + 1)
  <2>1. new = Append(f, r)
    BY <1>2 DEF Step
  <2>2. n > 0 /\ n \in 1 .. n
    BY <1>1, <1>2
  <2>3. /\ f \in Seq(Runs) /\ Len(f) = n - 1 /\ Last(runs) \in Runs /\ Last(runs) = runs[n]
        /\ \A k \in 1 .. n - 1 : f[k] = runs[k]
    BY <1>1, <2>2, FrontFacts
  <2>4. r \in Runs /\ r.kind = kind
    <3>1. Last(runs).count + 1 \in Nat \ {0} /\ kind \in Kinds
      BY <2>3 DEF Runs, Kinds
    <3> QED
      BY <3>1, RunsTyped
  <2>5. m < n
    <3>1. CASE runs = s
      <4>1. s # <<>> /\ s[m].kind = "same" /\ Last(runs) = s[m]
        BY <1>2, <2>3, <3>1 DEF Plainly
      <4> QED
        BY <1>2, <4>1
    <3>2. CASE Begins(s, runs)
      BY <3>2 DEF Begins
    <3> QED
      BY <3>1, <3>2
  <2> HIDE DEF r, f, new
  <2>6. Len(Append(f, r)) = n - 1 + 1 /\ Append(f, r)[n - 1 + 1] = r /\ \A k \in 1 .. n - 1 : Append(f, r)[k] = f[k]
    BY <2>3, <2>4, Appending
  <2>7. Len(new) = n /\ new[n] = r /\ \A k \in 1 .. n - 1 : new[k] = runs[k]
    <3>1. n - 1 + 1 = n
      BY <1>1
    <3> QED
      BY <2>1, <2>3, <2>6, <3>1
  <2>8. \A k \in 1 .. m : k \in 1 .. n - 1
    BY <1>1, <2>5
  <2>9. new[m + 1].kind # "same"
    <3>1. CASE m + 1 = n
      BY <2>4, <2>7, <3>1
    <3>2. CASE m + 1 # n
      <4>1. m + 1 \in 1 .. n - 1
        BY <1>1, <2>5, <3>2
      <4>2. runs # s
        BY <1>1, <2>5
      <4> QED
        BY <2>7, <4>1, <4>2 DEF Begins
    <3> QED
      BY <3>1, <3>2
  <2>10. m < Len(new)
    BY <2>5, <2>7
  <2>11. \A k \in 1 .. m : new[k] = s[k]
    BY <1>1, <2>7, <2>8
  <2>12. Begins(s, new)
    BY <2>9, <2>10, <2>11 DEF Begins
  <2> QED
    BY <2>12 DEF new
<1>3. CASE ~ (runs # <<>> /\ Last(runs).kind = kind)
  <2> DEFINE r == Run(kind, 1)
  <2>1. new = Append(runs, r)
    BY <1>3 DEF Step
  <2>2. r \in Runs /\ r.kind = kind
    <3>1. 1 \in Nat \ {0} /\ kind \in Kinds
      BY DEF Kinds
    <3> QED
      BY <3>1, RunsTyped
  <2> HIDE DEF r, new
  <2>3. Len(new) = n + 1 /\ new[n + 1] = r /\ \A k \in 1 .. n : new[k] = runs[k]
    BY <1>1, <2>1, <2>2, Appending
  <2>4. \A k \in 1 .. m : k \in 1 .. n
    BY <1>1
  <2>5. new[m + 1].kind # "same"
    <3>1. CASE m = n
      BY <2>2, <2>3, <3>1
    <3>2. CASE m # n
      <4>1. m + 1 \in 1 .. n
        BY <1>1, <3>2
      <4>2. runs # s
        BY <1>1, <3>2
      <4> QED
        BY <2>3, <4>1, <4>2 DEF Begins
    <3> QED
      BY <3>1, <3>2
  <2>6. m < Len(new)
    BY <1>1, <2>3
  <2>7. \A k \in 1 .. m : new[k] = s[k]
    BY <1>1, <2>3, <2>4
  <2>8. Begins(s, new)
    BY <2>5, <2>6, <2>7 DEF Begins
  <2> QED
    BY <2>8 DEF new
<1> QED
  BY <1>2, <1>3

LEMMA SlideBegins ==
  ASSUME NEW s \in Seq(Runs), NEW old, NEW new, NEW path, NEW d, NEW n, SlidesBy(old, new, path, d, n),
         path.runs \in Seq(Runs), Begins(s, path.runs)
  PROVE  Begins(s, Slide(old, new, path, d).runs)
<1> DEFINE runs == path.runs
           r == Run("same", n)
           t == Slide(old, new, path, d)
<1>1. t = IF n = 0 THEN path ELSE [old |-> path.old + n, runs |-> Append(runs, r)]
  BY DEF SlidesBy
<1>2. CASE n = 0
  BY <1>1, <1>2
<1>3. CASE n # 0
  <2>1. t.runs = Append(runs, r)
    BY <1>1, <1>3
  <2>2. r \in Runs
    <3>1. n \in Nat \ {0} /\ "same" \in Kinds
      BY <1>3 DEF SlidesBy, Kinds
    <3> QED
      BY <3>1, RunsTyped
  <2> DEFINE a == Append(runs, r)
  <2>3. Len(a) = Len(runs) + 1 /\ Len(runs) \in Nat /\ \A k \in 1 .. Len(runs) : a[k] = runs[k]
    BY <2>2, Appending
  <2> HIDE DEF a, r
  <2>4. Len(s) \in Nat /\ Len(s) < Len(runs) /\ Len(s) + 1 \in 1 .. Len(runs) /\ \A k \in 1 .. Len(s) : k \in 1 .. Len(runs)
    BY <2>3 DEF Begins
  <2>5. Begins(s, a)
    BY <2>3, <2>4 DEF Begins
  <2> QED
    BY <2>1, <2>5 DEF a, r
<1> QED
  BY <1>2, <1>3

\* A path on diagonal d that at most m edits lead to, after the runs s or a change behind them
On(old, new, s, path, d, m) ==
  /\ \E p : Leads(old, new, path, p, d, m)
  /\ path.runs = s \/ Begins(s, path.runs)

CanAdd(new, search, d) ==
  search.best[d + 1] # NoPath /\ search.best[d + 1].old - (d + 1) \in 0..(Len(new) - 1)

CanRemove(old, search, d) ==
  search.best[d - 1] # NoPath /\ search.best[d - 1].old < Len(old)

Chosen(old, new, search, d) ==
  Slide(old, new,
        IF ~CanRemove(old, search, d)
             \/ (CanAdd(new, search, d) /\ search.best[d - 1].old < search.best[d + 1].old)
        THEN Step(search.best[d + 1], "added") ELSE Step(search.best[d - 1], "removed"), d)

Emptied(search, d) == [search.best EXCEPT ![d - 1] = NoPath, ![d] = NoPath]

\* The cases of Diagonal, when nothing has been found yet
Tried(old, new, search, d, t) ==
  \/ /\ ~CanAdd(new, search, d) /\ ~CanRemove(old, search, d)
     /\ t = [search EXCEPT !.best = Emptied(search, d)]
  \/ /\ CanAdd(new, search, d) \/ CanRemove(old, search, d)
     /\ Chosen(old, new, search, d).old >= Len(old) /\ Chosen(old, new, search, d).old - d >= Len(new)
     /\ t = [search EXCEPT !.found = Chosen(old, new, search, d)]
  \/ /\ CanAdd(new, search, d) \/ CanRemove(old, search, d)
     /\ ~ (Chosen(old, new, search, d).old >= Len(old) /\ Chosen(old, new, search, d).old - d >= Len(new))
     /\ t = [search EXCEPT !.best = [Emptied(search, d) EXCEPT ![d] = Chosen(old, new, search, d)],
                           !.max  = IF Chosen(old, new, search, d).old >= Len(old)
                                    THEN Min({@, d - 1}) ELSE @,
                           !.min  = IF Chosen(old, new, search, d).old - d >= Len(new)
                                    THEN Max({@, d + 1}) ELSE @]

LEMMA DiagonalTries ==
  ASSUME NEW old, NEW new, NEW search, NEW d, search.found = NoPath
  PROVE  Tried(old, new, search, d, Diagonal(old, new, search, d))
<1> DEFINE path == Chosen(old, new, search, d)
           oldDone == path.old >= Len(old)
           newDone == path.old - d >= Len(new)
           can == CanAdd(new, search, d) \/ CanRemove(old, search, d)
           cleared == Emptied(search, d)
<1>1. Diagonal(old, new, search, d) =
        IF search.found # NoPath THEN search
        ELSE IF ~CanAdd(new, search, d) /\ ~CanRemove(old, search, d) THEN [search EXCEPT !.best = cleared]
        ELSE IF oldDone /\ newDone THEN [search EXCEPT !.found = path]
        ELSE [search EXCEPT !.best = [cleared EXCEPT ![d] = path],
                            !.max  = IF oldDone THEN Min({@, d - 1}) ELSE @,
                            !.min  = IF newDone THEN Max({@, d + 1}) ELSE @]
  BY Zenon DEF Diagonal, CanAdd, CanRemove, Chosen, Emptied
<1> QED
  BY <1>1, Zenon DEF Tried

(* The path chosen is one edit behind a path beside it, and no shorter than *)
(* what either of them allows.                                              *)
LEMMA ChosenIsOn ==
  ASSUME NEW L, NEW old \in Seq(L), NEW new \in Seq(L), NEW s, Plainly(s), NEW search, NEW d \in Int, NEW m \in Nat,
         \A e \in {d - 1, d + 1} : search.best[e] = NoPath \/ On(old, new, s, search.best[e], e, m),
         CanAdd(new, search, d) \/ CanRemove(old, search, d)
  PROVE  /\ On(old, new, s, Chosen(old, new, search, d), d, m + 1)
         /\ Begins(s, Chosen(old, new, search, d).runs)
         /\ CanAdd(new, search, d) => Chosen(old, new, search, d).old >= search.best[d + 1].old
         /\ CanRemove(old, search, d) => Chosen(old, new, search, d).old >= search.best[d - 1].old + 1
         /\ \/ Chosen(old, new, search, d).old = Len(old)
            \/ Chosen(old, new, search, d).old - d = Len(new)
            \/ old[Chosen(old, new, search, d).old + 1] # new[Chosen(old, new, search, d).old - d + 1]
<1> DEFINE add == search.best[d + 1]
           remove == search.best[d - 1]
           adds == ~CanRemove(old, search, d) \/ (CanAdd(new, search, d) /\ remove.old < add.old)
           from == IF adds THEN add ELSE remove
           kind == IF adds THEN "added" ELSE "removed"
           e == IF adds THEN d + 1 ELSE d - 1
           step == Step(from, kind)
           path == Chosen(old, new, search, d)
<1>0. path = Slide(old, new, step, d)
  BY DEF Chosen
<1>1. IF adds THEN CanAdd(new, search, d) ELSE CanRemove(old, search, d)
  OBVIOUS
<1>2. from # NoPath /\ On(old, new, s, from, e, m)
  <2>1. CASE adds
    BY <1>1, <2>1 DEF CanAdd
  <2>2. CASE ~adds
    BY <1>1, <2>2 DEF CanRemove
  <2> QED
    BY <2>1, <2>2
<1>3. PICK p : Leads(old, new, from, p, e, m)
  BY <1>2 DEF On
<1>4. e \in Int /\ kind \in {"added", "removed"} /\ d = IF kind = "added" THEN e - 1 ELSE e + 1
  OBVIOUS
<1>5. /\ from.old \in 0 .. Len(old) /\ from.old - e \in 0 .. Len(new) /\ from.runs \in Seq(Runs)
  BY <1>3 DEF Leads, Walks
<1>6. kind = "removed" => from.old < Len(old)
  BY <1>1 DEF CanRemove
<1>7. kind = "added" => from.old - e < Len(new)
  <2>1. CASE adds
    <3>1. from.old - e \in 0 .. (Len(new) - 1) /\ Len(new) \in Nat
      BY <1>1, <2>1 DEF CanAdd
    <3> QED
      BY <3>1
  <2>2. CASE ~adds
    BY <2>2
  <2> QED
    BY <2>1, <2>2
<1>8. step.old = from.old + IF adds THEN 0 ELSE 1
  BY DEF Step
<1>a. /\ CanAdd(new, search, d) => add.old \in Nat
      /\ CanRemove(old, search, d) => remove.old \in Nat
  <2>1. ASSUME NEW x \in {d - 1, d + 1}, search.best[x] # NoPath PROVE search.best[x].old \in Nat
    <3>1. On(old, new, s, search.best[x], x, m)
      BY <2>1
    <3>2. PICK q : Leads(old, new, search.best[x], q, x, m)
      BY <3>1 DEF On
    <3>3. search.best[x].old \in 0 .. Len(old)
      BY <3>2 DEF Leads
    <3> QED
      BY <3>3
  <2> QED
    BY <2>1 DEF CanAdd, CanRemove
<1>b. /\ CanAdd(new, search, d) => step.old >= add.old
      /\ CanRemove(old, search, d) => step.old >= remove.old + 1
  <2>1. CASE adds
    <3>1. step.old = add.old /\ CanAdd(new, search, d)
      BY <1>1, <1>5, <1>8, <2>1
    <3>2. CanRemove(old, search, d) => remove.old < add.old
      BY <2>1
    <3> HIDE DEF add, remove, step
    <3> QED
      BY <1>a, <3>1, <3>2
  <2>2. CASE ~adds
    <3>1. step.old = remove.old + 1 /\ CanRemove(old, search, d)
      BY <1>1, <1>5, <1>8, <2>2
    <3>2. CanAdd(new, search, d) => ~ (remove.old < add.old)
      BY <2>2
    <3> HIDE DEF add, remove, step
    <3> QED
      BY <1>a, <3>1, <3>2
  <2> QED
    BY <2>1, <2>2
<1>9. Begins(s, step.runs)
  <2>1. from.runs = s \/ Begins(s, from.runs)
    BY <1>2 DEF On
  <2> HIDE DEF from, kind
  <2> QED
    BY <1>4, <1>5, <2>1, StepBegins
<1> HIDE DEF from, kind, e, adds, add, remove
<1>10. PICK q : Leads(old, new, step, q, d, m + 1)
  BY <1>3, <1>4, <1>6, <1>7, StepLeads
<1> HIDE DEF step, path
<1>11. step.old \in 0 .. Len(old) /\ step.old - d \in 0 .. Len(new) /\ step.runs \in Seq(Runs) /\ s \in Seq(Runs)
  BY <1>10 DEF Leads, Walks, Plainly
<1>12. PICK n : SlidesBy(old, new, step, d, n)
  BY <1>11, Slides
<1>13. m + 1 \in Nat
  OBVIOUS
<1>14. /\ \E w : Leads(old, new, Slide(old, new, step, d), w, d, m + 1)
       /\ Slide(old, new, step, d).old = step.old + n
  BY <1>10, <1>12, <1>13, SlideLeads
<1>15. Begins(s, path.runs)
  BY <1>0, <1>9, <1>11, <1>12, SlideBegins
<1>16. On(old, new, s, path, d, m + 1)
  BY <1>0, <1>14, <1>15 DEF On
<1>17. path.old = step.old + n /\ n \in Nat
  BY <1>0, <1>12, <1>14 DEF SlidesBy
<1>18. path.old >= step.old /\ step.old \in Nat /\ path.old \in Nat
  BY <1>11, <1>17
<1>19. /\ CanAdd(new, search, d) => path.old >= add.old
       /\ CanRemove(old, search, d) => path.old >= remove.old + 1
  BY <1>a, <1>b, <1>18
<1>20. \/ path.old = Len(old) \/ path.old - d = Len(new) \/ old[path.old + 1] # new[path.old - d + 1]
  <2>1. /\ step.old + n <= Len(old) /\ step.old - d + n <= Len(new)
        /\ step.old + n < Len(old) /\ step.old - d + n < Len(new) =>
             old[step.old + n + 1] # new[step.old - d + n + 1]
    BY <1>12 DEF SlidesBy
  <2> DEFINE x == step.old
             A == Len(old)
             B == Len(new)
             y == path.old
  <2>2. x \in Nat /\ A \in Nat /\ B \in Nat /\ n \in Nat /\ y = x + n
    BY <1>11, <1>17
  <2> HIDE DEF x, A, B, y
  <2>4. y - d = x - d + n
    BY <2>2
  <2>3. (x + n = A \/ x + n < A) /\ (x - d + n = B \/ x - d + n < B)
    BY <2>1, <2>2 DEF x, A, B
  <2>5. /\ x + n + 1 = y + 1 /\ x - d + n + 1 = y - d + 1
    BY <2>2
  <2>6. x + n < A /\ x - d + n < B => old[x + n + 1] # new[x - d + n + 1]
    BY <2>1 DEF x, A, B
  <2>7. y = A \/ y - d = B \/ old[y + 1] # new[y - d + 1]
    BY <2>2, <2>3, <2>4, <2>5, <2>6
  <2> QED
    BY <2>7 DEF y, A, B
<1> QED
  BY <1>15, <1>16, <1>19, <1>20 DEF path, add, remove


-----------------------------------------------------------------------------
(* The texts that are few edits apart.                                      *)

\* At most n edits turn the first i lines of the one into the first j of the other.
Near(old, new, i, j, n) == \E k \in Nat : Shared(old, new, i, j, k) /\ i + j - 2 * k <= n

LEMMA NearSplits ==
  ASSUME NEW old, NEW new, NEW i \in Nat, NEW j \in Nat, NEW n \in Nat,
         Near(old, new, i, j, n + 1), i + j > 0
  PROVE  \/ i > 0 /\ j > 0 /\ old[i] = new[j] /\ Near(old, new, i - 1, j - 1, n + 1)
         \/ i > 0 /\ Near(old, new, i - 1, j, n)
         \/ j > 0 /\ Near(old, new, i, j - 1, n)
<1>1. PICK k \in Nat : Shared(old, new, i, j, k) /\ i + j - 2 * k <= n + 1
  BY DEF Near
<1>2. CASE i > 0 /\ j > 0 /\ k > 0 /\ old[i] = new[j] /\ Shared(old, new, i - 1, j - 1, k - 1)
  <2>1. k - 1 \in Nat /\ i - 1 + (j - 1) - 2 * (k - 1) <= n + 1
    BY <1>1, <1>2
  <2> QED
    BY <1>2, <2>1 DEF Near
<1>3. CASE i > 0 /\ Shared(old, new, i - 1, j, k)
  <2>1. i - 1 + j - 2 * k <= n
    BY <1>1
  <2> QED
    BY <1>3, <2>1 DEF Near
<1>4. CASE j > 0 /\ Shared(old, new, i, j - 1, k)
  <2>1. i + (j - 1) - 2 * k <= n
    BY <1>1
  <2> QED
    BY <1>4, <2>1 DEF Near
<1> QED
  BY <1>1, <1>2, <1>3, <1>4, SharedSplits

LEMMA NearWithin ==
  ASSUME NEW old, NEW new, NEW i \in Nat, NEW j \in Nat, NEW n \in Nat, Near(old, new, i, j, n)
  PROVE  i - j \in -n .. n
<1>1. PICK k \in Nat : Shared(old, new, i, j, k) /\ i + j - 2 * k <= n
  BY DEF Near
<1>2. k <= i /\ k <= j
  BY <1>1, SharedFits
<1> QED
  BY <1>1, <1>2

\* A path on diagonal x is as far as any that n edits reach there.
Farthest(old, new, path, x, n) ==
  \A i \in 0 .. Len(old) : i - x \in 0 .. Len(new) /\ Near(old, new, i, i - x, n) => path.old >= i

OldDone(old, path) == path.old >= Len(old)
NewDone(new, path, x) == path # NoPath /\ path.old - x >= Len(new)

LEMMA OnFacts ==
  ASSUME NEW L, NEW old \in Seq(L), NEW new \in Seq(L), NEW s, NEW path, NEW x \in Int, NEW n \in Nat,
         On(old, new, s, path, x, n)
  PROVE  /\ path.old \in 0 .. Len(old) /\ path.old - x \in 0 .. Len(new) /\ path # NoPath
         /\ Near(old, new, path.old, path.old - x, n) /\ x \in -n .. n
<1>1. PICK p : Leads(old, new, path, p, x, n)
  BY DEF On
<1> DEFINE i == path.old
           j == path.old - x
           c == p[Len(path.runs)].same
<1>2. /\ i \in 0 .. Len(old) /\ j \in 0 .. Len(new) /\ Shared(old, new, i, j, c)
      /\ 2 * i - x - 2 * c <= n /\ Walks(old, new, path.runs, p)
  BY <1>1 DEF Leads
<1>3. c \in Nat
  <2>1. Len(path.runs) \in 0 .. Len(path.runs)
    BY <1>2 DEF Walks
  <2>2. p[Len(path.runs)] \in Spots
    BY <1>2, <2>1, SpotTyped
  <2> QED
    BY <2>2 DEF Spots
<1>4. i \in Nat /\ j \in Nat /\ Len(old) \in Nat /\ Len(new) \in Nat /\ j = i - x
  BY <1>2
<1>5. path # NoPath
  <2>1. NoPath.old = -1
    BY DEF NoPath
  <2> QED
    BY <1>4, <2>1
<1> HIDE DEF c, i, j
<1>6. i + j - 2 * c <= n
  BY <1>2, <1>3, <1>4
<1>7. Near(old, new, i, j, n)
  BY <1>2, <1>3, <1>6 DEF Near
<1>8. i - j \in -n .. n
  BY <1>4, <1>7, NearWithin
<1>9. x \in -n .. n
  BY <1>4, <1>8
<1> QED
  BY <1>2, <1>5, <1>7, <1>9 DEF i, j

LEMMA OnLonger ==
  ASSUME NEW L, NEW old \in Seq(L), NEW new \in Seq(L), NEW s, NEW path, NEW x \in Int, NEW n \in Nat,
         On(old, new, s, path, x, n)
  PROVE  On(old, new, s, path, x, n + 1)
<1>1. PICK p : Leads(old, new, path, p, x, n)
  BY DEF On
<1> DEFINE c == p[Len(path.runs)].same
           i == path.old
<1>2. i \in Int /\ c \in Int /\ 2 * i - x - 2 * c <= n
  <2>1. Len(path.runs) \in 0 .. Len(path.runs) /\ Walks(old, new, path.runs, p)
    BY <1>1 DEF Leads, Walks
  <2>2. p[Len(path.runs)] \in Spots
    BY <2>1, SpotTyped
  <2>3. i \in 0 .. Len(old)
    BY <1>1 DEF Leads
  <2>4. c \in Nat
    BY <2>2 DEF Spots
  <2> QED
    BY <1>1, <2>3, <2>4 DEF Leads
<1>3. 2 * i - x - 2 * c <= n + 1
  <2> HIDE DEF c, i
  <2> QED
    BY <1>2
<1>4. Leads(old, new, path, p, x, n + 1)
  BY <1>1, <1>3 DEF Leads
<1> QED
  BY <1>4 DEF On

(* The longest path one edit further, on a diagonal between two that are    *)
(* not at an end.                                                           *)
LEMMA FarthestAfterOne ==
  ASSUME NEW L, NEW old \in Seq(L), NEW new \in Seq(L), Len(old) + Len(new) > 0,
         NEW s, NEW search, NEW d \in Int, NEW n \in Nat, d = 0 => n > 0,
         \A e \in {d - 1, d + 1} : /\ search.best[e] = NoPath \/ On(old, new, s, search.best[e], e, n)
                                   /\ Farthest(old, new, search.best[e], e, n),
         ~ OldDone(old, search.best[d - 1]), ~ NewDone(new, search.best[d + 1], d + 1),
         NEW v, IF CanAdd(new, search, d) \/ CanRemove(old, search, d)
                THEN /\ v.old \in 0 .. Len(old) /\ v.old - d \in 0 .. Len(new)
                     /\ CanAdd(new, search, d) => v.old >= search.best[d + 1].old
                     /\ CanRemove(old, search, d) => v.old >= search.best[d - 1].old + 1
                     /\ v.old = Len(old) \/ v.old - d = Len(new) \/ old[v.old + 1] # new[v.old - d + 1]
                ELSE v = NoPath
  PROVE  Farthest(old, new, v, d, n + 1)
<1> DEFINE A == Len(old)
           B == Len(new)
           w == v.old
           add == search.best[d + 1].old
           remove == search.best[d - 1].old
           Reached(i) == i - d \in 0 .. B /\ Near(old, new, i, i - d, n + 1) => w >= i
           Good == {i \in 0 .. A : Reached(i)}
<1>1. A \in Nat /\ B \in Nat /\ n + 1 \in Nat
  OBVIOUS
<1>2. ASSUME NEW i \in 0 .. A, i + 1 - d \in 0 .. B, Near(old, new, i, i + 1 - d, n)
      PROVE  CanRemove(old, search, d) /\ remove >= i /\ remove \in Nat /\ w \in Nat /\ w >= i + 1
  <2>1. i - (d - 1) = i + 1 - d
    BY <1>1
  <2>2. remove >= i
    BY <1>2, <2>1 DEF Farthest
  <2>3. search.best[d - 1] # NoPath
    <3>1. NoPath.old = -1 /\ i \in Nat
      BY DEF NoPath
    <3> QED
      BY <2>2, <3>1
  <2>4. On(old, new, s, search.best[d - 1], d - 1, n)
    BY <2>3
  <2>5. remove \in 0 .. A
    BY <2>4, OnFacts
  <2>6. remove < A
    BY <1>1, <2>5 DEF OldDone
  <2>7. CanRemove(old, search, d)
    BY <2>3, <2>6 DEF CanRemove
  <2>8. w \in 0 .. A /\ w >= remove + 1
    BY <2>7
  <2> HIDE DEF A, w, remove
  <2> QED
    BY <1>1, <2>2, <2>5, <2>7, <2>8
<1>3. ASSUME NEW i \in 0 .. A, i - d - 1 \in 0 .. B, Near(old, new, i, i - d - 1, n)
      PROVE  CanAdd(new, search, d) /\ w \in Nat /\ w >= i
  <2>1. i - (d + 1) = i - d - 1
    BY <1>1
  <2>2. add >= i
    BY <1>3, <2>1 DEF Farthest
  <2>3. search.best[d + 1] # NoPath
    <3>1. NoPath.old = -1 /\ i \in Nat
      BY DEF NoPath
    <3> QED
      BY <2>2, <3>1
  <2>4. On(old, new, s, search.best[d + 1], d + 1, n)
    BY <2>3
  <2>5. add \in 0 .. A /\ add - (d + 1) \in 0 .. B
    BY <2>4, OnFacts
  <2>6. ~ (add - (d + 1) >= B)
    BY <2>3 DEF NewDone
  <2>7. add - (d + 1) \in 0 .. (B - 1)
    <3> HIDE DEF add, B
    <3> QED
      BY <1>1, <2>5, <2>6
  <2>8. CanAdd(new, search, d)
    BY <2>3, <2>7 DEF CanAdd
  <2>9. w \in 0 .. A /\ w >= add
    BY <2>8
  <2> HIDE DEF A, w, add
  <2> QED
    BY <1>1, <2>2, <2>5, <2>8, <2>9
<1>4. ASSUME NEW i \in 0 .. A, i = 0 \/ i - 1 \in Good, i - d \in 0 .. B,
             Near(old, new, i, i - d, n + 1)
      PROVE  w >= i
  <2> DEFINE j == i - d
  <2>1. i \in Nat /\ j \in Nat /\ j <= B /\ i <= A
    BY <1>1, <1>4
  <2>2. CASE i + j > 0
    <3>1. \/ i > 0 /\ j > 0 /\ old[i] = new[j] /\ Near(old, new, i - 1, j - 1, n + 1)
          \/ i > 0 /\ Near(old, new, i - 1, j, n)
          \/ j > 0 /\ Near(old, new, i, j - 1, n)
      <4>1. Near(old, new, i, j, n + 1)
        BY <1>4
      <4> HIDE DEF j
      <4> QED
        BY <2>1, <2>2, <4>1, NearSplits
    <3>2. CASE i > 0 /\ j > 0 /\ old[i] = new[j] /\ Near(old, new, i - 1, j - 1, n + 1)
      <4>1. i - 1 \in 0 .. A /\ j - 1 = i - 1 - d /\ i - 1 - d \in 0 .. B
        <5>1. i > 0 /\ i - d > 0 /\ i - d \in Nat
          BY <2>1, <3>2
        <5> HIDE DEF A, B
        <5> QED
          BY <1>1, <2>1, <5>1
      <4>2. w >= i - 1
        <5>1. Reached(i - 1)
          BY <1>4, <3>2, <2>1
        <5>2. Near(old, new, i - 1, i - 1 - d, n + 1)
          BY <3>2, <4>1
        <5> HIDE DEF A, B, w
        <5> QED
          BY <4>1, <5>1, <5>2
      <4>3. v # NoPath
        <5>1. NoPath.old = -1
          BY DEF NoPath
        <5> QED
          BY <2>1, <3>2, <4>2, <5>1
      <4>4. w \in 0 .. A /\ (w = A \/ w - d = B \/ old[w + 1] # new[w - d + 1])
        BY <4>3
      <4>5. w # i - 1
        <5>1. ASSUME w = i - 1 PROVE FALSE
          <6>1. w + 1 = i /\ w - d + 1 = j /\ w # A /\ w - d # B
            <7> HIDE DEF A, B, w
            <7> QED
              BY <1>1, <2>1, <3>2, <5>1
          <6> HIDE DEF w, j, A, B
          <6> QED
            BY <3>2, <4>4, <6>1
        <5> QED
          BY <5>1
      <4> HIDE DEF w, A, B, j
      <4> QED
        BY <1>1, <2>1, <4>2, <4>4, <4>5
    <3>3. CASE i > 0 /\ Near(old, new, i - 1, j, n)
      <4>1. i - 1 \in 0 .. A /\ i - 1 + 1 - d = j /\ j \in 0 .. B
        BY <2>1, <3>3
      <4>2. w \in Nat /\ w >= i - 1 + 1
        <5> HIDE DEF w, A, B
        <5> QED
          BY <1>2, <3>3, <4>1
      <4> HIDE DEF w
      <4> QED
        BY <2>1, <4>2
    <3>4. CASE j > 0 /\ Near(old, new, i, j - 1, n)
      <4>1. i - d - 1 = j - 1 /\ j - 1 \in 0 .. B
        BY <2>1, <3>4
      <4> HIDE DEF w, A, B
      <4> QED
        BY <1>3, <3>4, <4>1
    <3> QED
      BY <3>1, <3>2, <3>3, <3>4
  <2>3. CASE i + j = 0
    <3>1. i = 0 /\ d = 0 /\ n > 0
      BY <2>1, <2>3
    <3>2. CASE B > 0
      <4>1. Shared(old, new, 0, 1, 0)
        BY SharedNone
      <4>2. Near(old, new, 0, 1, n)
        BY <3>1, <4>1 DEF Near
      <4>3. 0 \in 0 .. A /\ 0 + 1 - d \in 0 .. B /\ 0 + 1 - d = 1
        BY <1>1, <3>1, <3>2
      <4>4. w \in Nat
        <5> HIDE DEF w, A, B
        <5> QED
          BY <1>2, <4>2, <4>3
      <4> QED
        BY <3>1, <4>4
    <3>3. CASE A > 0
      <4>1. Shared(old, new, 1, 0, 0)
        BY SharedNone
      <4>2. Near(old, new, 1, 0, n)
        BY <3>1, <4>1 DEF Near
      <4>3. 1 \in 0 .. A /\ 1 - d - 1 \in 0 .. B /\ 1 - d - 1 = 0
        BY <1>1, <3>1, <3>3
      <4>4. w \in Nat
        <5> HIDE DEF w, A, B
        <5> QED
          BY <1>3, <4>2, <4>3
      <4> QED
        BY <3>1, <4>4
    <3> QED
      BY <1>1, <3>2, <3>3
  <2> QED
    BY <2>1, <2>2, <2>3
<1>5. ASSUME NEW i \in 0 .. A, i = 0 \/ i - 1 \in Good PROVE i \in Good
  <2>1. Reached(i)
    BY <1>4, <1>5
  <2> QED
    BY <2>1
<1>6. Good = 0 .. A
  <2>1. Good \in SUBSET (0 .. A) /\ 0 \in 0 .. A
    BY <1>1
  <2>2. \A i \in 1 .. A : i \in 0 .. A
    BY <1>1
  <2> HIDE DEF Good
  <2>3. 0 \in Good
    BY <1>5, <2>1
  <2>4. \A i \in 1 .. A : i - 1 \in Good => i \in Good
    BY <1>5, <2>2
  <2> HIDE DEF A
  <2> QED
    BY <1>1, <2>1, <2>3, <2>4, BoundedInduction
<1> QED
  <2>1. \A i \in 0 .. A : Reached(i)
    BY <1>6
  <2> QED
    BY <2>1 DEF Farthest

-----------------------------------------------------------------------------
(* The state of the search.                                                 *)

Diagonals(old, new) == -(Longest(old, new) + 1) .. (Longest(old, new) + 1)

\* It has its fields, and a place for every diagonal.
Shaped(old, new, search) ==
  /\ search = [best |-> search.best, min |-> search.min, max |-> search.max, found |-> search.found]
  /\ search.best = [x \in Diagonals(old, new) |-> search.best[x]]
  /\ search.min \in Int /\ search.max \in Int

\* What one diagonal leaves alone
Elsewhere(old, new, search, d, t) ==
  \A x \in Diagonals(old, new) : x \notin {d - 1, d} => t.best[x] = search.best[x]

\* What one diagonal does while nothing has been found
Goes(old, new, search, d, t) ==
  IF ~ CanAdd(new, search, d) /\ ~ CanRemove(old, search, d)
  THEN /\ Elsewhere(old, new, search, d, t) /\ t.best[d - 1] = NoPath /\ t.best[d] = NoPath
       /\ t.min = search.min /\ t.max = search.max /\ t.found = NoPath
  ELSE LET path == Chosen(old, new, search, d) IN
       IF OldDone(old, path) /\ path.old - d >= Len(new) THEN t.found = path
       ELSE /\ Elsewhere(old, new, search, d, t) /\ t.best[d - 1] = NoPath /\ t.best[d] = path
            /\ t.found = NoPath
            /\ t.max = IF OldDone(old, path) /\ d - 1 < search.max THEN d - 1 ELSE search.max
            /\ t.min = IF path.old - d >= Len(new) /\ d + 1 > search.min THEN d + 1 ELSE search.min

\* The places after diagonal d, where there now is path
Places(old, new, search, d, path, best) ==
  /\ best = [x \in Diagonals(old, new) |-> best[x]] /\ best[d - 1] = NoPath /\ best[d] = path
  /\ \A x \in Diagonals(old, new) : x \notin {d - 1, d} => best[x] = search.best[x]

LEMMA ClearedPlaces ==
  ASSUME NEW old, NEW new, NEW search, Shaped(old, new, search), NEW d \in Int,
         d - 1 \in Diagonals(old, new), d \in Diagonals(old, new), NEW path
  PROVE  /\ Places(old, new, search, d, NoPath, Emptied(search, d))
         /\ Places(old, new, search, d, path, [Emptied(search, d) EXCEPT ![d] = path])
<1> DEFINE D == Diagonals(old, new)
           c == Emptied(search, d)
           b == [c EXCEPT ![d] = path]
<1>1. search.best = [x \in D |-> search.best[x]]
  BY DEF Shaped
<1>2. d - 1 # d
  OBVIOUS
<1> HIDE DEF D
<1>3. /\ c = [x \in D |-> c[x]] /\ c[d - 1] = NoPath /\ c[d] = NoPath
      /\ \A x \in D : x \notin {d - 1, d} => c[x] = search.best[x]
  BY <1>1, <1>2 DEF Emptied, D
<1> HIDE DEF c
<1>4. /\ b = [x \in D |-> b[x]] /\ b[d - 1] = NoPath /\ b[d] = path
      /\ \A x \in D : x \notin {d - 1, d} => b[x] = search.best[x]
  <2>1. d \in D /\ d - 1 \in D
    BY DEF D
  <2> QED
    BY <1>2, <1>3, <2>1
<1> QED
  BY <1>3, <1>4 DEF D, c, Places

LEMMA DiagonalGoes ==
  ASSUME NEW old, NEW new, NEW search, Shaped(old, new, search), NEW d \in Int,
         d - 1 \in Diagonals(old, new), d \in Diagonals(old, new), search.found = NoPath
  PROVE  /\ Shaped(old, new, Diagonal(old, new, search, d))
         /\ Goes(old, new, search, d, Diagonal(old, new, search, d))
<1> DEFINE t == Diagonal(old, new, search, d)
           c == Emptied(search, d)
           path == Chosen(old, new, search, d)
           b == [c EXCEPT ![d] = path]
           D == Diagonals(old, new)
           can == CanAdd(new, search, d) \/ CanRemove(old, search, d)
           oldDone == path.old >= Len(old)
           newDone == path.old - d >= Len(new)
<1>1. /\ search = [best |-> search.best, min |-> search.min, max |-> search.max, found |-> search.found]
      /\ search.min \in Int /\ search.max \in Int /\ d - 1 \in Int /\ d + 1 \in Int
  BY DEF Shaped
<1>2. /\ c = [x \in D |-> c[x]] /\ c[d - 1] = NoPath /\ c[d] = NoPath
      /\ \A x \in D : x \notin {d - 1, d} => c[x] = search.best[x]
      /\ b = [x \in D |-> b[x]] /\ b[d - 1] = NoPath /\ b[d] = path
      /\ \A x \in D : x \notin {d - 1, d} => b[x] = search.best[x]
  <2>1. Places(old, new, search, d, NoPath, c) /\ Places(old, new, search, d, path, b)
    BY ClearedPlaces, Zenon
  <2> HIDE DEF c, b, path, D
  <2> QED
    BY <2>1 DEF Places, D
<1>3. Tried(old, new, search, d, t)
  BY DiagonalTries
<1> HIDE DEF t, c, b, path, D
<1>4. CASE ~ CanAdd(new, search, d) /\ ~ CanRemove(old, search, d)
  <2>1. t = [search EXCEPT !.best = c]
    BY <1>3, <1>4 DEF Tried, c
  <2>2. t = [best |-> c, min |-> search.min, max |-> search.max, found |-> NoPath]
    BY <1>1, <2>1
  <2>3. t.best = c /\ t.min = search.min /\ t.max = search.max /\ t.found = NoPath
    BY <2>2
  <2>4. Shaped(old, new, t)
    BY <1>1, <1>2, <2>2, <2>3 DEF Shaped, D
  <2>5. Goes(old, new, search, d, t)
    BY <1>2, <1>4, <2>3 DEF Goes, Elsewhere, D
  <2> QED
    BY <2>4, <2>5 DEF t
<1>5. CASE can /\ oldDone /\ newDone
  <2>1. t = [search EXCEPT !.found = path]
    BY <1>3, <1>5 DEF Tried, path
  <2>2. t = [best |-> search.best, min |-> search.min, max |-> search.max, found |-> path]
    BY <1>1, <2>1
  <2>3. t.best = search.best /\ t.min = search.min /\ t.max = search.max /\ t.found = path
    BY <2>2
  <2>4. Shaped(old, new, t)
    BY <2>2, <2>3 DEF Shaped
  <2>5. Goes(old, new, search, d, t)
    BY <1>5, <2>3 DEF Goes, OldDone, path
  <2> QED
    BY <2>4, <2>5 DEF t
<1>6. CASE can /\ ~ (oldDone /\ newDone)
  <2> DEFINE mx == IF oldDone THEN Min({search.max, d - 1}) ELSE search.max
             mn == IF newDone THEN Max({search.min, d + 1}) ELSE search.min
  <2>1. t = [search EXCEPT !.best = b, !.max = mx, !.min = mn]
    BY <1>3, <1>6, Zenon DEF Tried, path, b, c
  <2>2. mx = (IF oldDone /\ d - 1 < search.max THEN d - 1 ELSE search.max) /\ mx \in Int
    <3>1. Min({search.max, d - 1}) = IF search.max <= d - 1 THEN search.max ELSE d - 1
      BY <1>1, OfTwo
    <3> HIDE DEF oldDone
    <3> QED
      BY <1>1, <3>1
  <2>3. mn = (IF newDone /\ d + 1 > search.min THEN d + 1 ELSE search.min) /\ mn \in Int
    <3>1. Max({search.min, d + 1}) = IF search.min <= d + 1 THEN d + 1 ELSE search.min
      BY <1>1, OfTwo
    <3> HIDE DEF newDone
    <3> QED
      BY <1>1, <3>1
  <2> HIDE DEF mx, mn
  <2>4. t = [best |-> b, min |-> mn, max |-> mx, found |-> NoPath]
    BY <1>1, <2>1
  <2>5. t.best = b /\ t.min = mn /\ t.max = mx /\ t.found = NoPath
    BY <2>4
  <2>6. Shaped(old, new, t)
    BY <1>2, <2>2, <2>3, <2>4, <2>5 DEF Shaped, D
  <2>7. Goes(old, new, search, d, t)
    <3>1. Elsewhere(old, new, search, d, t) /\ t.best[d - 1] = NoPath /\ t.best[d] = path
      BY <1>2, <2>5 DEF Elsewhere, D
    <3> QED
      BY <1>6, <2>2, <2>3, <2>5, <3>1 DEF Goes, OldDone, path
  <2> QED
    BY <2>6, <2>7 DEF t
<1> QED
  BY <1>4, <1>5, <1>6

-----------------------------------------------------------------------------
(* One edit length.                                                         *)

Evens == {2 * m : m \in Int}

LEMMA EvenNumber ==
  ASSUME NEW m \in Int
  PROVE  2 * m \in Evens
  BY DEF Evens

\* Every path is one that at most n edits lead to.
Paths(old, new, s, best, n) ==
  \A x \in Diagonals(old, new) : best[x] = NoPath \/ On(old, new, s, best[x], x, n)

\* What holds on diagonal x when it has been taken with n edits, for the bounds it leaves
Settled(old, new, path, x, n, lo, hi) ==
  /\ Farthest(old, new, path, x, n)
  /\ OldDone(old, path) => hi <= x - 1
  /\ NewDone(new, path, x) => lo >= x + 1

\* The bounds lo and hi that n edits leave: the first of min and max after no edit
\* leave aside a text that has already ended.
Bounded(old, new, search, n, lo, hi) ==
  /\ n \in Nat /\ n < Longest(old, new) /\ lo \in Int /\ hi \in Int
  /\ -Longest(old, new) <= search.min /\ search.max <= Longest(old, new)
  /\ search.min <= lo /\ lo <= Len(old) - Len(new) /\ Len(old) - Len(new) <= hi /\ hi <= search.max
  /\ search.min = lo \/ (n = 0 /\ search.min = -Longest(old, new))
  /\ search.max = hi \/ (n = 0 /\ search.max = Longest(old, new))
  /\ lo = -Longest(old, new)
       \/ (lo - 1 - n \in Evens /\ lo - 1 \in -n .. n /\ NewDone(new, search.best[lo - 1], lo - 1))
  /\ hi = Longest(old, new)
       \/ ((hi + 1) - n \in Evens /\ hi + 1 \in -n .. n /\ OldDone(old, search.best[hi + 1]))

\* After n edits, none of which has found the end
Searched(old, new, s, search, n, lo, hi) ==
  /\ Shaped(old, new, search) /\ search.found = NoPath
  /\ Paths(old, new, s, search.best, n)
  /\ Bounded(old, new, search, n, lo, hi)
  /\ \A x \in Diagonals(old, new) : x - n \in Evens /\ lo - 1 <= x /\ x <= hi + 1 =>
        Settled(old, new, search.best[x], x, n, lo, hi)
  /\ ~ Near(old, new, Len(old), Len(new), n)

\* While the diagonals from low on are taken with one edit more, up to e
Searching(old, new, s, search, n, lo, hi, low, e, h) ==
  /\ Shaped(old, new, h) /\ h.found = NoPath
  /\ Paths(old, new, s, h.best, n + 1)
  /\ \A x \in Diagonals(old, new) : x >= e + 1 => h.best[x] = search.best[x]
  /\ \A x \in low .. e : x - n - 1 \in Evens /\ lo <= x /\ x <= hi =>
        Settled(old, new, h.best[x], x, n + 1, h.min, h.max)
  /\ search.min <= h.min /\ h.min <= Len(old) - Len(new)
  /\ Len(old) - Len(new) <= h.max /\ h.max <= search.max
  /\ h.min = search.min
       \/ (h.min - 1 \in low .. e /\ lo <= h.min - 1 /\ h.min - 1 - n - 1 \in Evens
           /\ NewDone(new, h.best[h.min - 1], h.min - 1))
  /\ h.max = search.max
       \/ (h.max + 1 \in low .. e /\ h.max + 1 <= hi /\ (h.max + 1) - n - 1 \in Evens
           /\ OldDone(old, h.best[h.max + 1]))

\* A path to the ends of both texts
Ends(old, new, s, path, n) ==
  /\ On(old, new, s, path, Len(old) - Len(new), n) /\ path.old = Len(old)
  /\ Begins(s, path.runs)

LEMMA NothingOutside ==
  ASSUME NEW L, NEW old \in Seq(L), NEW new \in Seq(L), NEW s, NEW search, NEW n, NEW lo, NEW hi,
         Searched(old, new, s, search, n, lo, hi),
         NEW d \in Int, d - n - 1 \in Evens, -(n + 1) <= d, d <= n + 1, search.min <= d, d <= search.max,
         d < lo \/ d > hi,
         NEW h, h.best[d - 1] = search.best[d - 1], h.best[d + 1] = search.best[d + 1]
  PROVE  ~ CanAdd(new, h, d) /\ ~ CanRemove(old, h, d)
<1> DEFINE W == Longest(old, new)
           A == Len(old)
           B == Len(new)
<1>1. Bounded(old, new, search, n, lo, hi) /\ Paths(old, new, s, search.best, n) /\ Shaped(old, new, search)
  BY DEF Searched
<1>2. /\ n \in Nat /\ lo \in Int /\ hi \in Int /\ search.min \in Int /\ search.max \in Int
      /\ A \in Nat /\ B \in Nat /\ W \in Nat
  <2>1. A \in Nat /\ B \in Nat
    OBVIOUS
  <2>2. W \in Nat
    BY <2>1 DEF Longest
  <2>3. n \in Nat /\ lo \in Int /\ hi \in Int
    BY <1>1 DEF Bounded
  <2>4. search.min \in Int /\ search.max \in Int
    BY <1>1 DEF Shaped
  <2> QED
    BY <2>1, <2>2, <2>3, <2>4
<1>3. n < W
  BY <1>1 DEF Bounded
<1>4. n = 0 /\ (d = 1 \/ d = -1)
  <2>1. n = 0
    <3>1. (search.min = lo \/ n = 0) /\ (search.max = hi \/ n = 0)
      BY <1>1 DEF Bounded
    <3> DEFINE mn == search.min
               mx == search.max
    <3>2. (mn = lo \/ n = 0) /\ (mx = hi \/ n = 0) /\ mn <= d /\ d <= mx /\ mn \in Int /\ mx \in Int
      BY <1>2, <3>1
    <3> HIDE DEF mn, mx
    <3> QED
      BY <1>2, <3>2
  <2>2. PICK m \in Int : d - n - 1 = 2 * m
    BY DEF Evens
  <2>3. d = 1 + 2 * m /\ -1 <= d /\ d <= 1
    BY <2>1, <2>2
  <2> QED
    BY <2>1, <2>3
<1>5. d - 1 \in Diagonals(old, new) /\ d + 1 \in Diagonals(old, new)
  <2> HIDE DEF W
  <2>1. d - 1 \in -(W + 1) .. (W + 1) /\ d + 1 \in -(W + 1) .. (W + 1)
    BY <1>2, <1>3, <1>4
  <2> QED
    BY <2>1 DEF Diagonals, W
<1>6. \A x \in {d - 1, d + 1} : x # 0 => search.best[x] = NoPath
  <2> SUFFICES ASSUME NEW x \in {d - 1, d + 1}, x # 0, search.best[x] # NoPath
               PROVE  FALSE
    OBVIOUS
  <2>1. On(old, new, s, search.best[x], x, n)
    BY <1>1, <1>5 DEF Paths
  <2>2. x \in -n .. n
    BY <1>2, <2>1, OnFacts
  <2> QED
    BY <1>4, <2>2
<1>7. CASE d < lo
  <2>1. lo # -W /\ lo - 1 \in 0 .. 0 /\ NewDone(new, search.best[lo - 1], lo - 1)
    <3>1. lo # -W
      BY <1>2, <1>3, <1>4, <1>7
    <3> QED
      BY <1>1, <1>4, <3>1 DEF Bounded
  <2>2. lo = 1 /\ lo - 1 = 0 /\ d = -1
    BY <1>2, <1>4, <1>7, <2>1
  <2>3. d - 1 # 0 /\ d + 1 = 0
    BY <2>2
  <2>4. ~ CanRemove(old, h, d)
    BY <1>6, <2>3 DEF CanRemove
  <2>5. ~ CanAdd(new, h, d)
    <3>1. search.best[0].old - 0 >= B
      BY <2>1, <2>2 DEF NewDone
    <3>2. ~ (search.best[0].old - 0 \in 0 .. (B - 1))
      <4> DEFINE o == search.best[0].old - 0
      <4>1. o >= B
        BY <3>1
      <4> HIDE DEF o, B
      <4>2. ~ (o \in 0 .. (B - 1))
        BY <1>2, <4>1
      <4> QED
        BY <4>2 DEF o
    <3> QED
      BY <2>3, <3>2 DEF CanAdd
  <2> QED
    BY <2>4, <2>5
<1>8. CASE d > hi
  <2>1. hi # W /\ hi + 1 \in 0 .. 0 /\ OldDone(old, search.best[hi + 1])
    <3>1. hi # W
      BY <1>2, <1>3, <1>4, <1>8
    <3> QED
      BY <1>1, <1>4, <3>1 DEF Bounded
  <2>2. hi = -1 /\ hi + 1 = 0 /\ d = 1
    BY <1>2, <1>4, <1>8, <2>1
  <2>3. d - 1 = 0 /\ d + 1 # 0
    BY <2>2
  <2>4. ~ CanAdd(new, h, d)
    BY <1>6, <2>3 DEF CanAdd
  <2>5. ~ CanRemove(old, h, d)
    <3>1. search.best[0].old >= A
      BY <2>1, <2>2 DEF OldDone
    <3>2. ~ (search.best[0] # NoPath /\ search.best[0].old < A)
      <4>1. ASSUME search.best[0] # NoPath PROVE search.best[0].old \in Nat
        <5>1. 0 \in Diagonals(old, new)
          BY <1>5, <2>3
        <5>2. On(old, new, s, search.best[0], 0, n)
          BY <1>1, <4>1, <5>1 DEF Paths
        <5>3. search.best[0].old \in 0 .. Len(old)
          BY <1>2, <5>2, OnFacts
        <5> QED
          BY <5>3
      <4> DEFINE o == search.best[0].old
      <4> HIDE DEF o, A
      <4>2. o >= A /\ (search.best[0] # NoPath => o \in Nat)
        BY <3>1, <4>1 DEF o
      <4>3. search.best[0] # NoPath => ~ (o < A)
        BY <1>2, <4>2
      <4> QED
        BY <4>3 DEF o
    <3> QED
      BY <2>3, <3>2 DEF CanRemove
  <2> QED
    BY <2>4, <2>5
<1> QED
  BY <1>7, <1>8

LEMMA FarthestInside ==
  ASSUME NEW L, NEW old \in Seq(L), NEW new \in Seq(L), NEW s, Plainly(s), NEW search, NEW n, NEW lo, NEW hi,
         Searched(old, new, s, search, n, lo, hi),
         NEW d \in Int, d - n - 1 \in Evens, d - 1 \in Diagonals(old, new), d + 1 \in Diagonals(old, new),
         lo <= d, d <= hi,
         NEW h, h.best[d - 1] = search.best[d - 1], h.best[d + 1] = search.best[d + 1],
         NEW v, v = IF CanAdd(new, h, d) \/ CanRemove(old, h, d) THEN Chosen(old, new, h, d) ELSE NoPath
  PROVE  Farthest(old, new, v, d, n + 1)
<1> DEFINE A == Len(old)
           B == Len(new)
           can == CanAdd(new, h, d) \/ CanRemove(old, h, d)
<1>1. Bounded(old, new, search, n, lo, hi) /\ Paths(old, new, s, search.best, n)
  BY DEF Searched
<1>2. n \in Nat /\ lo \in Int /\ hi \in Int /\ A \in Nat /\ B \in Nat /\ n < A + B
  BY <1>1 DEF Bounded, Longest
<1>3. d - 1 - n \in Evens /\ (d + 1) - n \in Evens
  <2>1. PICK m \in Int : d - n - 1 = 2 * m
    BY DEF Evens
  <2>2. d - 1 - n = 2 * m /\ (d + 1) - n = 2 * (m + 1)
    BY <1>2, <2>1
  <2>3. 2 * m \in Evens /\ 2 * (m + 1) \in Evens
    <3>1. m + 1 \in Int
      OBVIOUS
    <3> QED
      BY <3>1, EvenNumber
  <2> QED
    BY <2>2, <2>3
<1>4. d = 0 => n > 0
  <2>1. PICK m \in Int : d - 1 - n = 2 * m
    BY <1>3 DEF Evens
  <2> QED
    BY <1>2, <2>1
<1>5. /\ Settled(old, new, search.best[d - 1], d - 1, n, lo, hi)
      /\ Settled(old, new, search.best[d + 1], d + 1, n, lo, hi)
  <2>1. lo - 1 <= d - 1 /\ d - 1 <= hi + 1 /\ lo - 1 <= d + 1 /\ d + 1 <= hi + 1
    BY <1>2
  <2>2. \A x \in Diagonals(old, new) : x - n \in Evens /\ lo - 1 <= x /\ x <= hi + 1 =>
           Settled(old, new, search.best[x], x, n, lo, hi)
    BY DEF Searched
  <2> DEFINE u == d - 1
             w == d + 1
  <2>3. /\ u \in Diagonals(old, new) /\ w \in Diagonals(old, new) /\ u - n \in Evens /\ w - n \in Evens
        /\ lo - 1 <= u /\ u <= hi + 1 /\ lo - 1 <= w /\ w <= hi + 1
    BY <1>3, <2>1
  <2> HIDE DEF u, w
  <2>4. Settled(old, new, search.best[u], u, n, lo, hi) /\ Settled(old, new, search.best[w], w, n, lo, hi)
    BY <2>2, <2>3
  <2> QED
    BY <2>4 DEF u, w
<1>6. ~ OldDone(old, search.best[d - 1]) /\ ~ NewDone(new, search.best[d + 1], d + 1)
  BY <1>2, <1>5 DEF Settled
<1>7. \A e \in {d - 1, d + 1} : /\ h.best[e] = NoPath \/ On(old, new, s, h.best[e], e, n)
                                /\ Farthest(old, new, h.best[e], e, n)
  BY <1>1, <1>5 DEF Settled, Paths
<1>8. IF can
      THEN /\ v.old \in 0 .. A /\ v.old - d \in 0 .. B
           /\ CanAdd(new, h, d) => v.old >= h.best[d + 1].old
           /\ CanRemove(old, h, d) => v.old >= h.best[d - 1].old + 1
           /\ v.old = A \/ v.old - d = B \/ old[v.old + 1] # new[v.old - d + 1]
      ELSE v = NoPath
  <2>1. CASE can
    <3>1. v = Chosen(old, new, h, d)
      BY <2>1
    <3>2. \A e \in {d - 1, d + 1} : h.best[e] = NoPath \/ On(old, new, s, h.best[e], e, n)
      BY <1>7
    <3>3. /\ On(old, new, s, v, d, n + 1)
          /\ CanAdd(new, h, d) => v.old >= h.best[d + 1].old
          /\ CanRemove(old, h, d) => v.old >= h.best[d - 1].old + 1
          /\ v.old = A \/ v.old - d = B \/ old[v.old + 1] # new[v.old - d + 1]
      BY <1>2, <2>1, <3>1, <3>2, ChosenIsOn
    <3>4. v.old \in 0 .. A /\ v.old - d \in 0 .. B
      <4>1. n + 1 \in Nat
        BY <1>2
      <4> QED
        BY <3>3, <4>1, OnFacts
    <3> QED
      BY <2>1, <3>3, <3>4
  <2>2. CASE ~ can
    BY <2>2
  <2> QED
    BY <2>1, <2>2
<1>9. A + B > 0
  BY <1>2
<1>10. ~ OldDone(old, h.best[d - 1]) /\ ~ NewDone(new, h.best[d + 1], d + 1)
  BY <1>6
<1> QED
  BY <1>2, <1>4, <1>7, <1>8, <1>9, <1>10, FarthestAfterOne

(* One diagonal more: it finds the end, or the search goes on with it.      *)
LEMMA DiagonalKeeps ==
  ASSUME NEW L, NEW old \in Seq(L), NEW new \in Seq(L), NEW s, Plainly(s), NEW search, NEW n, NEW lo, NEW hi,
         Searched(old, new, s, search, n, lo, hi),
         NEW low \in Int, NEW d \in Int, low <= d, d - n - 1 \in Evens,
         -(n + 1) <= d, d <= n + 1, search.min <= d, d <= search.max,
         NEW h, Searching(old, new, s, search, n, lo, hi, low, d - 2, h)
  PROVE  \/ Searching(old, new, s, search, n, lo, hi, low, d, Diagonal(old, new, h, d))
         \/ /\ Diagonal(old, new, h, d).found # NoPath /\ Shaped(old, new, Diagonal(old, new, h, d))
            /\ Ends(old, new, s, Diagonal(old, new, h, d).found, n + 1)
<1> DEFINE A == Len(old)
           B == Len(new)
           W == Longest(old, new)
           D == Diagonals(old, new)
           t == Diagonal(old, new, h, d)
           can == CanAdd(new, h, d) \/ CanRemove(old, h, d)
           path == Chosen(old, new, h, d)
           v == IF can THEN path ELSE NoPath
           mn == h.min
           mx == h.max
<1>1. Bounded(old, new, search, n, lo, hi) /\ Paths(old, new, s, search.best, n) /\ Shaped(old, new, search)
  BY DEF Searched
<1>2. /\ n \in Nat /\ lo \in Int /\ hi \in Int /\ A \in Nat /\ B \in Nat /\ W = A + B /\ n < W
  <2>1. A \in Nat /\ B \in Nat
    OBVIOUS
  <2>2. W = A + B
    BY DEF Longest
  <2>3. n \in Nat /\ lo \in Int /\ hi \in Int /\ n < W
    BY <1>1 DEF Bounded
  <2> QED
    BY <2>1, <2>2, <2>3
<1>3. /\ Shaped(old, new, h) /\ h.found = NoPath /\ Paths(old, new, s, h.best, n + 1)
      /\ \A x \in D : x >= d - 2 + 1 => h.best[x] = search.best[x]
  BY DEF Searching
<1>4. mn \in Int /\ mx \in Int /\ search.min \in Int /\ search.max \in Int
  BY <1>1, <1>3 DEF Shaped
<1>5. d \in D /\ d - 1 \in D /\ d + 1 \in D /\ D \in SUBSET Int
  <2>1. d \in -(W + 1) .. (W + 1) /\ d - 1 \in -(W + 1) .. (W + 1) /\ d + 1 \in -(W + 1) .. (W + 1)
    <3> HIDE DEF W, A, B
    <3> QED
      BY <1>2
  <2>2. D = -(W + 1) .. (W + 1)
    BY DEF Diagonals
  <2> HIDE DEF W, D
  <2> QED
    BY <2>1, <2>2
<1>6. Shaped(old, new, t) /\ Goes(old, new, h, d, t)
  BY <1>3, <1>5, DiagonalGoes
<1>7. h.best[d - 1] = search.best[d - 1] /\ h.best[d + 1] = search.best[d + 1]
  BY <1>3, <1>5
<1>8. ~ (lo <= d /\ d <= hi) => ~ can
  <2>1. ASSUME d < lo \/ d > hi PROVE ~ can
    BY <1>7, <2>1, NothingOutside
  <2> HIDE DEF can
  <2> QED
    BY <1>2, <2>1
<1>9. lo <= d /\ d <= hi => Farthest(old, new, v, d, n + 1)
  BY <1>5, <1>7, FarthestInside
<1>10. can => /\ On(old, new, s, path, d, n + 1) /\ Begins(s, path.runs)
              /\ path.old \in 0 .. A /\ path.old - d \in 0 .. B /\ path # NoPath
  <2> SUFFICES ASSUME can
               PROVE  /\ On(old, new, s, path, d, n + 1) /\ Begins(s, path.runs)
                      /\ path.old \in 0 .. A /\ path.old - d \in 0 .. B /\ path # NoPath
    OBVIOUS
  <2>1. ASSUME NEW e \in {d - 1, d + 1} PROVE h.best[e] = NoPath \/ On(old, new, s, h.best[e], e, n)
    BY <1>1, <1>5, <1>7 DEF Paths
  <2>2. On(old, new, s, path, d, n + 1) /\ Begins(s, path.runs)
    BY <1>2, <2>1, ChosenIsOn
  <2>3. n + 1 \in Nat
    BY <1>2
  <2> QED
    BY <2>2, <2>3, OnFacts
<1> HIDE DEF t, path, D
<1>11. CASE can /\ OldDone(old, path) /\ path.old - d >= B
  <2>1. t.found = path
    BY <1>6, <1>11 DEF Goes, path
  <2>2. path.old = A /\ d = A - B
    <3> DEFINE o == path.old
    <3>1. o \in 0 .. A /\ o - d \in 0 .. B /\ o >= A /\ o - d >= B
      BY <1>10, <1>11 DEF OldDone
    <3> HIDE DEF o, A, B
    <3>2. o = A /\ d = A - B
      BY <1>2, <3>1
    <3> QED
      BY <3>2 DEF o
  <2> QED
    BY <1>6, <1>10, <1>11, <2>1, <2>2 DEF Ends, t
<1>12. CASE ~ (can /\ OldDone(old, path) /\ path.old - d >= B)
  <2> DEFINE tn == t.min
             tx == t.max
             oldEnds == can /\ OldDone(old, path)
             newEnds == can /\ path.old - d >= B
  <2>1. /\ Elsewhere(old, new, h, d, t) /\ t.best[d - 1] = NoPath /\ t.best[d] = v /\ t.found = NoPath
        /\ tx = (IF oldEnds /\ d - 1 < mx THEN d - 1 ELSE mx)
        /\ tn = (IF newEnds /\ d + 1 > mn THEN d + 1 ELSE mn)
    <3>1. CASE can
      BY <1>6, <1>12, <3>1 DEF Goes, path
    <3>2. CASE ~ can
      BY <1>6, <3>2 DEF Goes
    <3> QED
      BY <3>1, <3>2
  <2>2. OldDone(old, v) <=> oldEnds
    <3>1. CASE can
      BY <3>1
    <3>2. CASE ~ can
      <4>1. ~ OldDone(old, NoPath)
        BY <1>2 DEF OldDone, NoPath
      <4> QED
        BY <3>2, <4>1
    <3> QED
      BY <3>1, <3>2
  <2>3. NewDone(new, v, d) <=> newEnds
    <3>1. CASE can
      BY <1>10, <3>1 DEF NewDone
    <3>2. CASE ~ can
      BY <3>2 DEF NewDone
    <3> QED
      BY <3>1, <3>2
  <2>4. /\ oldEnds => A - B <= d - 1 /\ d <= hi /\ lo <= d
        /\ newEnds => d + 1 <= A - B /\ d <= hi /\ lo <= d
    <3> DEFINE o == path.old
    <3>1. can => o \in 0 .. A /\ o - d \in 0 .. B
      BY <1>10
    <3>2. OldDone(old, path) <=> o >= A
      BY DEF OldDone
    <3>3. can => lo <= d /\ d <= hi
      BY <1>8
    <3> HIDE DEF o, A, B, can
    <3>4. oldEnds => o = A /\ A - d \in 0 .. B /\ A - d # B
      BY <1>2, <1>12, <3>1, <3>2 DEF o
    <3>5. newEnds => o - d = B /\ o \in 0 .. A /\ o # A
      BY <1>2, <1>12, <3>1, <3>2 DEF o
    <3>6. newEnds => d + 1 <= A - B
      BY <1>2, <3>5
    <3>7. oldEnds => A - B <= d - 1
      BY <1>2, <3>4
    <3> QED
      BY <3>3, <3>6, <3>7
  <2> HIDE DEF v, can, A, B, oldEnds, newEnds, tn, tx, mn, mx
  <2>5. /\ tn \in Int /\ tx \in Int /\ mn <= tn /\ tx <= mx
        /\ oldEnds => tx <= d - 1
        /\ newEnds => tn >= d + 1
        /\ tn = mn \/ (tn = d + 1 /\ newEnds)
        /\ tx = mx \/ (tx = d - 1 /\ oldEnds)
    BY <1>4, <2>1
  <2>6. /\ search.min <= mn /\ mn <= A - B /\ A - B <= mx /\ mx <= search.max
    BY DEF Searching, mn, mx, A, B
  <2>7. /\ search.min <= tn /\ tn <= A - B /\ A - B <= tx /\ tx <= search.max
    <3> DEFINE a == search.min
               b == search.max
    <3>1. a \in Int /\ b \in Int /\ a <= mn /\ mx <= b
      BY <1>4, <2>6
    <3> HIDE DEF a, b
    <3>2. a <= tn /\ tn <= A - B /\ A - B <= tx /\ tx <= b
      BY <1>2, <1>4, <2>4, <2>5, <2>6, <3>1
    <3> QED
      BY <3>2 DEF a, b
  <2>8. Paths(old, new, s, t.best, n + 1)
    <3> SUFFICES ASSUME NEW x \in D PROVE t.best[x] = NoPath \/ On(old, new, s, t.best[x], x, n + 1)
      BY DEF Paths, D
    <3>1. CASE x = d
      BY <1>10, <2>1, <3>1 DEF v
    <3>2. CASE x = d - 1
      BY <2>1, <3>2
    <3>3. CASE x \notin {d - 1, d}
      BY <1>3, <2>1, <3>3 DEF Elsewhere, Paths, D
    <3> QED
      BY <3>1, <3>2, <3>3
  <2>9. \A x \in D : x >= d + 1 => t.best[x] = search.best[x]
    <3> SUFFICES ASSUME NEW x \in D, x >= d + 1 PROVE t.best[x] = search.best[x]
      OBVIOUS
    <3>1. x \notin {d - 1, d} /\ x >= d - 2 + 1
      BY <1>5
    <3> QED
      BY <1>3, <2>1, <3>1 DEF Elsewhere, D
  <2>10. ASSUME NEW x \in low .. d - 2, x \in D PROVE t.best[x] = h.best[x]
    <3>1. x \notin {d - 1, d}
      OBVIOUS
    <3> QED
      BY <2>1, <2>10, <3>1 DEF Elsewhere, D
  <2>11. ASSUME NEW x \in low .. d - 2, x - n - 1 \in Evens, lo <= x, x <= hi
         PROVE  x \in D
    <3>1. lo >= -W /\ hi <= W
      <4> DEFINE a == search.min
                 b == search.max
      <4>1. a >= -W /\ a <= lo /\ hi <= b /\ b <= W /\ a \in Int /\ b \in Int
        BY <1>1, <1>4 DEF Bounded
      <4> HIDE DEF a, b, W
      <4> QED
        BY <1>2, <4>1
    <3>2. D = -(W + 1) .. (W + 1)
      BY DEF Diagonals, D
    <3> HIDE DEF W
    <3> QED
      BY <1>2, <2>11, <3>1, <3>2
  <2>12. \A x \in low .. d : x - n - 1 \in Evens /\ lo <= x /\ x <= hi =>
            Settled(old, new, t.best[x], x, n + 1, tn, tx)
    <3> SUFFICES ASSUME NEW x \in low .. d, x - n - 1 \in Evens, lo <= x, x <= hi
                 PROVE  Settled(old, new, t.best[x], x, n + 1, tn, tx)
      OBVIOUS
    <3>1. CASE x = d
      <4>1. Farthest(old, new, v, d, n + 1)
        BY <1>9, <3>1 DEF v, can
      <4> QED
        BY <2>1, <2>2, <2>3, <2>5, <3>1, <4>1 DEF Settled
    <3>2. CASE x # d
      <4>1. x # d - 1
        <5>1. PICK i \in Int : x - n - 1 = 2 * i
          BY DEF Evens
        <5>2. PICK j \in Int : d - n - 1 = 2 * j
          BY DEF Evens
        <5>3. x - d = 2 * (i - j) /\ i - j \in Int
          BY <1>2, <5>1, <5>2
        <5> DEFINE k == i - j
        <5> HIDE DEF k
        <5>4. 2 * k # -1
          BY <5>3 DEF k
        <5> QED
          BY <5>3, <5>4 DEF k
      <4>2. x \in low .. d - 2
        BY <3>2, <4>1
      <4>3. Settled(old, new, h.best[x], x, n + 1, h.min, h.max)
        BY <4>2 DEF Searching
      <4>4. t.best[x] = h.best[x]
        BY <2>10, <2>11, <4>2
      <4>5. Settled(old, new, t.best[x], x, n + 1, mn, mx)
        BY <4>3, <4>4 DEF mn, mx
      <4> QED
        BY <1>4, <2>5, <4>5 DEF Settled
    <3> QED
      BY <3>1, <3>2
  <2>13. tn = search.min
           \/ (tn - 1 \in low .. d /\ lo <= tn - 1 /\ tn - 1 - n - 1 \in Evens /\ NewDone(new, t.best[tn - 1], tn - 1))
    <3>1. CASE tn = d + 1 /\ newEnds
      <4>1. tn - 1 = d /\ d \in low .. d
        BY <3>1
      <4> QED
        BY <2>1, <2>3, <2>4, <3>1, <4>1
    <3>2. CASE tn = mn /\ mn # search.min
      <4>1. /\ mn - 1 \in low .. d - 2 /\ lo <= mn - 1 /\ mn - 1 - n - 1 \in Evens
            /\ NewDone(new, h.best[mn - 1], mn - 1)
        BY <3>2 DEF Searching, mn
      <4>2. mn - 1 <= hi
        <5>1. A - B <= hi
          BY <1>1 DEF Bounded, A, B
        <5> QED
          BY <1>2, <1>4, <2>6, <5>1
      <4>3. t.best[mn - 1] = h.best[mn - 1]
        BY <2>10, <2>11, <4>1, <4>2
      <4>4. mn - 1 \in low .. d
        BY <4>1
      <4> QED
        BY <3>2, <4>1, <4>3, <4>4
    <3> QED
      BY <2>5, <3>1, <3>2
  <2>14. tx = search.max
           \/ (tx + 1 \in low .. d /\ tx + 1 <= hi /\ (tx + 1) - n - 1 \in Evens /\ OldDone(old, t.best[tx + 1]))
    <3>1. CASE tx = d - 1 /\ oldEnds
      <4> DEFINE z == tx + 1
      <4>1. z = d /\ d \in low .. d
        BY <3>1
      <4> HIDE DEF z
      <4>2. z \in low .. d /\ z <= hi /\ z - n - 1 \in Evens /\ OldDone(old, t.best[z])
        BY <2>1, <2>2, <2>4, <3>1, <4>1
      <4> QED
        BY <4>2 DEF z
    <3>2. CASE tx = mx /\ mx # search.max
      <4>1. /\ mx + 1 \in low .. d - 2 /\ mx + 1 <= hi /\ (mx + 1) - n - 1 \in Evens
            /\ OldDone(old, h.best[mx + 1])
        BY <3>2 DEF Searching, mx
      <4>2. lo <= mx + 1
        <5>1. lo <= A - B
          BY <1>1 DEF Bounded, A, B
        <5> QED
          BY <1>2, <1>4, <2>6, <5>1
      <4>3. t.best[mx + 1] = h.best[mx + 1]
        <5> DEFINE z == mx + 1
        <5>1. z \in low .. d - 2 /\ z <= hi /\ z - n - 1 \in Evens /\ lo <= z
          BY <4>1, <4>2
        <5> HIDE DEF z
        <5>2. t.best[z] = h.best[z]
          BY <2>10, <2>11, <5>1
        <5> QED
          BY <5>2 DEF z
      <4>4. mx + 1 \in low .. d
        BY <4>1
      <4> QED
        BY <3>2, <4>1, <4>3, <4>4
    <3> QED
      BY <2>5, <3>1, <3>2
  <2>15. Searching(old, new, s, search, n, lo, hi, low, d, t)
    BY <1>6, <2>1, <2>7, <2>8, <2>9, <2>12, <2>13, <2>14, Zenon DEF Searching, D, A, B, tn, tx
  <2> QED
    BY <2>15 DEF t
<1> QED
  BY <1>11, <1>12

\* The diagonals of an edit length
Ranged(search, n, low, high) ==
  /\ low = (IF search.min <= -n THEN -n ELSE search.min)
  /\ high = (IF search.max <= n THEN search.max ELSE n)

(* A bound that n edits left goes one further with the next.                *)
LEMMA BoundsClose ==
  ASSUME NEW L, NEW old \in Seq(L), NEW new \in Seq(L), NEW s, NEW search, NEW n, NEW lo, NEW hi,
         Searched(old, new, s, search, n, lo, hi),
         NEW low \in Int, NEW high \in Int, Ranged(search, n + 1, low, high),
         NEW t, Searching(old, new, s, search, n, lo, hi, low, high, t)
  PROVE  /\ lo # -Longest(old, new) => lo \in low .. high /\ t.min >= lo + 1
         /\ hi # Longest(old, new) => hi \in low .. high /\ t.max <= hi - 1
<1> DEFINE A == Len(old)
           B == Len(new)
           W == Longest(old, new)
<1>1. Bounded(old, new, search, n, lo, hi) /\ Paths(old, new, s, search.best, n) /\ Shaped(old, new, search)
  BY DEF Searched
<1>2. /\ n \in Nat /\ lo \in Int /\ hi \in Int /\ A \in Nat /\ B \in Nat /\ W = A + B /\ n < W
      /\ lo <= A - B /\ A - B <= hi
  <2>1. A \in Nat /\ B \in Nat
    OBVIOUS
  <2>2. W = A + B
    BY DEF Longest
  <2>3. n \in Nat /\ lo \in Int /\ hi \in Int /\ n < W /\ lo <= A - B /\ A - B <= hi
    BY <1>1 DEF Bounded
  <2> QED
    BY <2>1, <2>2, <2>3
<1> DEFINE sn == search.min
           sx == search.max
<1>3. sn \in Int /\ sx \in Int /\ -W <= sn /\ sx <= W /\ sn <= lo /\ hi <= sx
  BY <1>1 DEF Bounded, Shaped
<1>4. /\ low = IF sn <= -(n + 1) THEN -(n + 1) ELSE sn
      /\ high = IF sx <= n + 1 THEN sx ELSE n + 1
  BY DEF Ranged
<1>5. \A x \in low .. high : x - n - 1 \in Evens /\ lo <= x /\ x <= hi =>
         Settled(old, new, t.best[x], x, n + 1, t.min, t.max)
  BY DEF Searching
<1> HIDE DEF sn, sx
<1>6. ASSUME NEW x \in Int, x \in -(W + 1) .. (W + 1), search.best[x] # NoPath
      PROVE  /\ search.best[x].old \in 0 .. A /\ search.best[x].old - x \in 0 .. B
             /\ Near(old, new, search.best[x].old, search.best[x].old - x, n)
  <2>1. x \in Diagonals(old, new)
    BY <1>6 DEF Diagonals
  <2>2. On(old, new, s, search.best[x], x, n)
    BY <1>1, <1>6, <2>1 DEF Paths
  <2> QED
    BY <1>2, <2>2, OnFacts
<1>7. ASSUME lo # -W PROVE lo \in low .. high /\ t.min >= lo + 1
  <2>1. lo - 1 - n \in Evens /\ lo - 1 \in -n .. n /\ NewDone(new, search.best[lo - 1], lo - 1)
    BY <1>1, <1>7 DEF Bounded
  <2> DEFINE x == lo - 1
             i == search.best[x].old
             j == i - x
  <2>2. x \in Int /\ x \in -n .. n /\ x \in -(W + 1) .. (W + 1) /\ x < A - B /\ lo = x + 1
    <3>1. x = lo - 1 /\ x \in -n .. n
      BY <2>1
    <3> HIDE DEF W, A, B, x
    <3> QED
      BY <1>2, <3>1
  <2>3. search.best[x] # NoPath /\ j >= B
    BY <2>1 DEF NewDone
  <2>4. i \in 0 .. A /\ j \in 0 .. B /\ Near(old, new, i, j, n)
    BY <1>6, <2>2, <2>3
  <2>5. lo \in low .. high
    <3> HIDE DEF W, A, B, x
    <3> QED
      BY <1>2, <1>3, <1>4, <2>2
  <2> HIDE DEF i, A, B
  <2>6. j = B /\ i + 1 \in 0 .. A /\ i - x = B
    BY <1>2, <2>2, <2>3, <2>4
  <2>7. Near(old, new, i + 1, B, n + 1)
    <3>1. PICK k \in Nat : Shared(old, new, i, B, k) /\ i + B - 2 * k <= n
      BY <2>4, <2>6 DEF Near
    <3>2. i \in Nat /\ i + 1 \in Nat /\ i <= i + 1 /\ B <= B
      BY <1>2, <2>6, <2>4
    <3>3. Shared(old, new, i + 1, B, k)
      BY <1>2, <3>1, <3>2, SharedInMore
    <3>4. i + 1 + B - 2 * k <= n + 1
      BY <1>2, <3>1, <3>2
    <3> QED
      BY <3>3, <3>4 DEF Near
  <2>8. Settled(old, new, t.best[lo], lo, n + 1, t.min, t.max)
    <3>1. lo - n - 1 \in Evens
      <4>1. lo - n - 1 = lo - 1 - n
        BY <1>2
      <4> QED
        BY <2>1, <4>1
    <3>2. lo <= lo /\ lo <= hi
      BY <1>2
    <3> QED
      BY <1>5, <2>5, <3>1, <3>2
  <2>9. t.best[lo].old >= i + 1
    <3>1. (i + 1) - lo = B /\ B \in 0 .. B /\ i \in Nat
      <4> HIDE DEF x
      <4> QED
        BY <1>2, <2>2, <2>6, <2>4
    <3>2. Farthest(old, new, t.best[lo], lo, n + 1)
      BY <2>8 DEF Settled
    <3>3. \A m \in 0 .. A : m - lo \in 0 .. B /\ Near(old, new, m, m - lo, n + 1) => t.best[lo].old >= m
      BY <3>2 DEF Farthest, A, B
    <3> DEFINE m == i + 1
    <3>4. m \in 0 .. A /\ m - lo = B /\ Near(old, new, m, B, n + 1)
      BY <2>6, <2>7, <3>1
    <3> HIDE DEF m
    <3>5. t.best[lo].old >= m
      BY <3>1, <3>3, <3>4
    <3> QED
      BY <3>5 DEF m
  <2>10. NewDone(new, t.best[lo], lo)
    <3> DEFINE o == t.best[lo].old
    <3>1. i \in Nat
      BY <2>4
    <3>2. t.best[lo] # NoPath
      <4>1. NoPath.old = -1
        BY DEF NoPath
      <4> QED
        BY <2>9, <3>1, <4>1
    <3>3. t.best[lo] = NoPath \/ On(old, new, s, t.best[lo], lo, n + 1)
      <4>1. lo \in Diagonals(old, new)
        <5> HIDE DEF x
        <5>1. lo \in -(W + 1) .. (W + 1)
          <6> HIDE DEF W
          <6> QED
            BY <1>2, <2>2
        <5> QED
          BY <5>1 DEF Diagonals
      <4> QED
        BY <4>1 DEF Searching, Paths
    <3>4. o \in 0 .. A
      <4>1. n + 1 \in Nat
        BY <1>2
      <4> QED
        BY <1>2, <3>2, <3>3, <4>1, OnFacts DEF A
    <3>6. o >= i + 1
      BY <2>9
    <3> HIDE DEF o, x, W
    <3>5. o - lo >= B
      BY <1>2, <2>2, <2>6, <3>1, <3>4, <3>6
    <3> QED
      BY <3>2, <3>5 DEF NewDone, o, B
  <2> QED
    BY <2>5, <2>8, <2>10 DEF Settled
<1>8. ASSUME hi # W PROVE hi \in low .. high /\ t.max <= hi - 1
  <2>1. (hi + 1) - n \in Evens /\ hi + 1 \in -n .. n /\ OldDone(old, search.best[hi + 1])
    BY <1>1, <1>8 DEF Bounded
  <2> DEFINE x == hi + 1
             i == search.best[x].old
             j == i - x
  <2>2. x \in Int /\ x \in -n .. n /\ x \in -(W + 1) .. (W + 1) /\ A - B < x /\ hi = x - 1
    <3>1. x \in -n .. n
      BY <2>1
    <3>2. hi \in Int /\ x = hi + 1 /\ x \in Int /\ hi = x - 1
      BY <1>2
    <3> HIDE DEF W, A, B, x
    <3>3. x \in -(W + 1) .. (W + 1)
      BY <1>2, <3>1
    <3> QED
      BY <1>2, <3>1, <3>2, <3>3
  <2>3. search.best[x] # NoPath /\ i >= A
    <3>1. i >= A
      BY <2>1 DEF OldDone
    <3>2. NoPath.old = -1
      BY DEF NoPath
    <3> QED
      BY <1>2, <3>1, <3>2
  <2>4. i \in 0 .. A /\ j \in 0 .. B /\ Near(old, new, i, j, n)
    BY <1>6, <2>2, <2>3
  <2>5. hi \in low .. high
    <3> HIDE DEF W, A, B, x
    <3> QED
      BY <1>2, <1>3, <1>4, <2>2
  <2> HIDE DEF i, A, B, j
  <2>6. i = A /\ j + 1 \in 0 .. B /\ A - hi = j + 1
    <3>1. j = i - x
      BY DEF j
    <3> HIDE DEF x
    <3> QED
      BY <1>2, <2>2, <2>3, <2>4, <3>1
  <2>7. Near(old, new, A, j + 1, n + 1)
    <3>1. PICK k \in Nat : Shared(old, new, A, j, k) /\ A + j - 2 * k <= n
      BY <2>4, <2>6 DEF Near
    <3>2. j \in Nat /\ j + 1 \in Nat /\ j <= j + 1 /\ A <= A
      BY <1>2, <2>6, <2>4
    <3>3. Shared(old, new, A, j + 1, k)
      BY <1>2, <3>1, <3>2, SharedInMore
    <3>4. A + (j + 1) - 2 * k <= n + 1
      BY <1>2, <3>1, <3>2
    <3> QED
      BY <3>2, <3>3, <3>4 DEF Near
  <2>8. Settled(old, new, t.best[hi], hi, n + 1, t.min, t.max)
    <3>1. hi - n - 1 \in Evens
      <4>1. PICK m \in Int : (hi + 1) - n = 2 * m
        BY <2>1 DEF Evens
      <4>2. hi - n - 1 = 2 * (m - 1) /\ m - 1 \in Int
        BY <1>2, <4>1
      <4>3. 2 * (m - 1) \in Evens
        BY <4>2, EvenNumber
      <4> QED
        BY <4>2, <4>3
    <3>2. lo <= hi /\ hi <= hi
      BY <1>2
    <3> QED
      BY <1>5, <2>5, <3>1, <3>2
  <2>9. t.best[hi].old >= A
    <3>1. Farthest(old, new, t.best[hi], hi, n + 1)
      BY <2>8 DEF Settled
    <3>2. \A m \in 0 .. A : m - hi \in 0 .. B /\ Near(old, new, m, m - hi, n + 1) => t.best[hi].old >= m
      BY <3>1 DEF Farthest, A, B
    <3>3. A \in 0 .. A
      BY <1>2
    <3> QED
      BY <2>6, <2>7, <3>2, <3>3
  <2>10. OldDone(old, t.best[hi])
    BY <2>9 DEF OldDone, A
  <2> QED
    BY <2>5, <2>8, <2>10 DEF Settled
<1> QED
  BY <1>7, <1>8

(* When all of its diagonals have been taken, an edit length has not come   *)
(* to the end because no edit of that length does.                          *)
LEMMA EditLengthDone ==
  ASSUME NEW L, NEW old \in Seq(L), NEW new \in Seq(L), NEW s, NEW search, NEW n, NEW lo, NEW hi,
         Searched(old, new, s, search, n, lo, hi),
         NEW low \in Int, NEW high \in Int, Ranged(search, n + 1, low, high),
         NEW t, Searching(old, new, s, search, n, lo, hi, low, high, t)
  PROVE  n + 1 < Longest(old, new) /\ Searched(old, new, s, t, n + 1, t.min, t.max)
<1> DEFINE A == Len(old)
           B == Len(new)
           W == Longest(old, new)
           sn == search.min
           sx == search.max
           tn == t.min
           tx == t.max
<1>1. Bounded(old, new, search, n, lo, hi) /\ Shaped(old, new, search) /\ ~ Near(old, new, A, B, n)
  BY DEF Searched
<1>2. /\ Shaped(old, new, t) /\ t.found = NoPath /\ Paths(old, new, s, t.best, n + 1)
      /\ sn <= tn /\ tn <= A - B /\ A - B <= tx /\ tx <= sx
  BY DEF Searching
<1>3. /\ n \in Nat /\ lo \in Int /\ hi \in Int /\ A \in Nat /\ B \in Nat /\ W = A + B /\ n < W
      /\ lo <= A - B /\ A - B <= hi
  <2>1. A \in Nat /\ B \in Nat
    OBVIOUS
  <2>2. W = A + B
    BY DEF Longest
  <2>3. n \in Nat /\ lo \in Int /\ hi \in Int /\ n < W /\ lo <= A - B /\ A - B <= hi
    BY <1>1 DEF Bounded
  <2> QED
    BY <2>1, <2>2, <2>3
<1>4. sn \in Int /\ sx \in Int /\ tn \in Int /\ tx \in Int
  BY <1>1, <1>2 DEF Shaped
<1>5. /\ -W <= sn /\ sx <= W /\ sn <= lo /\ hi <= sx
      /\ sn = lo \/ sn = -W
      /\ sx = hi \/ sx = W
      /\ lo = -W \/ lo - 1 \in -n .. n
      /\ hi = W \/ hi + 1 \in -n .. n
  BY <1>1 DEF Bounded
<1>6. /\ low = IF sn <= -(n + 1) THEN -(n + 1) ELSE sn
      /\ high = IF sx <= n + 1 THEN sx ELSE n + 1
  BY DEF Ranged
<1>a. -(n + 1) <= low /\ high <= n + 1
  <2> HIDE DEF sn, sx, W, A, B
  <2> QED
    BY <1>3, <1>4, <1>6
<1>7. \A x \in low .. high : x - n - 1 \in Evens /\ lo <= x /\ x <= hi =>
         Settled(old, new, t.best[x], x, n + 1, tn, tx)
  BY DEF Searching
<1>8. /\ lo # -W => lo \in low .. high /\ tn >= lo + 1
      /\ hi # W => hi \in low .. high /\ tx <= hi - 1
  BY BoundsClose
<1>9. /\ tn = sn \/ (/\ tn - 1 \in low .. high /\ lo <= tn - 1 /\ tn - 1 - n - 1 \in Evens
                     /\ NewDone(new, t.best[tn - 1], tn - 1))
      /\ tx = sx \/ (/\ tx + 1 \in low .. high /\ tx + 1 <= hi /\ (tx + 1) - n - 1 \in Evens
                     /\ OldDone(old, t.best[tx + 1]))
  BY DEF Searching
<1> HIDE DEF A, B, W, sn, sx, tn, tx
<1>10. ~ Near(old, new, A, B, n + 1)
  <2> SUFFICES ASSUME Near(old, new, A, B, n + 1) PROVE FALSE
    OBVIOUS
  <2>1. PICK k \in Nat : Shared(old, new, A, B, k) /\ A + B - 2 * k <= n + 1
    BY DEF Near
  <2>2. A + B - 2 * k = n + 1
    <3>1. ~ (A + B - 2 * k <= n)
      BY <1>1, <2>1 DEF Near
    <3> QED
      BY <1>3, <2>1, <3>1
  <2> DEFINE d == A - B
  <2>3. d - n - 1 \in Evens
    <3>1. d - n - 1 = 2 * (k - B) /\ k - B \in Int
      BY <1>3, <2>1, <2>2
    <3>2. 2 * (k - B) \in Evens
      BY <3>1, EvenNumber
    <3> QED
      BY <3>1, <3>2
  <2>4. d \in low .. high /\ lo <= d /\ d <= hi
    <3>1. n + 1 \in Nat
      BY <1>3
    <3>2. d \in -(n + 1) .. (n + 1)
      BY <1>3, <3>1, NearWithin
    <3> QED
      BY <1>3, <1>4, <1>5, <1>6, <3>2
  <2> HIDE DEF d
  <2>5. Settled(old, new, t.best[d], d, n + 1, tn, tx)
    BY <1>7, <2>3, <2>4
  <2>6. d = A - B /\ A - d = B /\ A \in 0 .. A /\ B \in 0 .. B
    BY <1>3 DEF d
  <2>7. t.best[d].old >= A
    <3>1. \A m \in 0 .. A : m - d \in 0 .. B /\ Near(old, new, m, m - d, n + 1) => t.best[d].old >= m
      BY <2>5 DEF Settled, Farthest, A, B
    <3> QED
      BY <2>6, <3>1
  <2>8. tx <= d - 1
    BY <2>5, <2>7 DEF Settled, OldDone, A
  <2> QED
    BY <1>2, <1>3, <1>4, <2>6, <2>8
<1>11. n + 1 < W
  <2> SUFFICES ASSUME n + 1 = W PROVE FALSE
    BY <1>3
  <2>1. Shared(old, new, A, B, 0)
    BY <1>3, SharedNone
  <2>2. A + B - 2 * 0 <= n + 1
    BY <1>3
  <2> QED
    BY <1>10, <2>1, <2>2 DEF Near
<1>12. Bounded(old, new, t, n + 1, tn, tx)
  <2>1. n + 1 \in Nat /\ -W <= tn /\ tx <= W
    BY <1>2, <1>3, <1>4, <1>5
  <2>2. tn = -W \/ (tn - 1 - (n + 1) \in Evens /\ tn - 1 \in -(n + 1) .. (n + 1) /\ NewDone(new, t.best[tn - 1], tn - 1))
    <3>1. CASE tn = sn
      BY <1>3, <1>4, <1>5, <1>8, <3>1
    <3>2. CASE tn # sn
      <4> DEFINE x == tn - 1
      <4>1. x \in low .. high /\ x - n - 1 \in Evens /\ NewDone(new, t.best[x], x) /\ x \in Int
        BY <1>4, <1>9, <3>2
      <4> HIDE DEF x
      <4>2. x \in -(n + 1) .. (n + 1) /\ x - (n + 1) = x - n - 1
        BY <1>3, <1>a, <4>1
      <4>3. x - (n + 1) \in Evens /\ x \in -(n + 1) .. (n + 1) /\ NewDone(new, t.best[x], x)
        BY <4>1, <4>2
      <4> QED
        BY <4>3 DEF x
    <3> QED
      BY <3>1, <3>2
  <2>3. tx = W \/ ((tx + 1) - (n + 1) \in Evens /\ tx + 1 \in -(n + 1) .. (n + 1) /\ OldDone(old, t.best[tx + 1]))
    <3>1. CASE tx = sx
      BY <1>3, <1>4, <1>5, <1>8, <3>1
    <3>2. CASE tx # sx
      <4> DEFINE x == tx + 1
      <4>1. x \in low .. high /\ x - n - 1 \in Evens /\ OldDone(old, t.best[x]) /\ x \in Int
        BY <1>4, <1>9, <3>2
      <4> HIDE DEF x
      <4>2. x \in -(n + 1) .. (n + 1) /\ x - (n + 1) = x - n - 1
        BY <1>3, <1>a, <4>1
      <4>3. x - (n + 1) \in Evens /\ x \in -(n + 1) .. (n + 1) /\ OldDone(old, t.best[x])
        BY <4>1, <4>2
      <4> QED
        BY <4>3 DEF x
    <3> QED
      BY <3>1, <3>2
  <2>4. tn <= tn /\ tx <= tx
    BY <1>4
  <2> QED
    BY <1>2, <1>4, <1>11, <2>1, <2>2, <2>3, <2>4, Zenon DEF Bounded, A, B, W, tn, tx
<1>13. \A x \in Diagonals(old, new) : x - (n + 1) \in Evens /\ tn - 1 <= x /\ x <= tx + 1 =>
          Settled(old, new, t.best[x], x, n + 1, tn, tx)
  <2> SUFFICES ASSUME NEW x \in Diagonals(old, new), x - (n + 1) \in Evens, tn - 1 <= x, x <= tx + 1
               PROVE  Settled(old, new, t.best[x], x, n + 1, tn, tx)
    OBVIOUS
  <2>0. x \in Int /\ n + 1 \in Nat
    BY <1>3 DEF Diagonals
  <2>1. CASE x \in -(n + 1) .. (n + 1)
    <3>1. x - n - 1 \in Evens
      <4>1. x - n - 1 = x - (n + 1)
        BY <1>3, <2>0
      <4> QED
        BY <4>1
    <3>2. lo <= x /\ x <= hi /\ x \in low .. high
      <4>1. lo <= x /\ low <= x
        <5>1. CASE lo = -W
          BY <1>3, <1>4, <1>5, <1>6, <2>0, <2>1, <5>1
        <5>2. CASE lo # -W
          BY <1>3, <1>4, <1>5, <1>6, <1>8, <2>0, <2>1, <5>2
        <5> QED
          BY <5>1, <5>2
      <4>2. x <= hi /\ x <= high
        <5>1. CASE hi = W
          BY <1>3, <1>4, <1>5, <1>6, <2>0, <2>1, <5>1
        <5>2. CASE hi # W
          BY <1>3, <1>4, <1>5, <1>6, <1>8, <2>0, <2>1, <5>2
        <5> QED
          BY <5>1, <5>2
      <4> QED
        BY <2>0, <4>1, <4>2
    <3> QED
      BY <1>7, <3>1, <3>2
  <2>2. CASE x \notin -(n + 1) .. (n + 1)
    <3>1. t.best[x] = NoPath
      <4>1. t.best[x] = NoPath \/ On(old, new, s, t.best[x], x, n + 1)
        BY <1>2 DEF Paths
      <4>2. ~ On(old, new, s, t.best[x], x, n + 1)
        BY <2>0, <2>2, OnFacts
      <4> QED
        BY <4>1, <4>2
    <3>2. Farthest(old, new, t.best[x], x, n + 1)
      <4> SUFFICES ASSUME NEW i \in 0 .. A, i - x \in 0 .. B, Near(old, new, i, i - x, n + 1)
                   PROVE  FALSE
        BY DEF Farthest, A, B
      <4> DEFINE j == i - x
      <4>1. i \in Nat /\ j \in Nat /\ Near(old, new, i, j, n + 1) /\ i - j = x
        BY <1>3, <2>0
      <4> HIDE DEF j
      <4>2. i - j \in -(n + 1) .. (n + 1)
        BY <2>0, <4>1, NearWithin
      <4> QED
        BY <2>2, <4>1, <4>2
    <3>3. ~ OldDone(old, NoPath) /\ ~ NewDone(new, NoPath, x)
      <4>1. NoPath.old = -1
        BY DEF NoPath
      <4>2. ~ (-1 >= A)
        BY <1>3
      <4> QED
        BY <4>1, <4>2 DEF OldDone, NewDone, A
    <3> QED
      BY <3>1, <3>2, <3>3 DEF Settled
  <2> QED
    BY <2>1, <2>2
<1>14. Searched(old, new, s, t, n + 1, tn, tx)
  BY <1>2, <1>10, <1>12, <1>13, Zenon DEF Searched, A, B
<1> QED
  BY <1>11, <1>14 DEF W, tn, tx

(* One edit length comes to the end, or ends as it began with one edit more.*)
LEMMA EditLengthGoes ==
  ASSUME NEW L, NEW old \in Seq(L), NEW new \in Seq(L), NEW s, Plainly(s), NEW search, NEW n, NEW lo, NEW hi,
         Searched(old, new, s, search, n, lo, hi),
         NEW t, t = EditLength(old, new, search, n + 1)
  PROVE  \/ n + 1 < Longest(old, new) /\ Searched(old, new, s, t, n + 1, t.min, t.max)
         \/ t.found # NoPath /\ Shaped(old, new, t) /\ Ends(old, new, s, t.found, n + 1)
<1> DEFINE A == Len(old)
           B == Len(new)
           W == Longest(old, new)
           sn == search.min
           sx == search.max
           low == Max({-(n + 1), sn})
           high == Min({n + 1, sx})
           N == (high - low) \div 2 + 1
           seq == Lanes(search, n + 1)
<1>1. Bounded(old, new, search, n, lo, hi) /\ Shaped(old, new, search) /\ Paths(old, new, s, search.best, n)
      /\ search.found = NoPath
  BY DEF Searched
<1>3. /\ n \in Nat /\ lo \in Int /\ hi \in Int /\ A \in Nat /\ B \in Nat /\ W = A + B /\ n < W
      /\ lo <= A - B /\ A - B <= hi
  <2>1. A \in Nat /\ B \in Nat
    OBVIOUS
  <2>2. W = A + B
    BY DEF Longest
  <2>3. n \in Nat /\ lo \in Int /\ hi \in Int /\ n < W /\ lo <= A - B /\ A - B <= hi
    BY <1>1 DEF Bounded
  <2> QED
    BY <2>1, <2>2, <2>3
<1>4. sn \in Int /\ sx \in Int
  BY <1>1 DEF Shaped
<1>5. /\ -W <= sn /\ sx <= W /\ sn <= lo /\ hi <= sx
      /\ sn = lo \/ (n = 0 /\ sn = -W)
      /\ sx = hi \/ (n = 0 /\ sx = W)
      /\ lo = -W \/ (lo - 1 - n \in Evens /\ lo - 1 \in -n .. n)
      /\ hi = W \/ ((hi + 1) - n \in Evens /\ hi + 1 \in -n .. n)
  BY <1>1 DEF Bounded
<1>6. /\ low = IF sn <= -(n + 1) THEN -(n + 1) ELSE sn
      /\ high = IF sx <= n + 1 THEN sx ELSE n + 1
  <2> HIDE DEF sn, sx
  <2>1. -(n + 1) \in Int /\ n + 1 \in Int
    BY <1>3
  <2>2. low = IF -(n + 1) <= sn THEN sn ELSE -(n + 1)
    BY <1>4, <2>1, OfTwo
  <2>3. high = IF n + 1 <= sx THEN n + 1 ELSE sx
    BY <1>4, <2>1, OfTwo
  <2> HIDE DEF low, high
  <2> QED
    BY <1>3, <1>4, <2>2, <2>3
<1>7. Ranged(search, n + 1, low, high)
  BY <1>6, Zenon DEF Ranged
<1> HIDE DEF A, B, W, sn, sx, low, high, N
<1>9. /\ low \in Int /\ high \in Int /\ low <= high /\ -(n + 1) <= low /\ high <= n + 1
      /\ sn <= low /\ high <= sx
  <2>1. lo = -W \/ (-n <= lo - 1 /\ lo - 1 <= n)
    BY <1>3, <1>5
  <2>2. hi = W \/ (-n <= hi + 1 /\ hi + 1 <= n)
    BY <1>3, <1>5
  <2> QED
    BY <1>3, <1>4, <1>5, <1>6, <2>1, <2>2
<1>10. \E i \in Int : low - n - 1 = 2 * i
  <2>1. CASE low = -(n + 1)
    <3>1. low - n - 1 = 2 * (-(n + 1)) /\ -(n + 1) \in Int
      BY <1>3, <2>1
    <3> QED
      BY <3>1
  <2>2. CASE low # -(n + 1)
    <3>1. low = lo /\ lo # -W
      BY <1>3, <1>4, <1>5, <1>6, <2>2
    <3>2. PICK i \in Int : lo - 1 - n = 2 * i
      BY <1>5, <3>1 DEF Evens
    <3>3. low - n - 1 = 2 * i
      BY <1>3, <3>1, <3>2
    <3> QED
      BY <3>3
  <2> QED
    BY <2>1, <2>2
<1>11. \E i \in Int : high - n - 1 = 2 * i
  <2>1. CASE high = n + 1
    <3>1. high - n - 1 = 2 * 0 /\ 0 \in Int
      BY <1>3, <2>1
    <3> QED
      BY <3>1
  <2>2. CASE high # n + 1
    <3>1. high = hi /\ hi # W
      BY <1>3, <1>4, <1>5, <1>6, <2>2
    <3>2. PICK i \in Int : (hi + 1) - n = 2 * i
      BY <1>5, <3>1 DEF Evens
    <3>3. high - n - 1 = 2 * (i - 1) /\ i - 1 \in Int
      BY <1>3, <3>1, <3>2
    <3> QED
      BY <3>3
  <2> QED
    BY <2>1, <2>2
<1>12. PICK M \in Nat : high = low + 2 * M
  <2>1. PICK i \in Int : low - n - 1 = 2 * i
    BY <1>10
  <2>2. PICK j \in Int : high - n - 1 = 2 * j
    BY <1>11
  <2>3. j - i \in Nat /\ high = low + 2 * (j - i)
    BY <1>3, <1>9, <2>1, <2>2
  <2> QED
    BY <2>3
<1>13. N = M + 1
  <2>1. high - low = 2 * M
    BY <1>9, <1>12
  <2>2. (2 * M) \div 2 = M
    OBVIOUS
  <2> QED
    BY <2>1, <2>2 DEF N
<1>14. N \in Nat /\ DOMAIN seq = 1 .. N /\ \A k \in 1 .. N : seq[k] = low + 2 * (k - 1) /\ seq[k] \in Int
  <2>1. seq = [k \in 1 .. N |-> low + 2 * (k - 1)]
    BY Zenon DEF Lanes, N, low, high, sn, sx
  <2>2. N \in Nat
    BY <1>13
  <2> HIDE DEF seq
  <2>3. \A k \in 1 .. N : low + 2 * (k - 1) \in Int
    BY <1>9, <2>2
  <2> QED
    BY <2>1, <2>2, <2>3
<1>15. N \in Nat
  BY <1>14
<1> HIDE DEF seq
<1>16. PICK h : /\ h[0] = search
                /\ \A i \in 1 .. N : h[i] = Diagonal(old, new, h[i - 1], seq[i])
                /\ t = h[N]
  <2> DEFINE m == n + 1
  <2>1. seq = Lanes(search, m)
    BY DEF seq
  <2> HIDE DEF m
  <2>2. PICK h : TakesLanes(old, new, search, m, N, h)
    BY <1>14, <2>1, DiagonalSteps
  <2>3. /\ h[0] = search
        /\ \A i \in 1 .. N : h[i] = Diagonal(old, new, h[i - 1], seq[i])
        /\ EditLength(old, new, search, m) = h[N]
    BY <2>1, <2>2 DEF TakesLanes
  <2> QED
    BY <2>3 DEF m
<1> DEFINE AtEnd(g) == g.found # NoPath /\ Shaped(old, new, g) /\ Ends(old, new, s, g.found, n + 1)
           Good == {i \in 0 .. N : Searching(old, new, s, search, n, lo, hi, low, low + 2 * (i - 1), h[i]) \/ AtEnd(h[i])}
<1>17. 0 \in Good
  <2> DEFINE e == low + 2 * (0 - 1)
  <2>1. e = low - 2
    BY <1>9
  <2>2. low .. e = {}
    BY <1>9, <2>1
  <2>3. Paths(old, new, s, search.best, n + 1)
    <3> SUFFICES ASSUME NEW x \in Diagonals(old, new), search.best[x] # NoPath
                 PROVE  On(old, new, s, search.best[x], x, n + 1)
      BY DEF Paths
    <3>1. x \in Int
      BY <1>3 DEF Diagonals
    <3> QED
      BY <1>1, <1>3, <3>1, OnLonger DEF Paths
  <2>4. sn <= sn /\ sn <= A - B /\ A - B <= sx /\ sx <= sx
    BY <1>3, <1>4, <1>5
  <2> HIDE DEF e
  <2>5. Searching(old, new, s, search, n, lo, hi, low, e, search)
    BY <1>1, <2>2, <2>3, <2>4 DEF Searching, A, B, sn, sx
  <2>6. 0 \in 0 .. N
    BY <1>15
  <2> QED
    BY <1>16, <2>5, <2>6 DEF e
<1>18. ASSUME NEW i \in 1 .. N, i - 1 \in Good PROVE i \in Good
  <2> DEFINE d == seq[i]
             e == low + 2 * (i - 1)
             g == h[i - 1]
  <2>1. h[i] = Diagonal(old, new, g, d)
    BY <1>16
  <2>2. CASE AtEnd(g)
    <3>1. Diagonal(old, new, g, d) = g
      BY <2>2 DEF Diagonal
    <3> QED
      BY <2>1, <2>2, <3>1
  <2>3. CASE Searching(old, new, s, search, n, lo, hi, low, low + 2 * (i - 1 - 1), g)
    <3>1. d = e /\ d \in Int /\ low + 2 * (i - 1 - 1) = d - 2 /\ low <= d /\ d <= high
      <4>1. seq[i] = low + 2 * (i - 1) /\ seq[i] \in Int
        BY <1>14
      <4> HIDE DEF d
      <4>2. d = low + 2 * (i - 1) /\ d \in Int
        BY <4>1 DEF d
      <4> QED
        BY <1>9, <1>12, <1>13, <4>2
    <3> HIDE DEF d, g
    <3>2. d - n - 1 \in Evens
      <4>1. PICK j \in Int : low - n - 1 = 2 * j
        BY <1>10
      <4>2. d - n - 1 = 2 * (j + i - 1) /\ j + i - 1 \in Int
        BY <1>3, <1>9, <3>1, <4>1
      <4>3. 2 * (j + i - 1) \in Evens
        BY <4>2, EvenNumber
      <4> QED
        BY <4>2, <4>3
    <3>3. -(n + 1) <= d /\ d <= n + 1 /\ sn <= d /\ d <= sx
      BY <1>3, <1>4, <1>9, <3>1
    <3>4. Searching(old, new, s, search, n, lo, hi, low, d - 2, g)
      BY <2>3, <3>1
    <3>5. Searching(old, new, s, search, n, lo, hi, low, d, h[i]) \/ AtEnd(h[i])
      <4>1. search.min <= d /\ d <= search.max /\ low \in Int /\ d \in Int /\ low <= d
        BY <1>9, <3>1, <3>3 DEF sn, sx
      <4> QED
        BY <2>1, <3>2, <3>3, <3>4, <4>1, DiagonalKeeps
    <3> QED
      BY <3>1, <3>5
  <2> QED
    BY <1>18, <2>2, <2>3
<1>19. Good = 0 .. N
  <2>1. Good \in SUBSET (0 .. N)
    OBVIOUS
  <2> HIDE DEF Good
  <2> QED
    BY <1>15, <1>17, <1>18, <2>1, BoundedInduction
<1>20. Searching(old, new, s, search, n, lo, hi, low, high, t) \/ AtEnd(t)
  <2>1. N \in Good
    <3> HIDE DEF Good
    <3> QED
      BY <1>15, <1>19
  <2>2. low + 2 * (N - 1) = high
    BY <1>9, <1>12, <1>13
  <2> QED
    BY <1>16, <2>1, <2>2
<1> QED
  <2>1. CASE Searching(old, new, s, search, n, lo, hi, low, high, t)
    BY <1>7, <1>9, <2>1, EditLengthDone
  <2> QED
    BY <1>20, <2>1

-----------------------------------------------------------------------------
(* The search.                                                              *)

\* The path with no edit goes past all that the texts begin with.
Starts(old, new, start) ==
  /\ start.old \in 0 .. Len(old) /\ start.old \in 0 .. Len(new)
  /\ Plainly(start.runs) /\ On(old, new, start.runs, start, 0, 0)
  /\ start.runs = IF start.old = 0 THEN <<>> ELSE <<Run("same", start.old)>>
  /\ \A k \in 1 .. start.old : old[k] = new[k]
  /\ start.old = Len(old) \/ start.old = Len(new) \/ old[start.old + 1] # new[start.old + 1]

LEMMA StartPathStarts ==
  ASSUME NEW L, NEW old \in Seq(L), NEW new \in Seq(L)
  PROVE  Starts(old, new, StartPath(old, new))
<1> DEFINE A == Len(old)
           B == Len(new)
           path == [old |-> 0, runs |-> <<>>]
           start == StartPath(old, new)
           p == [k \in 0 .. 0 |-> [old |-> 0, new |-> 0, same |-> 0]]
<1>1. A \in Nat /\ B \in Nat /\ path.old = 0 /\ path.runs = <<>> /\ start = Slide(old, new, path, 0)
  BY DEF StartPath
<1>2. Leads(old, new, path, p, 0, 0)
  <2>1. p[0] = [old |-> 0, new |-> 0, same |-> 0]
    OBVIOUS
  <2>2. path.runs \in Seq(Runs) /\ Len(path.runs) = 0
    BY <1>1
  <2> HIDE DEF p, path
  <2>3. p[0].old = 0 /\ p[0].new = 0 /\ p[0].same = 0
    BY <2>1
  <2>4. Walks(old, new, path.runs, p)
    BY <2>1, <2>2 DEF Walks
  <2>5. Shared(old, new, 0, 0, 0)
    BY SharedNone
  <2>6. 0 \in 0 .. A /\ 0 - 0 \in 0 .. B /\ 0 - 0 = 0 /\ 2 * 0 - 0 - 2 * 0 <= 0
    BY <1>1
  <2> HIDE DEF A, B
  <2>7. /\ path.old \in 0 .. A /\ path.old - 0 \in 0 .. B
        /\ p[Len(path.runs)].old = path.old /\ p[Len(path.runs)].new = path.old - 0
        /\ Shared(old, new, path.old, path.old - 0, p[Len(path.runs)].same)
        /\ 2 * path.old - 0 - 2 * p[Len(path.runs)].same <= 0
    BY <1>1, <2>2, <2>3, <2>5, <2>6
  <2> QED
    BY <2>4, <2>7 DEF Leads, A, B
<1> HIDE DEF p, path
<1>3. PICK n : SlidesBy(old, new, path, 0, n)
  <2>1. path.old \in 0 .. Len(old) /\ path.old - 0 \in 0 .. Len(new)
    BY <1>1
  <2>2. 0 \in Int
    OBVIOUS
  <2> QED
    BY <2>1, <2>2, Slides
<1>4. (\E q : Leads(old, new, Slide(old, new, path, 0), q, 0, 0)) /\ Slide(old, new, path, 0).old = path.old + n
  <2>1. 0 \in Int /\ 0 \in Nat
    OBVIOUS
  <2> QED
    BY <1>2, <1>3, <2>1, SlideLeads
<1>5. /\ n \in Nat /\ n <= A /\ n <= B /\ \A k \in 1 .. n : old[k] = new[k]
      /\ n < A /\ n < B => old[n + 1] # new[n + 1]
  <2>1. /\ n \in Nat /\ path.old + n <= A /\ path.old - 0 + n <= B
        /\ \A k \in 1 .. n : old[path.old + k] = new[path.old - 0 + k]
        /\ path.old + n < A /\ path.old - 0 + n < B => old[path.old + n + 1] # new[path.old - 0 + n + 1]
    BY <1>3 DEF SlidesBy
  <2> HIDE DEF A, B
  <2>2. path.old + n = n /\ path.old - 0 + n = n /\ path.old + n + 1 = n + 1 /\ path.old - 0 + n + 1 = n + 1
        /\ \A k \in 1 .. n : path.old + k = k /\ path.old - 0 + k = k
    BY <1>1, <2>1
  <2> QED
    BY <2>1, <2>2
<1>6. start.old = n /\ start.runs = IF n = 0 THEN <<>> ELSE <<Run("same", n)>>
  <2>1. Slide(old, new, path, 0) =
          IF n = 0 THEN path ELSE [old |-> path.old + n, runs |-> Append(path.runs, Run("same", n))]
    BY <1>3 DEF SlidesBy
  <2>2. path.old + n = n
    BY <1>1, <1>5
  <2>3. Append(path.runs, Run("same", n)) = <<Run("same", n)>>
    BY <1>1
  <2> QED
    BY <1>1, <2>1, <2>2, <2>3
<1> HIDE DEF start, A, B
<1>7. Plainly(start.runs)
  <2>1. CASE n = 0
    BY <1>6, <2>1 DEF Plainly
  <2>2. CASE n # 0
    <3> DEFINE r == Run("same", n)
    <3>1. r \in Runs /\ r.kind = "same"
      <4>1. n \in Nat \ {0} /\ "same" \in Kinds
        BY <1>5, <2>2 DEF Kinds
      <4> QED
        BY <4>1, RunsTyped
    <3>2. start.runs = <<r>>
      BY <1>6, <2>2
    <3> HIDE DEF r
    <3>3. <<r>> \in Seq(Runs) /\ Len(<<r>>) = 1 /\ <<r>>[1] = r
      BY <3>1
    <3> QED
      BY <3>1, <3>2, <3>3 DEF Plainly
  <2> QED
    BY <2>1, <2>2
<1>8. On(old, new, start.runs, start, 0, 0)
  BY <1>1, <1>4 DEF On
<1>9. n \in 0 .. A /\ n \in 0 .. B /\ (n = A \/ n = B \/ old[n + 1] # new[n + 1])
  BY <1>1, <1>5
<1> QED
  BY <1>5, <1>6, <1>7, <1>8, <1>9 DEF Starts, start, A, B

LEMMA StartIsFarthest ==
  ASSUME NEW L, NEW old \in Seq(L), NEW new \in Seq(L), NEW start, Starts(old, new, start)
  PROVE  Farthest(old, new, start, 0, 0)
<1> DEFINE A == Len(old)
           B == Len(new)
           m == start.old
           Reached(i) == i \in 0 .. B /\ Near(old, new, i, i, 0) => m >= i
           Good == {i \in 0 .. A : Reached(i)}
<1>1. A \in Nat /\ B \in Nat /\ m \in 0 .. A /\ m \in 0 .. B /\ (m = A \/ m = B \/ old[m + 1] # new[m + 1])
  BY DEF Starts
<1>2. 0 \in Good
  BY <1>1
<1>3. ASSUME NEW i \in 1 .. A, i - 1 \in Good PROVE i \in Good
  <2> HIDE DEF A, B, m
  <2> SUFFICES ASSUME i \in 0 .. B, Near(old, new, i, i, 0) PROVE m >= i
    BY <1>1
  <2>1. PICK k \in Nat : Shared(old, new, i, i, k) /\ i + i - 2 * k <= 0
    BY DEF Near
  <2>2. i \in Nat /\ i > 0 /\ i <= A /\ i <= B
    BY <1>1
  <2>3. k <= i
    BY <2>1, <2>2, SharedFits
  <2>4. k = i
    BY <2>1, <2>2, <2>3
  <2>5. old[i] = new[i] /\ Shared(old, new, i - 1, i - 1, i - 1)
    <3>1. \/ /\ i > 0 /\ i > 0 /\ k > 0 /\ old[i] = new[i]
             /\ Shared(old, new, i - 1, i - 1, k - 1)
          \/ i > 0 /\ Shared(old, new, i - 1, i, k)
          \/ i > 0 /\ Shared(old, new, i, i - 1, k)
      BY <2>1, <2>2, SharedSplits
    <3>2. i - 1 \in Nat /\ ~ (k <= i - 1)
      BY <2>2, <2>4
    <3>3. ~ Shared(old, new, i - 1, i, k) /\ ~ Shared(old, new, i, i - 1, k)
      BY <2>2, <3>2, SharedFits
    <3> QED
      BY <2>4, <3>1, <3>3
  <2>6. Near(old, new, i - 1, i - 1, 0)
    <3>1. i - 1 \in Nat /\ i - 1 + (i - 1) - 2 * (i - 1) <= 0
      BY <2>2
    <3> QED
      BY <2>5, <3>1 DEF Near
  <2>7. m >= i - 1
    <3>1. i - 1 \in 0 .. B
      BY <1>1, <2>2
    <3> QED
      BY <1>3, <2>6, <3>1
  <2>8. m # i - 1
    <3> SUFFICES ASSUME m = i - 1 PROVE FALSE
      OBVIOUS
    <3>1. m + 1 = i /\ m # A /\ m # B
      BY <1>1, <2>2
    <3> QED
      BY <1>1, <2>5, <3>1
  <2> QED
    BY <1>1, <2>2, <2>7, <2>8
<1>4. Good = 0 .. A
  <2>1. Good \in SUBSET (0 .. A)
    OBVIOUS
  <2> HIDE DEF Good, A
  <2> QED
    BY <1>1, <1>2, <1>3, <2>1, BoundedInduction
<1>5. ASSUME NEW i \in 0 .. A, i - 0 \in 0 .. B, Near(old, new, i, i - 0, 0) PROVE m >= i
  <2>1. i - 0 = i
    BY <1>1
  <2>2. Reached(i)
    BY <1>4
  <2> QED
    BY <1>5, <2>1, <2>2
<1> QED
  BY <1>5 DEF Farthest

LEMMA FirstSearched ==
  ASSUME NEW L, NEW old \in Seq(L), NEW new \in Seq(L), NEW start, start = StartPath(old, new),
         ~ (start.old >= Len(old) /\ start.old >= Len(new))
  PROVE  \E lo, hi : Searched(old, new, start.runs, FirstSearch(old, new), 0, lo, hi)
<1> DEFINE A == Len(old)
           B == Len(new)
           W == Longest(old, new)
           D == Diagonals(old, new)
           m == start.old
           best == [[d \in D |-> NoPath] EXCEPT ![0] = start]
           search == FirstSearch(old, new)
           lo == IF m >= B THEN 1 ELSE -W
           hi == IF m >= A THEN -1 ELSE W
<1>0. Starts(old, new, start)
  BY StartPathStarts
<1>1. /\ A \in Nat /\ B \in Nat /\ m \in 0 .. A /\ m \in 0 .. B /\ m - 0 = m
      /\ On(old, new, start.runs, start, 0, 0)
  BY <1>0 DEF Starts
<1>2. W = A + B /\ W > 0
  <2>1. W = A + B
    BY DEF Longest
  <2> HIDE DEF W, A, B
  <2> QED
    BY <1>1, <2>1 DEF A, B
<1>3. search = [best |-> best, min |-> -W, max |-> W, found |-> NoPath]
  BY Zenon DEF FirstSearch, Diagonals
<1>4. start # NoPath /\ Farthest(old, new, start, 0, 0)
  <2>1. 0 \in Int /\ 0 \in Nat
    OBVIOUS
  <2>2. start # NoPath
    BY <1>1, <2>1, OnFacts
  <2> QED
    BY <1>0, <2>2, StartIsFarthest
<1>5. D = -(W + 1) .. (W + 1)
  BY DEF Diagonals
<1> HIDE DEF W, D, A, B, search
<1>6. 0 \in D /\ D \in SUBSET Int
  BY <1>1, <1>2, <1>5
<1>7. best[0] = start /\ (\A x \in D : x # 0 => best[x] = NoPath) /\ best = [x \in D |-> best[x]]
  BY <1>6
<1> HIDE DEF best, m
<1>8. /\ search.best = best /\ search.min = -W /\ search.max = W /\ search.found = NoPath
      /\ search = [best |-> search.best, min |-> search.min, max |-> search.max, found |-> search.found]
  BY <1>3
<1>9. Shaped(old, new, search)
  BY <1>1, <1>2, <1>7, <1>8 DEF Shaped, D
<1>10. Paths(old, new, start.runs, best, 0)
  BY <1>1, <1>7 DEF Paths, D
<1>11. /\ lo \in Int /\ hi \in Int /\ -W <= lo /\ lo <= A - B /\ A - B <= hi /\ hi <= W
       /\ lo = -W \/ (lo = 1 /\ m >= B)
       /\ hi = W \/ (hi = -1 /\ m >= A)
       /\ m >= A => hi = -1
       /\ m >= B => lo = 1
  BY <1>1, <1>2 DEF A, B, m
<1> HIDE DEF lo, hi
<1>12. Bounded(old, new, search, 0, lo, hi)
  <2>1. 0 \in Nat /\ 0 < W /\ -W <= search.min /\ search.max <= W /\ search.min <= lo /\ hi <= search.max
    BY <1>1, <1>2, <1>8, <1>11
  <2>2. 0 \in Evens
    <3>1. 2 * 0 = 0 /\ 0 \in Int
      OBVIOUS
    <3>2. 2 * 0 \in Evens
      BY <3>1, EvenNumber
    <3> QED
      BY <3>1, <3>2
  <2>3. lo = -W \/ (lo - 1 - 0 \in Evens /\ lo - 1 \in -0 .. 0 /\ NewDone(new, search.best[lo - 1], lo - 1))
    <3> SUFFICES ASSUME lo = 1, m >= B
                 PROVE  lo - 1 - 0 \in Evens /\ lo - 1 \in -0 .. 0 /\ NewDone(new, search.best[lo - 1], lo - 1)
      BY <1>11
    <3>1. lo - 1 = 0 /\ lo - 1 - 0 = 0 /\ 0 \in -0 .. 0
      OBVIOUS
    <3>2. NewDone(new, start, 0)
      BY <1>1, <1>4 DEF NewDone, m, B
    <3> QED
      BY <1>7, <1>8, <2>2, <3>1, <3>2
  <2>4. hi = W \/ ((hi + 1) - 0 \in Evens /\ hi + 1 \in -0 .. 0 /\ OldDone(old, search.best[hi + 1]))
    <3> SUFFICES ASSUME hi = -1, m >= A
                 PROVE  (hi + 1) - 0 \in Evens /\ hi + 1 \in -0 .. 0 /\ OldDone(old, search.best[hi + 1])
      BY <1>11
    <3>1. hi + 1 = 0 /\ (hi + 1) - 0 = 0 /\ 0 \in -0 .. 0
      OBVIOUS
    <3>2. OldDone(old, start)
      BY DEF OldDone, m, A
    <3> QED
      BY <1>7, <1>8, <2>2, <3>1, <3>2
  <2> QED
    BY <1>8, <1>11, <2>1, <2>3, <2>4 DEF Bounded, A, B, W
<1>13. \A x \in D : x - 0 \in Evens /\ lo - 1 <= x /\ x <= hi + 1 => Settled(old, new, best[x], x, 0, lo, hi)
  <2> SUFFICES ASSUME NEW x \in D PROVE Settled(old, new, best[x], x, 0, lo, hi)
    OBVIOUS
  <2>1. CASE x = 0
    <3>1. (OldDone(old, start) => hi <= 0 - 1) /\ (NewDone(new, start, 0) => lo >= 0 + 1)
      BY <1>1, <1>11 DEF OldDone, NewDone, m, A, B
    <3> QED
      BY <1>4, <1>7, <2>1, <3>1 DEF Settled
  <2>2. CASE x # 0
    <3>1. Farthest(old, new, NoPath, x, 0)
      <4> SUFFICES ASSUME NEW i \in 0 .. A, i - x \in 0 .. B, Near(old, new, i, i - x, 0)
                   PROVE  FALSE
        BY DEF Farthest, A, B
      <4> DEFINE j == i - x
      <4>1. i \in Nat /\ j \in Nat /\ Near(old, new, i, j, 0) /\ i - j = x /\ 0 \in Nat
        BY <1>1, <1>6
      <4> HIDE DEF j
      <4>2. i - j \in -0 .. 0
        BY <4>1, NearWithin
      <4> QED
        BY <2>2, <4>1, <4>2
    <3>2. ~ OldDone(old, NoPath) /\ ~ NewDone(new, NoPath, x)
      <4>1. NoPath.old = -1
        BY DEF NoPath
      <4>2. ~ (-1 >= A)
        BY <1>1
      <4> QED
        BY <4>1, <4>2 DEF OldDone, NewDone, A
    <3> QED
      BY <1>7, <2>2, <3>1, <3>2 DEF Settled
  <2> QED
    BY <2>1, <2>2
<1>14. ~ Near(old, new, A, B, 0)
  <2> SUFFICES ASSUME Near(old, new, A, B, 0) PROVE FALSE
    OBVIOUS
  <2>1. A - B \in -0 .. 0
    <3>1. 0 \in Nat
      OBVIOUS
    <3> QED
      BY <1>1, <3>1, NearWithin
  <2>2. A = B /\ A - 0 = B /\ A \in 0 .. A /\ B \in 0 .. B
    BY <1>1, <2>1
  <2>3. start.old >= A
    <3>1. \A i \in 0 .. A : i - 0 \in 0 .. B /\ Near(old, new, i, i - 0, 0) => start.old >= i
      BY <1>4 DEF Farthest, A, B
    <3> QED
      BY <2>2, <3>1
  <2> QED
    BY <2>2, <2>3 DEF A, B
<1>15. Searched(old, new, start.runs, search, 0, lo, hi)
  BY <1>8, <1>9, <1>10, <1>12, <1>13, <1>14 DEF Searched, D, A, B
<1> QED
  BY <1>15 DEF search

(* When the end has been found, nothing more is done.                       *)
LEMMA FoundStays ==
  ASSUME NEW old, NEW new, NEW g, g.found # NoPath, Shaped(old, new, g), NEW n \in Nat
  PROVE  EditLength(old, new, g, n) = g
<1> DEFINE low == Max({-n, g.min})
           high == Min({n, g.max})
           M == (high - low) \div 2 + 1
           N == IF M >= 0 THEN M ELSE 0
           seq == Lanes(g, n)
<1>1. low \in Int /\ high \in Int
  <2>1. -n \in Int /\ n \in Int /\ g.min \in Int /\ g.max \in Int
    BY DEF Shaped
  <2> QED
    BY <2>1, OfTwo
<1>2. DOMAIN seq = 1 .. M
  BY DEF Lanes
<1> HIDE DEF low, high
<1>3. M \in Int
  BY <1>1
<1>4. N \in Nat /\ 1 .. M = 1 .. N
  <2> HIDE DEF M
  <2> QED
    BY <1>3
<1> HIDE DEF N, M
<1>5. DOMAIN Lanes(g, n) = 1 .. N
  BY <1>2, <1>4
<1>6. PICK h : /\ h[0] = g
               /\ \A i \in 1 .. N : h[i] = Diagonal(old, new, h[i - 1], seq[i])
               /\ EditLength(old, new, g, n) = h[N]
  <2>1. PICK h : TakesLanes(old, new, g, n, N, h)
    BY <1>4, <1>5, DiagonalSteps
  <2> QED
    BY <2>1 DEF TakesLanes
<1> DEFINE Good == {i \in 0 .. N : h[i] = g}
<1>7. 0 \in Good /\ Good \in SUBSET (0 .. N)
  BY <1>4, <1>6
<1>8. ASSUME NEW i \in 1 .. N, i - 1 \in Good PROVE i \in Good
  <2>1. h[i - 1] = g /\ h[i] = Diagonal(old, new, h[i - 1], seq[i])
    BY <1>6, <1>8
  <2>2. Diagonal(old, new, g, seq[i]) = g
    BY Zenon DEF Diagonal
  <2> QED
    BY <2>1, <2>2
<1>9. N \in Good
  <2> HIDE DEF Good
  <2>1. Good = 0 .. N
    BY <1>4, <1>7, <1>8, BoundedInduction
  <2> QED
    BY <1>4, <2>1
<1> QED
  BY <1>6, <1>9

LEMMA SearchFinds ==
  ASSUME NEW L, NEW old \in Seq(L), NEW new \in Seq(L), NEW start, start = StartPath(old, new),
         ~ (start.old >= Len(old) /\ start.old >= Len(new))
  PROVE  \E n, path : /\ n \in Nat /\ Searches(old, new).found = path /\ Ends(old, new, start.runs, path, n + 1)
                       /\ ~ Near(old, new, Len(old), Len(new), n)
<1> DEFINE W == Longest(old, new)
           s == start.runs
           seq == [n \in 1 .. W |-> n]
<1>1. W \in Nat
  <2>1. Len(old) \in Nat /\ Len(new) \in Nat
    OBVIOUS
  <2> QED
    BY <2>1 DEF Longest
<1>2. Plainly(s)
  BY StartPathStarts DEF Starts
<1>3. PICK lo, hi : Searched(old, new, s, FirstSearch(old, new), 0, lo, hi)
  BY FirstSearched
<1>4. \A i \in 1 .. W : seq[i] = i
  OBVIOUS
<1>5. PICK h : /\ h[0] = FirstSearch(old, new)
               /\ \A i \in 1 .. W : h[i] = EditLength(old, new, h[i - 1], seq[i])
               /\ Searches(old, new) = h[W]
  <2>1. Lengths(old, new, W, seq)
    BY <1>1 DEF Lengths
  <2> HIDE DEF W, seq
  <2> QED
    <3>1. PICK h : TakesLengths(old, new, W, seq, h)
      BY <2>1, EditLengthSteps
    <3> QED
      BY <3>1 DEF TakesLengths
<1> HIDE DEF W, seq, s
<1> DEFINE AtEnd(g) == \E n \in Nat : /\ g.found # NoPath /\ Shaped(old, new, g) /\ Ends(old, new, s, g.found, n + 1)
                                      /\ ~ Near(old, new, Len(old), Len(new), n)
           Going(g, n) == \E a, b : Searched(old, new, s, g, n, a, b)
           Good == {i \in 0 .. W : Going(h[i], i) \/ AtEnd(h[i])}
<1>6. 0 \in Good
  BY <1>1, <1>3, <1>5
<1>7. ASSUME NEW i \in 1 .. W, i - 1 \in Good PROVE i \in Good
  <2> DEFINE g == h[i - 1]
             n == i - 1
  <2>1. h[i] = EditLength(old, new, g, i) /\ n \in Nat /\ n + 1 = i
    <3>1. h[i] = EditLength(old, new, g, seq[i]) /\ seq[i] = i
      BY <1>4, <1>5
    <3> HIDE DEF g
    <3>2. n \in Nat /\ n + 1 = i
      BY <1>1
    <3> QED
      BY <3>1, <3>2
  <2>2. CASE AtEnd(g)
    <3>1. PICK m \in Nat : /\ g.found # NoPath /\ Shaped(old, new, g) /\ Ends(old, new, s, g.found, m + 1)
                           /\ ~ Near(old, new, Len(old), Len(new), m)
      BY <2>2
    <3>2. h[i] = g
      <4>1. EditLength(old, new, g, i) = g
        BY <1>1, <3>1, FoundStays
      <4> QED
        BY <2>1, <4>1
    <3>3. AtEnd(h[i])
      BY <3>1, <3>2
    <3> QED
      BY <3>3
  <2>3. CASE Going(g, n)
    <3>1. PICK a, b : Searched(old, new, s, g, n, a, b)
      BY <2>3
    <3> HIDE DEF g, n
    <3>2. h[i] = EditLength(old, new, g, n + 1)
      BY <2>1
    <3>3. \/ n + 1 < Longest(old, new) /\ Searched(old, new, s, h[i], n + 1, h[i].min, h[i].max)
          \/ h[i].found # NoPath /\ Shaped(old, new, h[i]) /\ Ends(old, new, s, h[i].found, n + 1)
      BY <1>2, <3>1, <3>2, EditLengthGoes
    <3>4. ~ Near(old, new, Len(old), Len(new), n)
      BY <3>1 DEF Searched
    <3>5. Going(h[i], i) \/ AtEnd(h[i])
      BY <2>1, <3>3, <3>4
    <3> QED
      BY <3>5
  <2> QED
    BY <1>7, <2>2, <2>3
<1>8. W \in Good
  <2>1. Good \in SUBSET (0 .. W)
    OBVIOUS
  <2> HIDE DEF Good
  <2>2. Good = 0 .. W
    BY <1>1, <1>6, <1>7, <2>1, BoundedInduction
  <2> QED
    BY <1>1, <2>2
<1>9. ~ Going(h[W], W)
  <2> SUFFICES ASSUME NEW a, NEW b, Searched(old, new, s, h[W], W, a, b) PROVE FALSE
    OBVIOUS
  <2>1. W < W
    BY DEF Searched, Bounded, W
  <2> QED
    BY <1>1, <2>1
<1>10. AtEnd(h[W])
  BY <1>8, <1>9
<1> QED
  BY <1>5, <1>10 DEF s

\* The runs go through both texts to their ends and keep count lines.
KeepsLines(old, new, runs, p, count) ==
  /\ Walks(old, new, runs, p)
  /\ p[Len(runs)].old = Len(old) /\ p[Len(runs)].new = Len(new) /\ p[Len(runs)].same = count

\* The texts share count lines in order, and no more.
ShareAtMost(old, new, count) ==
  /\ count \in Nat /\ Shared(old, new, Len(old), Len(new), count)
  /\ \A k \in Nat : Shared(old, new, Len(old), Len(new), k) => k <= count

(* computeLineDiff: the runs are a way through both texts that keeps as     *)
(* many lines as the texts share.                                           *)
LEMMA DiffKeepsMost ==
  ASSUME NEW L, NEW old \in Seq(L), NEW new \in Seq(L), NEW start, start = StartPath(old, new)
  PROVE  \E p, count :
            /\ KeepsLines(old, new, ComputeLineDiff(old, new), p, count)
            /\ ShareAtMost(old, new, count)
            /\ \/ Begins(start.runs, ComputeLineDiff(old, new))
               \/ start.old = Len(old) /\ start.old = Len(new) /\ ComputeLineDiff(old, new) = start.runs
<1> DEFINE A == Len(old)
           B == Len(new)
           runs == ComputeLineDiff(old, new)
           ended == start.old >= A /\ start.old >= B
<1>1. A \in Nat /\ B \in Nat /\ runs = IF ended THEN start.runs ELSE Searches(old, new).found.runs
  BY DEF ComputeLineDiff
<1>2. Starts(old, new, start)
  BY StartPathStarts
<1>3. \E path, n : /\ n \in Nat /\ On(old, new, start.runs, path, A - B, n) /\ path.old = A /\ runs = path.runs
                   /\ \A k \in Nat : A + B - 2 * k <= n - 2 => ~ Shared(old, new, A, B, k)
                   /\ Begins(start.runs, runs) \/ (start.old = A /\ start.old = B /\ runs = start.runs)
  <2>1. CASE ended
    <3>1. start.old = A /\ start.old = B /\ A - B = 0
      <4> DEFINE m == start.old
      <4>1. m \in 0 .. A /\ m \in 0 .. B /\ m >= A /\ m >= B
        BY <1>2, <2>1 DEF Starts
      <4> HIDE DEF m, A, B
      <4>2. m = A /\ m = B /\ A - B = 0
        BY <1>1, <4>1
      <4> QED
        BY <4>2 DEF m
    <3>2. On(old, new, start.runs, start, A - B, 0)
      BY <1>2, <3>1 DEF Starts
    <3>3. \A k \in Nat : A + B - 2 * k <= 0 - 2 => ~ Shared(old, new, A, B, k)
      <4> SUFFICES ASSUME NEW k \in Nat, A + B - 2 * k <= 0 - 2, Shared(old, new, A, B, k) PROVE FALSE
        OBVIOUS
      <4> HIDE DEF A, B
      <4>1. k <= A /\ k <= B
        BY <1>1, SharedFits
      <4> QED
        BY <1>1, <4>1
    <3> QED
      BY <1>1, <2>1, <3>1, <3>2, <3>3
  <2>2. CASE ~ ended
    <3>1. PICK m, path : /\ m \in Nat /\ Searches(old, new).found = path /\ Ends(old, new, start.runs, path, m + 1)
                                 /\ ~ Near(old, new, A, B, m)
      BY <2>2, SearchFinds
    <3>2. runs = path.runs /\ m + 1 \in Nat
      BY <1>1, <2>2, <3>1
    <3>3. On(old, new, start.runs, path, A - B, m + 1) /\ path.old = A /\ Begins(start.runs, path.runs)
      BY <3>1 DEF Ends
    <3>4. \A k \in Nat : A + B - 2 * k <= (m + 1) - 2 => ~ Shared(old, new, A, B, k)
      <4> SUFFICES ASSUME NEW k \in Nat, A + B - 2 * k <= (m + 1) - 2, Shared(old, new, A, B, k) PROVE FALSE
        OBVIOUS
      <4> HIDE DEF A, B
      <4>1. A + B - 2 * k <= m
        BY <1>1, <3>1
      <4> QED
        BY <3>1, <4>1 DEF Near
    <3> DEFINE n == m + 1
    <3>5. /\ n \in Nat /\ On(old, new, start.runs, path, A - B, n) /\ path.old = A /\ runs = path.runs
          /\ \A k \in Nat : A + B - 2 * k <= n - 2 => ~ Shared(old, new, A, B, k)
          /\ Begins(start.runs, runs)
      <4>1. n \in Nat /\ On(old, new, start.runs, path, A - B, n) /\ path.old = A /\ runs = path.runs
        BY <3>2, <3>3
      <4>2. \A k \in Nat : A + B - 2 * k <= n - 2 => ~ Shared(old, new, A, B, k)
        <5> HIDE DEF A, B
        <5> QED
          BY <3>4
      <4>3. Begins(start.runs, runs)
        BY <3>2, <3>3
      <4> QED
        BY <4>1, <4>2, <4>3
    <3> HIDE DEF runs, A, B, n
    <3> QED
      BY <3>5
  <2> QED
    BY <2>1, <2>2
<1>4. PICK path, n : /\ n \in Nat /\ On(old, new, start.runs, path, A - B, n) /\ path.old = A /\ runs = path.runs
                     /\ \A k \in Nat : A + B - 2 * k <= n - 2 => ~ Shared(old, new, A, B, k)
                     /\ Begins(start.runs, runs) \/ (start.old = A /\ start.old = B /\ runs = start.runs)
  BY <1>3
<1>5. PICK p : Leads(old, new, path, p, A - B, n)
  BY <1>4 DEF On
<1> DEFINE spot == p[Len(runs)]
           c == spot.same
<1>6. /\ Walks(old, new, runs, p) /\ spot.old = A /\ spot.new = path.old - (A - B)
      /\ Shared(old, new, A, path.old - (A - B), c) /\ 2 * path.old - (A - B) - 2 * c <= n
  BY <1>4, <1>5 DEF Leads
<1>7. c \in Nat
  <2>1. Len(runs) \in 0 .. Len(runs)
    BY <1>6 DEF Walks
  <2>2. spot \in Spots
    BY <1>6, <2>1, SpotTyped
  <2> QED
    BY <2>2 DEF Spots
<1> HIDE DEF runs, A, B, c, spot
<1>8. path.old - (A - B) = B /\ A + B - 2 * c <= n
  <2>1. A - (A - B) = B /\ 2 * A - (A - B) = A + B
    BY <1>1
  <2> QED
    BY <1>1, <1>4, <1>6, <1>7, <2>1
<1>9. KeepsLines(old, new, runs, p, c)
  BY <1>6, <1>8 DEF KeepsLines, A, B, c, spot
<1>10. ShareAtMost(old, new, c)
  <2>1. \A k \in Nat : Shared(old, new, A, B, k) => k <= c
    <3> SUFFICES ASSUME NEW k \in Nat, Shared(old, new, A, B, k), ~ (k <= c) PROVE FALSE
      OBVIOUS
    <3>1. A + B - 2 * k <= n - 2
      BY <1>1, <1>4, <1>7, <1>8
    <3> QED
      BY <1>4, <3>1
  <2> QED
    BY <1>6, <1>7, <1>8, <2>1 DEF ShareAtMost, A, B
<1> QED
  BY <1>4, <1>9, <1>10 DEF runs, A, B

(* computeLineDiff (editdiff.go:549-550, 652) always finds an edit script,   *)
(* and a minimal one: the runs go through both texts to their ends, the lines *)
(* they keep are equal, and no way to line the texts up keeps more.          *)
THEOREM DiffIsMinimal ==
  ASSUME NEW L, NEW old \in Seq(L), NEW new \in Seq(L)
  PROVE  \E p, count : /\ KeepsLines(old, new, ComputeLineDiff(old, new), p, count)
                       /\ ShareAtMost(old, new, count)
<1> DEFINE start == StartPath(old, new)
<1> HIDE DEF start
<1>1. start = StartPath(old, new)
  BY DEF start
<1> QED
  BY <1>1, DiffKeepsMost

=============================================================================
