---------------------------- MODULE FoldTheorems ----------------------------
(***************************************************************************)
(* What proofs about folds of sequences rest on: induction over the natural *)
(* numbers by the least counterexample, and that the recursive function in  *)
(* the definition of MapThenFoldSet, from which FoldLeft is made, exists.   *)
(* The step of a fold is given as a function on a set, which a lemma may    *)
(* take as a parameter; a fold of a module is unfolded where it is used.    *)
(* Last come the places of the elements in what Front, Reverse, SubSeq and  *)
(* concatenation make, and the ends of a sequence.                          *)
(***************************************************************************)
EXTENDS Integers, SequencesExt, FiniteSetTheorems, SequenceTheorems, WellFoundedInduction, TLAPS

(* A set of naturals that is not empty has a least element.                 *)
LEMMA LeastElement ==
  ASSUME NEW S \in SUBSET Nat, S # {}
  PROVE  Min(S) \in S /\ \A y \in S : Min(S) <= y
<1> DEFINE R == {ss \in Nat \X Nat : ss[1] < ss[2]}
<1>0. IsWellFoundedOn(R, Nat)
  <2>1. R = OpToRel(<, Nat)
    BY DEF OpToRel
  <2> QED
    BY <2>1, NatLessThanWellFounded, Zenon
<1>1. PICK x \in S : \A y \in S : ~ (<<y, x>> \in R)
  <2> HIDE DEF R
  <2> QED
    BY <1>0, WFMin
<1>2. ASSUME NEW y \in S
      PROVE  x <= y
  <2>1. x \in Nat /\ y \in Nat /\ <<y, x>> \notin R
    BY <1>1
  <2>2. <<y, x>> \in Nat \X Nat /\ <<y, x>>[1] = y /\ <<y, x>>[2] = x
    BY <2>1
  <2>3. ~ (y < x)
    BY <2>1, <2>2
  <2> QED
    BY <2>1, <2>3
<1>3. \E m \in S : \A y \in S : m <= y
  BY <1>2
<1> QED
  BY <1>3 DEF Min

(* Induction over the naturals, for a set.                                  *)
LEMMA NaturalInduction ==
  ASSUME NEW S \in SUBSET Nat, 0 \in S, \A n \in S : n + 1 \in S
  PROVE  S = Nat
<1> SUFFICES ASSUME S # Nat
             PROVE  FALSE
  OBVIOUS
<1>1. PICK x \in Nat \ S : \A y \in Nat \ S : x <= y
  BY LeastElement
<1>2. x # 0 /\ x - 1 \in Nat
  BY <1>1
<1>3. x - 1 \in S
  BY <1>1, <1>2
<1> QED
  BY <1>1, <1>3

(* Induction up to a bound.                                                 *)
LEMMA BoundedInduction ==
  ASSUME NEW n \in Nat, NEW S \in SUBSET (0 .. n), 0 \in S,
         \A i \in 1 .. n : i - 1 \in S => i \in S
  PROVE  S = 0 .. n
<1> DEFINE Reached == {i \in Nat : i <= n => i \in S}
<1>1. 0 \in Reached
  OBVIOUS
<1>2. ASSUME NEW i \in Reached
      PROVE  i + 1 \in Reached
  <2>1. i + 1 <= n => i + 1 \in 1 .. n /\ i \in S /\ (i + 1) - 1 = i
    OBVIOUS
  <2> QED
    BY <2>1
<1>3. Reached \in SUBSET Nat
  OBVIOUS
<1> HIDE DEF Reached
<1>4. Reached = Nat
  BY <1>1, <1>2, <1>3, NaturalInduction
<1>5. \A i \in 0 .. n : i \in S
  BY <1>4 DEF Reached
<1> QED
  BY <1>5

(* Induction from one bound up to another.                                  *)
LEMMA IntervalInduction ==
  ASSUME NEW a \in Int, NEW b \in Int, a <= b, NEW S \in SUBSET (a .. b), a \in S,
         \A i \in a + 1 .. b : i - 1 \in S => i \in S
  PROVE  S = a .. b
<1> DEFINE T == {i \in 0 .. b - a : a + i \in S}
<1>1. T \in SUBSET (0 .. b - a) /\ 0 \in T /\ b - a \in Nat
  OBVIOUS
<1>2. ASSUME NEW i \in 1 .. b - a, i - 1 \in T
      PROVE  i \in T
  <2>1. a + i \in a + 1 .. b /\ (a + i) - 1 = a + (i - 1) /\ i \in 0 .. b - a
    OBVIOUS
  <2>2. (a + i) - 1 \in S
    BY <1>2, <2>1
  <2> QED
    BY <2>1, <2>2
<1> HIDE DEF T
<1>3. T = 0 .. b - a
  BY <1>1, <1>2, BoundedInduction
<1>4. ASSUME NEW i \in a .. b PROVE i \in S
  <2>1. i - a \in T /\ a + (i - a) = i
    BY <1>3
  <2> QED
    BY <2>1 DEF T
<1> QED
  BY <1>4

(* A sequence of values stays in a set that each step keeps.                *)
LEMMA StepsStay ==
  ASSUME NEW n \in Nat, NEW A, NEW h, h[0] \in A,
         \A i \in 1 .. n : h[i - 1] \in A => h[i] \in A
  PROVE  \A i \in 0 .. n : h[i] \in A
<1> DEFINE S == {i \in 0 .. n : h[i] \in A}
<1>1. 0 \in S /\ S \in SUBSET (0 .. n)
  OBVIOUS
<1>2. \A i \in 1 .. n : i - 1 \in S => i \in S
  OBVIOUS
<1> HIDE DEF S
<1>3. S = 0 .. n
  BY <1>1, <1>2, BoundedInduction
<1> QED
  BY <1>3 DEF S

-----------------------------------------------------------------------------
(* An order in which the elements of a set are folded, and a fold of f.     *)

Chooses(ch, S) ==
  ch \in [SUBSET S -> S] /\ \A s \in SUBSET S : s # {} => ch[s] \in s

IsFoldOf(g, S, base, f, ch) ==
  g = [s \in SUBSET S |-> IF s = {} THEN base ELSE f[<<ch[s], g[s \ {ch[s]}]>>]]

(* The recursion of a fold over a finite set has a solution.                *)
LEMMA FoldExists ==
  ASSUME NEW S, IsFiniteSet(S), NEW A, NEW base \in A, NEW f \in [S \X A -> A],
         NEW ch, Chooses(ch, S)
  PROVE  \E g \in [SUBSET S -> A] : IsFoldOf(g, S, base, f, ch)
<1> DEFINE Small(n) == {s \in SUBSET S : Cardinality(s) <= n}
           Solves(g, n) == /\ g \in [Small(n) -> A]
                           /\ g = [s \in Small(n) |-> IF s = {} THEN base ELSE f[<<ch[s], g[s \ {ch[s]}]>>]]
           Good == {n \in Nat : \E g : Solves(g, n)}
<1>0. \A s \in SUBSET S : IsFiniteSet(s) /\ Cardinality(s) \in Nat
  BY FS_Subset, FS_CardinalityType
<1>1. 0 \in Good
  <2>1. \A s \in Small(0) : s = {}
    BY <1>0, FS_EmptySet
  <2> DEFINE g == [s \in Small(0) |-> base]
  <2>2. Solves(g, 0)
    BY <2>1
  <2> QED
    BY <2>2
<1>2. ASSUME NEW n \in Good
      PROVE  n + 1 \in Good
  <2>1. PICK g : Solves(g, n)
    OBVIOUS
  <2> DEFINE h == [s \in Small(n + 1) |->
                     IF s = {} THEN base ELSE f[<<ch[s], g[s \ {ch[s]}]>>]]
  <2>2. ASSUME NEW s \in Small(n + 1), s # {}
        PROVE  ch[s] \in S /\ s \ {ch[s]} \in Small(n)
    <3>1. ch[s] \in s /\ ch[s] \in S
      BY <2>2 DEF Chooses
    <3>2. Cardinality(s \ {ch[s]}) = Cardinality(s) - 1
      BY <1>0, <3>1, FS_RemoveElement
    <3> QED
      BY <1>0, <3>1, <3>2
  <2>3. h \in [Small(n + 1) -> A]
    <3>1. ASSUME NEW s \in Small(n + 1)
          PROVE  (IF s = {} THEN base ELSE f[<<ch[s], g[s \ {ch[s]}]>>]) \in A
      BY <2>1, <2>2
    <3> QED
      BY <3>1
  <2>4. ASSUME NEW s \in Small(n + 1), s # {}
        PROVE  h[s \ {ch[s]}] = g[s \ {ch[s]}]
    <3> DEFINE t == s \ {ch[s]}
    <3>1. t \in Small(n) /\ t \in Small(n + 1)
      BY <1>0, <2>2, <2>4
    <3>2. h[t] = IF t = {} THEN base ELSE f[<<ch[t], g[t \ {ch[t]}]>>]
      BY <3>1
    <3>3. g[t] = IF t = {} THEN base ELSE f[<<ch[t], g[t \ {ch[t]}]>>]
      BY <2>1, <3>1
    <3> QED
      BY <3>2, <3>3
  <2>5. h = [s \in Small(n + 1) |-> IF s = {} THEN base ELSE f[<<ch[s], h[s \ {ch[s]}]>>]]
    BY <2>4
  <2>6. Solves(h, n + 1)
    BY <2>3, <2>5
  <2> HIDE DEF Solves
  <2>7. \E k : Solves(k, n + 1)
    BY <2>6
  <2> QED
    BY <2>7
<1>3. Cardinality(S) \in Good
  <2> HIDE DEF Good
  <2>1. Good \in SUBSET Nat
    BY DEF Good
  <2> QED
    BY <1>1, <1>2, <2>1, NaturalInduction, FS_CardinalityType
<1>4. Small(Cardinality(S)) = SUBSET S
  BY <1>0, FS_Subset
<1>5. PICK g : Solves(g, Cardinality(S))
  BY <1>3
<1> HIDE DEF Small
<1>6. g \in [SUBSET S -> A]
  BY <1>4, <1>5
<1>7. g = [s \in SUBSET S |-> IF s = {} THEN base ELSE f[<<ch[s], g[s \ {ch[s]}]>>]]
  BY <1>4, <1>5
<1> QED
  BY <1>6, <1>7 DEF IsFoldOf

(* FoldLeft takes the elements by their largest index.                      *)
LEMMA LargestElement ==
  ASSUME NEW n \in Nat, NEW s \in SUBSET (1 .. n), s # {}
  PROVE  Max(s) \in s /\ \A y \in s : Max(s) >= y
<1> DEFINE Down == {n - y : y \in s}
<1>1. Down \in SUBSET Nat /\ Down # {}
  <2>1. \A y \in s : n - y \in Nat
    OBVIOUS
  <2>2. PICK y : y \in s
    OBVIOUS
  <2>3. n - y \in Down
    BY <2>2
  <2>4. Down \in SUBSET Nat
    BY <2>1
  <2> QED
    BY <2>3, <2>4
<1>2. PICK d \in Down : \A e \in Down : d <= e
  BY <1>1, LeastElement
<1>3. PICK m \in s : d = n - m
  BY <1>2
<1>4. \A y \in s : m >= y
  BY <1>2, <1>3
<1>5. \E x \in s : \A y \in s : x >= y
  BY <1>4
<1> QED
  BY <1>5 DEF Max

LEMMA LargestOfInterval ==
  ASSUME NEW i \in Nat \ {0}
  PROVE  Max(1 .. i) = i /\ (1 .. i) \ {i} = 1 .. i - 1
<1>1. Max(1 .. i) \in 1 .. i /\ \A y \in 1 .. i : Max(1 .. i) >= y
  <2>1. i \in Nat /\ 1 .. i \in SUBSET (1 .. i) /\ i \in 1 .. i
    OBVIOUS
  <2>2. 1 .. i # {}
    BY <2>1
  <2> QED
    BY <2>1, <2>2, LargestElement
<1>2. i \in 1 .. i /\ Max(1 .. i) >= i
  BY <1>1
<1> QED
  BY <1>1, <1>2

(* The recursion of FoldLeft, f being a step at an index.                   *)
IsSequenceFold(g, n, base, f) ==
  g = [s \in SUBSET (1 .. n) |->
         IF s = {} THEN base ELSE f[<<Max(s), g[s \ {Max(s)}]>>]]

LEMMA SequenceFoldExists ==
  ASSUME NEW n \in Nat, NEW A, NEW base \in A, NEW f \in [(1 .. n) \X A -> A]
  PROVE  \E g \in [SUBSET (1 .. n) -> A] : IsSequenceFold(g, n, base, f)
<1>1. CASE n = 0
  <2> DEFINE g == [s \in SUBSET (1 .. n) |-> base]
  <2>1. \A s \in SUBSET (1 .. n) : s = {}
    BY <1>1
  <2>2. g \in [SUBSET (1 .. n) -> A]
    OBVIOUS
  <2>3. g = [s \in SUBSET (1 .. n) |->
              IF s = {} THEN base ELSE f[<<Max(s), g[s \ {Max(s)}]>>]]
    BY <2>1
  <2> HIDE DEF g
  <2> QED
    BY <2>2, <2>3 DEF IsSequenceFold
<1>2. CASE n # 0
  <2> DEFINE S == 1 .. n
             ch == [s \in SUBSET S |-> IF s = {} THEN 1 ELSE Max(s)]
  <2>1. \A s \in SUBSET S : s # {} => Max(s) \in s
    BY LargestElement
  <2>2. Chooses(ch, S)
    <3>1. 1 \in S
      BY <1>2
    <3>2. ASSUME NEW s \in SUBSET S
          PROVE  (IF s = {} THEN 1 ELSE Max(s)) \in S
      BY <2>1, <3>1
    <3>3. ch \in [SUBSET S -> S]
      BY <3>2
    <3>4. \A s \in SUBSET S : s # {} => ch[s] \in s
      BY <2>1
    <3> QED
      BY <3>3, <3>4 DEF Chooses
  <2>3. IsFiniteSet(S)
    BY FS_Interval
  <2>4. f \in [S \X A -> A]
    OBVIOUS
  <2>5. \A s \in SUBSET S : s # {} => ch[s] = Max(s)
    OBVIOUS
  <2> HIDE DEF S, ch
  <2>6. PICK g \in [SUBSET S -> A] : IsFoldOf(g, S, base, f, ch)
    BY <2>2, <2>3, <2>4, FoldExists
  <2>7. g = [s \in SUBSET S |-> IF s = {} THEN base ELSE f[<<Max(s), g[s \ {Max(s)}]>>]]
    BY <2>5, <2>6 DEF IsFoldOf
  <2> QED
    BY <2>6, <2>7 DEF S, IsSequenceFold
<1> QED
  BY <1>1, <1>2

(* The prefixes 1 .. i through which the fold of a sequence goes.           *)
LEMMA PrefixIntervals ==
  ASSUME NEW n \in Nat
  PROVE  /\ 1 .. 0 = {} /\ {} \in SUBSET (1 .. n)
         /\ \A i \in 1 .. n : /\ 1 .. i \in SUBSET (1 .. n) /\ 1 .. i # {}
                              /\ Max(1 .. i) = i /\ (1 .. i) \ {i} = 1 .. i - 1
<1>1. ASSUME NEW i \in 1 .. n
      PROVE  /\ 1 .. i \in SUBSET (1 .. n) /\ 1 .. i # {}
             /\ Max(1 .. i) = i /\ (1 .. i) \ {i} = 1 .. i - 1
  <2>1. i \in Nat \ {0} /\ 1 .. i \in SUBSET (1 .. n) /\ i \in 1 .. i
    OBVIOUS
  <2> QED
    BY <2>1, LargestOfInterval
<1>2. 1 .. 0 = {} /\ {} \in SUBSET (1 .. n)
  OBVIOUS
<1> QED
  BY <1>1, <1>2

-----------------------------------------------------------------------------
(* Sequences.                                                               *)

LEMMA FunctionIsSequence ==
  ASSUME NEW S, NEW n \in Nat, NEW f \in [1 .. n -> S]
  PROVE  f \in Seq(S) /\ Len(f) = n
  OBVIOUS

LEMMA Concatenation ==
  ASSUME NEW S, NEW s \in Seq(S), NEW t \in Seq(S)
  PROVE  /\ s \o t \in Seq(S) /\ Len(s \o t) = Len(s) + Len(t)
         /\ Len(s) \in Nat /\ Len(t) \in Nat
         /\ \A k \in 1 .. Len(s) : (s \o t)[k] = s[k]
         /\ \A k \in 1 .. Len(t) : (s \o t)[Len(s) + k] = t[k]
  OBVIOUS

LEMMA Appending ==
  ASSUME NEW S, NEW out \in Seq(S), NEW e \in S
  PROVE  /\ Append(out, e) \in Seq(S) /\ Len(Append(out, e)) = Len(out) + 1
         /\ Len(out) \in Nat
         /\ Append(out, e)[Len(out) + 1] = e
         /\ \A k \in 1 .. Len(out) : Append(out, e)[k] = out[k]
  OBVIOUS

LEMMA JoinedElement ==
  ASSUME NEW S, NEW a \in Seq(S), NEW b \in Seq(S), NEW k \in 1 .. Len(a \o b)
  PROVE  \/ k \in 1 .. Len(a) /\ (a \o b)[k] = a[k]
         \/ k - Len(a) \in 1 .. Len(b) /\ (a \o b)[k] = b[k - Len(a)]
<1>1. CASE k <= Len(a)
  BY <1>1
<1>2. CASE k > Len(a)
  <2>1. k - Len(a) \in 1 .. Len(b)
    BY <1>2
  <2> QED
    BY <1>2, <2>1
<1> QED
  BY <1>1, <1>2

(* The recursion in the definition of FlattenSeq.                           *)
IsFlattening(f, seqs, n) ==
  f = [i \in 1 .. n |-> IF i = 1 THEN seqs[i] ELSE f[i - 1] \o seqs[i]]

LEMMA FlatteningExists ==
  ASSUME NEW seqs, NEW n \in Nat
  PROVE  \E f : IsFlattening(f, seqs, n)
<1> DEFINE S == {k \in 0 .. n : \E f : IsFlattening(f, seqs, k)}
<1>1. 0 \in S
  <2> DEFINE g == [i \in 1 .. 0 |-> seqs[i]]
  <2>1. IsFlattening(g, seqs, 0)
    BY DEF IsFlattening
  <2> QED
    BY <2>1
<1>2. ASSUME NEW k \in 1 .. n, k - 1 \in S
      PROVE  k \in S
  <2>1. PICK f : IsFlattening(f, seqs, k - 1)
    BY <1>2
  <2> DEFINE g == [i \in 1 .. k |-> IF i = k
                                    THEN IF k = 1 THEN seqs[k] ELSE f[k - 1] \o seqs[k]
                                    ELSE f[i]]
  <2>2. ASSUME NEW i \in 1 .. k
        PROVE  g[i] = IF i = 1 THEN seqs[i] ELSE g[i - 1] \o seqs[i]
    <3>1. CASE i = k
      BY <3>1
    <3>2. CASE i # k
      <4>1. i \in 1 .. k - 1 /\ (i # 1 => i - 1 \in 1 .. k - 1 /\ i - 1 # k)
        BY <3>2
      <4>2. f[i] = IF i = 1 THEN seqs[i] ELSE f[i - 1] \o seqs[i]
        BY <2>1, <4>1 DEF IsFlattening
      <4> QED
        BY <3>2, <4>1, <4>2
    <3> QED
      BY <3>1, <3>2
  <2>3. g = [i \in 1 .. k |-> g[i]]
    OBVIOUS
  <2> HIDE DEF g
  <2>4. IsFlattening(g, seqs, k)
    BY <2>2, <2>3 DEF IsFlattening
  <2> QED
    BY <2>4
<1>3. S \in SUBSET (0 .. n)
  OBVIOUS
<1> HIDE DEF S
<1>4. S = 0 .. n
  BY <1>1, <1>2, <1>3, BoundedInduction
<1> QED
  BY <1>4 DEF S

(* A set that is closed under concatenation has what its members flatten to.*)
LEMMA FlattenedIsIn ==
  ASSUME NEW A, <<>> \in A, \A a, b \in A : a \o b \in A,
         NEW seqs \in Seq(A)
  PROVE  FlattenSeq(seqs) \in A
<1> DEFINE n == Len(seqs)
           Sol(f) == f = [i \in 1 .. n |-> IF i = 1 THEN seqs[i] ELSE f[i - 1] \o seqs[i]]
           flat == CHOOSE f : Sol(f)
<1>1. CASE n = 0
  <2>1. seqs = <<>>
    BY <1>1
  <2> QED
    BY <2>1 DEF FlattenSeq
<1>2. CASE n # 0
  <2>1. n \in Nat
    OBVIOUS
  <2>2. \E f : Sol(f)
    BY <2>1, FlatteningExists DEF IsFlattening
  <2>3. Sol(flat)
    <3> HIDE DEF Sol
    <3> QED
      BY <2>2
  <2>4. FlattenSeq(seqs) = flat[n]
    BY <1>2 DEF FlattenSeq
  <2> HIDE DEF flat
  <2> DEFINE h == [i \in 0 .. n |-> IF i = 0 THEN <<>> ELSE flat[i]]
  <2>5. h[0] \in A
    BY <2>1
  <2>6. ASSUME NEW i \in 1 .. n, h[i - 1] \in A
        PROVE  h[i] \in A
    <3>1. h[i] = flat[i] /\ seqs[i] \in A
      OBVIOUS
    <3>2. CASE i = 1
      BY <2>3, <3>1, <3>2
    <3>3. CASE i # 1
      <4>0. i - 1 \in 0 .. n /\ i - 1 # 0
        BY <2>1, <3>3
      <4>1. h[i - 1] = flat[i - 1] /\ flat[i] = flat[i - 1] \o seqs[i]
        <5>1. h[i - 1] = flat[i - 1]
          BY <4>0
        <5>2. flat[i] = flat[i - 1] \o seqs[i]
          <6> HIDE DEF h, n
          <6> QED
            BY <2>3, <3>3
        <5> QED
          BY <5>1, <5>2
      <4>2. flat[i - 1] \in A
        BY <4>1, <2>6
      <4> HIDE DEF h, Sol
      <4> QED
        BY <3>1, <4>1, <4>2
    <3> QED
      BY <3>2, <3>3
  <2>7. h[n] = flat[n]
    BY <1>2, <2>1
  <2> HIDE DEF h, n
  <2>8. \A i \in 0 .. n : h[i] \in A
    BY <2>1, <2>5, <2>6, StepsStay
  <2> QED
    BY <2>1, <2>4, <2>7, <2>8
<1> QED
  BY <1>1, <1>2

(* Sequences over S flatten to a sequence over S.                           *)
LEMMA FlattenedIsSequence ==
  ASSUME NEW S, NEW seqs \in Seq(Seq(S))
  PROVE  FlattenSeq(seqs) \in Seq(S)
<1>1. <<>> \in Seq(S) /\ \A a, b \in Seq(S) : a \o b \in Seq(S)
  OBVIOUS
<1> QED
  BY <1>1, FlattenedIsIn

-----------------------------------------------------------------------------
(* Places in sequences, and the ends of sequences.                          *)

(* Front leaves the last element out.                                       *)
LEMMA FrontFacts ==
  ASSUME NEW S, NEW s \in Seq(S), Len(s) > 0
  PROVE  /\ Front(s) \in Seq(S) /\ Len(Front(s)) = Len(s) - 1 /\ Len(s) \in Nat \ {0}
         /\ \A k \in 1 .. Len(s) - 1 : Front(s)[k] = s[k]
         /\ Last(s) = s[Len(s)] /\ Last(s) \in S
<1>1. Len(s) \in Nat \ {0} /\ \A k \in 1 .. Len(s) : s[k] \in S
  OBVIOUS
<1>2. Front(s) = SubSeq(s, 1, Len(s) - 1)
  BY DEF Front
<1>3. \A k \in 1 .. Len(s) - 1 : s[k] \in S
  BY <1>1
<1> DEFINE m == Len(s) - 1
           f == SubSeq(s, 1, m)
<1>4. m \in Nat
  BY <1>1
<1>5. /\ f \in Seq(S) /\ Len(f) = IF 1 <= m THEN m - 1 + 1 ELSE 0
      /\ \A k \in 1 .. m - 1 + 1 : f[k] = s[1 + k - 1]
  BY <1>3, <1>4, SubSeqProperties
<1> HIDE DEF f, m
<1>6. Len(f) = m
  BY <1>4, <1>5
<1>7. \A k \in 1 .. m : f[k] = s[k]
  <2>1. \A k \in 1 .. m : k \in 1 .. m - 1 + 1 /\ 1 + k - 1 = k
    BY <1>4
  <2> QED
    BY <1>5, <2>1
<1>8. Last(s) = s[Len(s)] /\ Last(s) \in S
  BY <1>1 DEF Last
<1>9. Front(s) = f
  BY <1>2 DEF f, m
<1> QED
  BY <1>1, <1>5, <1>6, <1>7, <1>8, <1>9 DEF m

(* One element more at the end, as a concatenation.                         *)
LEMMA OneMore ==
  ASSUME NEW S, NEW s \in Seq(S), NEW e \in S
  PROVE  /\ s \o <<e>> \in Seq(S) /\ Len(s \o <<e>>) = Len(s) + 1
         /\ (s \o <<e>>)[Len(s) + 1] = e
         /\ \A k \in 1 .. Len(s) : (s \o <<e>>)[k] = s[k]
<1>1. Append(s, e) = s \o <<e>>
  BY AppendIsConcat
<1> QED
  BY <1>1, AppendProperties

(* One element more, appended.                                              *)
LEMMA AppendedLength ==
  ASSUME NEW S, NEW s \in Seq(S), NEW e \in S
  PROVE  Append(s, e) # <<>> /\ Len(Append(s, e)) = Len(s) + 1
  BY AppendProperties

(* Reverse turns the places round.                                          *)
LEMMA ReverseFacts ==
  ASSUME NEW S, NEW s \in Seq(S)
  PROVE  /\ Reverse(s) \in Seq(S) /\ Len(Reverse(s)) = Len(s) /\ Len(s) \in Nat
         /\ \A i \in 1 .. Len(s) : Reverse(s)[i] = s[Len(s) - i + 1]
<1>1. Len(s) \in Nat /\ \A i \in 1 .. Len(s) : s[i] \in S
  OBVIOUS
<1>2. ASSUME NEW i \in 1 .. Len(s)
      PROVE  s[(Len(s) - i) + 1] \in S /\ (Len(s) - i) + 1 = Len(s) - i + 1
  <2>1. (Len(s) - i) + 1 \in 1 .. Len(s)
    BY <1>1
  <2> QED
    BY <1>1, <2>1
<1> DEFINE r == [i \in 1 .. Len(s) |-> s[(Len(s) - i) + 1]]
<1>3. r \in [1 .. Len(s) -> S]
  BY <1>2
<1>4. r \in Seq(S) /\ Len(r) = Len(s)
  <2> HIDE DEF r
  <2> QED
    BY <1>1, <1>3, FunctionIsSequence
<1>5. Reverse(s) = r
  BY DEF Reverse
<1>6. \A i \in 1 .. Len(s) : r[i] = s[Len(s) - i + 1]
  BY <1>2
<1> HIDE DEF r
<1> QED
  BY <1>1, <1>4, <1>5, <1>6

(* What SubSeq takes, nothing included.                                     *)
LEMMA Slice ==
  ASSUME NEW S, NEW s \in Seq(S), NEW i \in 1 .. Len(s) + 1, NEW j \in i - 1 .. Len(s)
  PROVE  /\ SubSeq(s, i, j) \in Seq(S)
         /\ Len(SubSeq(s, i, j)) = j - i + 1
         /\ \A k \in 1 .. j - i + 1 : SubSeq(s, i, j)[k] = s[i + k - 1]
<1>0. Len(s) \in Nat
  OBVIOUS
<1>1. i \in Int /\ j \in Int /\ \A m \in i .. j : s[m] \in S
  <2>1. i \in Int /\ j \in Int
    BY <1>0
  <2>2. ASSUME NEW m \in i .. j PROVE s[m] \in S
    <3>1. m \in 1 .. Len(s)
      BY <1>0
    <3> QED
      BY <3>1
  <2> QED
    BY <2>1, <2>2
<1>2. /\ SubSeq(s, i, j) \in Seq(S)
      /\ Len(SubSeq(s, i, j)) = IF i <= j THEN j - i + 1 ELSE 0
      /\ \A k \in 1 .. j - i + 1 : SubSeq(s, i, j)[k] = s[i + k - 1]
  BY <1>1, SubSeqProperties
<1>3. ~ (i <= j) => j - i + 1 = 0
  BY <1>0
<1> QED
  BY <1>2, <1>3

(* The first n elements.                                                    *)
LEMMA FirstPart ==
  ASSUME NEW S, NEW s \in Seq(S), NEW n \in 0 .. Len(s)
  PROVE  /\ SubSeq(s, 1, n) \in Seq(S) /\ Len(SubSeq(s, 1, n)) = n
         /\ \A k \in 1 .. n : SubSeq(s, 1, n)[k] = s[k]
<1>0. Len(s) \in Nat /\ n \in Nat /\ n <= Len(s)
  OBVIOUS
<1>1. 1 \in 1 .. Len(s) + 1 /\ n \in 1 - 1 .. Len(s) /\ n - 1 + 1 = n
  BY <1>0
<1>2. /\ SubSeq(s, 1, n) \in Seq(S) /\ Len(SubSeq(s, 1, n)) = n - 1 + 1
      /\ \A k \in 1 .. n - 1 + 1 : SubSeq(s, 1, n)[k] = s[1 + k - 1]
  BY <1>1, Slice
<1>3. \A k \in 1 .. n : 1 + k - 1 = k
  OBVIOUS
<1> QED
  BY <1>1, <1>2, <1>3

(* One element more of them.                                                *)
LEMMA FirstPartGrows ==
  ASSUME NEW S, NEW s \in Seq(S), NEW n \in 1 .. Len(s)
  PROVE  SubSeq(s, 1, n) = Append(SubSeq(s, 1, n - 1), s[n]) /\ s[n] \in S
<1> DEFINE a == SubSeq(s, 1, n)
           b == SubSeq(s, 1, n - 1)
           c == Append(b, s[n])
<1>0. Len(s) \in Nat /\ n \in 0 .. Len(s) /\ n - 1 \in 0 .. Len(s) /\ s[n] \in S
  OBVIOUS
<1>1. a \in Seq(S) /\ Len(a) = n /\ \A k \in 1 .. n : a[k] = s[k]
  BY <1>0, FirstPart
<1>2. b \in Seq(S) /\ Len(b) = n - 1 /\ \A k \in 1 .. n - 1 : b[k] = s[k]
  BY <1>0, FirstPart
<1> HIDE DEF a, b
<1>3. /\ c \in Seq(S) /\ Len(c) = Len(b) + 1 /\ c[Len(b) + 1] = s[n]
      /\ \A k \in 1 .. Len(b) : c[k] = b[k]
  BY <1>0, <1>2, Appending
<1> HIDE DEF c
<1>4. Len(c) = n /\ c[n] = s[n] /\ \A k \in 1 .. n - 1 : c[k] = s[k]
  BY <1>0, <1>2, <1>3
<1>5. \A k \in 1 .. n : a[k] = c[k]
  BY <1>0, <1>1, <1>4
<1>6. a = c
  BY <1>1, <1>3, <1>4, <1>5, SeqEqual
<1> QED
  BY <1>0, <1>6 DEF a, b, c

(* The last element comes first in the reverse.                             *)
LEMMA ReverseOfAppend ==
  ASSUME NEW S, NEW s \in Seq(S), NEW e \in S
  PROVE  Reverse(Append(s, e)) = <<e>> \o Reverse(s)
<1> DEFINE n == Len(s)
           a == Append(s, e)
           r == Reverse(a)
           t == Reverse(s)
           c == <<e>> \o t
<1>1. /\ a \in Seq(S) /\ Len(a) = n + 1 /\ n \in Nat /\ a[n + 1] = e
      /\ \A k \in 1 .. n : a[k] = s[k]
  BY Appending
<1> HIDE DEF a
<1>2. /\ r \in Seq(S) /\ Len(r) = n + 1
      /\ \A i \in 1 .. n + 1 : r[i] = a[n + 1 - i + 1]
  BY <1>1, ReverseFacts
<1>3. t \in Seq(S) /\ Len(t) = n /\ \A i \in 1 .. n : t[i] = s[n - i + 1]
  BY ReverseFacts
<1> HIDE DEF r, t
<1>4. <<e>> \in Seq(S) /\ Len(<<e>>) = 1 /\ <<e>>[1] = e
  OBVIOUS
<1>5. /\ c \in Seq(S) /\ Len(c) = 1 + n
      /\ \A k \in 1 .. 1 : c[k] = <<e>>[k]
      /\ \A k \in 1 .. n : c[1 + k] = t[k]
  BY <1>3, <1>4, Concatenation
<1> HIDE DEF c, n
<1>6. ASSUME NEW i \in 1 .. n + 1 PROVE r[i] = c[i]
  <2>1. CASE i = 1
    <3>1. n + 1 - i + 1 = n + 1
      BY <1>1, <2>1
    <3>2. r[i] = a[n + 1]
      BY <1>2, <3>1
    <3> QED
      BY <1>1, <1>4, <1>5, <2>1, <3>2
  <2>2. CASE i # 1
    <3> DEFINE k == i - 1
    <3>1. k \in 1 .. n /\ 1 + k = i /\ n + 1 - i + 1 = n - k + 1 /\ n - k + 1 \in 1 .. n
      BY <1>1, <2>2
    <3>2. r[i] = a[n - k + 1]
      BY <1>2, <3>1
    <3> HIDE DEF k
    <3>3. r[i] = s[n - k + 1] /\ c[i] = t[k] /\ t[k] = s[n - k + 1]
      BY <1>1, <1>3, <1>5, <3>1, <3>2
    <3> QED
      BY <3>3
  <2> QED
    BY <2>1, <2>2
<1>7. Len(c) = Len(r)
  BY <1>1, <1>2, <1>5
<1>8. r = c
  BY <1>2, <1>5, <1>6, <1>7, SeqEqual
<1> QED
  BY <1>8 DEF r, c, a, t

(* What SubSeq takes up to the end.                                         *)
LEMMA SubSeqToEnd ==
  ASSUME NEW S, NEW s \in Seq(S), NEW i \in 1 .. Len(s)
  PROVE  /\ SubSeq(s, i, Len(s)) \in Seq(S)
         /\ Len(SubSeq(s, i, Len(s))) = Len(s) - i + 1
         /\ \A k \in 1 .. Len(s) - i + 1 : SubSeq(s, i, Len(s))[k] = s[i + k - 1]
<1>1. i \in Int /\ Len(s) \in Int /\ \A j \in i .. Len(s) : s[j] \in S
  OBVIOUS
<1>2. /\ SubSeq(s, i, Len(s)) \in Seq(S)
      /\ Len(SubSeq(s, i, Len(s))) = IF i <= Len(s) THEN Len(s) - i + 1 ELSE 0
      /\ \A k \in 1 .. Len(s) - i + 1 : SubSeq(s, i, Len(s))[k] = s[i + k - 1]
  BY <1>1, SubSeqProperties
<1>3. i <= Len(s)
  OBVIOUS
<1> QED
  BY <1>2, <1>3

(* v is the end of s.                                                       *)
IsEnd(v, s) ==
  /\ Len(v) <= Len(s)
  /\ \A k \in 1 .. Len(v) : v[k] = s[Len(s) - Len(v) + k]

(* Two ends of one length are the same.                                     *)
LEMMA OneEnd ==
  ASSUME NEW S, NEW s \in Seq(S), NEW v \in Seq(S), NEW w \in Seq(S),
         IsEnd(v, s), IsEnd(w, s), Len(v) = Len(w)
  PROVE  v = w
  BY SeqEqual DEF IsEnd

(* The end of a text that is joined to another one.                         *)
LEMMA EndJoined ==
  ASSUME NEW S, NEW s \in Seq(S), NEW u \in Seq(S), NEW t \in Seq(S), IsEnd(u, s)
  PROVE  IsEnd(u \o t, s \o t)
<1> DEFINE x == s \o t
           y == u \o t
<1>1. /\ Len(s) \in Nat /\ Len(t) \in Nat /\ x \in Seq(S) /\ Len(x) = Len(s) + Len(t)
      /\ \A k \in 1 .. Len(s) : x[k] = s[k]
      /\ \A k \in 1 .. Len(t) : x[Len(s) + k] = t[k]
  BY Concatenation
<1>2. /\ Len(u) \in Nat /\ y \in Seq(S) /\ Len(y) = Len(u) + Len(t)
      /\ \A k \in 1 .. Len(u) : y[k] = u[k]
      /\ \A k \in 1 .. Len(t) : y[Len(u) + k] = t[k]
  BY Concatenation
<1> HIDE DEF x, y
<1>3. Len(u) <= Len(s) /\ \A k \in 1 .. Len(u) : u[k] = s[Len(s) - Len(u) + k]
  BY DEF IsEnd
<1>4. ASSUME NEW k \in 1 .. Len(y)
      PROVE  y[k] = x[Len(x) - Len(y) + k]
  <2>0. Len(x) - Len(y) = Len(s) - Len(u)
    BY <1>1, <1>2
  <2>1. CASE k \in 1 .. Len(u)
    <3>1. Len(s) - Len(u) + k \in 1 .. Len(s)
      BY <1>1, <1>2, <1>3, <2>1
    <3> QED
      BY <1>1, <1>2, <1>3, <2>0, <2>1, <3>1
  <2>2. CASE k > Len(u)
    <3> DEFINE i == k - Len(u)
    <3>1. i \in 1 .. Len(t) /\ Len(u) + i = k /\ Len(s) + i = Len(s) - Len(u) + k
      BY <1>1, <1>2, <2>2
    <3> HIDE DEF i
    <3> QED
      BY <1>1, <1>2, <2>0, <3>1
  <2> QED
    BY <1>2, <2>1, <2>2
<1> QED
  BY <1>1, <1>2, <1>3, <1>4 DEF IsEnd, x, y

(* An end of an end is an end.                                              *)
LEMMA EndOfEnd ==
  ASSUME NEW S, NEW s \in Seq(S), NEW u \in Seq(S), NEW v \in Seq(S), IsEnd(u, s), IsEnd(v, u)
  PROVE  IsEnd(v, s)
<1>1. Len(s) \in Nat /\ Len(u) \in Nat /\ Len(v) \in Nat
  OBVIOUS
<1>2. ASSUME NEW k \in 1 .. Len(v)
      PROVE  v[k] = s[Len(s) - Len(v) + k]
  <2> DEFINE i == Len(u) - Len(v) + k
  <2>1. v[k] = u[i] /\ i \in 1 .. Len(u) /\ Len(s) - Len(u) + i = Len(s) - Len(v) + k
    BY <1>1 DEF IsEnd
  <2> HIDE DEF i
  <2>2. u[i] = s[Len(s) - Len(u) + i]
    BY <2>1 DEF IsEnd
  <2> QED
    BY <2>1, <2>2
<1> QED
  BY <1>1, <1>2 DEF IsEnd

(* What comes last in a concatenation is its end.                           *)
LEMMA EndIsSuffix ==
  ASSUME NEW S, NEW x \in Seq(S), NEW y \in Seq(S)
  PROVE  IsEnd(y, x \o y)
<1>1. /\ Len(x) \in Nat /\ Len(y) \in Nat /\ Len(x \o y) = Len(x) + Len(y)
      /\ \A k \in 1 .. Len(y) : (x \o y)[Len(x) + k] = y[k]
  BY Concatenation
<1> QED
  BY <1>1 DEF IsEnd

(* A sequence is what precedes an end, followed by it.                      *)
LEMMA EndIsJoined ==
  ASSUME NEW S, NEW s \in Seq(S), NEW u \in Seq(S), IsEnd(u, s)
  PROVE  \E x \in Seq(S) : s = x \o u
<1> DEFINE n == Len(s) - Len(u)
           x == SubSeq(s, 1, n)
           y == x \o u
<1>1. Len(s) \in Nat /\ Len(u) \in Nat /\ Len(u) <= Len(s) /\ n \in 0 .. Len(s)
  BY DEF IsEnd
<1>2. x \in Seq(S) /\ Len(x) = n /\ \A k \in 1 .. n : x[k] = s[k]
  <2>1. \A k \in 1 .. n : s[k] \in S
    BY <1>1
  <2> HIDE DEF n
  <2>2. /\ x \in Seq(S) /\ Len(x) = IF 1 <= n THEN n - 1 + 1 ELSE 0
        /\ \A k \in 1 .. n - 1 + 1 : x[k] = s[1 + k - 1]
    BY <1>1, <2>1, SubSeqProperties
  <2> HIDE DEF x
  <2>3. Len(x) = n
    BY <1>1, <2>2
  <2>4. ASSUME NEW k \in 1 .. n PROVE x[k] = s[k]
    <3>1. k \in 1 .. n - 1 + 1 /\ 1 + k - 1 = k
      BY <1>1
    <3> QED
      BY <2>2, <3>1
  <2> QED
    BY <2>2, <2>3, <2>4
<1> HIDE DEF x
<1>3. /\ y \in Seq(S) /\ Len(y) = n + Len(u)
      /\ \A k \in 1 .. n : y[k] = x[k]
      /\ \A k \in 1 .. Len(u) : y[n + k] = u[k]
  BY <1>2, Concatenation
<1> HIDE DEF y
<1>4. Len(y) = Len(s)
  BY <1>1, <1>3
<1>5. ASSUME NEW k \in 1 .. Len(s) PROVE y[k] = s[k]
  <2>1. CASE k \in 1 .. n
    BY <1>2, <1>3, <2>1
  <2>2. CASE k > n
    <3> DEFINE i == k - n
    <3>1. i \in 1 .. Len(u) /\ n + i = k /\ Len(s) - Len(u) + i = k
      BY <1>1, <2>2
    <3> HIDE DEF i
    <3>2. y[k] = u[i] /\ u[i] = s[k]
      BY <1>3, <3>1 DEF IsEnd
    <3> QED
      BY <3>2
  <2> QED
    BY <1>1, <2>1, <2>2
<1>6. y = s
  BY <1>3, <1>4, <1>5, SeqEqual
<1> QED
  BY <1>2, <1>6 DEF y
=============================================================================
