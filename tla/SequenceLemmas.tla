--------------------------- MODULE SequenceLemmas ---------------------------
(***************************************************************************)
(* Lemmas about numbers and sequences that the proofs about bytes share.   *)
(***************************************************************************)
EXTENDS Integers, Sequences, SequencesExt, FiniteSetsExt, SequenceTheorems,
        WellFoundedInduction, TLAPS

-----------------------------------------------------------------------------
(* Induction over the natural numbers, with a set for the induction        *)
(* hypothesis: a set without a least element is empty.                     *)

LEMMA LeastElement ==
    ASSUME NEW S \in SUBSET Nat, S # {}
    PROVE  \E n \in S : \A m \in S : n <= m
<1> DEFINE less == {pair \in Nat \X Nat : pair[1] < pair[2]}
<1>1. IsWellFoundedOn(less, Nat)
  BY NatLessThanWellFounded DEF OpToRel
<1> HIDE DEF less
<1>2. PICK n \in S : \A m \in S : <<m, n>> \notin less
  BY <1>1, WFMin
<1>3. \A m \in S : ~ (m < n)
  BY <1>2 DEF less
<1> QED
  BY <1>3

LEMMA SetInduction ==
    ASSUME NEW S, 0 \in S, \A n \in Nat : n \in S => n + 1 \in S
    PROVE  Nat \subseteq S
<1> SUFFICES ASSUME Nat \ S # {} PROVE FALSE
  OBVIOUS
<1>1. PICK n \in Nat \ S : \A m \in Nat \ S : n <= m
  <2>1. Nat \ S \in SUBSET Nat
    OBVIOUS
  <2> QED
    BY <2>1, LeastElement
<1>2. n # 0 /\ n - 1 \in Nat
  BY <1>1
<1>3. n - 1 \in S
  BY <1>1, <1>2
<1> QED
  BY <1>1, <1>2, <1>3

(* A bound on all that a loop of n rounds may count.                       *)
LEMMA UptoInduction ==
    ASSUME NEW n \in Nat, NEW S, 0 \in S,
           \A i \in 1..n : i - 1 \in S => i \in S
    PROVE  0..n \subseteq S
<1> DEFINE N == {k \in Nat : k <= n => k \in S}
<1>1. 0 \in N
  OBVIOUS
<1>2. ASSUME NEW k \in Nat, k \in N PROVE k + 1 \in N
  <2> SUFFICES ASSUME k + 1 <= n PROVE k + 1 \in S
    OBVIOUS
  <2>1. k + 1 \in 1..n /\ (k + 1) - 1 = k /\ k \in S
    BY <1>2
  <2> QED
    BY <2>1
<1>3. Nat \subseteq N
  <2> HIDE DEF N
  <2> QED
    BY <1>1, <1>2, SetInduction
<1> QED
  BY <1>3

LEMMA GreatestElement ==
    ASSUME NEW n \in Nat, NEW S \in SUBSET (1..n), S # {}
    PROVE  Max(S) \in S /\ \A m \in S : m <= Max(S)
<1> DEFINE D == {n - m : m \in S}
<1>1. D \in SUBSET Nat /\ D # {}
  <2>1. ASSUME NEW m \in S PROVE n - m \in Nat
    <3>1. m \in 1..n
      OBVIOUS
    <3> QED
      BY <3>1
  <2> QED
    BY <2>1
<1>2. PICK d \in D : \A e \in D : d <= e
  <2> HIDE DEF D
  <2> QED
    BY <1>1, LeastElement
<1>3. PICK x \in S : d = n - x
  BY <1>2
<1>4. ASSUME NEW y \in S PROVE x >= y
  <2>1. n - x <= n - y
    BY <1>2, <1>3
  <2> QED
    BY <2>1
<1>5. Max(S) \in S /\ \A y \in S : Max(S) >= y
  BY <1>4 DEF Max
<1> QED
  BY <1>5

LEMMA LesserOf ==
    ASSUME NEW a \in Nat, NEW b \in Nat
    PROVE  Min({a, b}) = IF a <= b THEN a ELSE b
<1>1. \E x \in {a, b} : \A y \in {a, b} : x <= y
  OBVIOUS
<1>2. Min({a, b}) \in {a, b} /\ \A y \in {a, b} : Min({a, b}) <= y
  BY <1>1 DEF Min
<1> QED
  BY <1>2

-----------------------------------------------------------------------------
(* FlattenSeq.                                                             *)

(* The lines of s one after the other: Flat(s)[i] is the first i of them.  *)
Flat(s) == CHOOSE flatten : flatten = [i \in 1..Len(s) |->
               IF i = 1 THEN s[i] ELSE flatten[i - 1] \o s[i]]

LEMMA FlattenIsFlat ==
    ASSUME NEW s
    PROVE  FlattenSeq(s) = IF Len(s) = 0 THEN s ELSE Flat(s)[Len(s)]
BY DEF FlattenSeq, Flat

LEMMA FlatDefined ==
    ASSUME NEW S, NEW s \in Seq(Seq(S))
    PROVE  /\ Len(s) > 0 => Flat(s)[1] = s[1]
           /\ \A i \in 2..Len(s) : Flat(s)[i] = Flat(s)[i - 1] \o s[i]
<1> DEFINE IsFlat(f, n) == f = [i \in 1..n |->
                               IF i = 1 THEN s[i] ELSE f[i - 1] \o s[i]]
           N == {n \in Nat : \E f : IsFlat(f, n)}
<1>1. 0 \in N
  <2>1. IsFlat([i \in 1..0 |-> 0], 0)
    OBVIOUS
  <2> QED
    BY <2>1
<1>2. ASSUME NEW n \in Nat, n \in N PROVE n + 1 \in N
  <2>1. PICK f : IsFlat(f, n)
    BY <1>2
  <2> DEFINE g == [i \in 1..(n + 1) |->
                      IF i <= n THEN f[i]
                      ELSE IF i = 1 THEN s[i] ELSE f[i - 1] \o s[i]]
  <2>2. ASSUME NEW i \in 1..(n + 1)
        PROVE  g[i] = IF i = 1 THEN s[i] ELSE g[i - 1] \o s[i]
    <3>1. CASE i = 1
      BY <2>1, <3>1
    <3>2. CASE i # 1
      <4>1. i - 1 \in 1..n /\ i - 1 \in 1..(n + 1) /\ i - 1 <= n
        BY <3>2
      <4>2. g[i - 1] = f[i - 1]
        BY <4>1
      <4>3. CASE i <= n
        <5>1. g[i] = f[i] /\ i \in 1..n
          BY <4>3
        <5>2. f[i] = f[i - 1] \o s[i]
          BY <2>1, <3>2, <5>1
        <5> QED
          BY <3>2, <4>2, <5>1, <5>2
      <4>4. CASE ~ (i <= n)
        BY <3>2, <4>2, <4>4
      <4> QED
        BY <4>3, <4>4
    <3> QED
      BY <3>1, <3>2
  <2>3. IsFlat(g, n + 1)
    BY <2>2
  <2> HIDE DEF IsFlat, g
  <2> QED
    BY <2>3
<1>3. Len(s) \in Nat
  BY LenProperties
<1>4. \E f : IsFlat(f, Len(s))
  <2> HIDE DEF IsFlat
  <2> QED
    BY <1>1, <1>2, <1>3, SetInduction
<1>5. IsFlat(Flat(s), Len(s))
  <2>1. Flat(s) = CHOOSE f : IsFlat(f, Len(s))
    BY Zenon DEF Flat
  <2> HIDE DEF IsFlat
  <2> QED
    BY <1>4, <2>1, Zenon
<1>6. \A i \in 1..Len(s) :
          Flat(s)[i] = IF i = 1 THEN s[i] ELSE Flat(s)[i - 1] \o s[i]
  BY <1>5
<1> HIDE DEF IsFlat
<1>7. \A i \in 2..Len(s) : i \in 1..Len(s) /\ i # 1
  BY <1>3
<1>8. Len(s) > 0 => 1 \in 1..Len(s)
  BY <1>3
<1> QED
  BY <1>6, <1>7, <1>8, Zenon

LEMMA FlatType ==
    ASSUME NEW S, NEW s \in Seq(Seq(S)), NEW i \in 1..Len(s)
    PROVE  Flat(s)[i] \in Seq(S)
<1> DEFINE N == {n \in Nat : n + 1 \in 1..Len(s) => Flat(s)[n + 1] \in Seq(S)}
<1>1. Len(s) \in Nat /\ \A j \in 1..Len(s) : s[j] \in Seq(S)
  BY LenProperties
<1>2. 0 \in N
  <2> SUFFICES ASSUME 0 + 1 \in 1..Len(s) PROVE Flat(s)[0 + 1] \in Seq(S)
    OBVIOUS
  <2>1. Flat(s)[1] = s[1]
    <3>1. Len(s) > 0
      BY <1>1
    <3> HIDE DEF N
    <3> QED
      BY <3>1, FlatDefined
  <2> QED
    BY <1>1, <2>1
<1>3. ASSUME NEW n \in Nat, n \in N PROVE n + 1 \in N
  <2> SUFFICES ASSUME n + 2 \in 1..Len(s) PROVE Flat(s)[n + 2] \in Seq(S)
    OBVIOUS
  <2>1. n + 1 \in 1..Len(s) /\ n + 2 \in 2..Len(s) /\ (n + 2) - 1 = n + 1
    BY <1>1
  <2>2. Flat(s)[n + 1] \in Seq(S) /\ s[n + 2] \in Seq(S)
    BY <1>1, <1>3, <2>1
  <2>3. Flat(s)[n + 2] = Flat(s)[n + 1] \o s[n + 2]
    BY <2>1, FlatDefined
  <2> QED
    BY <2>2, <2>3, ConcatProperties
<1>4. i - 1 \in N
  <2>1. i - 1 \in Nat
    BY <1>1
  <2> HIDE DEF N
  <2> QED
    BY <1>2, <1>3, <2>1, SetInduction
<1> QED
  BY <1>1, <1>4

LEMMA FlattenType ==
    ASSUME NEW S, NEW s \in Seq(Seq(S))
    PROVE  FlattenSeq(s) \in Seq(S)
<1>1. CASE Len(s) = 0
  <2>1. FlattenSeq(s) = s
    BY <1>1, FlattenIsFlat
  <2>2. s = <<>>
    BY <1>1, EmptySeq
  <2> QED
    BY <2>1, <2>2, EmptySeq
<1>2. CASE Len(s) # 0
  <2>1. Len(s) \in 1..Len(s)
    BY <1>2, LenProperties
  <2> QED
    BY <1>2, <2>1, FlattenIsFlat, FlatType
<1> QED
  BY <1>1, <1>2

(* What is appended to the lines is appended to their text.                *)
LEMMA FlattenAppend ==
    ASSUME NEW S, NEW s \in Seq(Seq(S)), NEW x \in Seq(S)
    PROVE  FlattenSeq(Append(s, x)) = FlattenSeq(s) \o x
<1> DEFINE t == Append(s, x)
           N == {n \in Nat : n + 1 \in 1..Len(s) =>
                                 Flat(t)[n + 1] = Flat(s)[n + 1]}
<1>1. /\ t \in Seq(Seq(S)) /\ Len(t) = Len(s) + 1 /\ Len(s) \in Nat
      /\ \A j \in 1..Len(s) : t[j] = s[j]
      /\ t[Len(s) + 1] = x
  BY AppendProperties, LenProperties
<1> HIDE DEF t
<1>2. 0 \in N
  <2> SUFFICES ASSUME 0 + 1 \in 1..Len(s)
               PROVE  Flat(t)[0 + 1] = Flat(s)[0 + 1]
    OBVIOUS
  <2>1. Len(s) > 0 /\ Len(t) > 0
    BY <1>1
  <2>2. Flat(t)[1] = t[1]
    BY <1>1, <2>1, FlatDefined
  <2>3. Flat(s)[1] = s[1]
    BY <2>1, FlatDefined
  <2> QED
    BY <1>1, <2>2, <2>3
<1>3. ASSUME NEW n \in Nat, n \in N PROVE n + 1 \in N
  <2> SUFFICES ASSUME n + 2 \in 1..Len(s)
               PROVE  Flat(t)[n + 2] = Flat(s)[n + 2]
    OBVIOUS
  <2>1. /\ n + 1 \in 1..Len(s) /\ n + 2 \in 2..Len(s)
        /\ n + 2 \in 2..Len(t) /\ (n + 2) - 1 = n + 1
    BY <1>1
  <2>2. Flat(t)[n + 2] = Flat(t)[n + 1] \o t[n + 2]
    BY <1>1, <2>1, FlatDefined
  <2>3. Flat(s)[n + 2] = Flat(s)[n + 1] \o s[n + 2]
    BY <2>1, FlatDefined
  <2> QED
    BY <1>1, <1>3, <2>1, <2>2, <2>3
<1>4. CASE Len(s) = 0
  <2>1. Flat(t)[1] = x /\ Len(t) = 1
    <3> HIDE DEF N
    <3>1. Len(t) > 0 /\ Len(t) = 1 /\ t[1] = x
      BY <1>1, <1>4
    <3>2. Flat(t)[1] = t[1]
      BY <1>1, <3>1, FlatDefined
    <3> QED
      BY <3>1, <3>2
  <2>2. FlattenSeq(t) = x
    <3>1. FlattenSeq(t) = Flat(t)[Len(t)]
      <4>1. Len(t) # 0
        BY <2>1
      <4> QED
        BY <4>1, FlattenIsFlat, Zenon
    <3> QED
      BY <2>1, <3>1
  <2>3. FlattenSeq(s) = <<>>
    <3>1. FlattenSeq(s) = s
      BY <1>4, FlattenIsFlat
    <3> QED
      BY <1>4, <3>1, EmptySeq
  <2> QED
    BY <2>2, <2>3, ConcatEmptySeq DEF t
<1>5. CASE Len(s) # 0
  <2>1. Len(s) - 1 \in Nat /\ (Len(s) - 1) + 1 = Len(s)
    BY <1>1, <1>5
  <2>2. Len(s) - 1 \in N
    <3> HIDE DEF N
    <3> QED
      BY <1>2, <1>3, <2>1, SetInduction
  <2>3. Flat(t)[Len(s)] = Flat(s)[Len(s)]
    BY <1>1, <1>5, <2>1, <2>2
  <2>4. Flat(t)[Len(t)] = Flat(t)[Len(s)] \o x
    <3>1. Len(t) \in 2..Len(t) /\ Len(t) - 1 = Len(s)
      BY <1>1, <1>5
    <3> QED
      BY <1>1, <3>1, FlatDefined
  <2>5. FlattenSeq(t) = Flat(t)[Len(t)]
    BY <1>1, FlattenIsFlat
  <2>6. FlattenSeq(s) = Flat(s)[Len(s)]
    BY <1>5, FlattenIsFlat
  <2> QED
    BY <2>3, <2>4, <2>5, <2>6 DEF t
<1> QED
  BY <1>4, <1>5

-----------------------------------------------------------------------------
(* FoldLeft.  A fold over a sequence of length n is a function on the sets *)
(* of its positions (Folds), which takes the last position of a set first. *)

(* There is such a function, whatever a step of the fold is: step[<<r, i>>]*)
(* is the result after position i when it was r before.                    *)
StepsIn(step, n, R) == \A r \in R, i \in 1..n : step[<<r, i>>] \in R

FoldOf(g, n, R, base, step) ==
    /\ g \in [SUBSET (1..n) -> R]
    /\ \A T \in SUBSET (1..n) :
           g[T] = IF T = {} THEN base ELSE step[<<g[T \ {Max(T)}], Max(T)>>]

LEMMA FoldDefined ==
    ASSUME NEW n \in Nat, NEW R, NEW base \in R, NEW step, StepsIn(step, n, R)
    PROVE  \E g : FoldOf(g, n, R, base, step)
<1>s. \A r \in R, i \in 1..n : step[<<r, i>>] \in R
  BY DEF StepsIn
<1> DEFINE Fold(g, m) == \A T \in SUBSET (1..m) :
                             g[T] = IF T = {} THEN base
                                    ELSE step[<<g[T \ {Max(T)}], Max(T)>>]
           N == {m \in Nat : \E g \in [SUBSET (1..m) -> R] : Fold(g, m)}
<1>1. 0 \in N
  <2> DEFINE g == [T \in SUBSET (1..0) |-> base]
  <2>1. \A T \in SUBSET (1..0) : T = {}
    OBVIOUS
  <2>2. g \in [SUBSET (1..0) -> R] /\ Fold(g, 0)
    BY <2>1
  <2> QED
    BY <2>2
<1>2. ASSUME NEW i \in 1..n, i - 1 \in N PROVE i \in N
  <2>1. PICK g \in [SUBSET (1..(i - 1)) -> R] : Fold(g, i - 1)
    BY <1>2
  <2> DEFINE h == [T \in SUBSET (1..i) |->
                      IF i \in T THEN step[<<g[T \ {i}], i>>] ELSE g[T]]
  <2>2. ASSUME NEW T \in SUBSET (1..i)
        PROVE  /\ T \ {i} \in SUBSET (1..(i - 1))
               /\ i \notin T => T \in SUBSET (1..(i - 1))
    OBVIOUS
  <2>3. h \in [SUBSET (1..i) -> R]
    BY <1>s, <2>2
  <2>4. ASSUME NEW T \in SUBSET (1..i)
        PROVE  h[T] = IF T = {} THEN base
                      ELSE step[<<h[T \ {Max(T)}], Max(T)>>]
    <3>1. CASE i \in T
      <4>1. i \in Nat /\ T # {}
        BY <3>1
      <4>2. Max(T) \in T /\ i <= Max(T)
        BY <3>1, <4>1, GreatestElement
      <4>3. Max(T) = i
        <5>1. Max(T) \in 1..i
          BY <4>2
        <5> QED
          BY <4>2, <5>1
      <4>4. h[T \ {i}] = g[T \ {i}]
        BY <2>2
      <4> QED
        BY <3>1, <4>1, <4>3, <4>4
    <3>2. CASE i \notin T
      <4>1. h[T] = g[T] /\ T \in SUBSET (1..(i - 1))
        BY <2>2, <3>2
      <4>2. h[T \ {Max(T)}] = g[T \ {Max(T)}]
        BY <3>2
      <4> QED
        BY <2>1, <4>1, <4>2
    <3> QED
      BY <3>1, <3>2
  <2> HIDE DEF h
  <2>5. Fold(h, i)
    BY <2>4
  <2> HIDE DEF Fold
  <2> QED
    BY <2>3, <2>5
<1>3. n \in N
  <2> HIDE DEF N
  <2> QED
    BY <1>1, <1>2, UptoInduction
<1> QED
  BY <1>3 DEF FoldOf

(* A fold takes the positions 1..i in their order.                         *)
LEMMA LastPosition ==
    ASSUME NEW n \in Nat, NEW i \in 1..n
    PROVE  /\ 1..i \in SUBSET (1..n) /\ 1..i # {}
           /\ Max(1..i) = i /\ (1..i) \ {Max(1..i)} = 1..(i - 1)
<1>1. 1..i \in SUBSET (1..n) /\ 1..i # {} /\ i \in 1..i
  OBVIOUS
<1>2. Max(1..i) \in 1..i /\ i <= Max(1..i)
  BY <1>1, GreatestElement
<1>3. Max(1..i) = i
  BY <1>2
<1>4. (1..i) \ {i} = 1..(i - 1)
  OBVIOUS
<1> QED
  BY <1>1, <1>3, <1>4

-----------------------------------------------------------------------------
(* What is read of a sequence so far.                                      *)

LEMMA ReadSoFar ==
    ASSUME NEW S, NEW s \in Seq(S), NEW i \in 1..Len(s)
    PROVE  /\ SubSeq(s, 1, i) = Append(SubSeq(s, 1, i - 1), s[i])
           /\ SubSeq(s, 1, i - 1) \in Seq(S) /\ s[i] \in S
           /\ SubSeq(s, 1, i) \in Seq(S) /\ Len(SubSeq(s, 1, i)) = i
<1>1. Len(s) \in Nat /\ \A j \in 1..Len(s) : s[j] \in S
  BY LenProperties
<1>2. i \in Nat /\ i >= 1 /\ i <= Len(s)
  BY <1>1
<1>3. SubSeq(s, 1, i - 1) \in Seq(S) /\ s[i] \in S
  <2>1. \A j \in 1..(i - 1) : s[j] \in S
    BY <1>1, <1>2
  <2> QED
    BY <1>1, <1>2, <2>1, SubSeqProperties
<1>4. SubSeq(s, 1, i) \in Seq(S) /\ Len(SubSeq(s, 1, i)) = i
  <2>1. \A j \in 1..i : s[j] \in S
    BY <1>1, <1>2
  <2> QED
    BY <1>2, <2>1, SubSeqProperties
<1>5. SubSeq(s, 1, i) = SubSeq(s, 1, i - 1) \o <<s[i]>>
  <2>1. 1 \in 1..Len(s) /\ i \in 1..Len(s)
    BY <1>1, <1>2
  <2> QED
    BY <2>1, SubSeqRecursiveSecond
<1>6. Append(SubSeq(s, 1, i - 1), s[i]) = SubSeq(s, 1, i - 1) \o <<s[i]>>
  BY <1>3, AppendIsConcat
<1> QED
  BY <1>3, <1>4, <1>5, <1>6

LEMMA OneElement ==
    ASSUME NEW S, NEW x \in S
    PROVE  <<x>> \in Seq(S)
<1>1. Append(<<>>, x) \in Seq(S)
  BY EmptySeq, AppendProperties
<1>2. Append(<<>>, x) = <<x>>
  OBVIOUS
<1> QED
  BY <1>1, <1>2

AppendsBehind(S) ==
    \A p, q \in Seq(S), x \in S : Append(p \o q, x) = p \o Append(q, x)

LEMMA AppendBehind ==
    ASSUME NEW S
    PROVE  AppendsBehind(S)
<1> SUFFICES ASSUME NEW p \in Seq(S), NEW q \in Seq(S), NEW x \in S
             PROVE  Append(p \o q, x) = p \o Append(q, x)
  BY DEF AppendsBehind
<1>1. PICK end \in Seq(S) : end = <<x>>
  BY OneElement
<1>2. Append(q, x) = q \o end
  BY <1>1, AppendIsConcat
<1>3. p \o q \in Seq(S)
  BY ConcatProperties
<1>4. Append(p \o q, x) = (p \o q) \o end
  BY <1>1, <1>3, AppendIsConcat
<1>5. (p \o q) \o end = p \o (q \o end)
  BY ConcatAssociative
<1> QED
  BY <1>2, <1>4, <1>5

LEMMA FrontOfAppend ==
    ASSUME NEW S, NEW s \in Seq(S), NEW x \in S
    PROVE  Front(Append(s, x)) = s /\ Last(Append(s, x)) = x
<1>1. PICK n \in Nat : n = Len(s)
  BY LenProperties
<1>2. PICK t \in Seq(S) : t = Append(s, x)
  BY AppendProperties
<1>3. Len(t) = n + 1 /\ t[n + 1] = x /\ \A i \in 1..n : t[i] = s[i]
  BY <1>1, <1>2, AppendProperties
<1>4. 1 \in Int /\ n \in Int /\ \A i \in 1..n : t[i] \in S
  BY <1>1, <1>3, LenProperties
<1>5. /\ SubSeq(t, 1, n) \in Seq(S)
      /\ Len(SubSeq(t, 1, n)) = IF 1 <= n THEN n - 1 + 1 ELSE 0
      /\ \A i \in 1 .. n - 1 + 1 : SubSeq(t, 1, n)[i] = t[1 + i - 1]
  BY <1>4, SubSeqProperties
<1>6. Len(SubSeq(t, 1, n)) = n /\ \A i \in 1..n : SubSeq(t, 1, n)[i] = s[i]
  BY <1>3, <1>5
<1>7. SubSeq(t, 1, n) = s
  BY <1>1, <1>5, <1>6, SeqEqual
<1>8. Len(t) - 1 = n
  BY <1>3
<1> QED
  BY <1>2, <1>3, <1>7, <1>8 DEF Front, Last

LEMMA TwoElements ==
    ASSUME NEW a, NEW b PROVE Append(<<a>>, b) = <<a, b>>
<1> DEFINE S == {a, b}
<1>1. PICK s \in Seq(S) : s = <<a>>
  BY OneElement
<1>2. PICK t \in Seq(S) : t = Append(s, b)
  BY AppendProperties
<1>3. Len(t) = 2 /\ t[1] = a /\ t[2] = b
  BY <1>1, <1>2, AppendProperties
<1>4. t = [i \in 1..2 |-> t[i]]
  BY <1>3, LenProperties
<1>5. <<a, b>> = [i \in 1..2 |-> IF i = 1 THEN a ELSE b]
  OBVIOUS
<1>6. \A i \in 1..2 : t[i] = IF i = 1 THEN a ELSE b
  BY <1>3
<1> QED
  BY <1>1, <1>2, <1>3, <1>4, <1>5, <1>6

IsPair(p, S, a, b) ==
    p \in Seq(S) /\ Len(p) = 2 /\ DOMAIN p = 1..2 /\ p[1] = a /\ p[2] = b

LEMMA PairIs ==
    ASSUME NEW S, NEW a \in S, NEW b \in S
    PROVE  IsPair(<<a, b>>, S, a, b)
BY DEF IsPair

IsTriple(t, S, a, b, c) ==
    /\ t \in Seq(S) /\ Len(t) = 3 /\ DOMAIN t = 1..3
    /\ t[1] = a /\ t[2] = b /\ t[3] = c

LEMMA TripleIs ==
    ASSUME NEW S, NEW a \in S, NEW b \in S, NEW c \in S
    PROVE  IsTriple(<<a, b, c>>, S, a, b, c)
BY DEF IsTriple
=============================================================================
