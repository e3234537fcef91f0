---------------------------- MODULE EmitterProofs ----------------------------
(***************************************************************************)
(* Theorems about Emitter, for every output of the child, every capacity   *)
(* of the pipe and every size of the reads and of the buffer.              *)
(***************************************************************************)
EXTENDS Emitter, SequenceLemmas

-----------------------------------------------------------------------------
(* Doubled.                                                                *)

LEMMA DoubledDefined ==
    \A k \in Nat : Doubled[k] = IF k = 0 THEN 1 ELSE 2 * Doubled[k - 1]
<1> DEFINE Upto(f, n) == \A k \in 0..n :
                             f[k] = IF k = 0 THEN 1 ELSE 2 * f[k - 1]
           N == {n \in Nat : \E f \in [0..n -> Nat] : Upto(f, n)}
<1>1. 0 \in N
  <2>1. [k \in 0..0 |-> 1] \in [0..0 -> Nat] /\ Upto([k \in 0..0 |-> 1], 0)
    OBVIOUS
  <2> QED
    BY <2>1
<1>2. ASSUME NEW n \in Nat, n \in N PROVE n + 1 \in N
  <2>1. PICK f \in [0..n -> Nat] : Upto(f, n)
    BY <1>2
  <2> DEFINE g == [k \in 0..(n + 1) |-> IF k <= n THEN f[k] ELSE 2 * f[n]]
  <2>2. g \in [0..(n + 1) -> Nat]
    <3>1. \A k \in 0..(n + 1) : k <= n => k \in 0..n
      OBVIOUS
    <3>2. n \in 0..n /\ 2 * f[n] \in Nat
      OBVIOUS
    <3> QED
      BY <3>1, <3>2
  <2>3. ASSUME NEW k \in 0..(n + 1)
        PROVE  g[k] = IF k = 0 THEN 1 ELSE 2 * g[k - 1]
    <3>1. CASE k = 0
      BY <2>1, <3>1
    <3>2. CASE k # 0 /\ k <= n
      <4>1. k \in 0..n /\ k - 1 \in 0..(n + 1) /\ k - 1 <= n
        BY <3>2
      <4> QED
        BY <2>1, <3>2, <4>1
    <3>3. CASE k = n + 1
      <4>1. k - 1 = n /\ n \in 0..(n + 1) /\ k # 0 /\ ~ (k <= n)
        BY <3>3
      <4> QED
        BY <4>1
    <3> QED
      BY <3>1, <3>2, <3>3
  <2> HIDE DEF g
  <2>4. Upto(g, n + 1)
    BY <2>3
  <2> HIDE DEF Upto
  <2> QED
    BY <2>2, <2>4
<1>3. \A n \in Nat : \E f \in [0..n -> Nat] : Upto(f, n)
  <2> HIDE DEF Upto
  <2> QED
    BY <1>1, <1>2, SetInduction
<1> DEFINE F(n) == CHOOSE f \in [0..n -> Nat] : Upto(f, n)
           D == [k \in Nat |-> F(k)[k]]
<1>4. ASSUME NEW n \in Nat PROVE F(n) \in [0..n -> Nat] /\ Upto(F(n), n)
  <2> HIDE DEF Upto
  <2> QED
    BY <1>3, Zenon
<1> HIDE DEF F
<1>5. ASSUME NEW n \in Nat PROVE F(n + 1)[n] = F(n)[n]
  <2> DEFINE M == {k \in Nat : k <= n => F(n + 1)[k] = F(n)[k]}
  <2>1. Upto(F(n), n) /\ Upto(F(n + 1), n + 1)
    <3>1. n + 1 \in Nat
      OBVIOUS
    <3> HIDE DEF Upto
    <3> QED
      BY <1>4, <3>1, Zenon
  <2>2. 0 \in M
    BY <2>1
  <2>3. ASSUME NEW k \in Nat, k \in M PROVE k + 1 \in M
    <3> SUFFICES ASSUME k + 1 <= n PROVE F(n + 1)[k + 1] = F(n)[k + 1]
      OBVIOUS
    <3>1. k + 1 \in 0..n /\ k + 1 \in 0..(n + 1) /\ k + 1 # 0
          /\ (k + 1) - 1 = k
      OBVIOUS
    <3>2. F(n)[k + 1] = 2 * F(n)[k] /\ F(n + 1)[k + 1] = 2 * F(n + 1)[k]
      BY <2>1, <3>1
    <3> QED
      BY <2>3, <3>2
  <2>4. n \in M
    <3> HIDE DEF M
    <3> QED
      BY <2>2, <2>3, SetInduction
  <2> QED
    BY <2>4
<1>6. ASSUME NEW k \in Nat PROVE D[k] = IF k = 0 THEN 1 ELSE 2 * D[k - 1]
  <2>1. CASE k = 0
    BY <1>4, <2>1
  <2>2. CASE k # 0
    <3>1. k - 1 \in Nat /\ (k - 1) + 1 = k /\ k \in 0..k
      BY <2>2
    <3>2. F(k)[k - 1] = F(k - 1)[k - 1]
      BY <1>5, <3>1
    <3>3. F(k)[k] = 2 * F(k)[k - 1]
      BY <1>4, <2>2, <3>1
    <3> QED
      BY <2>2, <3>1, <3>2, <3>3
  <2> QED
    BY <2>1, <2>2
<1> DEFINE Fix(d) == d = [k \in Nat |-> IF k = 0 THEN 1 ELSE 2 * d[k - 1]]
<1>7. Fix(D)
  BY <1>6
<1>8. Doubled = CHOOSE d : Fix(d)
  BY Zenon DEF Doubled
<1>9. Fix(Doubled)
  <2> HIDE DEF Fix
  <2> QED
    BY <1>7, <1>8, Zenon
<1> QED
  BY <1>9

(* Doubling is fast enough for the loop of ct_strbuff_push to end.         *)
LEMMA DoubledGrows ==
    \A k \in Nat : Doubled[k] \in Nat /\ Doubled[k] > k
<1> DEFINE N == {k \in Nat : Doubled[k] \in Nat /\ Doubled[k] > k}
<1>1. 0 \in N
  BY DoubledDefined
<1>2. ASSUME NEW k \in Nat, k \in N PROVE k + 1 \in N
  <2>1. Doubled[k + 1] = 2 * Doubled[k]
    <3>1. k + 1 \in Nat /\ k + 1 # 0 /\ (k + 1) - 1 = k
      OBVIOUS
    <3> QED
      BY <3>1, DoubledDefined
  <2> QED
    BY <1>2, <2>1
<1>3. Nat \subseteq N
  <2> HIDE DEF N
  <2> QED
    BY <1>1, <1>2, SetInduction
<1> QED
  BY <1>3

LEMMA DoubledSum ==
    ASSUME NEW i \in Nat, NEW k \in Nat
    PROVE  Doubled[i + k] = Doubled[i] * Doubled[k]
<1> DEFINE N == {n \in Nat : Doubled[i + n] = Doubled[i] * Doubled[n]}
<1>1. 0 \in N
  <2>1. Doubled[0] = 1 /\ i + 0 = i /\ Doubled[i] \in Nat
    BY DoubledDefined, DoubledGrows
  <2> QED
    BY <2>1
<1>2. ASSUME NEW n \in Nat, n \in N PROVE n + 1 \in N
  <2>1. n + 1 \in Nat /\ n + 1 # 0 /\ (n + 1) - 1 = n
        /\ i + (n + 1) \in Nat /\ i + (n + 1) # 0 /\ (i + (n + 1)) - 1 = i + n
    OBVIOUS
  <2>2. Doubled[n + 1] = 2 * Doubled[n]
    BY <2>1, DoubledDefined
  <2>3. Doubled[i + (n + 1)] = 2 * Doubled[i + n]
    BY <2>1, DoubledDefined
  <2>4. PICK a \in Nat, b \in Nat : a = Doubled[i] /\ b = Doubled[n]
    BY DoubledGrows
  <2>5. Doubled[i + n] = a * b
    BY <1>2, <2>4
  <2>6. 2 * (a * b) = a * (2 * b)
    OBVIOUS
  <2> QED
    BY <2>2, <2>3, <2>4, <2>5, <2>6
<1>3. k \in N
  <2> HIDE DEF N
  <2> QED
    BY <1>1, <1>2, SetInduction
<1> QED
  BY <1>3

-----------------------------------------------------------------------------
(* The inductive invariant.                                                *)

(* No byte of the child is held twice.                                     *)
Room == Len(str) + Len(pipe) + todo <= Len(text)

(* Only a child that has exited is known to have, and what comes after the *)
(* last read finds the pipe at its end.                                    *)
Ended ==
    /\ exited => ~ alive
    /\ pc = "start" => ~ exited
    /\ pc \in {"reap", "done"} => pipe = <<>> /\ writers = {}

(* Before ptr there is no line end, nor in the buffer between two scans.   *)
Scanned ==
    missed \/ IF pc = "scan" THEN \A i \in Ends(str) : i >= ptr
                             ELSE Ends(str) = {}

EmitterInv == TypeOK /\ Room /\ Ended /\ NothingLost /\ Scanned /\ LinesWhole

-----------------------------------------------------------------------------
(* What the operators of Emitter return.                                   *)

LEMMA TextsAre ==
    \A s : s \in Texts <=> s \in Seq(Byte) /\ Len(s) <= MaxText
<1>1. ASSUME NEW s \in Texts PROVE s \in Seq(Byte) /\ Len(s) <= MaxText
  <2>1. PICK m \in 0..MaxText : s \in [1..m -> Byte]
    BY DEF Texts, BoundedSeq, SeqOf
  <2> QED
    BY <2>1, SizeAssumption DEF SizeAssumption
<1>2. ASSUME NEW s \in Seq(Byte), Len(s) <= MaxText PROVE s \in Texts
  <2>1. s \in [1..Len(s) -> Byte] /\ Len(s) \in 0..MaxText
    BY <1>2, LenProperties, SizeAssumption DEF SizeAssumption
  <2> QED
    BY <2>1 DEF Texts, BoundedSeq, SeqOf
<1> QED
  BY <1>1, <1>2

LEMMA SeqOfTexts == \A s \in Seq(Texts) : s \in Seq(Seq(Byte))
<1> SUFFICES ASSUME NEW s \in Seq(Texts) PROVE s \in Seq(Seq(Byte))
  OBVIOUS
<1>1. Len(s) \in Nat /\ s \in [1..Len(s) -> Texts]
  BY LenProperties
<1>2. \A i \in 1..Len(s) : s[i] \in Seq(Byte)
  BY <1>1, TextsAre
<1>3. s = [i \in 1..Len(s) |-> s[i]]
  BY <1>1
<1>4. s \in [1..Len(s) -> Seq(Byte)]
  BY <1>2, <1>3
<1> QED
  BY <1>1, <1>4, SeqDef

LEMMA Concat ==
    \A a, b, c \in Seq(Byte) : /\ (a \o b) \o c = a \o (b \o c)
                              /\ a \o b \in Seq(Byte)
                              /\ Len(a \o b) = Len(a) + Len(b)
<1> SUFFICES ASSUME NEW a \in Seq(Byte), NEW b \in Seq(Byte),
                    NEW c \in Seq(Byte)
             PROVE  /\ (a \o b) \o c = a \o (b \o c)
                    /\ a \o b \in Seq(Byte)
                    /\ Len(a \o b) = Len(a) + Len(b)
  OBVIOUS
<1>1. (a \o b) \o c = a \o (b \o c)
  BY ConcatAssociative
<1>2. a \o b \in Seq(Byte) /\ Len(a \o b) = Len(a) + Len(b)
  BY ConcatProperties
<1> QED
  BY <1>1, <1>2

LEMMA LinesAre ==
    ASSUME TypeOK
    PROVE  /\ lines \in Seq(Seq(Byte)) /\ FlattenSeq(lines) \in Seq(Byte)
           /\ text \in Seq(Byte) /\ pipe \in Seq(Byte) /\ str \in Seq(Byte)
           /\ Len(text) \in Nat /\ Len(pipe) \in Nat /\ Len(str) \in Nat
           /\ todo \in Nat /\ todo <= Len(text)
<1>1. text \in Seq(Byte) /\ pipe \in Seq(Byte) /\ str \in Seq(Byte)
  BY TextsAre DEF TypeOK
<1>2. lines \in Seq(Seq(Byte))
  BY SeqOfTexts DEF TypeOK
<1> QED
  BY <1>1, <1>2, FlattenType, LenProperties DEF TypeOK

LEMMA LeastIs ==
    ASSUME NEW S \in SUBSET Nat, S # {}
    PROVE  Min(S) \in S /\ \A n \in S : Min(S) <= n
<1>1. \E x \in S : \A y \in S : x <= y
  BY LeastElement
<1> QED
  BY <1>1 DEF Min

(* The buffer becomes large enough, and is one of the sizes of TypeOK.     *)
LEMMA GrownEnough ==
    ASSUME size \in {BuffSize * Doubled[k] : k \in 0..MaxText},
           NEW n \in Nat, n <= MaxText + 1
    PROVE  /\ Grown(n) \in {BuffSize * Doubled[k] : k \in 0..MaxText}
           /\ Grown(n) \in Nat /\ Grown(n) >= n
<1>1. PICK i \in 0..MaxText : size = BuffSize * Doubled[i]
  OBVIOUS
<1>2. BuffSize \in Nat /\ BuffSize >= 1 /\ MaxText \in Nat
  BY SizeAssumption DEF SizeAssumption
<1>3. i \in Nat
  BY <1>2
<1>4. size \in Nat /\ size >= 1
  <2>1. PICK d \in Nat : d = Doubled[i] /\ d >= 1
    BY <1>3, DoubledGrows
  <2>2. BuffSize * d >= 1 /\ BuffSize * d \in Nat
    BY <1>2, <2>1
  <2> QED
    BY <1>1, <2>1, <2>2
<1>5. \A m \in Nat : size * m \in Nat /\ size * m >= m
  BY <1>4
<1>6. Sizes(n) \in SUBSET Nat /\ n \in Sizes(n)
  <2>1. Doubled[n] \in Nat /\ Doubled[n] > n
    BY DoubledGrows
  <2>2. size * Doubled[n] \in Nat /\ size * Doubled[n] >= Doubled[n]
    BY <1>5, <2>1
  <2>3. size * Doubled[n] >= n /\ n \in 0..n
    BY <2>1, <2>2
  <2> QED
    BY <2>3 DEF Sizes
<1>7. PICK k \in Nat : k = Min(Sizes(n))
  BY <1>6, LeastIs
<1>8. k \in Sizes(n) /\ \A j \in Sizes(n) : k <= j
  BY <1>6, <1>7, LeastIs
<1>9. Grown(n) = size * Doubled[k] /\ size * Doubled[k] >= n
  BY <1>7, <1>8 DEF Grown, Sizes
<1>10. Grown(n) \in Nat
  BY <1>5, <1>9, DoubledGrows
<1>11. ASSUME NEW j \in Nat
       PROVE  size * Doubled[j] = BuffSize * Doubled[i + j]
  <2>1. PICK a \in Nat, b \in Nat : a = Doubled[i] /\ b = Doubled[j]
    BY <1>3, DoubledGrows
  <2>2. Doubled[i + j] = a * b
    BY <1>3, <2>1, DoubledSum
  <2>3. (BuffSize * a) * b = BuffSize * (a * b)
    BY <1>2
  <2> QED
    BY <1>1, <2>1, <2>2, <2>3
<1>12. i + k \in 0..MaxText
  <2>1. CASE k = 0
    BY <1>2, <1>3, <2>1
  <2>2. CASE k # 0
    <3>1. k - 1 \in Nat /\ ~ (k <= k - 1) /\ k - 1 \in 0..n
      <4>1. k \in 0..n
        BY <1>8 DEF Sizes
      <4> QED
        BY <2>2, <4>1
    <3>2. k - 1 \notin Sizes(n)
      BY <1>8, <3>1
    <3>3. ~ (size * Doubled[k - 1] >= n)
      BY <3>1, <3>2 DEF Sizes
    <3>4. i + (k - 1) \in Nat
      BY <1>3, <3>1
    <3>5. PICK d \in Nat : d = Doubled[i + (k - 1)] /\ d > i + (k - 1)
      BY <3>4, DoubledGrows
    <3>6. size * Doubled[k - 1] = BuffSize * d
      BY <1>11, <3>1, <3>5
    <3>7. BuffSize * d \in Nat /\ BuffSize * d >= d
      BY <1>2
    <3>8. d < n
      BY <3>3, <3>5, <3>6, <3>7
    <3> QED
      BY <1>2, <1>3, <3>5, <3>8
  <2> QED
    BY <2>1, <2>2
<1>13. Grown(n) = BuffSize * Doubled[i + k]
  BY <1>9, <1>11
<1> QED
  BY <1>9, <1>10, <1>12, <1>13

-----------------------------------------------------------------------------
(* The steps of the parent that move bytes.                                *)

(* A line that is cut off the front of the buffer.                         *)
LEMMA EmitMoves ==
    ASSUME TypeOK, NEW n \in 1..Len(str), Emit(n)
    PROVE  /\ lines' \in Seq(Texts) /\ str' \in Texts
           /\ Len(str') = Len(str) - n
           /\ FlattenSeq(lines') \o str' = FlattenSeq(lines) \o str
<1> DEFINE line == SubSeq(str, 1, n)
<1>1. /\ lines \in Seq(Seq(Byte)) /\ FlattenSeq(lines) \in Seq(Byte)
      /\ str \in Seq(Byte) /\ Len(str) \in Nat /\ Len(str) <= MaxText
  BY LinesAre, TextsAre DEF TypeOK
<1>2. \A i \in 1..Len(str) : str[i] \in Byte
  BY <1>1, LenProperties
<1>3. line \in Seq(Byte) /\ Len(line) = n
  BY <1>1, <1>2, SubSeqProperties
<1>4. str' \in Seq(Byte) /\ Len(str') = Len(str) - n
  <2>1. str' = SubSeq(str, n + 1, Len(str))
    BY DEF Emit
  <2>2. \A i \in (n + 1)..Len(str) : str[i] \in Byte
    BY <1>2
  <2>3. /\ SubSeq(str, n + 1, Len(str)) \in Seq(Byte)
        /\ Len(SubSeq(str, n + 1, Len(str))) =
               IF n + 1 <= Len(str) THEN Len(str) - (n + 1) + 1 ELSE 0
    BY <1>1, <2>2, SubSeqProperties
  <2> QED
    BY <1>1, <2>1, <2>3
<1>5. line \in Texts /\ str' \in Texts
  <2>1. Len(line) <= MaxText /\ Len(str') <= MaxText
    BY <1>1, <1>3, <1>4, SizeAssumption DEF SizeAssumption
  <2> HIDE DEF line
  <2> QED
    BY <1>3, <1>4, <2>1, TextsAre
<1>6. line \o str' = str
  <2>1. SubSeq(str, 1, n) \o SubSeq(str, n + 1, Len(str))
            = SubSeq(str, 1, Len(str))
    <3>1. 1 \in 1..(Len(str) + 1) /\ n \in (1 - 1)..Len(str)
          /\ Len(str) \in n..Len(str)
      BY <1>1
    <3> QED
      BY <1>1, <3>1, ConcatAdjacentSubSeq
  <2> QED
    BY <1>1, <2>1, SubSeqFull DEF Emit
<1>7. lines' = Append(lines, line)
  BY DEF Emit
<1> HIDE DEF line
<1>8. lines' \in Seq(Texts)
  BY <1>5, <1>7, AppendProperties DEF TypeOK
<1>9. FlattenSeq(lines') \o str' = FlattenSeq(lines) \o str
  <2>1. FlattenSeq(lines') = FlattenSeq(lines) \o line
    BY <1>1, <1>3, <1>7, FlattenAppend
  <2>2. (FlattenSeq(lines) \o line) \o str' = FlattenSeq(lines) \o (line \o str')
    <3>1. /\ FlattenSeq(lines) \in Seq(Byte)
          /\ line \in Seq(Byte) /\ str' \in Seq(Byte)
      BY <1>1, <1>3, <1>4
    <3> QED
      BY <3>1, Concat, ZenonT(30)
  <2> QED
    BY <1>6, <2>1, <2>2
<1> QED
  BY <1>4, <1>5, <1>8, <1>9

(* A read moves bytes from the pipe to the end of the buffer.              *)
LEMMA ReadMoves ==
    ASSUME TypeOK, Room, Read
    PROVE  /\ str' \in Texts /\ pipe' \in Texts
           /\ Len(str') + Len(pipe') = Len(str) + Len(pipe)
           /\ Len(pipe') < Len(pipe) /\ Len(pipe') \in Nat
           /\ size' \in {BuffSize * Doubled[k] : k \in 0..MaxText}
           /\ Len(str') < size'
           /\ str' \o pipe' = str \o pipe
           /\ ptr' \in {0, Len(str) + 1}
           /\ \A i \in 1..Len(str) : str'[i] = str[i]
           /\ Len(str') \in Nat
<1>1. /\ str \in Seq(Byte) /\ pipe \in Seq(Byte)
      /\ Len(str) \in Nat /\ Len(pipe) \in Nat /\ Len(pipe) > 0
      /\ Len(str) + Len(pipe) <= MaxText
  <2>1. /\ str \in Seq(Byte) /\ pipe \in Seq(Byte)
        /\ Len(str) \in Nat /\ Len(pipe) \in Nat /\ todo \in Nat
        /\ Len(text) <= MaxText /\ Len(text) \in Nat
    BY LinesAre, TextsAre DEF TypeOK
  <2>2. Len(pipe) > 0
    BY <2>1, EmptySeq DEF Read
  <2> QED
    BY <2>1, <2>2, SizeAssumption DEF Room, SizeAssumption
<1>2. PICK n \in 1..Len(pipe) : n = Min({Len(pipe), Chunk})
  <2>1. {Len(pipe), Chunk} \in SUBSET Nat /\ Chunk >= 1
    BY <1>1, SizeAssumption DEF SizeAssumption
  <2>2. /\ Min({Len(pipe), Chunk}) \in {Len(pipe), Chunk}
        /\ Min({Len(pipe), Chunk}) <= Len(pipe)
    BY <2>1, LeastIs
  <2> QED
    BY <1>1, <2>1, <2>2
<1> DEFINE head == SubSeq(pipe, 1, n)
           tail == SubSeq(pipe, n + 1, Len(pipe))
<1>3. /\ str' = str \o head /\ pipe' = tail
      /\ size' = Grown(Len(str) + n + 1)
      /\ ptr' \in {0, Len(str) + 1}
  BY <1>2 DEF Read
<1>4. \A i \in 1..Len(pipe) : pipe[i] \in Byte
  BY <1>1, LenProperties
<1>5. head \in Seq(Byte) /\ Len(head) = n
  BY <1>1, <1>4, SubSeqProperties
<1>6. tail \in Seq(Byte) /\ Len(tail) = Len(pipe) - n
  <2>1. \A i \in (n + 1)..Len(pipe) : pipe[i] \in Byte
    BY <1>4
  <2>2. /\ tail \in Seq(Byte)
        /\ Len(tail) =
               IF n + 1 <= Len(pipe) THEN Len(pipe) - (n + 1) + 1 ELSE 0
    BY <1>1, <2>1, SubSeqProperties
  <2> QED
    BY <1>1, <2>2
<1>7. head \o tail = pipe
  <2>1. head \o tail = SubSeq(pipe, 1, Len(pipe))
    <3>1. 1 \in 1..(Len(pipe) + 1) /\ n \in (1 - 1)..Len(pipe)
          /\ Len(pipe) \in n..Len(pipe)
      BY <1>1
    <3> QED
      BY <1>1, <3>1, ConcatAdjacentSubSeq
  <2> QED
    BY <1>1, <2>1, SubSeqFull
<1> HIDE DEF head, tail
<1>8. /\ str' \in Seq(Byte) /\ Len(str') = Len(str) + n
      /\ \A i \in 1..Len(str) : str'[i] = str[i]
  <2>1. /\ str \o head \in Seq(Byte)
        /\ Len(str \o head) = Len(str) + Len(head)
        /\ \A i \in 1..(Len(str) + Len(head)) : (str \o head)[i] =
               IF i <= Len(str) THEN str[i] ELSE head[i - Len(str)]
    BY <1>1, <1>5, ConcatProperties
  <2> QED
    BY <1>1, <1>3, <1>5, <2>1
<1>9. str' \in Texts /\ pipe' \in Texts
  <2>1. Len(str') <= MaxText /\ Len(pipe') <= MaxText
    BY <1>1, <1>3, <1>6, <1>8, SizeAssumption DEF SizeAssumption
  <2> QED
    BY <1>3, <1>6, <1>8, <2>1, TextsAre
<1>10. /\ size' \in {BuffSize * Doubled[k] : k \in 0..MaxText}
       /\ size' \in Nat /\ size' >= Len(str) + n + 1
  <2>1. Len(str) + n + 1 \in Nat /\ Len(str) + n + 1 <= MaxText + 1
    BY <1>1, SizeAssumption DEF SizeAssumption
  <2>2. PICK m \in Nat : m = Len(str) + n + 1
    BY <2>1
  <2>3. size' = Grown(m) /\ m <= MaxText + 1
    BY <1>3, <2>1, <2>2
  <2>4. /\ Grown(m) \in {BuffSize * Doubled[k] : k \in 0..MaxText}
        /\ Grown(m) \in Nat /\ Grown(m) >= m
    BY <2>3, GrownEnough DEF TypeOK
  <2> QED
    BY <2>2, <2>3, <2>4
<1>11. str' \o pipe' = str \o pipe
  <2>1. str \in Seq(Byte) /\ head \in Seq(Byte) /\ tail \in Seq(Byte)
    BY <1>1, <1>5, <1>6
  <2>2. (str \o head) \o tail = str \o (head \o tail)
    BY <2>1, Concat, ZenonT(30)
  <2> QED
    BY <1>3, <1>7, <2>2, Zenon
<1> QED
  BY <1>1, <1>3, <1>6, <1>8, <1>9, <1>10, <1>11

(* A write of the child: what goes into the pipe is what it has sent.      *)
LEMMA ChildMoves ==
    ASSUME TypeOK, Room, NEW n \in 1..PipeSize, ChildWrites(n)
    PROVE  /\ pipe' \in Texts /\ Len(pipe') = Len(pipe) + n
           /\ todo' \in 0..Len(text) /\ todo' = todo - n
           /\ \E x \in Seq(Byte) : pipe' = pipe \o x /\ Sent' = Sent \o x
<1> DEFINE sent == Len(text) - todo
           x == SubSeq(text, sent + 1, sent + n)
<1>1. /\ text \in Seq(Byte) /\ pipe \in Seq(Byte)
      /\ Len(text) \in Nat /\ Len(pipe) \in Nat /\ todo \in Nat
      /\ todo <= Len(text) /\ n \in Nat /\ n >= 1 /\ n <= todo
  BY LinesAre, SizeAssumption DEF ChildWrites, SizeAssumption
<1>2. /\ sent \in Nat /\ sent + n \in Nat /\ sent + n <= Len(text)
      /\ Len(text) <= MaxText
      /\ \A i \in 1..Len(text) : text[i] \in Byte
  BY <1>1, TextsAre, LenProperties DEF TypeOK
<1>3. Sent \in Seq(Byte) /\ Len(Sent) = sent
  <2>1. \A i \in 1..sent : text[i] \in Byte
    BY <1>1, <1>2
  <2>2. /\ SubSeq(text, 1, sent) \in Seq(Byte)
        /\ Len(SubSeq(text, 1, sent)) = IF 1 <= sent THEN sent - 1 + 1 ELSE 0
    BY <1>2, <2>1, SubSeqProperties
  <2> QED
    BY <1>2, <2>2 DEF Sent
<1>4. x \in Seq(Byte) /\ Len(x) = n
  <2>1. \A i \in (sent + 1)..(sent + n) : text[i] \in Byte
    BY <1>1, <1>2
  <2>2. /\ x \in Seq(Byte)
        /\ Len(x) = IF sent + 1 <= sent + n THEN (sent + n) - (sent + 1) + 1
                    ELSE 0
    BY <1>1, <1>2, <2>1, SubSeqProperties
  <2> QED
    BY <1>1, <1>2, <2>2
<1>5. /\ pipe' = pipe \o x /\ todo' = todo - n /\ text' = text
  BY <1>3 DEF ChildWrites
<1>6. Sent' = Sent \o x
  <2>1. Sent' = SubSeq(text, 1, sent + n)
    <3>1. Len(text) - todo' = sent + n
      BY <1>1, <1>5
    <3> QED
      BY <1>5, <3>1 DEF Sent
  <2>2. SubSeq(text, 1, sent) \o SubSeq(text, sent + 1, sent + n)
            = SubSeq(text, 1, sent + n)
    <3>1. 1 \in 1..(Len(text) + 1) /\ sent \in (1 - 1)..Len(text)
          /\ sent + n \in sent..Len(text)
      BY <1>1, <1>2
    <3> QED
      BY <1>1, <3>1, ConcatAdjacentSubSeq
  <2> QED
    BY <2>1, <2>2 DEF Sent
<1> HIDE DEF x
<1>7. pipe' \in Seq(Byte) /\ Len(pipe') = Len(pipe) + n
  <2>1. pipe \o x \in Seq(Byte) /\ Len(pipe \o x) = Len(pipe) + Len(x)
    BY <1>1, <1>4, Concat
  <2> QED
    BY <1>4, <1>5, <2>1
<1>8. pipe' \in Texts
  <2>1. Len(pipe') <= MaxText
    BY <1>1, <1>2, <1>7, LinesAre, SizeAssumption DEF Room, SizeAssumption
  <2> QED
    BY <1>7, <2>1, TextsAre
<1>9. todo' \in 0..Len(text)
  BY <1>1, <1>5
<1>10. \E y \in Seq(Byte) : pipe' = pipe \o y /\ Sent' = Sent \o y
  BY <1>4, <1>5, <1>6, Zenon
<1> QED
  BY <1>5, <1>7, <1>8, <1>9, <1>10

LEMMA NextType ==
    ASSUME TypeOK, Room, [Next]_vars
    PROVE  TypeOK' /\ Room'
<1> USE DEF child, sbuff, output, Goes
<1>t. /\ Len(text) \in Nat /\ Len(pipe) \in Nat /\ Len(str) \in Nat
      /\ todo \in Nat /\ MaxText \in Nat /\ Len(text) <= MaxText
      /\ PipeSize \in Nat
  BY LinesAre, TextsAre, SizeAssumption DEF TypeOK, SizeAssumption
<1>1. CASE UNCHANGED vars
  BY <1>1 DEF TypeOK, Room, vars
<1>2. CASE Start \/ Wait \/ Poll \/ ReadNothing \/ ReadEnd
  BY <1>2 DEF Start, Wait, Poll, ReadNothing, ReadEnd, TypeOK, Room, Steps
<1>3. CASE Read
  <2>1. /\ Len(pipe') \in Nat /\ Len(pipe') <= PipeSize
        /\ ptr' \in 0..MaxText + 1
    <3>1. /\ pipe' \in Texts /\ Len(pipe') <= Len(pipe)
          /\ ptr' \in {0, Len(str) + 1}
      BY <1>3, ReadMoves
    <3>2. Len(pipe) <= PipeSize /\ Len(str) <= MaxText
      BY TextsAre DEF TypeOK
    <3>3. Len(pipe') \in Nat
      BY <3>1, TextsAre, LenProperties
    <3> QED
      BY <1>t, <3>1, <3>2, <3>3
  <2> QED
    BY <1>3, <1>t, <2>1, ReadMoves DEF Read, TypeOK, Room, Steps
<1>4. ASSUME NEW n \in 1..Len(str), Emit(n),
             UNCHANGED <<async, child, pipe, size>>,
             pc' \in Steps, exited' \in BOOLEAN, ptr' \in 0..MaxText + 1,
             missed' \in BOOLEAN, stray' \in BOOLEAN
      PROVE  TypeOK' /\ Room'
  <2>1. /\ lines' \in Seq(Texts) /\ str' \in Texts
        /\ Len(str') = Len(str) - n
    BY <1>4, EmitMoves
  <2>2. Len(str') \in Nat /\ Len(str') <= Len(str)
    BY <1>t, <2>1
  <2>3. size \in Nat
    <3>1. PICK k \in 0..MaxText : size = BuffSize * Doubled[k]
      BY DEF TypeOK
    <3>2. k \in Nat /\ Doubled[k] \in Nat /\ BuffSize \in Nat
      BY <1>t, DoubledGrows, SizeAssumption DEF SizeAssumption
    <3> QED
      BY <3>1, <3>2
  <2>4. Len(str') < size /\ Len(str') + Len(pipe) + todo <= Len(text)
    <3>1. Len(str) < size /\ Len(str) + Len(pipe) + todo <= Len(text)
      BY DEF TypeOK, Room
    <3> QED
      BY <1>t, <2>2, <2>3, <3>1
  <2>5. Room'
    BY <1>4, <2>4 DEF Room
  <2>6. UNCHANGED <<async, child, pipe, size>>
    BY <1>4
  <2> QED
    BY <1>4, <2>1, <2>4, <2>5, <2>6 DEF TypeOK
<1>5. CASE Scan
  <2>1. CASE LineFound /\ Emit(Stop) /\ ptr' = 1 /\ UNCHANGED <<pc, missed>>
    <3>1. Stop \in 1..Len(str)
      <4> DEFINE ends == {i \in ptr..Len(str) : str[i] \in {NL, NUL}}
      <4>1. ptr \in Nat /\ ptr >= 1
        BY <1>5, <1>t DEF Scan, TypeOK
      <4>2. ends \in SUBSET Nat /\ (ends # {} => Min(ends) \in ends)
        <5>1. ends \in SUBSET Nat
          BY <1>t, <4>1
        <5> HIDE DEF ends
        <5> QED
          BY <5>1, LeastIs
      <4>3. Stop = IF ends = {} THEN Len(str) + 1 ELSE Min(ends)
        BY DEF Stop
      <4>4. Stop <= Len(str)
        BY <2>1 DEF LineFound
      <4>5. ends # {}
        BY <1>t, <4>3, <4>4
      <4>6. Min(ends) \in ptr..Len(str)
        BY <4>2, <4>5
      <4> HIDE DEF ends
      <4> QED
        BY <1>t, <4>1, <4>3, <4>5, <4>6
    <3> QED
      BY <1>4, <1>5, <1>t, <2>1, <3>1 DEF Scan, TypeOK
  <2>2. CASE ~ LineFound
    BY <1>5, <2>2 DEF Scan, TypeOK, Room, Steps
  <2> QED
    BY <1>5, <2>1, <2>2 DEF Scan
<1>6. CASE ScanStale
  <2>0. /\ UNCHANGED <<async, child, pipe, exited, size>>
        /\ ptr' \in 0..MaxText + 1 /\ missed' \in BOOLEAN
        /\ stray' \in BOOLEAN /\ pc' \in Steps
        /\ exited' \in BOOLEAN
    <3>1. /\ UNCHANGED <<async, child, pipe, exited, size>>
          /\ ptr' = 1 /\ missed' = TRUE
          /\ pc' = pc \/ pc' \in {"poll", "crashed"}
          /\ stray' = stray \/ stray' = TRUE
      BY <1>6 DEF ScanStale
    <3>2. pc' \in Steps
      BY <3>1 DEF TypeOK, Steps
    <3>3. stray' \in BOOLEAN /\ missed' \in BOOLEAN /\ exited' \in BOOLEAN
      BY <3>1 DEF TypeOK
    <3>4. ptr' \in 0..MaxText + 1
      BY <1>t, <3>1
    <3> QED
      BY <3>1, <3>2, <3>3, <3>4
  <2>1. ASSUME NEW n \in 1..Len(str), Emit(n)
        PROVE  TypeOK' /\ Room'
    BY <1>4, <2>0, <2>1
  <2>2. CASE UNCHANGED <<str, lines>>
    BY <2>0, <2>2 DEF TypeOK, Room
  <2>3. CASE lines' = Append(lines, LastLine) /\ UNCHANGED str
    <3>1. LastLine \in Texts
      <4>1. CASE lines = <<>>
        <5>1. <<>> \in Texts
          <6>1. <<>> \in Seq(Byte) /\ Len(<<>>) = 0
            OBVIOUS
          <6>2. MaxText \in Nat
            BY SizeAssumption DEF SizeAssumption
          <6> QED
            <7>1. PICK e : e = <<>>
              OBVIOUS
            <7>2. e \in Seq(Byte) /\ Len(e) <= MaxText
              BY <6>1, <6>2, <7>1
            <7>3. e \in Texts
              BY <7>2, TextsAre
            <7> QED
              BY <7>1, <7>3
        <5> QED
          BY <4>1, <5>1 DEF LastLine
      <4>2. CASE lines # <<>>
        <5>1. Len(lines) \in 1..Len(lines)
          BY <4>2, EmptySeq DEF TypeOK
        <5> QED
          BY <4>2, <5>1, LenProperties DEF TypeOK, LastLine, Last
      <4> QED
        BY <4>1, <4>2
    <3>2. lines' \in Seq(Texts)
      BY <2>3, <3>1, AppendProperties DEF TypeOK
    <3> QED
      BY <2>0, <2>3, <3>2 DEF TypeOK, Room
  <2> QED
    BY <1>6, <2>1, <2>2, <2>3 DEF ScanStale
<1>7. CASE Finish
  <2>1. CASE str # <<>>
    <3>1. Len(str) \in 1..Len(str)
      BY <1>t, <2>1, EmptySeq, LinesAre
    <3> QED
      BY <1>4, <1>7, <2>1, <3>1 DEF Finish, TypeOK, Steps
  <2>2. CASE str = <<>>
    BY <1>7, <2>2 DEF Finish, TypeOK, Room, Steps
  <2> QED
    BY <2>1, <2>2
<1>8. ASSUME NEW n \in 1..PipeSize, ChildWrites(n)
      PROVE  TypeOK' /\ Room'
  <2>1. n \in Nat /\ Len(pipe) + n <= PipeSize
    BY <1>8, <1>t DEF ChildWrites
  <2>2. /\ pipe' \in Texts /\ Len(pipe') = Len(pipe) + n
        /\ todo' \in 0..Len(text) /\ todo' = todo - n
    BY <1>8, ChildMoves
  <2>3. /\ UNCHANGED <<async, pc, writers, alive, text, exited, str, size>>
        /\ UNCHANGED <<ptr, lines, missed, stray>>
    BY <1>8 DEF ChildWrites
  <2> QED
    BY <1>t, <2>1, <2>2, <2>3 DEF TypeOK, Room
<1>9. CASE ChildCloses \/ ChildExits \/ ChildDies
  BY <1>9 DEF ChildCloses, ChildExits, ChildDies, TypeOK, Room
<1> QED
  BY <1>1, <1>2, <1>3, <1>5, <1>6, <1>7, <1>8, <1>9
  DEF Next, Parent, Child, Returned

(* The line end that a scan finds is the first one from ptr on, and there  *)
(* is none when it comes to the end of the string.                         *)
LEMMA FoundAt ==
    ASSUME TypeOK, ptr # 0
    PROVE  /\ LineFound => /\ Stop \in 1..Len(str) /\ str[Stop] = NL
                           /\ \A i \in ptr..(Stop - 1) : str[i] # NL
           /\ ~ (Stop <= Len(str)) => \A i \in ptr..Len(str) : str[i] # NL
<1> DEFINE ends == {i \in ptr..Len(str) : str[i] \in {NL, NUL}}
<1>1. ptr \in Nat /\ ptr >= 1 /\ Len(str) \in Nat
  BY LinesAre, SizeAssumption DEF TypeOK, SizeAssumption
<1>2. Stop = IF ends = {} THEN Len(str) + 1 ELSE Min(ends)
  BY DEF Stop
<1>3. ends \in SUBSET Nat
  BY <1>1
<1>4. ASSUME ends # {} PROVE Stop \in ends /\ \A i \in ends : Stop <= i
  <2> HIDE DEF ends
  <2> QED
    BY <1>2, <1>3, <1>4, LeastIs
<1>5. CASE ends = {}
  BY <1>1, <1>2, <1>5 DEF LineFound
<1>6. CASE ends # {}
  <2>1. Stop \in ptr..Len(str) /\ Stop \in 1..Len(str)
    BY <1>1, <1>4, <1>6
  <2>2. \A i \in ptr..(Stop - 1) : str[i] # NL
    <3> SUFFICES ASSUME NEW i \in ptr..(Stop - 1), str[i] = NL PROVE FALSE
      OBVIOUS
    <3>1. i \in ends /\ ~ (Stop <= i)
      BY <1>1, <2>1
    <3> QED
      BY <1>4, <1>6, <3>1
  <2> QED
    BY <1>1, <2>1, <2>2 DEF LineFound
<1> QED
  BY <1>5, <1>6

-----------------------------------------------------------------------------
(* The other parts of the invariant.                                       *)

LEMMA NextEnded ==
    ASSUME TypeOK, Ended, [Next]_vars
    PROVE  Ended'
<1> USE DEF child, sbuff, output, Goes, Ended
<1>1. CASE UNCHANGED vars
  BY <1>1 DEF vars
<1>2. CASE Start \/ Wait \/ ReadNothing \/ ReadEnd
  BY <1>2 DEF Start, Wait, ReadNothing, ReadEnd
<1>p. CASE Poll
  <2>1. /\ pc' = "read" /\ UNCHANGED <<alive, pipe, writers>>
        /\ exited' <=> exited \/ ~ alive
    BY <1>p, Zenon DEF Poll
  <2> QED
    BY <2>1
<1>3. CASE Read
  BY <1>3 DEF Read
<1>4. CASE Scan \/ ScanStale
  BY <1>4 DEF Scan, ScanStale
<1>5. CASE Finish
  BY <1>5 DEF Finish
<1>6. ASSUME NEW n \in 1..PipeSize, ChildWrites(n)
      PROVE  Ended'
  BY <1>6 DEF ChildWrites
<1>7. CASE ChildCloses \/ ChildExits \/ ChildDies
  BY <1>7 DEF ChildCloses, ChildExits, ChildDies
<1> QED
  BY <1>1, <1>2, <1>p, <1>3, <1>4, <1>5, <1>6, <1>7
  DEF Next, Parent, Child, Returned

(* The bytes are moved from one place to the next, none is dropped.        *)
LEMMA NextBytes ==
    ASSUME TypeOK, Room, NothingLost, [Next]_vars
    PROVE  NothingLost'
<1> USE DEF child, sbuff, output, Goes
<1> DEFINE flat == FlattenSeq(lines)
<1>t. /\ flat \in Seq(Byte) /\ str \in Seq(Byte) /\ pipe \in Seq(Byte)
  BY LinesAre
<1>1. CASE UNCHANGED <<str, pipe, lines, stray, text, todo>>
  BY <1>1 DEF NothingLost, Sent
<1>2. CASE Read
  <2>1. str' \o pipe' = str \o pipe /\ str' \in Seq(Byte) /\ pipe' \in Seq(Byte)
    BY <1>2, ReadMoves, TextsAre
  <2>2. (flat \o str') \o pipe' = (flat \o str) \o pipe
    <3>1. (flat \o str') \o pipe' = flat \o (str' \o pipe')
      <4>1. PICK a \in Seq(Byte), b \in Seq(Byte) : a = str' /\ b = pipe'
        BY <2>1
      <4>2. PICK c \in Seq(Byte) : c = flat
        BY <1>t
      <4>3. (c \o a) \o b = c \o (a \o b)
        BY Concat
      <4> QED
        BY <4>1, <4>2, <4>3
    <3>2. (flat \o str) \o pipe = flat \o (str \o pipe)
      BY <1>t, Concat, ZenonT(30)
    <3> QED
      BY <2>1, <3>1, <3>2, Zenon
  <2>3. UNCHANGED <<lines, stray, text, todo>>
    BY <1>2 DEF Read
  <2> QED
    BY <2>2, <2>3 DEF NothingLost, Sent
<1>3. ASSUME NEW n \in 1..Len(str), Emit(n), UNCHANGED <<pipe, stray, text, todo>>
      PROVE  NothingLost'
  BY <1>3, EmitMoves DEF NothingLost, Sent
<1>4. CASE Scan
  <2>1. CASE LineFound /\ Emit(Stop)
    BY <1>3, <1>4, <2>1, FoundAt DEF Scan
  <2>2. CASE ~ LineFound
    BY <1>1, <1>4, <2>2 DEF Scan
  <2> QED
    BY <1>4, <2>1, <2>2 DEF Scan
<1>5. CASE ScanStale
  <2>1. CASE stray'
    BY <2>1 DEF NothingLost
  <2>2. CASE UNCHANGED <<str, lines, stray>>
    BY <1>1, <1>5, <2>2 DEF ScanStale
  <2> QED
    BY <1>5, <2>1, <2>2 DEF ScanStale
<1>6. CASE Finish
  <2>1. CASE str # <<>>
    <3>1. Len(str) \in 1..Len(str)
      BY <1>t, <2>1, EmptySeq
    <3> QED
      BY <1>3, <1>6, <2>1, <3>1 DEF Finish
  <2>2. CASE str = <<>>
    BY <1>1, <1>6, <2>2 DEF Finish
  <2> QED
    BY <2>1, <2>2
<1>7. ASSUME NEW n \in 1..PipeSize, ChildWrites(n)
      PROVE  NothingLost'
  <2>1. PICK x \in Seq(Byte) : pipe' = pipe \o x /\ Sent' = Sent \o x
    BY <1>7, ChildMoves
  <2>2. (flat \o str) \o (pipe \o x) = ((flat \o str) \o pipe) \o x
    <3>1. flat \o str \in Seq(Byte)
      BY <1>t, Concat, ZenonT(30)
    <3> QED
      BY <1>t, <2>1, <3>1, Concat, ZenonT(30)
  <2>3. UNCHANGED <<str, lines, stray>>
    BY <1>7 DEF ChildWrites
  <2>4. CASE stray
    BY <2>3, <2>4 DEF NothingLost
  <2>5. CASE ~ stray
    <3>1. (flat \o str) \o pipe = Sent
      BY <2>5 DEF NothingLost
    <3>2. (FlattenSeq(lines') \o str') \o pipe' = Sent'
      BY <2>1, <2>2, <2>3, <3>1
    <3> QED
      BY <3>2 DEF NothingLost
  <2> QED
    BY <2>4, <2>5
<1>8. CASE \/ Start \/ Wait \/ Poll \/ ReadNothing \/ ReadEnd
           \/ ChildCloses \/ ChildExits \/ ChildDies
  BY <1>1, <1>8
  DEF Start, Wait, Poll, ReadNothing, ReadEnd, ChildCloses, ChildExits,
      ChildDies
<1> QED
  BY <1>1, <1>2, <1>4, <1>5, <1>6, <1>7, <1>8
  DEF Next, Parent, Child, Returned, vars

(* A line that Scan cuts off ends at its only line end.                    *)
LEMMA LineCut ==
    ASSUME TypeOK, NEW n \in 1..Len(str), Emit(n)
    PROVE  /\ lines' = Append(lines, SubSeq(str, 1, n))
           /\ SubSeq(str, 1, n) \in Texts /\ Len(SubSeq(str, 1, n)) = n
           /\ Ends(SubSeq(str, 1, n)) = {i \in 1..n : str[i] = NL}
<1> DEFINE line == SubSeq(str, 1, n)
<1>1. str \in Seq(Byte) /\ Len(str) \in Nat
  BY LinesAre
<1>2. \A i \in 1..n : str[i] \in Byte
  BY <1>1, LenProperties
<1>3. /\ line \in Seq(Byte) /\ Len(line) = n
      /\ \A i \in 1..n : line[i] = str[i]
  <2>1. /\ line \in Seq(Byte) /\ Len(line) = IF 1 <= n THEN n - 1 + 1 ELSE 0
        /\ \A i \in 1..(n - 1 + 1) : line[i] = str[1 + i - 1]
    BY <1>1, <1>2, SubSeqProperties
  <2>2. \A i \in 1..n : i \in 1..(n - 1 + 1) /\ 1 + i - 1 = i
    BY <1>1
  <2> QED
    BY <1>1, <2>1, <2>2
<1>4. lines' = Append(lines, line)
  BY DEF Emit
<1> HIDE DEF line
<1>5. DOMAIN line = 1..n
  BY <1>3, LenProperties
<1>6. Ends(line) = {i \in 1..n : str[i] = NL}
  BY <1>3, <1>5 DEF Ends
<1>7. line \in Texts
  <2>1. n <= MaxText
    BY <1>1, TextsAre, SizeAssumption DEF TypeOK, SizeAssumption
  <2> QED
    BY <1>3, <2>1, TextsAre
<1> QED
  BY <1>3, <1>4, <1>6, <1>7 DEF line

LEMMA NextScanned ==
    ASSUME TypeOK, Room, Scanned, LinesWhole, [Next]_vars
    PROVE  Scanned' /\ LinesWhole'
<1> USE DEF child, sbuff, output, Goes
<1>t. /\ str \in Seq(Byte) /\ Len(str) \in Nat /\ DOMAIN str = 1..Len(str)
      /\ Len(lines) \in Nat /\ DOMAIN lines = 1..Len(lines)
      /\ lines \in Seq(Texts)
  BY LinesAre, LenProperties DEF TypeOK
<1>1. CASE missed'
  BY <1>1 DEF Scanned, LinesWhole
<1>2. CASE ~ missed' /\ UNCHANGED <<str, ptr, lines, pc>>
  <2>1. ~ missed
    BY <1>2 DEF Next, Parent, Child, Returned, Start, Wait, Poll, Read,
                ReadNothing, ReadEnd, Scan, ScanStale, Finish, ChildWrites,
                ChildExits, ChildCloses, ChildDies, vars
  <2> QED
    BY <1>2, <2>1 DEF Scanned, LinesWhole, Ends
<1>3. ASSUME ~ missed, UNCHANGED <<str, lines>>, pc # "scan", pc' # "scan",
             pc # "done", pc' # "done"
      PROVE  Scanned' /\ LinesWhole'
  BY <1>3 DEF Scanned, LinesWhole, Ends
<1>4. CASE ~ missed' /\ (Start \/ Wait \/ Poll \/ ReadNothing \/ ReadEnd)
  BY <1>3, <1>4 DEF Start, Wait, Poll, ReadNothing, ReadEnd
<1>5. CASE ~ missed' /\ Read
  <2>1. /\ ~ missed /\ pc = "read" /\ pc' = "scan" /\ UNCHANGED lines
    BY <1>5 DEF Read
  <2>2. Ends(str) = {}
    BY <2>1 DEF Scanned
  <2>3. \A i \in 1..Len(str) : str[i] # NL
    BY <1>t, <2>2 DEF Ends
  <2>4. /\ ptr' \in {0, Len(str) + 1} /\ str' \in Seq(Byte)
        /\ \A i \in 1..Len(str) : str'[i] = str[i]
    BY <1>5, ReadMoves, TextsAre
  <2>5. DOMAIN str' = 1..Len(str') /\ Len(str') \in Nat
    BY <2>4, LenProperties
  <2>6. \A i \in Ends(str') : i >= ptr'
    <3> SUFFICES ASSUME NEW i \in 1..Len(str'), str'[i] = NL
                 PROVE  i >= ptr'
      BY <2>5 DEF Ends
    <3>1. ~ (i <= Len(str))
      BY <2>3, <2>4
    <3> QED
      BY <1>t, <2>4, <3>1
  <2>7. Scanned'
    BY <2>1, <2>6 DEF Scanned, Ends
  <2>8. LinesWhole'
    BY <2>1 DEF LinesWhole, Ends
  <2> QED
    BY <2>7, <2>8
<1>6. ASSUME NEW n \in 1..Len(str), Emit(n), ~ missed, pc # "done",
             LET ends == {i \in 1..n : str[i] = NL}
             IN ends = {n} \/ (pc' = "done" /\ ends = {})
      PROVE  LinesWhole'
  <2> DEFINE line == SubSeq(str, 1, n)
  <2>1. /\ lines' = Append(lines, line) /\ Len(line) = n
        /\ Ends(line) = {i \in 1..n : str[i] = NL}
    BY <1>6, LineCut
  <2>2. \A i \in 1..Len(lines) : Ends(lines[i]) = {Len(lines[i])}
    BY <1>t, <1>6 DEF LinesWhole
  <2>3. Ends(line) = {Len(line)} \/ (pc' = "done" /\ Ends(line) = {})
    BY <1>6, <2>1
  <2> HIDE DEF line
  <2>4. line \in Texts
    BY <1>6, LineCut DEF line
  <2>5. /\ Len(lines') = Len(lines) + 1 /\ lines' \in Seq(Texts)
        /\ \A i \in 1..Len(lines) : lines'[i] = lines[i]
        /\ lines'[Len(lines) + 1] = line
    BY <1>t, <2>1, <2>4, AppendProperties
  <2>6. DOMAIN lines' = 1..(Len(lines) + 1)
    BY <2>5, LenProperties
  <2>7. ASSUME NEW i \in 1..(Len(lines) + 1)
        PROVE  \/ Ends(lines'[i]) = {Len(lines'[i])}
               \/ pc' = "done" /\ i = Len(lines') /\ Ends(lines'[i]) = {}
    <3>1. CASE i \in 1..Len(lines)
      BY <2>2, <2>5, <3>1
    <3>2. CASE i = Len(lines) + 1
      BY <2>3, <2>5, <3>2
    <3> QED
      BY <1>t, <3>1, <3>2
  <2> QED
    BY <2>6, <2>7 DEF LinesWhole, Ends
<1>7. CASE ~ missed' /\ Scan
  <2>1. ~ missed /\ pc = "scan" /\ ptr # 0 /\ ptr \in Nat
    BY <1>7, SizeAssumption DEF Scan, TypeOK, SizeAssumption
  <2>2. \A i \in 1..Len(str) : str[i] = NL => i >= ptr
    BY <1>t, <2>1 DEF Scanned, Ends
  <2>3. CASE LineFound /\ Emit(Stop) /\ ptr' = 1 /\ UNCHANGED pc
    <3>1. PICK n \in 1..Len(str) : n = Stop
      BY <2>1, <2>3, FoundAt
    <3>2. str[n] = NL /\ \A i \in ptr..(n - 1) : str[i] # NL
      BY <2>1, <2>3, <3>1, FoundAt
    <3>3. {i \in 1..n : str[i] = NL} = {n}
      BY <1>t, <2>1, <2>2, <3>2
    <3>4. LinesWhole'
      BY <1>6, <2>1, <2>3, <3>1, <3>3
    <3>5. str' \in Seq(Byte)
      BY <2>3, <3>1, EmitMoves, TextsAre
    <3>6. \A i \in Ends(str)' : i >= 1
      BY <3>5, LenProperties DEF Ends
    <3> QED
      BY <2>1, <2>3, <3>4, <3>6 DEF Scanned
  <2>4. CASE ~ LineFound /\ UNCHANGED <<str, ptr, lines>> /\ pc' = "poll"
             /\ ~ (Stop <= Len(str))
    <3>1. \A i \in ptr..Len(str) : str[i] # NL
      BY <2>1, <2>4, FoundAt
    <3>2. Ends(str) = {}
      BY <1>t, <2>1, <2>2, <3>1 DEF Ends
    <3> QED
      BY <2>1, <2>4, <3>2 DEF Scanned, LinesWhole, Ends
  <2> QED
    BY <1>7, <2>3, <2>4 DEF Scan
<1>8. CASE ~ missed' /\ Finish
  <2>1. ~ missed /\ pc = "reap" /\ pc' = "done"
    BY <1>8 DEF Finish
  <2>2. \A i \in 1..Len(str) : str[i] # NL
    BY <1>t, <2>1 DEF Scanned, Ends
  <2>3. CASE str # <<>>
    <3>1. Len(str) \in 1..Len(str)
      BY <1>t, <2>3, EmptySeq
    <3>2. Emit(Len(str))
      BY <1>8, <2>3 DEF Finish
    <3>3. {i \in 1..Len(str) : str[i] = NL} = {}
      BY <2>2
    <3>4. LinesWhole'
      BY <1>6, <2>1, <3>1, <3>2, <3>3
    <3>5. str' \in Seq(Byte) /\ Len(str') = 0
      <4>1. str' \in Texts /\ Len(str') = Len(str) - Len(str)
        BY <3>1, <3>2, EmitMoves
      <4> QED
        BY <1>t, <4>1, TextsAre
    <3>6. Ends(str)' = {}
      BY <3>5, LenProperties DEF Ends
    <3> QED
      BY <2>1, <3>4, <3>6 DEF Scanned
  <2>4. CASE UNCHANGED <<str, lines>>
    <3>1. Ends(str) = {}
      BY <2>1 DEF Scanned
    <3> QED
      BY <2>1, <2>4, <3>1 DEF Scanned, LinesWhole, Ends
  <2> QED
    BY <1>8, <2>3, <2>4 DEF Finish
<1> QED
  BY <1>1, <1>2, <1>4, <1>5, <1>7, <1>8
  DEF Next, Parent, Child, Returned, vars, ScanStale, ChildWrites,
      ChildExits, ChildCloses, ChildDies

-----------------------------------------------------------------------------
(* The theorems.                                                           *)

LEMMA InitEmitter == Init => EmitterInv
<1> SUFFICES ASSUME Init PROVE EmitterInv
  OBVIOUS
<1>1. /\ text \in Seq(Byte) /\ Len(text) \in Nat /\ <<>> \in Seq(Byte)
      /\ <<>> \in Texts /\ Len(<<>>) = 0
  <2>1. text \in Texts
    BY DEF Init
  <2>2. <<>> \in Seq(Byte) /\ Len(<<>>) = 0 /\ 0 <= MaxText
    BY EmptySeq, SizeAssumption DEF SizeAssumption
  <2>3. text \in Seq(Byte) /\ Len(text) \in Nat
    BY <2>1, TextsAre, LenProperties
  <2> QED
    BY <2>2, <2>3, TextsAre
<1>2. BuffSize \in {BuffSize * Doubled[k] : k \in 0..MaxText} /\ BuffSize > 0
  <2>1. BuffSize * Doubled[0] = BuffSize /\ 0 \in 0..MaxText /\ BuffSize > 0
    BY DoubledDefined, SizeAssumption DEF SizeAssumption
  <2> QED
    BY <2>1
<1>3. TypeOK
  <2>1. <<>> \in Seq(Texts) /\ MaxText \in Nat /\ PipeSize \in Nat
    BY EmptySeq, SizeAssumption DEF SizeAssumption
  <2>2. /\ str = <<>> /\ pipe = <<>> /\ lines = <<>> /\ size = BuffSize
        /\ ptr = 1 /\ todo = Len(text) /\ text \in Texts
        /\ async \in BOOLEAN /\ pc \in Steps /\ writers = {}
        /\ alive = FALSE /\ exited = FALSE /\ missed = FALSE
        /\ stray = FALSE
    BY DEF Init, Steps
  <2>3. ptr \in 0..MaxText + 1 /\ todo \in 0..Len(text)
    BY <1>1, <2>1, <2>2
  <2>4. /\ alive \in BOOLEAN /\ exited \in BOOLEAN /\ missed \in BOOLEAN
        /\ stray \in BOOLEAN
    BY <2>2
  <2> QED
    BY <1>1, <1>2, <2>1, <2>2, <2>3, <2>4 DEF TypeOK
<1>4. Room
  BY <1>1 DEF Init, Room
<1>5. Ended
  BY DEF Init, Ended
<1>6. NothingLost
  <2>1. FlattenSeq(<<>>) = <<>>
    BY <1>1, FlattenIsFlat
  <2>2. Sent = <<>>
    <3>1. Len(text) - todo = 0
      BY <1>1 DEF Init
    <3> QED
      BY <3>1, SubSeqEmpty DEF Sent
  <2>3. <<>> \o <<>> = <<>>
    BY <1>1, ConcatEmptySeq
  <2> QED
    BY <2>1, <2>2, <2>3 DEF Init, NothingLost
<1>7. Ends(<<>>) = {}
  BY <1>1, LenProperties DEF Ends
<1>8. Scanned
  BY <1>7 DEF Init, Scanned
<1>9. LinesWhole
  <2>1. DOMAIN lines = {}
    BY <1>1, LenProperties DEF Init
  <2> QED
    BY <2>1 DEF LinesWhole
<1> QED
  BY <1>3, <1>4, <1>5, <1>6, <1>8, <1>9 DEF EmitterInv

LEMMA EmitterAlways == Spec => []EmitterInv
<1>1. EmitterInv /\ [Next]_vars => EmitterInv'
  BY NextType, NextEnded, NextBytes, NextScanned DEF EmitterInv
<1> QED
  BY <1>1, InitEmitter, PTL DEF Spec

(* The buffer always has room for what it holds and the NUL byte, however  *)
(* often ct_strbuff_push doubles it, and everything else is in its type.   *)
THEOREM TypeCorrect == Spec => []TypeOK
<1>1. EmitterInv => TypeOK
  BY DEF EmitterInv
<1> QED
  BY <1>1, EmitterAlways, PTL

(* What the child has written is in the lines, the buffer and the pipe,    *)
(* once and in order, unless a scan read the block that was freed.         *)
THEOREM BytesAreKept == Spec => []NothingLost
<1>1. EmitterInv => NothingLost
  BY DEF EmitterInv
<1> QED
  BY <1>1, EmitterAlways, PTL

(* emit is called with one line and its end, except for the last piece, if *)
(* no scan has been made to stop early.                                    *)
THEOREM LinesAreWhole == Spec => []LinesWhole
<1>1. EmitterInv => LinesWhole
  BY DEF EmitterInv
<1> QED
  BY <1>1, EmitterAlways, PTL

(* subp_emitter only returns when the child is gone and the pipe and the   *)
(* buffer are empty: all that was written has been emitted.                *)
LEMMA FinishLast ==
    ASSUME EmitterInv, EmitterInv', Finish
    PROVE  ~ alive /\ (stray \/ FlattenSeq(lines') = Sent)
<1> USE DEF child, Goes
<1>1. pc = "reap" /\ pc' = "done"
  BY DEF Finish
<1>2. ~ alive
  BY DEF Finish, EmitterInv, Ended
<1>3. pipe' = <<>> /\ UNCHANGED <<stray, text, todo>>
  BY <1>1 DEF Finish, EmitterInv, Ended
<1>4. str' = <<>>
  <2>1. CASE str = <<>>
    BY <2>1 DEF Finish
  <2>2. CASE str # <<>>
    <3>1. Len(str) \in Nat
      BY LinesAre DEF EmitterInv
    <3> QED
      BY <2>2, <3>1, SubSeqEmpty DEF Finish, Emit
  <2> QED
    BY <2>1, <2>2
<1>5. FlattenSeq(lines') \in Seq(Byte)
  <2>1. TypeOK'
    BY DEF EmitterInv
  <2>2. lines' \in Seq(Texts)
    BY <2>1 DEF TypeOK
  <2>3. lines' \in Seq(Seq(Byte))
    BY <2>2, SeqOfTexts
  <2> QED
    BY <2>3, FlattenType
<1>6. stray' \/ (FlattenSeq(lines') \o <<>>) \o <<>> = Sent'
  BY <1>3, <1>4 DEF EmitterInv, NothingLost
<1>7. Sent' = Sent
  BY <1>3 DEF Sent
<1>8. (FlattenSeq(lines') \o <<>>) \o <<>> = FlattenSeq(lines')
  BY <1>5, ConcatEmptySeq
<1> QED
  BY <1>2, <1>3, <1>6, <1>7, <1>8

(* done is called once the child has ended and, unless a scan read the     *)
(* block that was freed, with every byte it wrote handed on to emit.       *)
THEOREM DoneComesLast == Spec => DoneLast
<1> DEFINE step == pc' = "done" /\ pc # "done" =>
                       ~ alive /\ (stray \/ FlattenSeq(lines') = Sent)
<1>1. EmitterInv /\ EmitterInv' /\ [Next]_vars => [step]_vars
  <2> SUFFICES ASSUME EmitterInv, EmitterInv', Next,
                      pc' = "done", pc # "done"
               PROVE  ~ alive /\ (stray \/ FlattenSeq(lines') = Sent)
    OBVIOUS
  <2>1. Finish
    BY DEF Next, Parent, Child, Returned, Goes, Start, Wait, Poll, Read,
           ReadNothing, ReadEnd, Scan, ScanStale, ChildWrites, ChildExits,
           ChildCloses, ChildDies, vars
  <2> QED
    BY <2>1, FinishLast
<1> QED
  BY <1>1, EmitterAlways, PTL DEF Spec, DoneLast

-----------------------------------------------------------------------------
(* Who can go on, and how often.                                           *)

(* The child holds the pipe as long as it has something to write, and what *)
(* ct_subp waited for has ended.                                           *)
Turns ==
    /\ writers \subseteq {"child"}
    /\ writers # {} => alive
    /\ alive /\ todo > 0 => writers # {}
    /\ pc = "start" => ~ alive
    /\ pc = "wait" => ~ async
    /\ pc \notin {"start", "wait"} => async \/ exited

LEMMA NextTurns ==
    ASSUME TypeOK, Turns, [Next]_vars
    PROVE  Turns'
<1> USE DEF child, sbuff, output, Goes, Turns
<1>1. CASE UNCHANGED vars
  BY <1>1 DEF vars
<1>s. CASE Start
  <2>1. /\ pc' \in {"wait", "poll"} /\ (pc' = "wait" <=> ~ async)
        /\ alive' = TRUE /\ writers' = {"child"} /\ async' = async
    BY <1>s, Zenon DEF Start
  <2> QED
    BY <2>1
<1>w. CASE Wait
  <2>1. /\ pc' = "poll" /\ exited' = TRUE
        /\ UNCHANGED <<async, alive, writers, todo>>
    BY <1>w DEF Wait
  <2> QED
    BY <2>1
<1>2. CASE Read \/ ReadNothing \/ ReadEnd \/ Scan \/ ScanStale
  <2>1. /\ pc \notin {"start", "wait"} /\ pc' \notin {"start", "wait"}
        /\ UNCHANGED <<async, exited, alive, writers, todo>>
    BY <1>2 DEF Read, ReadNothing, ReadEnd, Scan, ScanStale
  <2> QED
    BY <2>1
<1>3. CASE Poll \/ Finish
  <2>1. /\ pc \notin {"start", "wait"} /\ pc' \notin {"start", "wait"}
        /\ UNCHANGED <<async, alive, writers, todo>>
        /\ exited => exited'
    BY <1>3, Zenon DEF Poll, Finish
  <2> QED
    BY <2>1
<1>4. ASSUME NEW n \in 1..PipeSize, ChildWrites(n)
      PROVE  Turns'
  BY <1>4 DEF ChildWrites
<1>5. CASE ChildCloses \/ ChildExits \/ ChildDies
  <2>1. /\ writers' = {} /\ UNCHANGED <<async, pc, exited, todo>>
        /\ (alive' = alive /\ todo = 0) \/ alive' = FALSE
    BY <1>5 DEF ChildCloses, ChildExits, ChildDies
  <2>2. ~ (todo > 0) \/ ~ alive'
    BY <2>1
  <2>3. pc = "start" => ~ alive'
    BY <2>1
  <2> QED
    BY <2>1, <2>2, <2>3
<1> QED
  BY <1>1, <1>s, <1>w, <1>2, <1>3, <1>4, <1>5 DEF Next, Parent, Child, Returned

(* Until subp_emitter is over, the parent or the child can go on: it       *)
(* is only ever stuck when it was asked to wait for the child first and    *)
(* the output is longer than the pipe.                                     *)
THEOREM OnlyWaitingBlocks == Spec => []OnlyWaitBlocks
<1>1. Init => Turns
  BY DEF Init, Turns
<1>2. TypeOK /\ Turns /\ [Next]_vars => Turns'
  BY NextTurns
<1>3. EmitterInv /\ Turns => OnlyWaitBlocks
  <2> SUFFICES ASSUME EmitterInv, Turns, ~ Over, ~ ParentReady, ~ ChildReady
               PROVE  pc = "wait" /\ ~ async /\ Len(text) > PipeSize
    BY DEF OnlyWaitBlocks
  <2>1. /\ Len(text) \in Nat /\ Len(pipe) \in Nat /\ todo \in Nat
        /\ Len(str) \in Nat /\ PipeSize \in Nat /\ pc \in Steps
    BY LinesAre, SizeAssumption DEF EmitterInv, TypeOK, SizeAssumption
  <2>2. pc \in {"wait", "read", "reap"}
    BY <2>1 DEF Steps, ParentReady, Over
  <2>3. pc # "reap"
    <3> SUFFICES ASSUME pc = "reap" PROVE FALSE
      OBVIOUS
    <3>1. writers = {} /\ alive
      BY DEF ParentReady, EmitterInv, Ended
    <3>2. ~ (todo > 0) /\ todo # 0
      BY <3>1 DEF ChildReady, Turns
    <3> QED
      BY <2>1, <3>2
  <2>4. pc # "read"
    <3> SUFFICES ASSUME pc = "read" PROVE FALSE
      OBVIOUS
    <3>1. ~ async /\ writers # {}
      BY DEF ParentReady
    <3>2. alive /\ exited
      BY <3>1 DEF Turns
    <3> QED
      BY <3>2 DEF EmitterInv, Ended
  <2>5. alive /\ "child" \in writers /\ todo > 0
    <3>1. alive
      BY <2>2, <2>3, <2>4 DEF ParentReady
    <3>2. todo > 0
      BY <2>1, <3>1 DEF ChildReady
    <3>3. writers \subseteq {"child"} /\ writers # {}
      BY <3>1, <3>2 DEF Turns
    <3> QED
      BY <3>1, <3>2, <3>3
  <2>6. Len(text) > PipeSize
    BY <2>1, <2>5 DEF ChildReady, EmitterInv, Room
  <2> QED
    BY <2>2, <2>3, <2>4, <2>6 DEF Turns
<1>4. EmitterInv => TypeOK
  BY DEF EmitterInv
<1> QED
  BY <1>1, <1>2, <1>3, <1>4, EmitterAlways, PTL DEF Spec

(* How much is left to do for both: a byte costs the more the further it   *)
(* is from being emitted.                                                  *)
One(b) == IF b THEN 1 ELSE 0

Phase ==
    CASE pc = "start" -> 6
      [] pc \in {"wait", "scan"} -> 3
      [] pc \in {"poll", "read"} -> 2
      [] pc = "reap" -> 1
      [] OTHER -> 0

Work == 5 * todo + 4 * Len(pipe) + Len(str) + One(ptr = 0) + One(alive)
        + One(writers # {}) + Phase

(* The parent polls, or finds nothing to read and will poll again.         *)
Polls == {pc, pc'} = {"poll", "read"} /\ UNCHANGED <<child, pipe, sbuff, output>>

Nearer == /\ Work \in Nat
          /\ Work' < Work \/ Polls

LEMMA WorkDone ==
    ASSUME TypeOK, TypeOK', Room, Turns, Next
    PROVE  Nearer \/ UNCHANGED vars
<1> USE DEF child, sbuff, output, Goes
<1>1. /\ Len(pipe) \in Nat /\ Len(str) \in Nat /\ todo \in Nat
      /\ Len(pipe') \in Nat /\ Len(str') \in Nat /\ todo' \in Nat
  <2>1. /\ pipe' \in Seq(Byte) /\ str' \in Seq(Byte) /\ text' \in Seq(Byte)
        /\ todo' \in 0..Len(text')
    BY TextsAre DEF TypeOK
  <2> QED
    BY <2>1, LinesAre, LenProperties
<1>2. /\ One(ptr = 0) \in 0..1 /\ One(alive) \in 0..1 /\ One(writers # {}) \in 0..1
      /\ One(ptr' = 0) \in 0..1 /\ One(alive') \in 0..1
      /\ One(writers' # {}) \in 0..1
  BY DEF One
<1>3. Phase \in 0..6 /\ Phase' \in 0..6
  BY DEF Phase
<1>4. Work \in Nat
  <2>1. /\ One(ptr = 0) \in Nat /\ One(alive) \in Nat /\ One(writers # {}) \in Nat
        /\ Phase \in Nat
    BY <1>2, <1>3
  <2> QED
    BY <1>1, <2>1 DEF Work
<1>5. CASE Start
  <2>1. /\ Phase = 6 /\ Phase' <= 3 /\ UNCHANGED <<todo, pipe, str, ptr>>
        /\ ~ alive /\ writers = {}
    BY <1>5 DEF Start, Turns, Phase
  <2> QED
    BY <1>1, <1>2, <1>3, <1>4, <2>1 DEF Work, One, Nearer
<1>6. CASE Wait \/ ReadEnd
  <2>1. /\ Phase' < Phase
        /\ UNCHANGED <<todo, pipe, str, ptr, alive, writers>>
    BY <1>6 DEF Wait, ReadEnd, Phase
  <2> QED
    BY <1>1, <1>2, <1>3, <1>4, <2>1 DEF Work, One, Nearer
<1>7. CASE Poll \/ ReadNothing
  BY <1>4, <1>7, Zenon DEF Poll, ReadNothing, Nearer, Polls
<1>8. CASE Read
  <2>1. /\ Phase = 2 /\ Phase' = 3
        /\ UNCHANGED <<todo, alive, writers>>
        /\ Len(str') + Len(pipe') = Len(str) + Len(pipe)
        /\ Len(pipe') < Len(pipe)
    BY <1>8, ReadMoves DEF Read, Phase
  <2>2. One(ptr' = 0) <= One(ptr = 0) + 1
    BY DEF One
  <2> QED
    BY <1>1, <1>2, <1>3, <1>4, <2>1, <2>2 DEF Work, One, Nearer
<1>9. ASSUME NEW n \in 1..Len(str), Emit(n), Phase' <= Phase,
             One(ptr' = 0) <= One(ptr = 0),
             UNCHANGED <<todo, pipe, alive, writers>>
      PROVE  Nearer
  <2>1. Len(str') = Len(str) - n
    BY <1>9, EmitMoves
  <2> QED
    BY <1>1, <1>2, <1>3, <1>4, <1>9, <2>1 DEF Work, One, Nearer
<1>10. CASE Scan
  <2>1. CASE LineFound
    <3>1. Stop \in 1..Len(str) /\ Emit(Stop)
      BY <1>10, <2>1, FoundAt DEF Scan
    <3>2. /\ Phase' = Phase /\ UNCHANGED <<todo, pipe, alive, writers>>
          /\ One(ptr' = 0) <= One(ptr = 0)
      BY <1>10, <2>1 DEF Scan, Phase, One
    <3> QED
      BY <1>3, <1>9, <3>1, <3>2
  <2>2. CASE ~ LineFound
    <3>1. /\ Phase = 3 /\ Phase' = 2
          /\ UNCHANGED <<todo, pipe, str, ptr, alive, writers>>
      BY <1>10, <2>2 DEF Scan, Phase
    <3> QED
      BY <1>1, <1>2, <1>4, <3>1 DEF Work, One, Nearer
  <2> QED
    BY <2>1, <2>2
<1>11. CASE ScanStale
  <2>1. /\ ptr = 0 /\ ptr' = 1 /\ Phase' <= Phase
        /\ UNCHANGED <<todo, pipe, alive, writers>>
        /\ \/ UNCHANGED str
           \/ \E n \in 1..Len(str) : Emit(n)
    BY <1>11 DEF ScanStale, Phase
  <2>2. One(ptr' = 0) = 0 /\ One(ptr = 0) = 1
    BY <2>1 DEF One
  <2>3. CASE UNCHANGED str
    BY <1>1, <1>2, <1>3, <1>4, <2>1, <2>2, <2>3 DEF Work, One, Nearer
  <2> QED
    BY <1>9, <2>1, <2>2, <2>3
<1>12. CASE Finish
  <2>1. /\ Phase = 1 /\ Phase' = 0
        /\ UNCHANGED <<todo, pipe, ptr, alive, writers>>
    BY <1>12 DEF Finish, Phase
  <2>2. CASE str = <<>>
    <3>1. UNCHANGED str
      BY <1>12, <2>2 DEF Finish
    <3> QED
      BY <1>1, <1>2, <1>4, <2>1, <3>1 DEF Work, One, Nearer
  <2>3. CASE str # <<>>
    <3>1. Len(str) \in 1..Len(str) /\ Emit(Len(str))
      BY <1>1, <1>12, <2>3, LinesAre, EmptySeq DEF Finish
    <3>2. Phase' <= Phase /\ One(ptr' = 0) <= One(ptr = 0)
      BY <1>2, <2>1
    <3> QED
      BY <1>9, <2>1, <3>1, <3>2
  <2> QED
    BY <2>2, <2>3
<1>13. ASSUME NEW n \in 1..PipeSize, ChildWrites(n)
       PROVE  Nearer
  <2>1. /\ Len(pipe') = Len(pipe) + n /\ todo' = todo - n
    BY <1>13, ChildMoves
  <2>2. Phase' = Phase /\ UNCHANGED <<str, ptr, alive, writers>>
    BY <1>13 DEF ChildWrites, Phase
  <2> QED
    BY <1>1, <1>2, <1>3, <1>4, <2>1, <2>2 DEF Work, One, Nearer
<1>14. CASE ChildCloses \/ ChildExits \/ ChildDies
  <2>1. /\ Phase' = Phase /\ UNCHANGED <<todo, pipe, str, ptr>>
        /\ writers' = {}
        /\ \/ UNCHANGED alive /\ writers # {}
           \/ alive /\ ~ alive'
    BY <1>14 DEF ChildCloses, ChildExits, ChildDies, Phase, Turns
  <2>2. /\ One(writers' # {}) = 0 /\ One(alive') <= One(alive)
        /\ One(writers' # {}) + One(alive') < One(writers # {}) + One(alive)
    BY <2>1 DEF One
  <2> QED
    BY <1>1, <1>2, <1>3, <1>4, <2>1, <2>2 DEF Work, One, Nearer
<1> QED
  BY <1>5, <1>6, <1>7, <1>8, <1>10, <1>11, <1>12, <1>13, <1>14
  DEF Next, Parent, Child, Returned

(* Every step of the parent or of the child, a death included, brings the  *)
(* end nearer, but for the parent's polling of a child that says nothing:  *)
(* what the fairness of the child is needed against.                       *)
THEOREM OnlyPollingRepeats == Spec => [][Nearer]_vars
<1>1. Init => Turns
  BY DEF Init, Turns
<1>2. TypeOK /\ Turns /\ [Next]_vars => Turns'
  BY NextTurns
<1>3. EmitterInv /\ EmitterInv' /\ Turns /\ [Next]_vars => [Nearer]_vars
  BY WorkDone DEF EmitterInv
<1>4. EmitterInv => TypeOK
  BY DEF EmitterInv
<1> QED
  BY <1>1, <1>2, <1>3, <1>4, EmitterAlways, PTL DEF Spec
=============================================================================
