---------------------------- MODULE HelpersProofs ----------------------------
(***************************************************************************)
(* Theorems about the algorithms on bytes, for strings and files of any    *)
(* length: the names of san_fname, the comparison of files, the lines of an*)
(* index, remotes and commit ids.                                          *)
(***************************************************************************)
EXTENDS SanName, SequenceLemmas

-----------------------------------------------------------------------------
(* A plain path has one name, which stands for that path: what add stages  *)
(* under the name is what commit and status find again (ent_init).         *)
THEOREM PlainPathsKept ==
    ASSUME NEW path \in Paths, Plain(path)
    PROVE  /\ \E name : Sanitised(path) = {name}
           /\ \A name \in Sanitised(path) : Restored(name) = path
<1>1. PICK n \in Nat : path \in [1..n -> Char]
  BY DEF Paths
<1>2. DOMAIN path = 1..n /\ path = [i \in 1..n |-> path[i]]
  BY <1>1
<1> DEFINE kept == [i \in 1..n |-> IF path[i] = Slash THEN Plus ELSE path[i]]
<1>3. \A i \in 1..n : path[i] \in Char \ {Plus, Sub}
  BY <1>1, <1>2 DEF Plain
<1>4. kept \in [1..n -> Char]
  BY <1>3, CharAssumption
<1>5. Sanitised(path) = {kept}
  <2>1. kept \in Sanitised(path)
    BY <1>2, <1>4 DEF Sanitised
  <2>2. ASSUME NEW name \in Sanitised(path) PROVE name = kept
    BY <1>2, <1>3 DEF Sanitised
  <2>3. QED
    BY <2>1, <2>2
<1>6. Restored(kept) = path
  <2>1. \A i \in 1..n : (IF kept[i] = Plus THEN Slash
                         ELSE IF kept[i] = Sub THEN Plus ELSE kept[i]) = path[i]
    BY <1>3, CharAssumption
  <2>2. DOMAIN kept = 1..n
    OBVIOUS
  <2>3. QED
    BY <1>2, <2>1, <2>2 DEF Restored
<1>7. QED
  BY <1>5, <1>6

(* No two plain paths share a name: a file cannot be staged, or stored,    *)
(* over another one.                                                       *)
THEOREM PlainPathsApart ==
    ASSUME NEW p \in Paths, NEW q \in Paths, Plain(p), Plain(q),
           Sanitised(p) \cap Sanitised(q) # {}
    PROVE  p = q
<1>1. PICK name : name \in Sanitised(p) /\ name \in Sanitised(q)
  OBVIOUS
<1>2. QED
  BY <1>1, PlainPathsKept

(* A path with a '+' may get a name that stands for another path, and the  *)
(* call changes the path itself.                                           *)
THEOREM PlusPathsLost ==
    ASSUME NEW path \in Paths, NEW k \in DOMAIN path, path[k] = Plus
    PROVE  /\ \E name \in Sanitised(path) : Restored(name) # path
           /\ Mangled(path) # path
<1>1. PICK n \in Nat : path \in [1..n -> Char]
  BY DEF Paths
<1>2. DOMAIN path = 1..n
  BY <1>1
<1> DEFINE name == [i \in 1..n |-> IF path[i] = Plus THEN Slash
                                   ELSE IF path[i] = Slash THEN Plus ELSE path[i]]
<1>3. name \in Sanitised(path)
  BY <1>1, <1>2, CharAssumption DEF Sanitised
<1>4. Restored(name)[k] = Slash
  BY <1>2, CharAssumption DEF Restored
<1>5. Mangled(path)[k] = Sub
  BY DEF Mangled
<1> QED
  BY <1>3, <1>4, <1>5, CharAssumption

(* What san_fname does to a path that holds no byte 26.                    *)
THEOREM NamesKept ==
    ASSUME NEW path \in Paths, \A i \in DOMAIN path : path[i] # Sub
    PROVE  NameKept(path)
<1>1. CASE Plain(path)
  <2>1. Mangled(path) = path
    <3>1. PICK n \in Nat : path \in [1..n -> Char]
      BY DEF Paths
    <3>2. DOMAIN path = 1..n /\ path = [i \in 1..n |-> path[i]]
      BY <3>1
    <3>3. Mangled(path) = [i \in 1..n |-> path[i]]
      BY <1>1, <3>2 DEF Mangled, Plain
    <3> QED
      BY <3>2, <3>3
  <2> QED
    BY <1>1, <2>1, PlainPathsKept DEF NameKept
<1>2. CASE ~ Plain(path)
  <2>1. PICK k \in DOMAIN path : path[k] = Plus
    BY <1>2 DEF Plain
  <2> QED
    BY <1>2, <2>1, PlusPathsLost DEF NameKept
<1> QED
  BY <1>1, <1>2

(* The call that a command makes with a path keeps it exactly when it has  *)
(* no '+', for paths of any length.                                        *)
THEOREM PathsKept ==
    ASSUME arg \in Strings
    PROVE  ArgKept
<1>1. PICK n \in 0..MaxString :
          arg \in [1..n -> Letter \cup {":", "/", "@", "+"}]
  BY DEF Strings, BoundedSeq, SeqOf
<1>2. n \in Nat
  BY MaxStringAssumption DEF MaxStringAssumption
<1> DEFINE S == Letter \cup {":", "/", "@", "+"}
<1>3. S \subseteq Char /\ Sub \notin S
  BY ArgAssumption, Zenon DEF ArgAssumption
<1>4. arg \in [1..n -> S]
  BY <1>1
<1> HIDE DEF S
<1>5. arg \in Paths
  BY <1>2, <1>3, <1>4 DEF Paths
<1>6. \A i \in DOMAIN arg : arg[i] # Sub
  BY <1>3, <1>4
<1> QED
  BY <1>5, <1>6, NamesKept DEF ArgKept

-----------------------------------------------------------------------------
(* The comparison of files, whose contents are sequences without NUL.      *)

Content == Seq(Letter)

(* The i-th part of a file of l bytes goes from First(i) to Final(l, i).   *)
First(i) == (i - 1) * CompareSize + 1
Final(l, i) == Min({i * CompareSize, l})
Part(s, i) == SubSeq(s, First(i), Final(Len(s), i))

(* A round reads at least one byte and at most CompareSize, and only the   *)
(* last one reads fewer.                                                   *)
LEMMA RoundBounds ==
    ASSUME NEW s \in Content, NEW i \in Rounds(s)
    PROVE  /\ i \in Nat /\ i >= 1 /\ Len(s) \in Nat
           /\ First(i) \in Nat /\ First(i) >= 1
           /\ Final(Len(s), i) \in Nat /\ Final(Len(s), i) <= Len(s)
           /\ First(i) <= Final(Len(s), i)
           /\ Final(Len(s), i) <= First(i) + CompareSize - 1
           /\ Final(Len(s), i) < Len(s) =>
                  Final(Len(s), i) = First(i) + CompareSize - 1
<1> DEFINE l == Len(s)
           C == CompareSize
<1>1. C \in Nat /\ C >= 1 /\ l \in Nat
  BY CompareSizeAssumption, LenProperties DEF Content, CompareSizeAssumption
<1> HIDE DEF l, C
<1>2. PICK q \in Nat : q = (l + C - 1) \div C
  BY <1>1
<1>3. i \in 1..q
  BY <1>2 DEF Rounds, l, C
<1>4. C * q <= l + C - 1
  BY <1>1, <1>2
<1>5. C * i <= C * q
  BY <1>1, <1>3
<1>6. PICK m \in Nat : m = i * C
  BY <1>1, <1>3
<1>7. m <= l + C - 1 /\ m >= C
  BY <1>1, <1>3, <1>4, <1>5, <1>6
<1>8. First(i) = m - C + 1
  BY <1>1, <1>3, <1>6 DEF First, C
<1>9. Final(l, i) = IF m <= l THEN m ELSE l
  BY <1>1, <1>6, LesserOf DEF Final, C
<1> QED
  BY <1>1, <1>3, <1>7, <1>8, <1>9 DEF l, C

(* Every byte is in a part.                                                *)
LEMMA PartOf ==
    ASSUME NEW s \in Content, NEW j \in 1..Len(s)
    PROVE  \E i \in Rounds(s) : j \in First(i)..Final(Len(s), i)
<1> DEFINE l == Len(s)
           C == CompareSize
<1>1. C \in Nat /\ C >= 1 /\ l \in Nat /\ j \in Nat /\ 1 <= j /\ j <= l
  BY CompareSizeAssumption, LenProperties DEF Content, CompareSizeAssumption
<1> HIDE DEF l, C
<1>2. PICK k \in Nat : k = (j - 1) \div C
  BY <1>1
<1>3. C * k <= j - 1 /\ j - 1 < C * k + C
  BY <1>1, <1>2
<1>4. PICK q \in Nat : q = (l + C - 1) \div C
  BY <1>1
<1>5. l + C - 1 < C * q + C
  BY <1>1, <1>4
<1>6. C * k < C * q
  BY <1>1, <1>3, <1>5
<1>7. ~ (q <= k)
  <2>1. ASSUME q <= k PROVE C * q <= C * k
    BY <1>1, <2>1
  <2> QED
    BY <1>1, <1>6, <2>1
<1>8. k + 1 \in Rounds(s)
  BY <1>4, <1>7 DEF Rounds, l, C
<1>9. First(k + 1) = C * k + 1 /\ (k + 1) * C = C * k + C
  BY <1>1 DEF First, C
<1>10. Final(l, k + 1) = IF C * k + C <= l THEN C * k + C ELSE l
  <2>1. PICK m \in Nat : m = (k + 1) * C
    BY <1>1
  <2> QED
    BY <1>1, <1>9, <2>1, LesserOf DEF Final, C
<1>11. j \in First(k + 1)..Final(l, k + 1)
  <2>1. PICK m \in Nat : m = C * k
    BY <1>1
  <2> QED
    BY <1>1, <1>3, <1>9, <1>10, <2>1
<1> QED
  BY <1>8, <1>11 DEF l

LEMMA PartIs ==
    ASSUME NEW s \in Content, NEW i \in Rounds(s)
    PROVE  /\ Part(s, i) \in Content
           /\ Len(Part(s, i)) = Final(Len(s), i) - First(i) + 1
           /\ \A j \in First(i)..Final(Len(s), i) :
                  Part(s, i)[j - First(i) + 1] = s[j]
<1>1. PICK a \in Nat, b \in Nat : a = First(i) /\ b = Final(Len(s), i)
  BY RoundBounds
<1>2. 1 <= a /\ a <= b /\ b <= Len(s) /\ Len(s) \in Nat
  BY <1>1, RoundBounds
<1>3. \A j \in a..b : s[j] \in Letter
  BY <1>2, LenProperties DEF Content
<1>4. /\ SubSeq(s, a, b) \in Seq(Letter)
      /\ Len(SubSeq(s, a, b)) = IF a <= b THEN b - a + 1 ELSE 0
      /\ \A k \in 1..(b - a + 1) : SubSeq(s, a, b)[k] = s[a + k - 1]
  BY <1>3, SubSeqProperties
<1>5. ASSUME NEW j \in a..b PROVE SubSeq(s, a, b)[j - a + 1] = s[j]
  <2>1. j - a + 1 \in 1..(b - a + 1) /\ a + (j - a + 1) - 1 = j
    BY <1>2
  <2> QED
    BY <1>4, <2>1
<1> QED
  BY <1>1, <1>2, <1>4, <1>5 DEF Part, Content

(* Two files of one length that agree in every part are equal.             *)
LEMMA PartsDecide ==
    ASSUME NEW s \in Content, NEW t \in Content, Len(s) = Len(t),
           \A i \in Rounds(s) : Part(s, i) = Part(t, i)
    PROVE  s = t
<1>1. \A j \in 1..Len(s) : s[j] = t[j]
  <2> SUFFICES ASSUME NEW j \in 1..Len(s) PROVE s[j] = t[j]
    OBVIOUS
  <2>1. PICK i \in Rounds(s) : j \in First(i)..Final(Len(s), i)
    BY PartOf
  <2>2. i \in Rounds(t)
    BY <2>1 DEF Rounds
  <2>3. Part(s, i)[j - First(i) + 1] = s[j]
    BY <2>1, PartIs
  <2>4. Part(t, i)[j - First(i) + 1] = t[j]
    BY <2>1, <2>2, PartIs
  <2> QED
    BY <2>1, <2>3, <2>4
<1> QED
  BY <1>1, SeqEqual DEF Content

(* What the buffer holds after a round: the part that was read, and behind *)
(* it what it held before.                                                 *)
LEMMA ReadIs ==
    ASSUME NEW before, NEW s, NEW i
    PROVE  ReadInto(before, s, i) =
               Part(s, i) \o SubSeq(before, Len(Part(s, i)) + 1, Len(before))
BY DEF ReadInto, Part, First, Final

LEMMA ReadAlone ==
    ASSUME NEW s \in Content, NEW i \in Rounds(s)
    PROVE  ReadInto(<<>>, s, i) = Part(s, i)
<1>1. Part(s, i) \in Seq(Letter) /\ Len(Part(s, i)) \in Nat
  BY PartIs, LenProperties DEF Content
<1>2. SubSeq(<<>>, Len(Part(s, i)) + 1, Len(<<>>)) = <<>>
  <2>1. Len(<<>>) \in Int /\ Len(Part(s, i)) + 1 \in Int
        /\ Len(<<>>) < Len(Part(s, i)) + 1
    BY <1>1, EmptySeq
  <2> QED
    BY <2>1, SubSeqEmpty
<1> QED
  BY <1>1, <1>2, ReadIs, ConcatEmptySeq

LEMMA NulIsNoLetter == EndOfString \notin Letter
BY LetterAssumption, Zenon DEF LetterAssumption

LEMMA NoNulWithin ==
    ASSUME NEW s \in Content, NEW k \in DOMAIN s
    PROVE  s[k] # EndOfString
<1>1. s[k] \in Letter
  BY LenProperties DEF Content
<1> QED
  BY <1>1, NulIsNoLetter

LEMMA WithoutNul ==
    ASSUME NEW s \in Content
    PROVE  CString(s) = s
<1>1. ~ Contains(s, EndOfString)
  BY NoNulWithin DEF Contains
<1> QED
  BY <1>1 DEF CString

(* strncmp looks at all of a part, whatever the buffer holds behind it.    *)
LEMMA CStringBegins ==
    ASSUME NEW p \in Content, NEW r \in Seq(Letter \cup {EndOfString})
    PROVE  \A k \in 1..Len(p) : CString(p \o r)[k] = p[k]
<1> DEFINE B == Letter \cup {EndOfString}
           b == p \o r
           nuls == {i \in DOMAIN b : b[i] = EndOfString}
<1>1. p \in Seq(B) /\ r \in Seq(B) /\ Len(p) \in Nat /\ Len(r) \in Nat
  BY LenProperties DEF Content
<1>2. /\ b \in Seq(B) /\ Len(b) = Len(p) + Len(r)
      /\ \A k \in 1..Len(p) : b[k] = p[k]
  <2>1. /\ b \in Seq(B) /\ Len(b) = Len(p) + Len(r)
        /\ \A k \in 1..(Len(p) + Len(r)) :
               b[k] = IF k <= Len(p) THEN p[k] ELSE r[k - Len(p)]
    BY <1>1, ConcatProperties
  <2> QED
    BY <1>1, <2>1
<1>3. DOMAIN b = 1..Len(b)
  BY <1>2, LenProperties
<1>4. \A k \in 1..Len(p) : p[k] # EndOfString
  BY <1>1, NoNulWithin, LenProperties
<1> HIDE DEF b, B
<1>5. CASE ~ Contains(b, EndOfString)
  <2>1. CString(b) = b
    BY <1>5 DEF CString
  <2> QED
    BY <1>2, <2>1 DEF b
<1>6. CASE Contains(b, EndOfString)
  <2>1. PICK i \in 1..Len(b) : b[i] = EndOfString
    BY <1>6 DEF Contains
  <2>2. nuls \in SUBSET Nat /\ nuls # {}
    <3>1. Len(b) \in Nat
      BY <1>2, LenProperties
    <3> QED
      BY <1>3, <2>1, <3>1
  <2>3. PICK m \in nuls : m = Min(nuls)
    <3> HIDE DEF nuls
    <3>1. \E x \in nuls : \A y \in nuls : x <= y
      BY <2>2, LeastElement
    <3> QED
      BY <3>1 DEF Min
  <2>4. m \in 1..Len(b) /\ b[m] = EndOfString
    BY <1>3, <2>3
  <2>5. m > Len(p) /\ m - 1 <= Len(b) /\ m - 1 \in Nat
    BY <1>1, <1>2, <1>4, <2>4
  <2>6. CString(b) = SubSeq(b, 1, m - 1)
    BY <1>6, <2>3 DEF CString
  <2>7. \A k \in 1..(m - 1) : b[k] \in B
    BY <1>2, <2>5, LenProperties
  <2>8. \A k \in 1..(m - 1 - 1 + 1) : SubSeq(b, 1, m - 1)[k] = b[1 + k - 1]
    BY <2>5, <2>7, SubSeqProperties
  <2>9. ASSUME NEW k \in 1..Len(p) PROVE SubSeq(b, 1, m - 1)[k] = b[k]
    <3>1. k \in 1..(m - 1 - 1 + 1) /\ 1 + k - 1 = k
      BY <1>1, <2>5
    <3> QED
      BY <2>8, <3>1
  <2> QED
    BY <1>2, <2>6, <2>9 DEF b
<1> QED
  BY <1>5, <1>6

(* ct_fcompare tells two files apart if and only if they differ.           *)
THEOREM SameFileDecides ==
    ASSUME NEW s \in Seq(Letter), NEW t \in Seq(Letter)
    PROVE  SameFile(s, t) <=> s = t
<1>c. s \in Content /\ t \in Content
  BY DEF Content
<1>1. ASSUME SameFile(s, t) PROVE s = t
  <2>1. Len(s) = Len(t) /\ Rounds(s) = Rounds(t)
    BY <1>1 DEF SameFile, Rounds
  <2>2. ASSUME NEW i \in Rounds(s) PROVE Part(s, i) = Part(t, i)
    <3>1. CString(ReadInto(<<>>, s, i)) = CString(ReadInto(<<>>, t, i))
      BY <1>1 DEF SameFile
    <3>2. CString(Part(s, i)) = CString(Part(t, i))
      BY <1>c, <2>1, <3>1, ReadAlone
    <3> QED
      BY <1>c, <2>1, <3>2, PartIs, WithoutNul
  <2> QED
    BY <1>c, <2>1, <2>2, PartsDecide
<1>2. s = t => SameFile(s, t)
  BY DEF SameFile
<1> QED
  BY <1>1, <1>2

(* The buffer of feq after round i.                                        *)
Buffer(x, r, i) ==
    ReadInto(IF i = 1 THEN r ELSE ReadInto(<<>>, x, i - 1), x, i)

LEMMA BufferBegins ==
    ASSUME NEW s \in Content, NEW i \in Rounds(s),
           NEW u \in [1..CompareSize -> Letter \cup {EndOfString}]
    PROVE  \A k \in 1..Len(Part(s, i)) :
               CString(Buffer(s, u, i))[k] = Part(s, i)[k]
<1> DEFINE B == Letter \cup {EndOfString}
           before == IF i = 1 THEN u ELSE ReadInto(<<>>, s, i - 1)
           r == SubSeq(before, Len(Part(s, i)) + 1, Len(before))
<1>1. Part(s, i) \in Content /\ Len(Part(s, i)) \in Nat
  BY PartIs, LenProperties DEF Content
<1>2. before \in Seq(B)
  <2>1. u \in Seq(B)
    BY CompareSizeAssumption, SeqDef DEF CompareSizeAssumption
  <2>2. CASE i # 1
    <3>1. i - 1 \in Rounds(s)
      BY <2>2, RoundBounds, CompareSizeAssumption
      DEF Rounds, CompareSizeAssumption
    <3>2. before \in Seq(Letter)
      BY <2>2, <3>1, ReadAlone, PartIs DEF Content
    <3> QED
      BY <3>2, LenProperties, SeqDef
  <2> QED
    BY <2>1, <2>2
<1> HIDE DEF before
<1>3. r \in Seq(B)
  <2>1. Len(before) \in Nat /\ \A j \in 1..Len(before) : before[j] \in B
    BY <1>2, LenProperties
  <2>2. \A j \in (Len(Part(s, i)) + 1)..Len(before) : before[j] \in B
    BY <1>1, <2>1
  <2> QED
    BY <1>1, <2>1, <2>2, SubSeqProperties
<1>4. Buffer(s, u, i) = Part(s, i) \o r
  BY ReadIs DEF Buffer, before
<1> QED
  BY <1>1, <1>3, <1>4, CStringBegins

(* feq never takes two files for equal that are not, whatever its buffers  *)
(* held before, and takes equal ones for equal that fill them once.        *)
THEOREM FeqDecides ==
    ASSUME NEW s \in Seq(Letter), NEW t \in Seq(Letter),
           NEW u \in [1..CompareSize -> Letter \cup {EndOfString}],
           NEW v \in [1..CompareSize -> Letter \cup {EndOfString}]
    PROVE  /\ Feq(s, t, u, v) => s = t
           /\ Len(s) >= CompareSize => (Feq(s, t, u, v) <=> s = t)
<1>c. s \in Content /\ t \in Content
  BY DEF Content
<1>d. Feq(s, t, u, v) <=>
          /\ Len(s) = Len(t)
          /\ \A i \in Rounds(s) :
                 CString(Buffer(s, u, i)) = CString(Buffer(t, v, i))
  BY DEF Feq, Buffer
<1>1. ASSUME Feq(s, t, u, v) PROVE s = t
  <2>1. Len(s) = Len(t) /\ Rounds(s) = Rounds(t)
    BY <1>1, <1>d DEF Rounds
  <2>2. ASSUME NEW i \in Rounds(s) PROVE Part(s, i) = Part(t, i)
    <3>1. CString(Buffer(s, u, i)) = CString(Buffer(t, v, i))
      BY <1>1, <1>d
    <3>2. i \in Rounds(t) /\ Len(Part(s, i)) = Len(Part(t, i))
      BY <1>c, <2>1, PartIs
    <3>3. /\ \A k \in 1..Len(Part(s, i)) :
                 CString(Buffer(s, u, i))[k] = Part(s, i)[k]
          /\ \A k \in 1..Len(Part(t, i)) :
                 CString(Buffer(t, v, i))[k] = Part(t, i)[k]
      BY <1>c, <3>2, BufferBegins
    <3>4. \A k \in 1..Len(Part(s, i)) : Part(s, i)[k] = Part(t, i)[k]
      BY <3>1, <3>2, <3>3
    <3> QED
      BY <1>c, <3>2, <3>4, PartIs, SeqEqual DEF Content
  <2> QED
    BY <1>c, <2>1, <2>2, PartsDecide
<1>2. ASSUME Len(s) >= CompareSize, s = t PROVE Feq(s, t, u, v)
  <2>1. ASSUME NEW i \in Rounds(s)
        PROVE  Buffer(s, u, i) = Buffer(s, v, i)
    <3>1. CASE i = 1
      <4>1. Len(Part(s, 1)) = CompareSize
        <5>1. /\ CompareSize \in Nat /\ CompareSize >= 1 /\ Len(s) \in Nat
              /\ 1 * CompareSize = CompareSize
              /\ (1 - 1) * CompareSize = 0
          BY CompareSizeAssumption, LenProperties DEF CompareSizeAssumption
        <5>2. First(1) = 1 /\ Final(Len(s), 1) = CompareSize
          BY <1>2, <5>1, LesserOf DEF First, Final
        <5> QED
          BY <1>c, <3>1, <5>1, <5>2, PartIs
      <4>2. ASSUME NEW w \in [1..CompareSize -> Letter \cup {EndOfString}]
            PROVE  Buffer(s, w, 1) = Part(s, 1) \o <<>>
        <5>1. Len(w) = CompareSize /\ CompareSize \in Nat
          BY CompareSizeAssumption DEF CompareSizeAssumption
        <5>2. SubSeq(w, CompareSize + 1, Len(w)) = <<>>
          BY <5>1, SubSeqEmpty
        <5> QED
          BY <4>1, <5>2, ReadIs DEF Buffer
      <4> QED
        BY <3>1, <4>2
    <3>2. CASE i # 1
      BY <3>2 DEF Buffer
    <3> QED
      BY <3>1, <3>2
  <2> QED
    BY <1>2, <1>d, <2>1
<1> QED
  BY <1>1, <1>2

(* ComparesExactly, which the run bytes checks on short files, holds for   *)
(* every length and every size of the buffer, of files without a NUL byte: *)
(* ct_fcompare tells whether two of them are equal; feq never takes        *)
(* different ones for equal, and knows equal ones that fill its buffer at  *)
(* least once.                                                             *)
THEOREM FilesCompared ==
    ASSUME arg \in Strings
    PROVE  ComparesExactly
<1> SUFFICES ASSUME Range(arg) \subseteq Letter,
                    NEW t \in BoundedSeq(Letter, MaxString)
             PROVE  /\ SameFile(arg, t) <=> arg = t
                    /\ \A u, v \in [1..CompareSize ->
                                       Letter \cup {EndOfString}] :
                           /\ Feq(arg, t, u, v) => arg = t
                           /\ Len(arg) >= CompareSize =>
                                  (Feq(arg, t, u, v) <=> arg = t)
  BY DEF ComparesExactly
<1>1. t \in Seq(Letter)
  <2>1. PICK n \in 0..MaxString : t \in [1..n -> Letter]
    BY DEF BoundedSeq, SeqOf
  <2>2. n \in Nat
    BY MaxStringAssumption DEF MaxStringAssumption
  <2> QED
    BY <2>1, <2>2, SeqDef
<1>2. arg \in Seq(Letter)
  <2>1. PICK n \in 0..MaxString :
            arg \in [1..n -> Letter \cup {":", "/", "@", "+"}]
    BY DEF Strings, BoundedSeq, SeqOf
  <2>2. n \in Nat
    BY MaxStringAssumption DEF MaxStringAssumption
  <2>3. arg \in [1..n -> Letter]
    BY <2>1 DEF Range
  <2> QED
    BY <2>2, <2>3, SeqDef
<1> QED
  BY <1>1, <1>2, SameFileDecides, FeqDecides

-----------------------------------------------------------------------------
(* The loop of ct_split.                                                   *)

SplitStart == [last |-> <<>>, arr |-> <<>>]
SplitStep(s, x, c) ==
    IF x # c THEN [s EXCEPT !.last = Append(@, x)]
             ELSE [last |-> <<>>, arr |-> Append(s.arr, s.last)]
SplitFold(str, c) == CHOOSE fold : fold = [T \in SUBSET DOMAIN str |->
    IF T = {} THEN SplitStart
    ELSE SplitStep(fold[T \ {Max(T)}], str[Max(T)], c)]

(* What the loop has after i characters: the pieces, and what follows the  *)
(* last separator.                                                         *)
Cut(str, c, i) == SplitFold(str, c)[1..i]

LEMMA PiecesAreCut ==
    ASSUME NEW S, NEW str \in Seq(S), NEW c
    PROVE  Pieces(str, c) = LET s == Cut(str, c, Len(str))
                            IN IF s.last = <<>> THEN s.arr
                                                ELSE Append(s.arr, s.last)
<1>1. DOMAIN str = 1..Len(str)
  BY LenProperties
<1>2. Pieces(str, c) = LET s == SplitFold(str, c)[DOMAIN str]
                       IN IF s.last = <<>> THEN s.arr ELSE Append(s.arr, s.last)
  BY Zenon DEF FoldLeft, MapThenFoldSet, Pieces, SplitFold, SplitStep, SplitStart
<1> QED
  BY <1>1, <1>2, Zenon DEF Cut

SplitStates(S) == [last : Seq(S), arr : Seq(Seq(S))]

LEMMA SplitStepType ==
    ASSUME NEW S, NEW s \in SplitStates(S), NEW x \in S, NEW c
    PROVE  SplitStep(s, x, c) \in SplitStates(S)
<1>1. s.last \in Seq(S) /\ s.arr \in Seq(Seq(S))
  BY DEF SplitStates
<1>2. CASE x # c
  <2>1. SplitStep(s, x, c) = [last |-> Append(s.last, x), arr |-> s.arr]
    BY <1>2 DEF SplitStep, SplitStates
  <2>2. Append(s.last, x) \in Seq(S)
    BY <1>1, AppendProperties
  <2> QED
    BY <1>1, <2>1, <2>2 DEF SplitStates
<1>3. CASE x = c
  <2>1. Append(s.arr, s.last) \in Seq(Seq(S)) /\ <<>> \in Seq(S)
    BY <1>1, AppendProperties, EmptySeq
  <2> QED
    BY <1>3, <2>1 DEF SplitStates, SplitStep
<1> QED
  BY <1>2, <1>3

LEMMA CutDefined ==
    ASSUME NEW S, NEW str \in Seq(S), NEW c
    PROVE  /\ Cut(str, c, 0) = SplitStart
           /\ \A i \in 1..Len(str) :
                  Cut(str, c, i) = SplitStep(Cut(str, c, i - 1), str[i], c)
           /\ \A i \in 0..Len(str) : Cut(str, c, i) \in SplitStates(S)
<1> DEFINE n == Len(str)
           R == SplitStates(S)
           step == [p \in R \X (1..n) |-> SplitStep(p[1], str[p[2]], c)]
           IsFold(f) == f = [T \in SUBSET DOMAIN str |->
                                IF T = {} THEN SplitStart
                                ELSE SplitStep(f[T \ {Max(T)}], str[Max(T)], c)]
<1>1. n \in Nat /\ DOMAIN str = 1..n /\ \A i \in 1..n : str[i] \in S
  BY LenProperties
<1>2. SplitStart \in R
  BY EmptySeq DEF SplitStates, SplitStart
<1>3. StepsIn(step, n, R)
  BY <1>1, SplitStepType DEF StepsIn
<1>4. PICK g : FoldOf(g, n, R, SplitStart, step)
  <2> HIDE DEF R, n, step
  <2> QED
    BY <1>1, <1>2, <1>3, FoldDefined
<1>5. IsFold(g)
  <2>1. ASSUME NEW T \in SUBSET (1..n)
        PROVE  g[T] = IF T = {} THEN SplitStart
                      ELSE SplitStep(g[T \ {Max(T)}], str[Max(T)], c)
    <3>1. CASE T # {}
      <4>1. Max(T) \in 1..n
        BY <1>1, <3>1, GreatestElement
      <4>2. g[T \ {Max(T)}] \in R
        BY <1>4 DEF FoldOf
      <4>3. <<g[T \ {Max(T)}], Max(T)>> \in R \X (1..n)
        BY <4>1, <4>2
      <4>4. step[<<g[T \ {Max(T)}], Max(T)>>]
                = SplitStep(g[T \ {Max(T)}], str[Max(T)], c)
        BY <4>3
      <4> QED
        BY <1>4, <3>1, <4>4, Zenon DEF FoldOf
    <3> QED
      BY <1>4, <3>1, Zenon DEF FoldOf
  <2>2. g \in [SUBSET DOMAIN str -> R] /\ DOMAIN str = 1..n
    BY <1>1, <1>4 DEF FoldOf
  <2> HIDE DEF R, n, step
  <2> QED
    BY <2>1, <2>2, Zenon
<1>6. IsFold(SplitFold(str, c))
  <2>1. SplitFold(str, c) = CHOOSE f : IsFold(f)
    BY Zenon DEF SplitFold
  <2> HIDE DEF IsFold
  <2> QED
    BY <1>5, <2>1, Zenon
<1>7. Cut(str, c, 0) = SplitStart
  <2>1. 1..0 = {} /\ {} \in SUBSET DOMAIN str
    OBVIOUS
  <2>2. SplitFold(str, c)[{}] = SplitStart
    BY <1>6, <2>1, Zenon
  <2> QED
    BY <2>1, <2>2 DEF Cut
<1>8. ASSUME NEW i \in 1..n
      PROVE  Cut(str, c, i) = SplitStep(Cut(str, c, i - 1), str[i], c)
  <2>1. /\ 1..i \in SUBSET DOMAIN str /\ 1..i # {}
        /\ Max(1..i) = i /\ (1..i) \ {Max(1..i)} = 1..(i - 1)
    BY <1>1, LastPosition
  <2> QED
    BY <1>6, <2>1, Zenon DEF Cut
<1>9. \A i \in 0..n : Cut(str, c, i) \in R
  <2> DEFINE N == {i \in Nat : Cut(str, c, i) \in R}
  <2>1. 0 \in N
    BY <1>2, <1>7
  <2>2. ASSUME NEW i \in 1..n, i - 1 \in N PROVE i \in N
    BY <1>1, <1>8, <2>2, SplitStepType
  <2>3. 0..n \subseteq N
    <3> HIDE DEF N, n
    <3> QED
      BY <1>1, <2>1, <2>2, UptoInduction
  <2> QED
    BY <2>3
<1> QED
  BY <1>7, <1>8, <1>9

(* Joining the pieces with the separator behind each.                      *)
Joined(arr, c) == FlattenSeq([i \in DOMAIN arr |-> arr[i] \o <<c>>])

LEMMA JoinedAppend ==
    ASSUME NEW S, NEW c \in S, NEW arr \in Seq(Seq(S)), NEW piece \in Seq(S)
    PROVE  /\ Joined(<<>>, c) = <<>>
           /\ Joined(arr, c) \in Seq(S)
           /\ Joined(Append(arr, piece), c) = Joined(arr, c) \o (piece \o <<c>>)
<1> DEFINE Closed(a) == [i \in DOMAIN a |-> a[i] \o <<c>>]
<1>1. \A p \in Seq(S) : p \o <<c>> \in Seq(S)
  BY ConcatProperties
<1>2. ASSUME NEW a \in Seq(Seq(S))
      PROVE  Closed(a) \in Seq(Seq(S)) /\ Len(Closed(a)) = Len(a)
  <2>1. Len(a) \in Nat /\ DOMAIN a = 1..Len(a) /\ \A i \in 1..Len(a) : a[i] \in Seq(S)
    BY LenProperties
  <2>2. Closed(a) \in [1..Len(a) -> Seq(S)]
    BY <1>1, <2>1
  <2> QED
    BY <2>1, <2>2, SeqDef, LenProperties
<1>3. Closed(Append(arr, piece)) = Append(Closed(arr), piece \o <<c>>)
  <2> DEFINE more == Append(arr, piece)
             end == piece \o <<c>>
  <2>1. /\ more \in Seq(Seq(S)) /\ Len(more) = Len(arr) + 1 /\ Len(arr) \in Nat
        /\ \A i \in 1..Len(arr) : more[i] = arr[i]
        /\ more[Len(arr) + 1] = piece
    BY AppendProperties, LenProperties
  <2>2. /\ DOMAIN more = 1..(Len(arr) + 1) /\ DOMAIN arr = 1..Len(arr)
    BY <2>1, LenProperties
  <2>3. /\ Append(Closed(arr), end) \in Seq(Seq(S))
        /\ Len(Append(Closed(arr), end)) = Len(arr) + 1
        /\ \A i \in 1..Len(arr) : Append(Closed(arr), end)[i] = Closed(arr)[i]
        /\ Append(Closed(arr), end)[Len(arr) + 1] = end
    <3>1. /\ Closed(arr) \in Seq(Seq(S)) /\ Len(Closed(arr)) = Len(arr)
          /\ end \in Seq(S)
      BY <1>1, <1>2
    <3> HIDE DEF Closed, end
    <3> QED
      BY <3>1, AppendProperties
  <2>4. Closed(more) \in Seq(Seq(S)) /\ Len(Closed(more)) = Len(arr) + 1
    BY <1>2, <2>1
  <2>5. ASSUME NEW i \in 1..(Len(arr) + 1)
        PROVE  Closed(more)[i] = Append(Closed(arr), end)[i]
    <3> HIDE DEF more
    <3>1. CASE i = Len(arr) + 1
      BY <2>1, <2>2, <2>3, <3>1
    <3>2. CASE i # Len(arr) + 1
      <4>1. i \in 1..Len(arr)
        BY <2>1, <3>2
      <4>2. Closed(more)[i] = Closed(arr)[i]
        BY <2>1, <2>2, <4>1
      <4> QED
        BY <2>3, <4>1, <4>2
    <3> QED
      BY <3>1, <3>2
  <2> HIDE DEF more, end, Closed
  <2>6. Closed(more) = Append(Closed(arr), end)
    BY <2>3, <2>4, <2>5, SeqEqual
  <2> QED
    BY <2>6 DEF more, end
<1>4. Joined(<<>>, c) = <<>>
  <2>1. Closed(<<>>) = <<>>
    OBVIOUS
  <2>2. Len(<<>>) = 0
    OBVIOUS
  <2> QED
    BY <2>1, <2>2 DEF Joined, FlattenSeq
<1>5. Joined(arr, c) \in Seq(S)
  <2>1. Joined(arr, c) = FlattenSeq(Closed(arr))
    BY DEF Joined
  <2> HIDE DEF Closed
  <2> QED
    BY <1>2, <2>1, FlattenType
<1>6. Joined(Append(arr, piece), c) = Joined(arr, c) \o (piece \o <<c>>)
  <2>1. /\ Joined(arr, c) = FlattenSeq(Closed(arr))
        /\ Joined(Append(arr, piece), c) = FlattenSeq(Closed(Append(arr, piece)))
    BY DEF Joined
  <2> HIDE DEF Closed
  <2>2. PICK end \in Seq(S) : end = piece \o <<c>>
    BY <1>1
  <2>3. PICK a \in Seq(Seq(S)) : a = Closed(arr)
    BY <1>2
  <2>4. FlattenSeq(Append(a, end)) = FlattenSeq(a) \o end
    BY FlattenAppend
  <2> QED
    BY <1>3, <2>1, <2>2, <2>3, <2>4
<1> QED
  BY <1>4, <1>5, <1>6

LEMMA AppendContains ==
    ASSUME NEW S, NEW s \in Seq(S), NEW x \in S, NEW c
    PROVE  Contains(Append(s, x), c) <=> Contains(s, c) \/ x = c
<1>1. /\ Len(s) \in Nat /\ Len(Append(s, x)) = Len(s) + 1
      /\ \A i \in 1..Len(s) : Append(s, x)[i] = s[i]
      /\ Append(s, x)[Len(s) + 1] = x
  BY AppendProperties, LenProperties
<1>2. ASSUME Contains(Append(s, x), c) PROVE Contains(s, c) \/ x = c
  <2>1. PICK i \in 1..(Len(s) + 1) : Append(s, x)[i] = c
    BY <1>1, <1>2 DEF Contains
  <2> QED
    BY <1>1, <2>1 DEF Contains
<1>3. ASSUME Contains(s, c) \/ x = c PROVE Contains(Append(s, x), c)
  <2>1. CASE Contains(s, c)
    <3>1. PICK i \in 1..Len(s) : s[i] = c
      BY <2>1 DEF Contains
    <3>2. i \in 1..(Len(s) + 1)
      BY <1>1
    <3> QED
      BY <1>1, <3>1, <3>2 DEF Contains
  <2>2. CASE x = c
    <3>1. Len(s) + 1 \in 1..(Len(s) + 1)
      BY <1>1
    <3> QED
      BY <1>1, <2>2, <3>1 DEF Contains
  <2> QED
    BY <1>3, <2>1, <2>2
<1> QED
  BY <1>2, <1>3

(* The pieces and the rest are the string, and no separator is in them.    *)
Whole(str, c, i) ==
    LET s == Cut(str, c, i)
    IN /\ Joined(s.arr, c) \o s.last = SubSeq(str, 1, i)
       /\ ~ Contains(s.last, c)
       /\ \A k \in DOMAIN s.arr : ~ Contains(s.arr[k], c)

LEMMA AllIsWhole ==
    ASSUME NEW S, NEW str \in Seq(S), NEW c \in S
    PROVE  \A i \in 0..Len(str) : Whole(str, c, i)
<1>n. Len(str) \in Nat
  BY LenProperties
<1>1. Whole(str, c, 0)
  <2>1. Cut(str, c, 0).last = <<>> /\ Cut(str, c, 0).arr = <<>>
    BY CutDefined DEF SplitStart
  <2>2. Joined(<<>>, c) = <<>>
    BY EmptySeq, JoinedAppend
  <2>3. SubSeq(str, 1, 0) = <<>>
    BY SubSeqEmpty
  <2>4. <<>> \o <<>> = <<>> /\ DOMAIN <<>> = {} /\ ~ Contains(<<>>, c)
    BY DEF Contains
  <2> QED
    BY <2>1, <2>2, <2>3, <2>4 DEF Whole
<1>2. ASSUME NEW i \in 1..Len(str), Whole(str, c, i - 1)
      PROVE  Whole(str, c, i)
  <2>1. i - 1 \in 0..Len(str) /\ i \in 0..Len(str)
    BY <1>n
  <2>2. PICK s \in SplitStates(S) : s = Cut(str, c, i - 1)
    BY <2>1, CutDefined
  <2>3. PICK last \in Seq(S), arr \in Seq(Seq(S)) : s.last = last /\ s.arr = arr
    BY DEF SplitStates
  <2>4. PICK x \in S : x = str[i]
    BY LenProperties
  <2>5. PICK read \in Seq(S) : read = SubSeq(str, 1, i - 1)
    BY ReadSoFar
  <2>6. SubSeq(str, 1, i) = Append(read, x)
    BY <2>4, <2>5, ReadSoFar
  <2>7. /\ Joined(arr, c) \o last = read
        /\ ~ Contains(last, c)
        /\ \A k \in DOMAIN arr : ~ Contains(arr[k], c)
    BY <1>2, <2>2, <2>3, <2>5 DEF Whole
  <2>8. PICK joined \in Seq(S) : joined = Joined(arr, c)
    BY JoinedAppend
  <2>9. Cut(str, c, i) = SplitStep(s, x, c)
    BY <2>2, <2>4, CutDefined
  <2>10. joined \o Append(last, x) = Append(read, x)
    <3>1. Append(joined \o last, x) = joined \o Append(last, x)
      <4>1. AppendsBehind(S)
        BY AppendBehind
      <4> QED
        BY <4>1, Zenon DEF AppendsBehind
    <3>2. joined \o last = read
      BY <2>7, <2>8, Zenon
    <3> QED
      BY <3>1, <3>2, Zenon
  <2>11. CASE x # c
    <3>1. Cut(str, c, i).last = Append(last, x) /\ Cut(str, c, i).arr = arr
      BY <2>3, <2>9, <2>11 DEF SplitStep, SplitStates
    <3>2. ~ Contains(Append(last, x), c)
      BY <2>7, <2>11, AppendContains
    <3> QED
      BY <2>6, <2>7, <2>8, <2>10, <3>1, <3>2 DEF Whole
  <2>12. CASE x = c
    <3>1. Cut(str, c, i).last = <<>> /\ Cut(str, c, i).arr = Append(arr, last)
      BY <2>3, <2>9, <2>12 DEF SplitStep
    <3>2. Joined(Append(arr, last), c) = Append(read, x)
      <4>1. Append(last, x) = last \o <<c>>
        BY <2>12, AppendIsConcat
      <4> QED
        BY <2>8, <2>10, <4>1, JoinedAppend
    <3>3. Append(read, x) \o <<>> = Append(read, x)
      <4>1. Append(read, x) \in Seq(S)
        BY AppendProperties
      <4> QED
        BY <4>1, ConcatEmptySeq
    <3>4. ASSUME NEW k \in DOMAIN Append(arr, last)
          PROVE  ~ Contains(Append(arr, last)[k], c)
      BY <2>7, AppendProperties, LenProperties
    <3>5. ~ Contains(<<>>, c)
      BY DEF Contains
    <3> QED
      BY <2>6, <3>1, <3>2, <3>3, <3>4, <3>5 DEF Whole
  <2> QED
    BY <2>11, <2>12
<1> DEFINE N == {i \in Nat : Whole(str, c, i)}
<1>3. 0 \in N
  BY <1>1
<1>4. \A i \in 1..Len(str) : i - 1 \in N => i \in N
  BY <1>n, <1>2
<1>5. 0..Len(str) \subseteq N
  <2> HIDE DEF N
  <2> QED
    BY <1>n, <1>3, <1>4, UptoInduction
<1> QED
  BY <1>5

(* Without a separator the piece only grows.                               *)
LEMMA PieceGrows ==
    ASSUME NEW S, NEW str \in Seq(S), NEW c, NEW m \in 0..Len(str),
           NEW n \in m..Len(str), \A j \in (m + 1)..n : str[j] # c
    PROVE  /\ Cut(str, c, n).arr = Cut(str, c, m).arr
           /\ Cut(str, c, n).last
                  = Cut(str, c, m).last \o SubSeq(str, m + 1, n)
<1>n. Len(str) \in Nat /\ n \in Nat /\ n <= Len(str)
  BY LenProperties
<1>o. m \in Nat /\ m \in 0..n /\ \A j \in 1..n : str[j] \in S
  BY <1>n, LenProperties
<1>m. PICK s \in SplitStates(S) : s = Cut(str, c, m)
  BY CutDefined
<1>t. s.last \in Seq(S)
  BY DEF SplitStates
<1> DEFINE Grown(i) == /\ Cut(str, c, i).arr = s.arr
                       /\ Cut(str, c, i).last = s.last \o SubSeq(str, m + 1, i)
           N == {k \in Nat : k >= m => Grown(k)}
<1>1. \A k \in 0..m : k \in N
  <2>1. SubSeq(str, m + 1, m) = <<>>
    BY <1>n, <1>o, SubSeqEmpty
  <2>2. s.last \o <<>> = s.last
    BY <1>t, ConcatEmptySeq
  <2>3. Grown(m)
    BY <1>m, <2>1, <2>2
  <2> HIDE DEF Grown
  <2>4. ASSUME NEW k \in 0..m PROVE k \in Nat /\ (k >= m => k = m)
    BY <1>o
  <2> QED
    BY <2>3, <2>4
<1>2. ASSUME NEW i \in 1..n, i - 1 \in N PROVE i \in N
  <2>i. i \in Nat /\ i >= 1 /\ i <= n /\ i - 1 \in Nat
    BY <1>n
  <2>1. CASE i <= m
    <3>1. i \in 0..m
      BY <1>o, <2>1, <2>i
    <3> HIDE DEF N
    <3> QED
      BY <1>1, <3>1
  <2>2. CASE i > m
    <3>p. /\ i - 1 \in 0..Len(str) /\ i \in 1..Len(str)
          /\ i \in 1..n /\ i \in (m + 1)..n /\ i - 1 >= m
      BY <1>n, <1>o, <2>2, <2>i
    <3>1. PICK t \in SplitStates(S) : t = Cut(str, c, i - 1)
      BY <1>n, <3>p, CutDefined
    <3>2. PICK x \in S : x = str[i] /\ x # c
      BY <1>n, <1>o, <3>p
    <3>3. Cut(str, c, i) = SplitStep(t, x, c)
      BY <1>n, <3>1, <3>2, <3>p, CutDefined
    <3>4. Cut(str, c, i).arr = t.arr /\ Cut(str, c, i).last = Append(t.last, x)
      BY <3>2, <3>3 DEF SplitStep, SplitStates
    <3>5. t.arr = s.arr /\ t.last = s.last \o SubSeq(str, m + 1, i - 1)
      <4>1. Grown(i - 1)
        <5> HIDE DEF Grown
        <5> QED
          BY <1>2, <3>p
      <4> QED
        BY <3>1, <4>1
    <3>6. PICK run \in Seq(S) : run = SubSeq(str, m + 1, i - 1)
      <4>1. \A j \in (m + 1)..(i - 1) : str[j] \in S
        BY <1>o, <2>i
      <4>2. PICK first \in Int, end \in Int : first = m + 1 /\ end = i - 1
        BY <1>o, <2>i
      <4>3. SubSeq(str, first, end) \in Seq(S)
        BY <4>1, <4>2, SubSeqProperties
      <4> QED
        BY <4>2, <4>3
    <3>7. SubSeq(str, m + 1, i) = run \o <<x>>
      <4>1. m + 1 \in 1..n /\ i \in (m + 1)..Len(str)
        BY <1>n, <1>o, <3>p, <2>i
      <4> QED
        BY <1>n, <3>2, <3>6, <4>1, SubSeqRecursiveSecond
    <3>8. Append(t.last, x) = s.last \o SubSeq(str, m + 1, i)
      <4>1. PICK last \in Seq(S) : last = s.last
        BY <1>t
      <4>2. Append(run, x) = run \o <<x>>
        BY AppendIsConcat
      <4>3. Append(last \o run, x) = last \o Append(run, x)
        <5>1. AppendsBehind(S)
          BY AppendBehind
        <5> QED
          BY <5>1, Zenon DEF AppendsBehind
      <4>4. t.last = last \o run
        BY <3>5, <3>6, <4>1, Zenon
      <4>5. SubSeq(str, m + 1, i) = Append(run, x)
        BY <3>7, <4>2, Zenon
      <4> QED
        BY <4>1, <4>3, <4>4, <4>5, Zenon
    <3>9. Grown(i)
      BY <3>4, <3>5, <3>8
    <3> HIDE DEF Grown
    <3> QED
      BY <2>i, <3>9
  <2> HIDE DEF N
  <2> QED
    BY <1>o, <2>1, <2>2, <2>i
<1>3. 0..n \subseteq N
  <2> HIDE DEF N
  <2>1. 0 \in N
    BY <1>1, <1>o
  <2> QED
    BY <1>2, <1>n, <1>o, <2>1, UptoInduction
<1>4. Grown(n)
  <2> HIDE DEF Grown
  <2>1. n \in 0..n /\ n >= m
    BY <1>o
  <2> QED
    BY <1>3, <2>1
<1> QED
  BY <1>4, <1>m, <1>n

(* A piece that has been added stays.                                      *)
LEMMA PiecesStay ==
    ASSUME NEW S, NEW str \in Seq(S), NEW c, NEW m \in 0..Len(str),
           NEW n \in m..Len(str)
    PROVE  Len(Cut(str, c, n).arr) >= Len(Cut(str, c, m).arr)
<1>n. PICK l \in Nat : l = Len(str) /\ n \in 0..l /\ n >= m
  BY LenProperties
<1>o. m \in Nat /\ m \in 0..l /\ \A j \in 1..l : str[j] \in S
  BY <1>n, LenProperties
<1> DEFINE Count(i) == Len(Cut(str, c, i).arr)
           N == {k \in Nat : k >= m => Count(k) >= Count(m)}
<1>t. \A i \in 0..l : Cut(str, c, i).arr \in Seq(Seq(S)) /\ Count(i) \in Nat
  <2> TAKE i \in 0..l
  <2>1. Cut(str, c, i).arr \in Seq(Seq(S))
    BY <1>n, CutDefined DEF SplitStates
  <2> QED
    BY <2>1, LenProperties
<1>1. \A k \in 0..m : k \in N
  BY <1>n, <1>o, <1>t
<1>2. ASSUME NEW i \in 1..l, i - 1 \in N PROVE i \in N
  <2>1. Count(i) >= Count(i - 1)
    <3>1. PICK t \in SplitStates(S) : t = Cut(str, c, i - 1)
      <4>1. i - 1 \in 0..l
        OBVIOUS
      <4> QED
        BY <1>n, <4>1, CutDefined
    <3>2. Cut(str, c, i) = SplitStep(t, str[i], c)
      BY <1>n, <3>1, CutDefined
    <3>3. t.arr \in Seq(Seq(S)) /\ t.last \in Seq(S) /\ Len(t.arr) \in Nat
      BY LenProperties DEF SplitStates
    <3>4. Cut(str, c, i).arr \in {t.arr, Append(t.arr, t.last)}
      BY <3>2 DEF SplitStep, SplitStates
    <3>5. Len(Append(t.arr, t.last)) = Len(t.arr) + 1
      BY <3>3, AppendProperties
    <3> QED
      BY <3>1, <3>3, <3>4, <3>5
  <2>2. i \in 0..l /\ i - 1 \in 0..l
    BY <1>n, <1>o
  <2>3. Count(i) \in Nat /\ Count(i - 1) \in Nat /\ Count(m) \in Nat
    BY <1>t, <2>2
  <2> HIDE DEF Count
  <2> QED
    BY <1>2, <1>1, <1>n, <1>o, <2>1, <2>3
<1>3. 0..l \subseteq N
  <2> HIDE DEF N
  <2>1. 0 \in N
    BY <1>1, <1>o
  <2> QED
    BY <1>2, <1>n, <1>o, <2>1, UptoInduction
<1> QED
  BY <1>3, <1>n, <1>o

(* ct_split loses at most one separator, at the end.                       *)
LEMMA SplitWhole ==
    ASSUME NEW S, NEW str \in Seq(S), NEW c \in S
    PROVE  LET arr == Pieces(str, c)
           IN /\ Joined(arr, c) \in {str, Append(str, c)}
              /\ \A k \in DOMAIN arr : ~ Contains(arr[k], c)
<1>n. Len(str) \in Nat /\ Len(str) \in 0..Len(str)
  BY LenProperties
<1>1. PICK s \in SplitStates(S) : s = Cut(str, c, Len(str))
  BY <1>n, CutDefined
<1>2. PICK last \in Seq(S), arr \in Seq(Seq(S)) : s.last = last /\ s.arr = arr
  BY DEF SplitStates
<1>3. /\ Joined(arr, c) \o last = SubSeq(str, 1, Len(str))
      /\ ~ Contains(last, c)
      /\ \A k \in DOMAIN arr : ~ Contains(arr[k], c)
  BY <1>n, <1>1, <1>2, AllIsWhole DEF Whole
<1>4. SubSeq(str, 1, Len(str)) = str
  BY SubSeqFull
<1>5. PICK joined \in Seq(S) : joined = Joined(arr, c)
  BY JoinedAppend
<1>6. joined \o last = str
  BY <1>3, <1>4, <1>5, Zenon
<1>7. CASE last = <<>>
  <2>1. Pieces(str, c) = arr
    BY <1>1, <1>2, <1>7, PiecesAreCut
  <2>2. joined \o <<>> = joined
    BY ConcatEmptySeq
  <2> QED
    BY <1>3, <1>5, <1>6, <1>7, <2>1, <2>2, Zenon
<1>8. CASE last # <<>>
  <2>1. Pieces(str, c) = Append(arr, last)
    BY <1>1, <1>2, <1>8, PiecesAreCut
  <2>2. Joined(Append(arr, last), c) = joined \o (last \o <<c>>)
    BY <1>5, JoinedAppend
  <2>3. last \o <<c>> = Append(last, c)
    BY AppendIsConcat
  <2>4. Append(joined \o last, c) = joined \o Append(last, c)
    <3>1. AppendsBehind(S)
      BY AppendBehind
    <3> QED
      BY <3>1, Zenon DEF AppendsBehind
  <2>5. Joined(Append(arr, last), c) = Append(str, c)
    BY <1>6, <2>2, <2>3, <2>4, Zenon
  <2>6. ASSUME NEW k \in DOMAIN Append(arr, last)
        PROVE  ~ Contains(Append(arr, last)[k], c)
    BY <1>3, AppendProperties, LenProperties
  <2> QED
    BY <2>1, <2>5, <2>6, Zenon
<1> QED
  BY <1>7, <1>8

(* A line of an index: a commit id, the separator, a path and the newline. *)
Line(cid, c, path, nl) == cid \o <<c>> \o path \o <<nl>>

IsLine(line, S, cid, c, path, nl) ==
    /\ line \in Seq(S)
    /\ Len(line) = Len(cid) + Len(path) + 2
    /\ \A j \in 1..Len(cid) : line[j] = cid[j]
    /\ line[Len(cid) + 1] = c
    /\ \A j \in 1..Len(path) : line[Len(cid) + 1 + j] = path[j]
    /\ line[Len(cid) + Len(path) + 2] = nl

LEMMA LineIs ==
    ASSUME NEW S, NEW cid \in Seq(S), NEW c \in S, NEW path \in Seq(S), NEW nl \in S
    PROVE  IsLine(Line(cid, c, path, nl), S, cid, c, path, nl)
<1>l. Len(cid) \in Nat /\ Len(path) \in Nat
  BY LenProperties
<1>1. PICK a \in Seq(S) : a = Append(cid, c)
  BY AppendProperties
<1>2. /\ Len(a) = Len(cid) + 1 /\ a[Len(cid) + 1] = c
      /\ \A j \in 1..Len(cid) : a[j] = cid[j]
  BY <1>1, AppendProperties
<1>3. PICK b \in Seq(S) : b = a \o path
  BY ConcatProperties
<1>4. /\ Len(b) = Len(a) + Len(path)
      /\ \A j \in 1..Len(a) + Len(path) :
             b[j] = IF j <= Len(a) THEN a[j] ELSE path[j - Len(a)]
  BY <1>3, ConcatProperties
<1>5. PICK d \in Seq(S) : d = Append(b, nl)
  BY AppendProperties
<1>6. /\ Len(d) = Len(b) + 1 /\ d[Len(b) + 1] = nl
      /\ \A j \in 1..Len(b) : d[j] = b[j]
  BY <1>5, AppendProperties
<1>7. d = Line(cid, c, path, nl)
  <2>1. a = cid \o <<c>>
    BY <1>1, AppendIsConcat
  <2>2. d = b \o <<nl>>
    BY <1>5, AppendIsConcat
  <2> QED
    BY <1>3, <2>1, <2>2, Zenon DEF Line
<1>8. Len(d) = Len(cid) + Len(path) + 2
  BY <1>2, <1>4, <1>6, <1>l
<1>9. ASSUME NEW j \in 1..Len(cid) PROVE d[j] = cid[j]
  <2>1. j \in 1..Len(a) /\ j \in 1..Len(a) + Len(path) /\ j <= Len(a)
    BY <1>2, <1>l
  <2>2. b[j] = a[j] /\ a[j] = cid[j]
    BY <1>2, <1>4, <2>1
  <2>3. j \in 1..Len(b)
    BY <1>4, <2>1
  <2> QED
    BY <1>6, <2>2, <2>3
<1>10. d[Len(cid) + 1] = c
  <2>1. Len(a) = Len(cid) + 1 /\ Len(a) \in 1..Len(b) /\ Len(a) <= Len(a)
    BY <1>2, <1>4, <1>l
  <2> QED
    BY <1>2, <1>4, <1>6, <2>1
<1>11. ASSUME NEW j \in 1..Len(path) PROVE d[Len(cid) + 1 + j] = path[j]
  <2>1. PICK k \in Nat : k = Len(cid) + 1 + j
    BY <1>l
  <2>2. k \in 1..Len(b) /\ ~ (k <= Len(a)) /\ k - Len(a) = j
    BY <1>2, <1>4, <1>l, <2>1
  <2> QED
    BY <1>2, <1>4, <1>6, <1>l, <2>1, <2>2
<1>12. d[Len(cid) + Len(path) + 2] = nl
  <2>1. Len(b) + 1 = Len(cid) + Len(path) + 2
    BY <1>2, <1>4, <1>l
  <2> QED
    BY <1>6, <2>1
<1> QED
  BY <1>7, <1>8, <1>9, <1>10, <1>11, <1>12 DEF IsLine

(* A line falls into two pieces if its path has no separator, and only     *)
(* then.                                                                   *)
LEMMA LineSplits ==
    ASSUME NEW S, NEW cid \in Seq(S), NEW c \in S, NEW path \in Seq(S),
           NEW nl \in S, nl # c, ~ Contains(cid, c)
    PROVE  LET arr == Pieces(Line(cid, c, path, nl), c)
           IN IF Contains(path, c) THEN Len(arr) # 2
              ELSE arr = <<cid, Append(path, nl)>>
<1>a. PICK L \in Nat, P \in Nat : L = Len(cid) /\ P = Len(path)
  BY LenProperties
<1>b. IsLine(Line(cid, c, path, nl), S, cid, c, path, nl)
  BY LineIs
<1>1. PICK line \in Seq(S) : line = Line(cid, c, path, nl)
  BY <1>b DEF IsLine
<1>2. /\ Len(line) = L + P + 2
      /\ \A j \in 1..L : line[j] = cid[j]
      /\ line[L + 1] = c
      /\ \A j \in 1..P : line[L + 1 + j] = path[j]
      /\ line[L + P + 2] = nl
  BY <1>1, <1>a, <1>b DEF IsLine
<1>c. /\ Cut(line, c, 0) = SplitStart
      /\ \A i \in 1..Len(line) :
             Cut(line, c, i) = SplitStep(Cut(line, c, i - 1), line[i], c)
      /\ \A i \in 0..Len(line) : Cut(line, c, i) \in SplitStates(S)
  BY CutDefined
<1>3. /\ L \in Nat /\ P \in Nat
      /\ \A j \in 1..L : cid[j] \in S /\ cid[j] # c
      /\ \A j \in 1..P : path[j] \in S
  BY <1>a, LenProperties DEF Contains
<1>4. Cut(line, c, L).arr = <<>> /\ Cut(line, c, L).last = cid
  <2>1. /\ 0 \in 0..Len(line) /\ L \in 0..Len(line)
        /\ \A j \in (0 + 1)..L : line[j] # c
    BY <1>2, <1>3
  <2>2. Cut(line, c, 0) = SplitStart
    BY <1>c
  <2>3. SubSeq(line, 0 + 1, L) = cid
    <3>1. 0 + 1 \in Int /\ L \in Int /\ \A j \in (0 + 1)..L : line[j] \in S
      BY <1>2, <1>3
    <3>2. /\ SubSeq(line, 0 + 1, L) \in Seq(S)
          /\ Len(SubSeq(line, 0 + 1, L)) = IF 0 + 1 <= L THEN L - (0 + 1) + 1 ELSE 0
          /\ \A i \in 1 .. L - (0 + 1) + 1 :
                 SubSeq(line, 0 + 1, L)[i] = line[0 + 1 + i - 1]
      BY <3>1, SubSeqProperties
    <3>3. Len(SubSeq(line, 0 + 1, L)) = L
      BY <1>3, <3>2
    <3>4. \A i \in 1..L : SubSeq(line, 0 + 1, L)[i] = cid[i]
      BY <1>2, <1>3, <3>2
    <3> QED
      BY <3>2, <3>3, <3>4, SeqEqual, <1>a
  <2>4. <<>> \o cid = cid
    BY ConcatEmptySeq
  <2>5. /\ Cut(line, c, L).arr = SplitStart.arr
        /\ Cut(line, c, L).last = SplitStart.last \o cid
    BY <2>1, <2>2, <2>3, PieceGrows
  <2> QED
    BY <2>4, <2>5 DEF SplitStart
<1>5. Cut(line, c, L + 1) = [last |-> <<>>, arr |-> <<cid>>]
  <2>1. L + 1 \in 1..Len(line) /\ (L + 1) - 1 = L
    BY <1>2, <1>3
  <2>2. Cut(line, c, L + 1) = SplitStep(Cut(line, c, L), c, c)
    BY <1>2, <2>1, <1>c
  <2>3. Append(<<>>, cid) = <<cid>>
    OBVIOUS
  <2> QED
    BY <1>4, <2>2, <2>3 DEF SplitStep
<1>6. CASE ~ Contains(path, c)
  <2>1. ASSUME NEW j \in (L + 1 + 1)..Len(line) PROVE line[j] # c
    <3>1. CASE j = L + P + 2
      BY <1>2, <3>1
    <3>2. CASE j # L + P + 2
      <4>1. PICK k \in 1..P : j = L + 1 + k
        <5>1. j - L - 1 \in 1..P /\ j = L + 1 + (j - L - 1)
          BY <1>2, <1>3, <3>2
        <5> QED
          BY <5>1
      <4>2. line[j] = path[k] /\ path[k] # c
        BY <1>2, <1>6, <1>a, <4>1 DEF Contains
      <4> QED
        BY <4>2
    <3> QED
      BY <3>1, <3>2
  <2>2. L + 1 \in 0..Len(line) /\ Len(line) \in (L + 1)..Len(line)
    BY <1>2, <1>3
  <2>3. /\ Cut(line, c, Len(line)).arr = <<cid>>
        /\ Cut(line, c, Len(line)).last
               = <<>> \o SubSeq(line, L + 1 + 1, Len(line))
    <3>1. PICK m \in 0..Len(line) : m = L + 1
      BY <2>2
    <3>2. PICK n \in m..Len(line) : n = Len(line)
      BY <2>2, <3>1
    <3>3. \A j \in (m + 1)..n : line[j] # c
      BY <2>1, <3>1, <3>2
    <3>4. /\ Cut(line, c, n).arr = Cut(line, c, m).arr
          /\ Cut(line, c, n).last = Cut(line, c, m).last \o SubSeq(line, m + 1, n)
      BY <3>3, PieceGrows
    <3>5. Cut(line, c, m).arr = <<cid>> /\ Cut(line, c, m).last = <<>>
      BY <1>5, <3>1
    <3> QED
      BY <3>1, <3>2, <3>4, <3>5, Zenon
  <2>4. SubSeq(line, L + 1 + 1, Len(line)) = Append(path, nl)
    <3>1. PICK m \in Nat, n \in Nat : m = L + 2 /\ n = L + P + 2
      BY <1>3
    <3>2. \A j \in m..n : line[j] \in S
      BY <1>2, <1>3, <3>1, LenProperties
    <3>3. /\ SubSeq(line, m, n) \in Seq(S)
          /\ Len(SubSeq(line, m, n)) = IF m <= n THEN n - m + 1 ELSE 0
          /\ \A i \in 1 .. n - m + 1 : SubSeq(line, m, n)[i] = line[m + i - 1]
      BY <3>1, <3>2, SubSeqProperties
    <3>4. /\ Append(path, nl) \in Seq(S) /\ Len(Append(path, nl)) = P + 1
          /\ \A i \in 1..P : Append(path, nl)[i] = path[i]
          /\ Append(path, nl)[P + 1] = nl
      BY AppendProperties, <1>a
    <3>5. Len(SubSeq(line, m, n)) = P + 1
      BY <1>3, <3>1, <3>3
    <3>6. ASSUME NEW i \in 1..(P + 1)
          PROVE  SubSeq(line, m, n)[i] = Append(path, nl)[i]
      <4>1. SubSeq(line, m, n)[i] = line[L + 1 + i]
        BY <1>3, <3>1, <3>3
      <4>2. CASE i = P + 1
        <5>1. L + 1 + i = L + P + 2
          BY <1>3, <4>2
        <5> QED
          BY <1>2, <3>4, <4>1, <4>2, <5>1
      <4>3. CASE i # P + 1
        <5>1. i \in 1..P
          BY <1>3, <4>3
        <5> QED
          BY <1>2, <3>4, <4>1, <5>1
      <4> QED
        BY <4>2, <4>3
    <3>7. SubSeq(line, m, n) = Append(path, nl)
      BY <3>3, <3>4, <3>5, <3>6, SeqEqual
    <3>8. L + 1 + 1 = m /\ Len(line) = n
      BY <1>2, <1>3, <3>1
    <3> QED
      BY <3>7, <3>8
  <2>5. Append(path, nl) \in Seq(S) /\ Append(path, nl) # <<>>
    BY AppendProperties
  <2>6. Cut(line, c, Len(line)).last = Append(path, nl)
    BY <2>3, <2>4, <2>5, ConcatEmptySeq
  <2>7. Pieces(line, c) = Append(<<cid>>, Append(path, nl))
    <3>1. Pieces(line, c)
              = LET s == Cut(line, c, Len(line))
                IN IF s.last = <<>> THEN s.arr ELSE Append(s.arr, s.last)
      BY PiecesAreCut
    <3> QED
      BY <2>3, <2>5, <2>6, <3>1, Zenon
  <2>8. Append(<<cid>>, Append(path, nl)) = <<cid, Append(path, nl)>>
    BY TwoElements, Zenon
  <2> QED
    BY <1>1, <1>6, <2>7, <2>8, Zenon
<1>7. CASE Contains(path, c)
  <2>1. PICK k \in 1..P : path[k] = c
    BY <1>7, <1>a DEF Contains
  <2>2. PICK i \in Nat : i = L + 1 + k
    BY <1>3
  <2>3. i \in 1..Len(line) /\ i \in 0..Len(line) /\ i - 1 \in (L + 1)..Len(line)
    BY <1>2, <1>3, <2>2
  <2>4. line[i] = c
    BY <1>2, <2>1, <2>2
  <2>5. PICK t \in SplitStates(S) : t = Cut(line, c, i - 1)
    BY <2>3, <1>3, <1>c
  <2>6. t.arr \in Seq(Seq(S)) /\ t.last \in Seq(S)
    BY DEF SplitStates
  <2>7. Len(t.arr) \in Nat /\ Len(t.arr) >= 1
    <3>1. L + 1 \in 0..Len(line) /\ i - 1 \in (L + 1)..Len(line)
      BY <1>2, <1>3, <2>3
    <3>2. Len(Cut(line, c, i - 1).arr) >= Len(Cut(line, c, L + 1).arr)
      BY <3>1, PiecesStay
    <3>3. Len(Cut(line, c, L + 1).arr) = 1
      BY <1>5
    <3> QED
      BY <2>5, <2>6, <3>2, <3>3, LenProperties
  <2>8. Len(Cut(line, c, i).arr) \in Nat /\ Len(Cut(line, c, i).arr) >= 2
    <3>1. Cut(line, c, i) = SplitStep(t, c, c)
      BY <2>3, <2>4, <2>5, <1>c
    <3>2. Cut(line, c, i).arr = Append(t.arr, t.last)
      BY <3>1 DEF SplitStep
    <3>3. Len(Append(t.arr, t.last)) = Len(t.arr) + 1
      BY <2>6, AppendProperties
    <3> QED
      BY <2>7, <3>2, <3>3
  <2>9. PICK e \in SplitStates(S) : e = Cut(line, c, Len(line))
    BY <1>2, <1>3, <1>c
  <2>10. e.arr \in Seq(Seq(S)) /\ Len(e.arr) \in Nat /\ Len(e.arr) >= 2
    <3>1. Len(line) \in i..Len(line)
      BY <1>2, <1>3, <2>3
    <3>2. Len(Cut(line, c, Len(line)).arr) >= Len(Cut(line, c, i).arr)
      BY <2>3, <3>1, PiecesStay
    <3>3. e.arr \in Seq(Seq(S))
      BY DEF SplitStates
    <3> QED
      BY <2>8, <2>9, <3>2, <3>3, LenProperties
  <2>11. e.last \in Seq(S) /\ e.last # <<>>
    <3>1. Len(line) \in 1..Len(line) /\ Len(line) - 1 \in 0..Len(line)
      BY <1>2, <1>3
    <3>2. PICK d \in SplitStates(S) : d = Cut(line, c, Len(line) - 1)
      BY <3>1, <1>c
    <3>3. e = SplitStep(d, nl, c)
      BY <1>2, <2>9, <3>1, <3>2, <1>c
    <3>4. e.last = Append(d.last, nl) /\ d.last \in Seq(S)
      BY <3>3 DEF SplitStep, SplitStates
    <3>5. PICK q \in Seq(S) : q = d.last
      BY <3>4
    <3>6. Append(q, nl) \in Seq(S) /\ Append(q, nl) # <<>>
      BY AppendProperties
    <3> QED
      BY <3>4, <3>5, <3>6, Zenon
  <2>12. Pieces(line, c) = Append(e.arr, e.last)
    BY <2>9, <2>11, PiecesAreCut
  <2>13. Len(Append(e.arr, e.last)) = Len(e.arr) + 1
    BY <2>10, <2>11, AppendProperties
  <2> QED
    BY <1>1, <1>7, <2>10, <2>12, <2>13
<1> QED
  BY <1>6, <1>7

(* No letter is the separator, and the newline is not it either.           *)
LEMMA NoColonWithin ==
    ASSUME NEW cid \in Seq(Letter)
    PROVE  ~ Contains(cid, ":") /\ "\n" # ":"
<1>1. ":" \notin Letter
  BY LetterAssumption, Zenon DEF LetterAssumption
<1>2. \A j \in 1..Len(cid) : cid[j] \in Letter
  BY LenProperties
<1>3. "\n" # ":"
  OBVIOUS
<1> QED
  BY <1>1, <1>2, <1>3, Zenon DEF Contains

(* SplitsExactly, for strings and commit ids of every length.              *)
THEOREM LinesReadBack ==
    ASSUME arg \in Strings
    PROVE  SplitsExactly
<1> DEFINE S == Letter \cup {":", "/", "@", "+", "\n"}
<1>s. ":" \in S /\ "\n" \in S /\ Letter \subseteq S
  OBVIOUS
<1>1. PICK path \in Seq(S) : path = arg
  <2>1. PICK n \in 0..MaxString :
            arg \in [1..n -> Letter \cup {":", "/", "@", "+"}]
    BY DEF Strings, BoundedSeq, SeqOf
  <2>2. n \in Nat
    BY MaxStringAssumption DEF MaxStringAssumption
  <2>3. arg \in [1..n -> S]
    BY <2>1
  <2> HIDE DEF S
  <2>4. arg \in Seq(S)
    BY <2>2, <2>3, SeqDef
  <2> QED
    BY <2>4
<1>2. ASSUME NEW word \in Words(Letter)
      PROVE  word \in Seq(Letter) /\ word \in Seq(S)
  <2>1. PICK n \in 0..MaxString : word \in [1..n -> Letter]
    BY DEF Words, BoundedSeq, SeqOf
  <2>2. n \in Nat
    BY MaxStringAssumption DEF MaxStringAssumption
  <2>3. word \in Seq(Letter)
    BY <2>1, <2>2, SeqDef
  <2> HIDE DEF S
  <2> QED
    BY <1>s, <2>3, SeqMonotonic
<1> HIDE DEF S
<1>3. PICK c \in S : c = ":"
  BY <1>s
<1>4. PICK nl \in S : nl = "\n"
  BY <1>s
<1>5. LET arr == Pieces(path, c)
      IN /\ Joined(arr, c) \in {path, Append(path, c)}
         /\ \A k \in DOMAIN arr : ~ Contains(arr[k], c)
  BY SplitWhole
<1>6. ASSUME NEW word \in Words(Letter)
      PROVE  EntFromLine(Line(word, c, path, nl)) =
                 IF Contains(path, c) THEN [exit |-> TRUE]
                 ELSE [exit |-> FALSE, cid |-> word, path |-> path]
  <2>1. PICK cid \in Seq(S) : cid = word
    BY <1>2
  <2>2. ~ Contains(cid, c) /\ nl # c
    BY <1>2, <1>3, <1>4, <2>1, NoColonWithin
  <2> DEFINE arr == Pieces(Line(cid, c, path, nl), c)
  <2>3. IF Contains(path, c) THEN Len(arr) # 2 ELSE arr = <<cid, Append(path, nl)>>
    BY <2>2, LineSplits
  <2>4. EntFromLine(Line(cid, c, path, nl)) =
            IF Len(arr) # 2 THEN [exit |-> TRUE]
            ELSE [exit |-> FALSE, cid |-> arr[1], path |-> TrimNL(arr[2])]
    BY <1>3 DEF EntFromLine
  <2> HIDE DEF arr
  <2>5. CASE Contains(path, c)
    BY <2>1, <2>3, <2>4, <2>5
  <2>6. CASE ~ Contains(path, c)
    <3>1. Len(arr) = 2 /\ arr[1] = cid /\ arr[2] = Append(path, nl)
      BY <2>3, <2>6
    <3>2. TrimNL(Append(path, nl)) = path
      <4>1. Front(Append(path, nl)) = path /\ Last(Append(path, nl)) = nl
        BY FrontOfAppend
      <4> QED
        BY <1>4, <4>1 DEF TrimNL
    <3> QED
      BY <2>1, <2>4, <2>6, <3>1, <3>2
  <2> QED
    BY <2>5, <2>6
<1>7. \A arr : Joined(arr, ":") = FlattenSeq([i \in DOMAIN arr |-> arr[i] \o <<":">>])
  BY Zenon DEF Joined
<1>8. \A word : Line(word, ":", arg, "\n") = word \o <<":">> \o arg \o <<"\n">>
  BY Zenon DEF Line
<1>9. LET arr == Pieces(arg, ":")
      IN /\ FlattenSeq([i \in DOMAIN arr |-> arr[i] \o <<":">>]) \in {arg, Append(arg, ":")}
         /\ \A i \in DOMAIN arr : ~ Contains(arr[i], ":")
  BY <1>1, <1>3, <1>5, <1>7, Zenon
<1>10. \A word \in Words(Letter) :
           EntFromLine(word \o <<":">> \o arg \o <<"\n">>) =
               IF Contains(arg, ":") THEN [exit |-> TRUE]
               ELSE [exit |-> FALSE, cid |-> word, path |-> arg]
  BY <1>1, <1>3, <1>4, <1>6, <1>8, Zenon
<1> QED
  BY <1>9, <1>10, Zenon DEF SplitsExactly

-----------------------------------------------------------------------------
(* The loop of parse_remote.                                               *)

Remotes(S) == [state : {"open", "host", "port", "path"}, from : Seq(S),
               user : Seq(S), host : Seq(S), port : Seq(S), path : Seq(S)]

LEMMA RemoteStepType ==
    ASSUME NEW S, NEW r \in Remotes(S), NEW x \in S
    PROVE  RemoteStep(r, x) \in Remotes(S)
<1>1. /\ r.from \in Seq(S) /\ r.user \in Seq(S) /\ r.host \in Seq(S)
      /\ r.port \in Seq(S) /\ r.path \in Seq(S)
  BY DEF Remotes
<1>2. <<>> \in Seq(S) /\ <<x>> \in Seq(S) /\ Append(r.from, x) \in Seq(S)
  BY <1>1, EmptySeq, OneElement, AppendProperties
<1>3. HostEnds(r, x) \in Remotes(S)
  BY <1>1, <1>2 DEF HostEnds, Remotes
<1>4. [r EXCEPT !.from = Append(@, x)] \in Remotes(S)
  BY <1>1, <1>2 DEF Remotes
<1>5. [r EXCEPT !.state = "host", !.user = r.from, !.from = <<>>] \in Remotes(S)
  BY <1>1, <1>2 DEF Remotes
<1>6. [r EXCEPT !.state = "path", !.port = r.from, !.from = <<x>>] \in Remotes(S)
  BY <1>1, <1>2 DEF Remotes
<1> QED
  BY <1>3, <1>4, <1>5, <1>6, Zenon DEF RemoteStep

RemoteFold(str) == CHOOSE fold : fold = [T \in SUBSET DOMAIN str |->
    IF T = {} THEN Opened ELSE RemoteStep(fold[T \ {Max(T)}], str[Max(T)])]

(* What the loop has after i characters, and after all of them.            *)
Scan(str, i) == RemoteFold(str)[1..i]
Scanned(str) == FoldLeft(RemoteStep, Opened, str)

LEMMA ScannedIsScan ==
    ASSUME NEW S, NEW str \in Seq(S)
    PROVE  Scanned(str) = Scan(str, Len(str))
<1>1. DOMAIN str = 1..Len(str)
  BY LenProperties
<1>2. Scanned(str) = RemoteFold(str)[DOMAIN str]
  BY Zenon DEF FoldLeft, MapThenFoldSet, Scanned, RemoteFold
<1> QED
  BY <1>1, <1>2, Zenon DEF Scan

LEMMA ScanDefined ==
    ASSUME NEW S, "2" \in S, NEW str \in Seq(S)
    PROVE  /\ Scan(str, 0) = Opened
           /\ \A i \in 1..Len(str) :
                  Scan(str, i) = RemoteStep(Scan(str, i - 1), str[i])
           /\ \A i \in 0..Len(str) : Scan(str, i) \in Remotes(S)
<1> DEFINE n == Len(str)
           R == Remotes(S)
           step == [p \in R \X (1..n) |-> RemoteStep(p[1], str[p[2]])]
           IsFold(f) == f = [T \in SUBSET DOMAIN str |->
                                IF T = {} THEN Opened
                                ELSE RemoteStep(f[T \ {Max(T)}], str[Max(T)])]
<1>1. n \in Nat /\ DOMAIN str = 1..n /\ \A i \in 1..n : str[i] \in S
  BY LenProperties
<1>2. Opened \in R
  <2>1. <<>> \in Seq(S)
    BY EmptySeq
  <2>2. <<"2", "2">> \in Seq(S)
    <3>1. PICK s \in Seq(S) : s = <<"2">>
      BY OneElement
    <3>2. Append(s, "2") = <<"2", "2">>
      BY <3>1, TwoElements, Zenon
    <3>3. Append(s, "2") \in Seq(S)
      BY AppendProperties
    <3> QED
      BY <3>2, <3>3
  <2> QED
    BY <2>1, <2>2 DEF Remotes, Opened, Unset
<1>3. StepsIn(step, n, R)
  BY <1>1, RemoteStepType DEF StepsIn
<1>4. PICK g : FoldOf(g, n, R, Opened, step)
  <2> HIDE DEF R, n, step
  <2> QED
    BY <1>1, <1>2, <1>3, FoldDefined
<1>5. IsFold(g)
  <2>1. ASSUME NEW T \in SUBSET (1..n)
        PROVE  g[T] = IF T = {} THEN Opened
                      ELSE RemoteStep(g[T \ {Max(T)}], str[Max(T)])
    <3>1. CASE T # {}
      <4>1. Max(T) \in 1..n
        BY <1>1, <3>1, GreatestElement
      <4>2. g[T \ {Max(T)}] \in R
        BY <1>4 DEF FoldOf
      <4>3. <<g[T \ {Max(T)}], Max(T)>> \in R \X (1..n)
        BY <4>1, <4>2
      <4>4. step[<<g[T \ {Max(T)}], Max(T)>>]
                = RemoteStep(g[T \ {Max(T)}], str[Max(T)])
        BY <4>3
      <4> QED
        BY <1>4, <3>1, <4>4, Zenon DEF FoldOf
    <3> QED
      BY <1>4, <3>1, Zenon DEF FoldOf
  <2>2. g \in [SUBSET DOMAIN str -> R] /\ DOMAIN str = 1..n
    BY <1>1, <1>4 DEF FoldOf
  <2> HIDE DEF R, n, step
  <2> QED
    BY <2>1, <2>2, Zenon
<1>6. IsFold(RemoteFold(str))
  <2>1. RemoteFold(str) = CHOOSE f : IsFold(f)
    BY Zenon DEF RemoteFold
  <2> HIDE DEF IsFold
  <2> QED
    BY <1>5, <2>1, Zenon
<1>7. Scan(str, 0) = Opened
  <2>1. 1..0 = {} /\ {} \in SUBSET DOMAIN str
    OBVIOUS
  <2>2. RemoteFold(str)[{}] = Opened
    BY <1>6, <2>1, Zenon
  <2> QED
    BY <2>1, <2>2 DEF Scan
<1>8. ASSUME NEW i \in 1..n
      PROVE  Scan(str, i) = RemoteStep(Scan(str, i - 1), str[i])
  <2>1. /\ 1..i \in SUBSET DOMAIN str /\ 1..i # {}
        /\ Max(1..i) = i /\ (1..i) \ {Max(1..i)} = 1..(i - 1)
    BY <1>1, LastPosition
  <2> QED
    BY <1>6, <2>1, Zenon DEF Scan
<1>9. \A i \in 0..n : Scan(str, i) \in R
  <2> DEFINE N == {i \in Nat : Scan(str, i) \in R}
  <2>1. 0 \in N
    BY <1>2, <1>7
  <2>2. ASSUME NEW i \in 1..n, i - 1 \in N PROVE i \in N
    BY <1>1, <1>8, <2>2, RemoteStepType
  <2>3. 0..n \subseteq N
    <3> HIDE DEF N, n
    <3> QED
      BY <1>1, <2>1, <2>2, UptoInduction
  <2> QED
    BY <2>3
<1> QED
  BY <1>7, <1>8, <1>9

LEMMA ScannedNothing == Scanned(<<>>) = Opened
<1> DEFINE S == {"2"}
<1>1. PICK none \in Seq(S) : none = <<>> /\ Len(none) = 0
  BY EmptySeq
<1>2. "2" \in S
  OBVIOUS
<1> HIDE DEF S
<1>3. Scan(none, 0) = Opened
  BY <1>2, ScanDefined
<1>4. Scanned(none) = Scan(none, Len(none))
  BY ScannedIsScan
<1> QED
  BY <1>1, <1>3, <1>4

LEMMA ScannedAppend ==
    ASSUME NEW S, "2" \in S, NEW str \in Seq(S), NEW x \in S
    PROVE  /\ Scanned(str) \in Remotes(S)
           /\ Scanned(Append(str, x)) = RemoteStep(Scanned(str), x)
<1>1. PICK l \in Nat : l = Len(str)
  BY LenProperties
<1>2. PICK more \in Seq(S) : more = Append(str, x)
  BY AppendProperties
<1>3. Len(more) = l + 1 /\ more[l + 1] = x /\ \A i \in 1..l : more[i] = str[i]
  BY <1>1, <1>2, AppendProperties
<1>4. /\ Scan(str, 0) = Opened
      /\ \A i \in 1..l : Scan(str, i) = RemoteStep(Scan(str, i - 1), str[i])
      /\ Scan(str, l) \in Remotes(S)
  <2>1. l \in 0..Len(str)
    BY <1>1
  <2> QED
    BY <1>1, <2>1, ScanDefined
<1>5. /\ Scan(more, 0) = Opened
      /\ \A i \in 1..(l + 1) : Scan(more, i) = RemoteStep(Scan(more, i - 1), more[i])
  BY <1>3, ScanDefined
<1> DEFINE N == {i \in Nat : Scan(more, i) = Scan(str, i)}
<1>6. 0 \in N
  BY <1>4, <1>5
<1>7. ASSUME NEW i \in 1..l, i - 1 \in N PROVE i \in N
  <2>1. i \in 1..(l + 1) /\ i \in Nat
    OBVIOUS
  <2>2. Scan(more, i - 1) = Scan(str, i - 1)
    BY <1>7
  <2>3. Scan(more, i) = RemoteStep(Scan(more, i - 1), str[i])
    BY <1>3, <1>5, <2>1
  <2>4. Scan(more, i) = Scan(str, i)
    BY <1>4, <2>2, <2>3
  <2> QED
    BY <2>1, <2>4
<1>8. Scan(more, l) = Scan(str, l)
  <2>1. 0..l \subseteq N
    <3> HIDE DEF N
    <3> QED
      BY <1>6, <1>7, UptoInduction
  <2> QED
    BY <2>1
<1>9. Scan(more, l + 1) = RemoteStep(Scan(str, l), x)
  <2>1. l + 1 \in 1..(l + 1) /\ (l + 1) - 1 = l
    OBVIOUS
  <2> QED
    BY <1>3, <1>5, <1>8, <2>1
<1>10. Scanned(str) = Scan(str, l) /\ Scanned(more) = Scan(more, l + 1)
  BY <1>1, <1>3, ScannedIsScan
<1> QED
  BY <1>2, <1>4, <1>9, <1>10

(* The characters that a round only counts.                                *)
Kept(state, x) ==
    \/ state \in {"open", "host"} /\ x \notin {"@", "/", "~", ":"}
    \/ state = "port" /\ x \in Digits
    \/ state = "path"

LEMMA KeptStep ==
    ASSUME NEW S, NEW r \in Remotes(S), NEW x, Kept(r.state, x)
    PROVE  RemoteStep(r, x) = [r EXCEPT !.from = Append(@, x)]
<1>1. ~ (r.state = "open" /\ x = "@")
  BY DEF Kept
<1>2. ~ (r.state \in {"open", "host"} /\ x \in {"/", "~", ":"})
  BY DEF Kept
<1>3. ~ (r.state = "port" /\ r.from # <<>> /\ x \notin Digits)
  BY DEF Kept
<1> QED
  BY <1>1, <1>2, <1>3, Zenon DEF RemoteStep

Extended(r, run) == [r EXCEPT !.from = @ \o run]

LEMMA RunKept ==
    ASSUME NEW S, "2" \in S, NEW str \in Seq(S), NEW run \in Seq(S),
           \A j \in 1..Len(run) : Kept(Scanned(str).state, run[j])
    PROVE  Scanned(str \o run) = Extended(Scanned(str), run)
<1>c. /\ str \in Seq(S) /\ run \in Seq(S)
      /\ \A j \in 1..Len(run) : Kept(Scanned(str).state, run[j])
  OBVIOUS
<1>1. PICK l \in Nat : l = Len(run)
  BY <1>c, LenProperties
<1>2. PICK r \in Remotes(S) : r = Scanned(str)
  BY <1>c, ScannedAppend
<1>3. r.from \in Seq(S)
  BY DEF Remotes
<1> DEFINE N == {i \in Nat : Scanned(str \o SubSeq(run, 1, i))
                              = [r EXCEPT !.from = @ \o SubSeq(run, 1, i)]}
<1>4. 0 \in N
  <2>1. SubSeq(run, 1, 0) = <<>>
    BY SubSeqEmpty
  <2>2. str \o <<>> = str /\ r.from \o <<>> = r.from
    BY <1>c, <1>3, ConcatEmptySeq
  <2>3. r = [r EXCEPT !.from = r.from]
    BY DEF Remotes
  <2> QED
    BY <1>2, <2>1, <2>2, <2>3
<1>5. ASSUME NEW i \in 1..l, i - 1 \in N PROVE i \in N
  <2>1. PICK before \in Seq(S), x \in S : before = SubSeq(run, 1, i - 1) /\ x = run[i]
    BY <1>1, <1>c, ReadSoFar
  <2>2. SubSeq(run, 1, i) = Append(before, x)
    BY <1>1, <1>c, <2>1, ReadSoFar
  <2>3. AppendsBehind(S)
    BY AppendBehind
  <2>4. PICK from \in Seq(S) : from = r.from
    BY <1>3
  <2>5. /\ str \o Append(before, x) = Append(str \o before, x)
        /\ from \o Append(before, x) = Append(from \o before, x)
    BY <1>c, <2>3, Zenon DEF AppendsBehind
  <2>6. PICK read \in Seq(S) : read = str \o before
    BY <1>c, ConcatProperties
  <2>7. PICK q \in Remotes(S) : q = Scanned(read)
    BY ScannedAppend
  <2>8. q = [r EXCEPT !.from = from \o before]
    BY <1>5, <2>1, <2>4, <2>6, <2>7
  <2>9. q.state = r.state /\ q.from = from \o before
    BY <2>8 DEF Remotes
  <2>10. Kept(q.state, x)
    BY <1>1, <1>2, <1>c, <2>1, <2>9
  <2>11. Scanned(Append(read, x)) = [q EXCEPT !.from = Append(@, x)]
    <3>1. Scanned(Append(read, x)) = RemoteStep(q, x)
      BY <2>7, ScannedAppend
    <3>2. RemoteStep(q, x) = [q EXCEPT !.from = Append(@, x)]
      BY <2>10, KeptStep
    <3> QED
      BY <3>1, <3>2
  <2>12. [q EXCEPT !.from = Append(@, x)] = [r EXCEPT !.from = from \o Append(before, x)]
    BY <2>5, <2>8, <2>9 DEF Remotes
  <2>13. Scanned(str \o SubSeq(run, 1, i)) = [r EXCEPT !.from = @ \o SubSeq(run, 1, i)]
    BY <2>2, <2>4, <2>5, <2>6, <2>11, <2>12
  <2> QED
    BY <2>13
<1>6. 0..l \subseteq N
  <2> HIDE DEF N
  <2> QED
    BY <1>4, <1>5, UptoInduction
<1>7. SubSeq(run, 1, l) = run
  BY <1>1, <1>c, SubSeqFull
<1>8. l \in N
  <2> HIDE DEF N
  <2>1. l \in 0..l
    OBVIOUS
  <2> QED
    BY <1>6, <2>1
<1> QED
  BY <1>2, <1>7, <1>8 DEF Extended

-----------------------------------------------------------------------------
(* A remote is read as written.                                            *)

(* The parts of [user@]host[:port]path; an empty user or port is left out. *)
Before(user) == IF user = Unset THEN <<>> ELSE Append(user, "@")
Behind(port) == IF port = Unset THEN <<>> ELSE <<":">> \o port
Uri(user, host, port, root, path) ==
    Before(user) \o host \o Behind(port) \o <<root>> \o path

(* A user and a host without a separator, and a port of digits.            *)
WellFormed(S, user, host, port) ==
    /\ user \in Seq(S) /\ host \in Seq(S) /\ port \in Seq(S)
    /\ \A j \in 1..Len(user) : user[j] \notin {"@", "/", "~", ":"}
    /\ \A j \in 1..Len(host) : host[j] \notin {"@", "/", "~", ":"}
    /\ \A j \in 1..Len(port) : port[j] \in Digits

RemoteChars(S) == {"2", "@", ":", "/", "~"} \subseteq S

Parsed(state, from, user, host, port, path) ==
    [state |-> state, from |-> from, user |-> user, host |-> host,
     port |-> port, path |-> path]

LEMMA ParsedSteps ==
    ASSUME NEW from, NEW user, NEW host, NEW port, NEW path
    PROVE  /\ RemoteStep(Parsed("open", from, user, host, port, path), "@")
                  = Parsed("host", <<>>, from, host, port, path)
           /\ \A state \in {"open", "host"} :
                  /\ RemoteStep(Parsed(state, from, user, host, port, path), ":")
                         = Parsed("port", <<>>, user, from, port, path)
                  /\ \A root \in {"/", "~"} :
                         RemoteStep(Parsed(state, from, user, host, port, path), root)
                             = Parsed("path", <<root>>, user, from, port, path)
           /\ from # <<>> => \A root \in {"/", "~"} :
                  RemoteStep(Parsed("port", from, user, host, port, path), root)
                      = Parsed("path", <<root>>, user, host, from, path)
<1>1. RemoteStep(Parsed("open", from, user, host, port, path), "@")
          = Parsed("host", <<>>, from, host, port, path)
  BY DEF RemoteStep, Parsed
<1>2. ASSUME NEW state \in {"open", "host"}
      PROVE  RemoteStep(Parsed(state, from, user, host, port, path), ":")
                 = Parsed("port", <<>>, user, from, port, path)
  BY DEF RemoteStep, Parsed, HostEnds
<1>3. ASSUME NEW state \in {"open", "host"}, NEW root \in {"/", "~"}
      PROVE  RemoteStep(Parsed(state, from, user, host, port, path), root)
                 = Parsed("path", <<root>>, user, from, port, path)
  BY DEF RemoteStep, Parsed, HostEnds
<1>4. ASSUME NEW root \in {"/", "~"}, from # <<>>
      PROVE  RemoteStep(Parsed("port", from, user, host, port, path), root)
                 = Parsed("path", <<root>>, user, host, from, path)
  <2>1. root \notin Digits
    BY DEF Digits, DigitList, Range
  <2> QED
    BY <1>4, <2>1 DEF RemoteStep, Parsed
<1> QED
  BY <1>1, <1>2, <1>3, <1>4

Reads(str, state, from, user, host, port, path) ==
    Scanned(str) = Parsed(state, from, user, host, port, path)

Counted(S, str, run, state) ==
    str \in Seq(S) /\ run \in Seq(S) /\ \A j \in 1..Len(run) : Kept(state, run[j])

PathBegins(from, user, host, port, path, root) ==
    /\ \A state \in {"open", "host"} :
           RemoteStep(Parsed(state, from, user, host, port, path), root)
               = Parsed("path", <<root>>, user, from, port, path)
    /\ from # <<>> =>
           RemoteStep(Parsed("port", from, user, host, port, path), root)
               = Parsed("path", <<root>>, user, host, from, path)

LEMMA PathBegun ==
    ASSUME NEW from, NEW user, NEW host, NEW port, NEW path, NEW root \in {"/", "~"}
    PROVE  PathBegins(from, user, host, port, path, root)
BY ParsedSteps DEF PathBegins

Finished(r, path) == [r EXCEPT !.state = "done", !.path = path]

LEMMA ParsedDone ==
    ASSUME NEW from, NEW user, NEW host, NEW port, NEW old, NEW path
    PROVE  Finished(Parsed("path", from, user, host, port, old), path)
               = Parsed("done", from, user, host, port, path)
<1>1. [Parsed("path", from, user, host, port, old) EXCEPT !.state = "done"]
          = Parsed("done", from, user, host, port, old)
  BY DEF Parsed
<1>2. [Parsed("done", from, user, host, port, old) EXCEPT !.path = path]
          = Parsed("done", from, user, host, port, path)
  BY DEF Parsed
<1> QED
  BY <1>1, <1>2, Zenon DEF Finished

LEMMA ParsedRun ==
    ASSUME NEW S, "2" \in S, NEW str, NEW run, NEW state, NEW from, NEW user,
           NEW host, NEW port, NEW path,
           Reads(str, state, from, user, host, port, path),
           Counted(S, str, run, state)
    PROVE  Reads(str \o run, state, from \o run, user, host, port, path)
<1>1. Scanned(str) = Parsed(state, from, user, host, port, path)
  BY DEF Reads
<1>2. Scanned(str).state = state /\ Scanned(str).from = from
  BY <1>1 DEF Parsed
<1>3. Scanned(str \o run) = Extended(Scanned(str), run)
  BY <1>2, RunKept DEF Counted
<1>4. Extended(Parsed(state, from, user, host, port, path), run)
          = Parsed(state, from \o run, user, host, port, path)
  <2>1. PICK f : f = from \o run
    OBVIOUS
  <2>2. [Parsed(state, from, user, host, port, path) EXCEPT !.from = f]
            = Parsed(state, f, user, host, port, path)
    BY DEF Parsed
  <2>3. Parsed(state, from, user, host, port, path).from = from
    BY DEF Parsed
  <2> QED
    BY <2>1, <2>2, <2>3, Zenon DEF Extended
<1> QED
  BY <1>1, <1>3, <1>4, Zenon DEF Reads

LEMMA UserRead ==
    ASSUME NEW S, RemoteChars(S), NEW user, NEW host, NEW port,
           WellFormed(S, user, host, port)
    PROVE  /\ Before(user) \in Seq(S)
           /\ \E state \in {"open", "host"} :
                  Scanned(Before(user)) = Parsed(state, <<>>, user, Unset, Opened.port, Unset)
<1>s. "2" \in S /\ "@" \in S
  BY DEF RemoteChars
<1>o. Opened = Parsed("open", <<>>, Unset, Unset, Opened.port, Unset)
  BY DEF Opened, Parsed
<1>1. CASE user = Unset
  <2>1. Before(user) = <<>>
    BY <1>1 DEF Before
  <2> QED
    BY <1>1, <1>o, <2>1, ScannedNothing, EmptySeq
<1>2. CASE user # Unset
  <2>1. PICK u \in Seq(S) : u = user
    BY DEF WellFormed
  <2>2. PICK none \in Seq(S) : none = <<>>
    BY EmptySeq
  <2>3. \A j \in 1..Len(u) : Kept("open", u[j])
    BY <2>1 DEF WellFormed, Kept
  <2>4. Scanned(none) = Parsed("open", <<>>, Unset, Unset, Opened.port, Unset)
    BY <1>o, <2>2, ScannedNothing
  <2>5. Scanned(none \o u)
            = Parsed("open", <<>> \o u, Unset, Unset, Opened.port, Unset)
    <3>1. PICK e, w : e = Opened.port /\ w = Unset
      OBVIOUS
    <3>2. Reads(none, "open", <<>>, w, w, e, w)
      BY <2>4, <3>1 DEF Reads
    <3>3. Counted(S, none, u, "open")
      BY <2>3 DEF Counted
    <3>4. Reads(none \o u, "open", <<>> \o u, w, w, e, w)
      BY <1>s, <3>2, <3>3, ParsedRun
    <3> QED
      BY <3>1, <3>4 DEF Reads
  <2>6. none \o u = u /\ <<>> \o u = u
    BY <2>2, ConcatEmptySeq
  <2>7. Scanned(u) = Parsed("open", u, Unset, Unset, Opened.port, Unset)
    BY <2>5, <2>6
  <2>8. Scanned(Append(u, "@")) = RemoteStep(Scanned(u), "@")
    BY <1>s, ScannedAppend
  <2>9. Scanned(Append(u, "@")) = Parsed("host", <<>>, u, Unset, Opened.port, Unset)
    BY <2>7, <2>8, ParsedSteps
  <2>10. Before(user) = Append(u, "@")
    BY <1>2, <2>1 DEF Before
  <2>11. Append(u, "@") \in Seq(S)
    BY <1>s, AppendProperties
  <2> QED
    BY <2>1, <2>9, <2>10, <2>11
<1> QED
  BY <1>1, <1>2

LEMMA HostRead ==
    ASSUME NEW S, RemoteChars(S), NEW user, NEW host, NEW port,
           WellFormed(S, user, host, port)
    PROVE  /\ Before(user) \o host \in Seq(S)
           /\ \E state \in {"open", "host"} :
                  Reads(Before(user) \o host, state, host, user, Unset, Opened.port, Unset)
<1>s. "2" \in S
  BY DEF RemoteChars
<1>1. PICK b \in Seq(S), h \in Seq(S) : b = Before(user) /\ h = host
  BY UserRead DEF WellFormed
<1>2. PICK state \in {"open", "host"} :
          Scanned(b) = Parsed(state, <<>>, user, Unset, Opened.port, Unset)
  BY <1>1, UserRead
<1>3. PICK e, w : e = Opened.port /\ w = Unset
  OBVIOUS
<1>4. Reads(b, state, <<>>, user, w, e, w)
  BY <1>2, <1>3 DEF Reads
<1>5. Counted(S, b, h, state)
  BY <1>1 DEF Counted, WellFormed, Kept
<1>6. Reads(b \o h, state, <<>> \o h, user, w, e, w)
  BY <1>s, <1>4, <1>5, ParsedRun
<1>7. <<>> \o h = h
  BY ConcatEmptySeq
<1>8. b \o h \in Seq(S)
  BY ConcatProperties
<1> QED
  BY <1>1, <1>3, <1>6, <1>7, <1>8

LEMMA PortRead ==
    ASSUME NEW S, RemoteChars(S), NEW user, NEW host, NEW port,
           WellFormed(S, user, host, port)
    PROVE  LET read == Before(user) \o host \o Behind(port)
           IN /\ read \in Seq(S)
              /\ IF port = Unset
                 THEN \E state \in {"open", "host"} :
                          Reads(read, state, host, user, Unset, Opened.port, Unset)
                 ELSE Reads(read, "port", port, user, host, Opened.port, Unset)
<1>s. "2" \in S /\ ":" \in S
  BY DEF RemoteChars
<1>1. PICK b \in Seq(S) : b = Before(user) \o host
  BY HostRead
<1>2. PICK state \in {"open", "host"} :
          Reads(b, state, host, user, Unset, Opened.port, Unset)
  BY <1>1, HostRead
<1>3. CASE port = Unset
  <2>1. Behind(port) = <<>>
    BY <1>3 DEF Behind
  <2>2. b \o <<>> = b
    BY ConcatEmptySeq
  <2> QED
    BY <1>1, <1>2, <1>3, <2>1, <2>2, Zenon
<1>4. CASE port # Unset
  <2>1. PICK p \in Seq(S) : p = port
    BY DEF WellFormed
  <2>2. PICK c \in Seq(S), x \in S : c = <<x>> /\ x = ":"
    BY <1>s, OneElement
  <2>3. PICK a \in Seq(S) : a = Append(b, x)
    BY AppendProperties
  <2>4. a = b \o c
    BY <2>2, <2>3, AppendIsConcat
  <2>5. a \o p = b \o (c \o p)
    BY <2>4, ConcatAssociative
  <2>6. Behind(port) = c \o p
    BY <1>4, <2>1, <2>2 DEF Behind
  <2>7. PICK e, w : e = Opened.port /\ w = Unset
    OBVIOUS
  <2>8. Scanned(b) = Parsed(state, host, user, w, e, w)
    BY <1>2, <2>7 DEF Reads
  <2>9. Scanned(a) = RemoteStep(Scanned(b), x)
    BY <1>s, <2>3, ScannedAppend
  <2>10. Reads(a, "port", <<>>, user, host, e, w)
    BY <2>2, <2>8, <2>9, ParsedSteps DEF Reads
  <2>11. Counted(S, a, p, "port")
    BY <2>1 DEF Counted, WellFormed, Kept
  <2>12. Reads(a \o p, "port", <<>> \o p, user, host, e, w)
    BY <1>s, <2>10, <2>11, ParsedRun
  <2>13. <<>> \o p = p
    BY ConcatEmptySeq
  <2>14. a \o p \in Seq(S)
    BY ConcatProperties
  <2> QED
    BY <1>1, <1>4, <2>1, <2>5, <2>6, <2>7, <2>12, <2>13, <2>14, Zenon
<1> QED
  BY <1>3, <1>4

UriReads(S, user, host, port, root, path) ==
    /\ Uri(user, host, port, root, path) \in Seq(S)
    /\ Fields(ParseRemote(Uri(user, host, port, root, path)))
           = <<"done", user, host, IF port = Unset THEN Opened.port ELSE port,
               <<root>> \o path>>

(* parse_remote reads every remote as written, whatever is in its path.    *)
THEOREM UriRead ==
    ASSUME NEW S, RemoteChars(S), NEW user, NEW host, NEW port,
           WellFormed(S, user, host, port),
           NEW root \in {"/", "~"}, NEW path \in Seq(S), path # <<>>
    PROVE  UriReads(S, user, host, port, root, path)
<1>s. "2" \in S /\ root \in S
  BY DEF RemoteChars
<1> DEFINE read == Before(user) \o host \o Behind(port)
           last == IF port = Unset THEN Opened.port ELSE port
<1>1. PICK b \in Seq(S) : b = read
  BY PortRead
<1>2. PICK a \in Seq(S) : a = Append(b, root)
  BY <1>s, AppendProperties
<1>3. PICK c \in Seq(S) : c = <<root>>
  BY <1>s, OneElement
<1>4. a = b \o c
  BY <1>2, <1>3, <1>s, AppendIsConcat
<1>5. Scanned(a) = RemoteStep(Scanned(b), root)
  BY <1>2, <1>s, ScannedAppend
<1>6. PICK e, w : e = Opened.port /\ w = Unset
  OBVIOUS
<1>7. Reads(a, "path", c, user, host, last, w)
  <2>1. CASE port = Unset
    <3>1. PICK state \in {"open", "host"} : Reads(b, state, host, user, w, e, w)
      BY <1>1, <1>6, <2>1, PortRead
    <3>2. RemoteStep(Parsed(state, host, user, w, e, w), root)
              = Parsed("path", <<root>>, user, host, e, w)
      <4>1. PathBegins(host, user, w, e, w, root)
        BY PathBegun
      <4> QED
        BY <4>1, Zenon DEF PathBegins
    <3>3. Scanned(a) = Parsed("path", <<root>>, user, host, e, w)
      BY <1>5, <3>1, <3>2, Zenon DEF Reads
    <3> QED
      BY <1>3, <1>6, <2>1, <3>3 DEF Reads
  <2>2. CASE port # Unset
    <3>1. Reads(b, "port", port, user, host, e, w)
      BY <1>1, <1>6, <2>2, PortRead
    <3>2. port # <<>>
      BY <2>2 DEF Unset
    <3>3. RemoteStep(Parsed("port", port, user, host, e, w), root)
              = Parsed("path", <<root>>, user, host, port, w)
      <4>1. PathBegins(port, user, host, e, w, root)
        BY PathBegun
      <4> QED
        BY <3>2, <4>1, Zenon DEF PathBegins
    <3>4. Scanned(a) = Parsed("path", <<root>>, user, host, port, w)
      BY <1>5, <3>1, <3>3, Zenon DEF Reads
    <3> QED
      BY <1>3, <2>2, <3>4 DEF Reads
  <2> QED
    BY <2>1, <2>2
<1>8. Counted(S, a, path, "path")
  BY DEF Counted, Kept
<1>9. PICK l : l = last
  OBVIOUS
<1>10. Reads(a \o path, "path", c \o path, user, host, l, w)
  <2> HIDE DEF last
  <2> QED
    BY <1>7, <1>8, <1>9, <1>s, ParsedRun
<1>11. a \o path = Uri(user, host, port, root, path) /\ a \o path \in Seq(S)
  <2>1. a \o path \in Seq(S)
    BY ConcatProperties
  <2> QED
    BY <1>1, <1>3, <1>4, <2>1, Zenon DEF Uri
<1>12. PICK q \in Seq(S) : q = c \o path
  BY ConcatProperties
<1>13. Len(q) > 1
  <2>1. Len(c) = 1 /\ Len(path) \in Nat /\ Len(path) # 0
    BY <1>3, LenProperties, EmptySeq
  <2>2. Len(c \o path) = Len(c) + Len(path)
    BY ConcatProperties
  <2> QED
    BY <1>12, <2>1, <2>2
<1>14. ParseRemote(a \o path) = Parsed("done", q, user, host, l, q)
  <2>1. Scanned(a \o path) = Parsed("path", q, user, host, l, w)
    BY <1>10, <1>12 DEF Reads
  <2>2. ParseRemote(a \o path) =
            LET r == Scanned(a \o path)
            IN IF r.state # "path" THEN [r EXCEPT !.state = "failed"]
               ELSE [r EXCEPT !.state = "done",
                              !.path = IF Len(r.from) > 1 THEN r.from ELSE Unset]
    BY Zenon DEF ParseRemote, Scanned
  <2>3. PICK r : r = Parsed("path", q, user, host, l, w)
    OBVIOUS
  <2>4. r.state = "path" /\ r.from = q
    BY <2>3 DEF Parsed
  <2>5. Finished(r, q) = Parsed("done", q, user, host, l, q)
    BY <2>3, ParsedDone
  <2>6. ParseRemote(a \o path) = Finished(r, q)
    BY <1>13, <2>1, <2>2, <2>3, <2>4, Zenon DEF Finished
  <2> QED
    BY <2>5, <2>6
<1>15. Fields(Parsed("done", q, user, host, l, q)) = <<"done", user, host, l, q>>
  BY DEF Fields, Parsed
<1> QED
  BY <1>3, <1>9, <1>11, <1>12, <1>14, <1>15 DEF UriReads

(* A line of the file of remotes: a name of two characters, a space, the   *)
(* remote and the newline.                                                 *)
RemoteLine(a, b, sp, uri, nl) == <<a, b, sp>> \o uri \o <<nl>>

IsRemoteLine(line, S, a, b, uri, nl) ==
    /\ line \in Seq(S)
    /\ Head(line) = a
    /\ Len(line) >= 2
    /\ SubSeq(line, 1, 2) = <<a, b>>
    /\ SubSeq(line, 4, Len(line)) = Append(uri, nl)

LEMMA RemoteLineIs ==
    ASSUME NEW S, NEW a \in S, NEW b \in S, NEW sp \in S, NEW uri \in Seq(S), NEW nl \in S
    PROVE  IsRemoteLine(RemoteLine(a, b, sp, uri, nl), S, a, b, uri, nl)
<1>t. IsTriple(<<a, b, sp>>, S, a, b, sp)
  BY TripleIs
<1>1. PICK s \in Seq(S) : s = <<a, b, sp>>
  BY <1>t DEF IsTriple
<1>2. Len(s) = 3 /\ s[1] = a /\ s[2] = b
  BY <1>1, <1>t DEF IsTriple
<1>3. PICK t \in Seq(S) : t = Append(uri, nl)
  BY AppendProperties
<1>4. PICK n \in Nat : n = Len(t) /\ n >= 1
  <2>1. Len(uri) \in Nat /\ Len(t) = Len(uri) + 1
    BY <1>3, AppendProperties, LenProperties
  <2> QED
    BY <2>1
<1>5. PICK line \in Seq(S) : line = s \o t
  BY ConcatProperties
<1>6. line = RemoteLine(a, b, sp, uri, nl)
  <2>1. AppendsBehind(S)
    BY AppendBehind
  <2>2. Append(s \o uri, nl) = s \o Append(uri, nl)
    BY <2>1, Zenon DEF AppendsBehind
  <2>3. PICK q \in Seq(S) : q = s \o uri
    BY ConcatProperties
  <2>4. Append(q, nl) = q \o <<nl>>
    BY AppendIsConcat
  <2> QED
    BY <1>1, <1>3, <1>5, <2>2, <2>3, <2>4, Zenon DEF RemoteLine
<1>7. /\ Len(line) = 3 + n
      /\ \A i \in 1..(3 + n) : line[i] = IF i <= 3 THEN s[i] ELSE t[i - 3]
  <2>1. /\ Len(s \o t) = Len(s) + Len(t)
        /\ \A i \in 1..Len(s) + Len(t) :
               (s \o t)[i] = IF i <= Len(s) THEN s[i] ELSE t[i - Len(s)]
    BY ConcatProperties
  <2> QED
    BY <1>2, <1>4, <1>5, <2>1
<1>8. line[1] = a /\ line[2] = b
  BY <1>2, <1>4, <1>7
<1>9. Head(line) = a
  BY <1>8
<1>10. SubSeq(line, 1, 2) = <<a, b>>
  <2>1. \A i \in 1..2 : line[i] \in S
    BY <1>8
  <2>2. /\ SubSeq(line, 1, 2) \in Seq(S)
        /\ Len(SubSeq(line, 1, 2)) = IF 1 <= 2 THEN 2 - 1 + 1 ELSE 0
        /\ \A i \in 1 .. 2 - 1 + 1 : SubSeq(line, 1, 2)[i] = line[1 + i - 1]
    BY <2>1, SubSeqProperties
  <2>p. IsPair(<<a, b>>, S, a, b)
    BY PairIs
  <2>3. PICK p \in Seq(S) : p = <<a, b>>
    BY <2>p DEF IsPair
  <2>4. Len(p) = 2 /\ p[1] = a /\ p[2] = b
    BY <2>p, <2>3 DEF IsPair
  <2>5. Len(SubSeq(line, 1, 2)) = Len(p)
    BY <2>2, <2>4
  <2>6. \A i \in 1..2 : SubSeq(line, 1, 2)[i] = line[i]
    BY <2>2
  <2>7. ASSUME NEW i \in 1..2 PROVE SubSeq(line, 1, 2)[i] = p[i]
    BY <1>8, <2>4, <2>6
  <2> QED
    BY <2>2, <2>3, <2>4, <2>5, <2>7, SeqEqual
<1>11. SubSeq(line, 4, Len(line)) = t
  <2>1. PICK m \in 1..n : m = 1
    BY <1>4
  <2>2. /\ 4 \in Len(s) + 1 .. Len(s) + Len(t)
        /\ 3 + n \in Len(s) + 1 .. Len(s) + Len(t)
        /\ 4 - Len(s) = 1 /\ 3 + n - Len(s) = n
    BY <1>2, <1>4
  <2>3. SubSeq(s \o t, 4, 3 + n) = SubSeq(t, 4 - Len(s), 3 + n - Len(s))
    BY <2>2, SubSeqOfConcat2
  <2>4. SubSeq(t, 1, n) = t
    BY <1>4, SubSeqFull
  <2> QED
    BY <1>5, <1>7, <2>2, <2>3, <2>4
<1> QED
  BY <1>3, <1>4, <1>6, <1>7, <1>9, <1>10, <1>11 DEF IsRemoteLine

(* remote_by_name finds the third of the lines: the first is a comment,    *)
(* and the second begins otherwise.                                        *)
Other == <<"o", "n", " ", "h", "/", "x", "\n">>

LEMMA OtherName ==
    ASSUME NEW name, name[1] = "n", Len(name) = 2, SubSeq(name, 1, 2) = name
    PROVE  ~ IsPrefix(name, Other)
<1>1. PICK s : s = Other
  OBVIOUS
<1>2. s[1] = "o" /\ s[2] = "n"
  BY <1>1 DEF Other
<1>3. \A i \in 1..2 : s[i] \in {"o", "n"}
  <2>1. \A i \in 1..2 : i = 1 \/ i = 2
    OBVIOUS
  <2> QED
    BY <1>2, <2>1
<1>4. PICK m \in Int, n \in Int : m = 1 /\ n = 2
  OBVIOUS
<1>5. \A i \in 1 .. n - m + 1 : SubSeq(s, m, n)[i] = s[m + i - 1]
  BY <1>3, <1>4, SubSeqProperties
<1>6. SubSeq(s, 1, 2)[1] = "o"
  BY <1>2, <1>4, <1>5
<1> QED
  BY <1>1, <1>6 DEF IsPrefix

LineChars(S) == {"#", "n", "m", " ", "\n"} \subseteq S

LEMMA ThirdFound ==
    ASSUME NEW S, NEW uri \in Seq(S), LineChars(S)
    PROVE  RemoteByName(<<RemoteLine("#", "m", " ", uri, "\n"), Other,
                          RemoteLine("n", "m", " ", uri, "\n")>>, <<"n", "m">>)
               = ParseRemote(uri)
<1>1. /\ "#" \in S /\ "n" \in S /\ "m" \in S /\ " " \in S /\ "\n" \in S
  BY Zenon DEF LineChars
<1>2. /\ IsRemoteLine(RemoteLine("#", "m", " ", uri, "\n"), S, "#", "m", uri, "\n")
      /\ IsRemoteLine(RemoteLine("n", "m", " ", uri, "\n"), S, "n", "m", uri, "\n")
  BY <1>1, RemoteLineIs
<1>3. PICK first, third : /\ first = RemoteLine("#", "m", " ", uri, "\n")
                          /\ third = RemoteLine("n", "m", " ", uri, "\n")
  OBVIOUS
<1>4. PICK lines : lines = <<first, Other, third>>
  OBVIOUS
<1>5. DOMAIN lines = 1..3 /\ lines[1] = first /\ lines[2] = Other /\ lines[3] = third
  <2> DEFINE L == {first, Other, third}
  <2>1. IsTriple(<<first, Other, third>>, L, first, Other, third)
    BY TripleIs
  <2> QED
    BY <1>4, <2>1 DEF IsTriple
<1>6. PICK name : name = <<"n", "m">>
  OBVIOUS
<1>7. name \in Seq(S) /\ Len(name) = 2 /\ name[1] = "n"
  <2>1. IsPair(<<"n", "m">>, S, "n", "m")
    BY <1>1, PairIs
  <2> QED
    BY <1>6, <2>1 DEF IsPair
<1>8. SubSeq(name, 1, 2) = name
  BY <1>7, SubSeqFull
<1>9. Head(first) = "#"
  BY <1>2, <1>3 DEF IsRemoteLine
<1>10. ~ IsPrefix(name, Other)
  BY <1>7, <1>8, OtherName
<1>11. Head(third) # "#" /\ IsPrefix(name, third)
  <2>1. Head(third) = "n" /\ Len(third) >= 2 /\ SubSeq(third, 1, 2) = <<"n", "m">>
    BY <1>2, <1>3 DEF IsRemoteLine
  <2>2. "n" # "#"
    OBVIOUS
  <2>3. Len(name) <= Len(third)
    BY <1>7, <2>1
  <2> QED
    BY <1>6, <1>7, <1>8, <2>1, <2>2, <2>3, Zenon DEF IsPrefix
<1> DEFINE found == {i \in DOMAIN lines : Head(lines[i]) # "#" /\ IsPrefix(name, lines[i])}
<1>12. found = {3}
  <2>1. \A i \in 1..3 : i = 1 \/ i = 2 \/ i = 3
    OBVIOUS
  <2>2. 3 \in 1..3
    OBVIOUS
  <2>3. ASSUME NEW i \in found PROVE i = 3
    BY <1>5, <1>9, <1>10, <2>1, Zenon
  <2>4. 3 \in found
    BY <1>5, <1>11, <2>2, Zenon
  <2> HIDE DEF found
  <2> QED
    BY <2>3, <2>4
<1>13. Min({3}) = 3
  BY LesserOf
<1>14. SubSeq(third, 4, Len(third)) = Append(uri, "\n")
  BY <1>2, <1>3 DEF IsRemoteLine
<1>15. TrimNL(Append(uri, "\n")) = uri
  <2>1. PICK nl \in S : nl = "\n"
    BY <1>1
  <2>2. Front(Append(uri, nl)) = uri /\ Last(Append(uri, nl)) = nl
    BY FrontOfAppend
  <2> QED
    BY <2>1, <2>2 DEF TrimNL
<1>16. RemoteByName(lines, name)
           = ParseRemote(TrimNL(SubSeq(lines[3], Len(name) + 2, Len(lines[3]))))
  <2>1. RemoteByName(lines, name)
            = IF found = {} THEN [Opened EXCEPT !.state = "failed"]
              ELSE ParseRemote(TrimNL(SubSeq(lines[Min(found)], Len(name) + 2,
                                             Len(lines[Min(found)]))))
    BY Zenon DEF RemoteByName
  <2>2. {3} # {}
    OBVIOUS
  <2> HIDE DEF found
  <2> QED
    BY <1>12, <1>13, <2>1, <2>2, Zenon
<1>17. Len(name) + 2 = 4
  BY <1>7
<1> QED
  BY <1>3, <1>4, <1>5, <1>6, <1>14, <1>15, <1>16, <1>17, Zenon

LEMMA UsersFormed ==
    ASSUME NEW S, "1" \in S, "u" \in S, NEW user \in {Unset, <<"u">>, <<"1">>}
    PROVE  /\ user \in Seq(S)
           /\ \A j \in 1..Len(user) : user[j] \notin {"@", "/", "~", ":"}
<1>1. CASE user = Unset
  BY <1>1, EmptySeq DEF Unset
<1>2. ASSUME NEW x \in {"u", "1"}, user = <<x>>
      PROVE  /\ user \in Seq(S)
             /\ \A j \in 1..Len(user) : user[j] \notin {"@", "/", "~", ":"}
  <2>1. <<x>> \in Seq(S) /\ Len(<<x>>) = 1 /\ <<x>>[1] = x
    OBVIOUS
  <2> QED
    BY <1>2, <2>1
<1> QED
  BY <1>1, <1>2

LEMMA PortsFormed ==
    ASSUME NEW S, "1" \in S, "2" \in S, NEW port \in {Unset, <<"1">>, <<"2", "1">>}
    PROVE  port \in Seq(S) /\ \A j \in 1..Len(port) : port[j] \in Digits
<1>d. "1" \in Digits /\ "2" \in Digits
  BY DEF Digits, DigitList, Range
<1>1. CASE port = Unset
  BY <1>1, EmptySeq DEF Unset
<1>2. CASE port = <<"1">>
  <2>1. <<"1">> \in Seq(S) /\ Len(<<"1">>) = 1 /\ <<"1">>[1] = "1"
    OBVIOUS
  <2> QED
    BY <1>2, <1>d, <2>1
<1>3. CASE port = <<"2", "1">>
  <2>1. IsPair(<<"2", "1">>, S, "2", "1")
    BY PairIs
  <2> QED
    BY <1>3, <1>d, <2>1 DEF IsPair
<1> QED
  BY <1>1, <1>2, <1>3

LEMMA HostsFormed ==
    ASSUME NEW S, "1" \in S, "h" \in S, NEW host \in {<<"h">>, <<"1", "h">>}
    PROVE  /\ host \in Seq(S)
           /\ \A j \in 1..Len(host) : host[j] \notin {"@", "/", "~", ":"}
<1>1. CASE host = <<"h">>
  <2>1. <<"h">> \in Seq(S) /\ Len(<<"h">>) = 1 /\ <<"h">>[1] = "h"
    OBVIOUS
  <2> QED
    BY <1>1, <2>1
<1>2. CASE host = <<"1", "h">>
  <2>1. IsPair(<<"1", "h">>, S, "1", "h")
    BY PairIs
  <2> QED
    BY <1>2, <2>1 DEF IsPair
<1> QED
  BY <1>1, <1>2

(* RemoteRead, for paths of every length.                                  *)
THEOREM RemotesRead ==
    ASSUME arg \in Strings
    PROVE  RemoteRead
<1> DEFINE S == Letter \cup {"@", ":", "/", "~", "+", "1", "2", "u", "h", "n", "m",
                             "#", " ", "\n"}
<1>s. /\ RemoteChars(S) /\ LineChars(S)
      /\ "1" \in S /\ "2" \in S /\ "u" \in S /\ "h" \in S
  BY DEF RemoteChars, LineChars
<1>1. arg \in Seq(S)
  <2>1. PICK n \in 0..MaxString :
            arg \in [1..n -> Letter \cup {":", "/", "@", "+"}]
    BY DEF Strings, BoundedSeq, SeqOf
  <2>2. n \in Nat
    BY MaxStringAssumption DEF MaxStringAssumption
  <2>3. arg \in [1..n -> S]
    BY <2>1
  <2> HIDE DEF S
  <2> QED
    BY <2>2, <2>3, SeqDef
<1> HIDE DEF S
<1>2. ASSUME NEW user \in {Unset, <<"u">>, <<"1">>},
             NEW port \in {Unset, <<"1">>, <<"2", "1">>},
             NEW host \in {<<"h">>, <<"1", "h">>}
      PROVE  WellFormed(S, user, host, port)
  BY <1>s, UsersFormed, PortsFormed, HostsFormed, Zenon DEF WellFormed
<1>3. ASSUME arg # <<>>,
             NEW user \in {Unset, <<"u">>, <<"1">>},
             NEW port \in {Unset, <<"1">>, <<"2", "1">>},
             NEW host \in {<<"h">>, <<"1", "h">>}, NEW root \in {"/", "~"}
      PROVE  LET uri == Uri(user, host, port, root, arg)
                 lines == <<RemoteLine("#", "m", " ", uri, "\n"),
                            Other, RemoteLine("n", "m", " ", uri, "\n")>>
             IN Fields(RemoteByName(lines, <<"n", "m">>)) =
                    <<"done", user, host,
                      IF port = Unset THEN Opened.port ELSE port, <<root>> \o arg>>
  <2>1. PICK path \in Seq(S) : path = arg /\ path # <<>>
    BY <1>1, <1>3
  <2>w. WellFormed(S, user, host, port)
    BY <1>2
  <2>u. UriReads(S, user, host, port, root, path)
    BY <1>s, <2>1, <2>w, UriRead
  <2>2. PICK uri \in Seq(S) : uri = Uri(user, host, port, root, path)
    BY <2>u DEF UriReads
  <2>3. Fields(ParseRemote(uri)) =
            <<"done", user, host, IF port = Unset THEN Opened.port ELSE port,
              <<root>> \o path>>
    BY <2>2, <2>u DEF UriReads
  <2>4. RemoteByName(<<RemoteLine("#", "m", " ", uri, "\n"), Other,
                       RemoteLine("n", "m", " ", uri, "\n")>>, <<"n", "m">>)
            = ParseRemote(uri)
    BY <1>s, ThirdFound
  <2> QED
    BY <2>1, <2>2, <2>3, <2>4, Zenon
<1> QED
  BY <1>3, Zenon DEF RemoteRead, Uri, Before, Behind, RemoteLine, Other

-----------------------------------------------------------------------------
(* Division by the powers of ten.                                          *)

LEMMA QuotientIs ==
    ASSUME NEW n \in Nat, NEW p \in Nat, p > 0
    PROVE  n \div p \in Nat /\ p * (n \div p) <= n /\ n < p * (n \div p) + p
OBVIOUS

LEMMA QuotientOf ==
    ASSUME NEW n \in Nat, NEW p \in Nat, p > 0, NEW q \in Nat,
           p * q <= n, n < p * q + p
    PROVE  n \div p = q
OBVIOUS

LEMMA OneDigit ==
    ASSUME NEW n \in Nat, NEW p \in Nat, p > 0, n < 10 * p
    PROVE  n \div p < 10
<1>1. PICK q \in Nat : q = n \div p /\ p * q <= n
  BY QuotientIs
<1>2. SUFFICES ASSUME q >= 10 PROVE FALSE
  BY <1>1
<1>3. PICK e \in Nat : q = 10 + e
  BY <1>2
<1>4. p * q = 10 * p + p * e /\ p * e >= 0
  BY <1>3
<1> QED
  BY <1>1, <1>4

LEMMA LastDigit ==
    ASSUME NEW n \in Nat, NEW p \in Nat, p > 0
    PROVE  n \div p = 10 * (n \div (10 * p)) + ((n \div p) % 10)
<1>1. PICK a \in Nat : a = n \div p /\ p * a <= n /\ n < p * a + p
  BY QuotientIs
<1>2. PICK c \in Nat, d \in 0..9 : a = c * 10 + d /\ d = a % 10
  OBVIOUS
<1>3. p * a = (10 * p) * c + p * d
  BY <1>2
<1>4. 0 <= p * d /\ p * d + p <= 10 * p
  OBVIOUS
<1>5. (10 * p) * c <= n /\ n < (10 * p) * c + 10 * p
  BY <1>1, <1>3, <1>4
<1>6. n \div (10 * p) = c
  BY <1>5, QuotientOf
<1> QED
  BY <1>1, <1>2, <1>6

LEMMA TensAre == Tens[1] = 1 /\ Tens[9] = 100000000 /\ Tens[10] = 1000000000
BY SMT DEF Tens

LEMMA TensGrow ==
    /\ Tens[1] = 1
    /\ \A k \in 1..9 : Tens[k + 1] = 10 * Tens[k]
    /\ \A k \in 1..10 : Tens[k] \in Nat /\ Tens[k] > 0
BY SMT DEF Tens

LEMMA DigitSplits ==
    ASSUME NEW n \in Nat, NEW k \in 1..9
    PROVE  n \div Tens[k] = (n \div Tens[k + 1]) * 10 + ((n \div Tens[k]) % 10)
<1>1. PICK p \in Nat : p = Tens[k] /\ p > 0
  BY TensGrow
<1>2. Tens[k + 1] = 10 * p
  BY <1>1, TensGrow
<1>3. n \div p = 10 * (n \div (10 * p)) + ((n \div p) % 10)
  BY <1>1, LastDigit
<1>4. n \div (10 * p) \in Nat
  <2>1. 10 * p \in Nat /\ 10 * p > 0
    BY <1>1
  <2> QED
    BY <2>1, QuotientIs
<1> QED
  BY <1>1, <1>2, <1>3, <1>4

LEMMA QuotientType ==
    ASSUME NEW n \in Nat, NEW k \in 1..10
    PROVE  n \div Tens[k] \in Nat /\ (n \div Tens[k]) % 10 \in 0..9
<1>1. PICK t \in Nat : t = Tens[k] /\ t > 0
  BY TensGrow
<1>2. n \div t \in Nat
  BY <1>1
<1> QED
  BY <1>1, <1>2

-----------------------------------------------------------------------------
(* The digits.                                                             *)

LEMMA DigitListIs ==
    /\ Len(DigitList) = 10 /\ DOMAIN DigitList = 1..10
    /\ DigitList[1] = "0" /\ DigitList[2] = "1" /\ DigitList[3] = "2"
    /\ DigitList[4] = "3" /\ DigitList[5] = "4" /\ DigitList[6] = "5"
    /\ DigitList[7] = "6" /\ DigitList[8] = "7" /\ DigitList[9] = "8"
    /\ DigitList[10] = "9"
BY DEF DigitList

LEMMA DigitsAre ==
    /\ \A m \in 1..10 : DigitList[m] \in Digits /\ DigitList[m] # "."
    /\ \A x \in Digits : \E m \in 1..10 : x = DigitList[m]
BY DigitListIs DEF Digits, Range

LEMMA DigitsDiffer ==
    ASSUME NEW m \in 1..10, NEW n \in 1..10, DigitList[m] = DigitList[n]
    PROVE  m = n
BY DigitListIs

(* What a character adds to the number that atoi has read so far.          *)
Place(x) == SelectInSeq(DigitList, LAMBDA d : d = x)
Value(acc, x) == acc * 10 + Place(x) - 1

LEMMA PlaceIs ==
    ASSUME NEW m \in 1..10
    PROVE  Place(DigitList[m]) = m
<1>1. Len(DigitList) = 10
  BY DigitListIs
<1>2. {i \in 1..Len(DigitList) : DigitList[i] = DigitList[m]} = {m}
  BY <1>1, DigitsDiffer
<1>3. Min({m}) = m
  BY DEF Min
<1>4. {m} # {}
  OBVIOUS
<1> QED
  BY <1>2, <1>3, <1>4, Zenon DEF Place, SelectInSeq

LEMMA ValueType ==
    ASSUME NEW acc \in Nat, NEW x \in Digits
    PROVE  Value(acc, x) \in Nat
<1>1. PICK m \in 1..10 : x = DigitList[m]
  BY DigitsAre
<1>2. Place(x) = m
  BY <1>1, PlaceIs
<1> QED
  BY <1>2 DEF Value
-----------------------------------------------------------------------------
(* The loop of atoi.                                                       *)

ValueFold(str) == CHOOSE fold : fold = [T \in SUBSET DOMAIN str |->
    IF T = {} THEN 0 ELSE Value(fold[T \ {Max(T)}], str[Max(T)])]

(* The number that the first i characters stand for.                       *)
Worth(str, i) == ValueFold(str)[1..i]

LEMMA AtoiIsWorth ==
    ASSUME NEW str \in Seq(Digits)
    PROVE  Atoi(str) = Worth(str, Len(str))
<1>1. DOMAIN str = 1..Len(str) /\ \A i \in 1..Len(str) : str[i] \in Digits
  BY LenProperties
<1>2. {i \in DOMAIN str : str[i] \notin Digits} = {}
  BY <1>1
<1>3. Atoi(str) = FoldLeft(Value, 0, str)
  BY <1>2, Zenon DEF Atoi, Value, Place
<1>4. FoldLeft(Value, 0, str) = ValueFold(str)[DOMAIN str]
  BY Zenon DEF FoldLeft, MapThenFoldSet, ValueFold
<1> QED
  BY <1>1, <1>3, <1>4, Zenon DEF Worth

LEMMA WorthDefined ==
    ASSUME NEW str \in Seq(Digits)
    PROVE  /\ Worth(str, 0) = 0
           /\ \A i \in 1..Len(str) :
                  Worth(str, i) = Value(Worth(str, i - 1), str[i])
<1> DEFINE n == Len(str)
           step == [p \in Nat \X (1..n) |-> Value(p[1], str[p[2]])]
           IsFold(f) == f = [T \in SUBSET DOMAIN str |->
                                IF T = {} THEN 0
                                ELSE Value(f[T \ {Max(T)}], str[Max(T)])]
<1>1. n \in Nat /\ DOMAIN str = 1..n /\ \A i \in 1..n : str[i] \in Digits
  BY LenProperties
<1>2. StepsIn(step, n, Nat)
  BY <1>1, ValueType DEF StepsIn
<1>3. PICK g : FoldOf(g, n, Nat, 0, step)
  <2>1. 0 \in Nat
    OBVIOUS
  <2> HIDE DEF n, step
  <2> QED
    BY <1>1, <1>2, <2>1, FoldDefined
<1>4. IsFold(g)
  <2>1. ASSUME NEW T \in SUBSET (1..n)
        PROVE  g[T] = IF T = {} THEN 0
                      ELSE Value(g[T \ {Max(T)}], str[Max(T)])
    <3>1. CASE T # {}
      <4>1. Max(T) \in 1..n
        BY <1>1, <3>1, GreatestElement
      <4>2. g[T \ {Max(T)}] \in Nat
        BY <1>3 DEF FoldOf
      <4>3. <<g[T \ {Max(T)}], Max(T)>> \in Nat \X (1..n)
        BY <4>1, <4>2
      <4>4. step[<<g[T \ {Max(T)}], Max(T)>>]
                = Value(g[T \ {Max(T)}], str[Max(T)])
        BY <4>3
      <4> QED
        BY <1>3, <3>1, <4>4, Zenon DEF FoldOf
    <3> QED
      BY <1>3, <3>1, Zenon DEF FoldOf
  <2>2. g \in [SUBSET DOMAIN str -> Nat] /\ DOMAIN str = 1..n
    BY <1>1, <1>3 DEF FoldOf
  <2> HIDE DEF n, step
  <2> QED
    BY <2>1, <2>2, Zenon
<1>5. IsFold(ValueFold(str))
  <2>1. ValueFold(str) = CHOOSE f : IsFold(f)
    BY Zenon DEF ValueFold
  <2> HIDE DEF IsFold
  <2> QED
    BY <1>4, <2>1, Zenon
<1>6. Worth(str, 0) = 0
  <2>1. 1..0 = {} /\ {} \in SUBSET DOMAIN str
    OBVIOUS
  <2>2. ValueFold(str)[{}] = 0
    BY <1>5, <2>1, Zenon
  <2> QED
    BY <2>1, <2>2 DEF Worth
<1>7. ASSUME NEW i \in 1..n
      PROVE  Worth(str, i) = Value(Worth(str, i - 1), str[i])
  <2>1. /\ 1..i \in SUBSET DOMAIN str /\ 1..i # {}
        /\ Max(1..i) = i /\ (1..i) \ {Max(1..i)} = 1..(i - 1)
    BY <1>1, LastPosition
  <2> QED
    BY <1>5, <2>1, Zenon DEF Worth
<1> QED
  BY <1>6, <1>7

LEMMA PaddedIs ==
    ASSUME NEW n \in Nat, NEW width \in 1..10
    PROVE  /\ Padded(n, width) \in Seq(Digits)
           /\ Len(Padded(n, width)) = width
           /\ \A i \in 1..width :
                  Padded(n, width)[i] = DigitList[((n \div Tens[width - i + 1]) % 10) + 1]
<1>1. ASSUME NEW i \in 1..width
      PROVE  DigitList[((n \div Tens[width - i + 1]) % 10) + 1] \in Digits
  <2>1. width - i + 1 \in 1..10
    OBVIOUS
  <2>2. PICK d \in 0..9 : d = (n \div Tens[width - i + 1]) % 10
    BY <2>1, QuotientType
  <2>3. d + 1 \in 1..10
    OBVIOUS
  <2> QED
    BY <2>2, <2>3, DigitsAre
<1>2. Padded(n, width) \in [1..width -> Digits]
  BY <1>1 DEF Padded
<1>3. width \in Nat
  OBVIOUS
<1>4. Padded(n, width) \in Seq(Digits) /\ Len(Padded(n, width)) = width
  BY <1>2, <1>3, SeqDef, LenProperties
<1>5. \A i \in 1..width :
          Padded(n, width)[i] = DigitList[((n \div Tens[width - i + 1]) % 10) + 1]
  BY DEF Padded
<1> QED
  BY <1>4, <1>5

(* The leading zeros are undone, and nothing else, as long as the number   *)
(* has no more digits than were printed.                                   *)
LEMMA PaddedRead ==
    ASSUME NEW n \in Nat, NEW width \in 1..10, n \div Tens[width] < 10
    PROVE  Atoi(Padded(n, width)) = n
<1>1. PICK str \in Seq(Digits) : str = Padded(n, width) /\ Len(str) = width
  BY PaddedIs
<1>2. \A i \in 1..width : str[i] = DigitList[((n \div Tens[width - i + 1]) % 10) + 1]
  BY <1>1, PaddedIs
<1>3. Worth(str, 0) = 0
  BY WorthDefined
<1>4. ASSUME NEW i \in 1..width
      PROVE  Worth(str, i)
                 = Worth(str, i - 1) * 10 + (((n \div Tens[width - i + 1]) % 10) + 1) - 1
  <2>1. width - i + 1 \in 1..10
    OBVIOUS
  <2>2. PICK d \in 0..9 : d = (n \div Tens[width - i + 1]) % 10
    BY <2>1, QuotientType
  <2>3. d + 1 \in 1..10
    OBVIOUS
  <2>4. Place(str[i]) = d + 1
    BY <1>2, <2>2, <2>3, PlaceIs
  <2>5. Worth(str, i) = Value(Worth(str, i - 1), str[i])
    BY <1>1, WorthDefined
  <2>6. Worth(str, i) = Worth(str, i - 1) * 10 + (d + 1) - 1
    BY <2>4, <2>5, Zenon DEF Value
  <2> QED
    BY <2>2, <2>6
<1> DEFINE N == {i \in Nat : i \in 1..width => Worth(str, i) = n \div Tens[width - i + 1]}
<1>5. 0 \in N
  OBVIOUS
<1>6. ASSUME NEW i \in 1..width, i - 1 \in N PROVE i \in N
  <2>1. PICK k \in 1..10 : k = width - i + 1
    OBVIOUS
  <2>2. PICK q \in Nat, d \in 0..9 : q = n \div Tens[k] /\ d = q % 10
    BY <2>1, QuotientType
  <2>3. CASE i = 1
    <3>1. k = width /\ q < 10
      BY <2>1, <2>2, <2>3
    <3>2. d = q
      BY <2>2, <3>1
    <3>3. Worth(str, i) = 0 * 10 + (d + 1) - 1
      BY <1>3, <1>4, <2>1, <2>2, <2>3
    <3> QED
      BY <2>1, <2>2, <3>2, <3>3
  <2>4. CASE i # 1
    <3>1. k \in 1..9 /\ i - 1 \in 1..width /\ width - (i - 1) + 1 = k + 1
      BY <2>1, <2>4
    <3>2. Worth(str, i - 1) = n \div Tens[k + 1]
      BY <1>6, <3>1
    <3>3. PICK r \in Nat : r = n \div Tens[k + 1]
      <4>1. k + 1 \in 1..10
        BY <3>1
      <4> QED
        BY <4>1, QuotientType
    <3>4. q = r * 10 + d
      BY <2>2, <3>1, <3>3, DigitSplits
    <3>5. Worth(str, i) = r * 10 + (d + 1) - 1
      BY <1>4, <2>1, <2>2, <3>2, <3>3
    <3> QED
      BY <2>1, <2>2, <3>4, <3>5
  <2> QED
    BY <2>3, <2>4
<1>7. width \in N
  <2>1. 0..width \subseteq N
    <3>1. width \in Nat
      OBVIOUS
    <3> HIDE DEF N
    <3> QED
      BY <1>5, <1>6, <3>1, UptoInduction
  <2> QED
    BY <2>1
<1>8. Worth(str, width) = n \div Tens[1]
  BY <1>7
<1>9. n \div Tens[1] = n
  BY TensGrow
<1> QED
  BY <1>1, <1>8, <1>9, AtoiIsWorth
-----------------------------------------------------------------------------
(* The loop of parse_cid.                                                  *)

Cid(pp, in_nsec, nsec, sec) ==
    [pp |-> pp, in_nsec |-> in_nsec, nsec |-> nsec, sec |-> sec]

CidStart == [pp |-> <<>>, in_nsec |-> TRUE, nsec |-> 0, sec |-> 0]

CidStep(r, x) ==
    IF x # "." THEN [r EXCEPT !.pp = Append(@, x)]
    ELSE IF r.in_nsec
    THEN [r EXCEPT !.nsec = Atoi(r.pp), !.pp = <<>>, !.in_nsec = FALSE]
    ELSE [r EXCEPT !.sec = Atoi(r.pp), !.pp = <<>>]

(* What atoi may make of the characters.                                   *)
Times(S) == {Atoi(s) : s \in Seq(S)} \cup {0}
Cids(S) == [pp : Seq(S), in_nsec : BOOLEAN, nsec : Times(S), sec : Times(S)]

LEMMA CidStepType ==
    ASSUME NEW S, NEW r \in Cids(S), NEW x \in S
    PROVE  CidStep(r, x) \in Cids(S)
<1>1. PICK T : T = Times(S)
  OBVIOUS
<1>2. r.pp \in Seq(S) /\ r.in_nsec \in BOOLEAN /\ r.nsec \in T /\ r.sec \in T
  BY <1>1 DEF Cids
<1>3. PICK t \in T : t = Atoi(r.pp)
  BY <1>1, <1>2 DEF Times
<1>4. <<>> \in Seq(S) /\ Append(r.pp, x) \in Seq(S)
  BY <1>2, EmptySeq, AppendProperties
<1>5. [r EXCEPT !.pp = Append(@, x)] \in Cids(S)
  BY <1>1, <1>2, <1>4 DEF Cids
<1>6. [r EXCEPT !.nsec = t, !.pp = <<>>, !.in_nsec = FALSE] \in Cids(S)
  BY <1>1, <1>2, <1>4 DEF Cids
<1>7. [r EXCEPT !.sec = t, !.pp = <<>>] \in Cids(S)
  BY <1>1, <1>2, <1>4 DEF Cids
<1> QED
  BY <1>3, <1>5, <1>6, <1>7, Zenon DEF CidStep

CidFold(str) == CHOOSE fold : fold = [T \in SUBSET DOMAIN str |->
    IF T = {} THEN CidStart ELSE CidStep(fold[T \ {Max(T)}], str[Max(T)])]

(* What the loop has after i characters, and after all of them.            *)
CidScan(str, i) == CidFold(str)[1..i]
CidScanned(str) == FoldLeft(CidStep, CidStart, str)

LEMMA CidScannedIsScan ==
    ASSUME NEW S, NEW str \in Seq(S)
    PROVE  CidScanned(str) = CidScan(str, Len(str))
<1>1. DOMAIN str = 1..Len(str)
  BY LenProperties
<1>2. CidScanned(str) = CidFold(str)[DOMAIN str]
  BY Zenon DEF FoldLeft, MapThenFoldSet, CidScanned, CidFold
<1> QED
  BY <1>1, <1>2, Zenon DEF CidScan

LEMMA CidScanDefined ==
    ASSUME NEW S, NEW str \in Seq(S)
    PROVE  /\ CidScan(str, 0) = CidStart
           /\ \A i \in 1..Len(str) :
                  CidScan(str, i) = CidStep(CidScan(str, i - 1), str[i])
           /\ \A i \in 0..Len(str) : CidScan(str, i) \in Cids(S)
<1> DEFINE n == Len(str)
           R == Cids(S)
           step == [p \in R \X (1..n) |-> CidStep(p[1], str[p[2]])]
           IsFold(f) == f = [T \in SUBSET DOMAIN str |->
                                IF T = {} THEN CidStart
                                ELSE CidStep(f[T \ {Max(T)}], str[Max(T)])]
<1>1. n \in Nat /\ DOMAIN str = 1..n /\ \A i \in 1..n : str[i] \in S
  BY LenProperties
<1>2. CidStart \in R
  <2>1. <<>> \in Seq(S) /\ 0 \in Times(S)
    BY EmptySeq DEF Times
  <2> QED
    BY <2>1 DEF Cids, CidStart
<1>3. StepsIn(step, n, R)
  BY <1>1, CidStepType DEF StepsIn
<1>4. PICK g : FoldOf(g, n, R, CidStart, step)
  <2> HIDE DEF R, n, step
  <2> QED
    BY <1>1, <1>2, <1>3, FoldDefined
<1>5. IsFold(g)
  <2>1. ASSUME NEW T \in SUBSET (1..n)
        PROVE  g[T] = IF T = {} THEN CidStart
                      ELSE CidStep(g[T \ {Max(T)}], str[Max(T)])
    <3>1. CASE T # {}
      <4>1. Max(T) \in 1..n
        BY <1>1, <3>1, GreatestElement
      <4>2. g[T \ {Max(T)}] \in R
        BY <1>4 DEF FoldOf
      <4>3. <<g[T \ {Max(T)}], Max(T)>> \in R \X (1..n)
        BY <4>1, <4>2
      <4>4. step[<<g[T \ {Max(T)}], Max(T)>>]
                = CidStep(g[T \ {Max(T)}], str[Max(T)])
        BY <4>3
      <4> QED
        BY <1>4, <3>1, <4>4, Zenon DEF FoldOf
    <3> QED
      BY <1>4, <3>1, Zenon DEF FoldOf
  <2>2. g \in [SUBSET DOMAIN str -> R] /\ DOMAIN str = 1..n
    BY <1>1, <1>4 DEF FoldOf
  <2> HIDE DEF R, n, step
  <2> QED
    BY <2>1, <2>2, Zenon
<1>6. IsFold(CidFold(str))
  <2>1. CidFold(str) = CHOOSE f : IsFold(f)
    BY Zenon DEF CidFold
  <2> HIDE DEF IsFold
  <2> QED
    BY <1>5, <2>1, Zenon
<1>7. CidScan(str, 0) = CidStart
  <2>1. 1..0 = {} /\ {} \in SUBSET DOMAIN str
    OBVIOUS
  <2>2. CidFold(str)[{}] = CidStart
    BY <1>6, <2>1, Zenon
  <2> QED
    BY <2>1, <2>2 DEF CidScan
<1>8. ASSUME NEW i \in 1..n
      PROVE  CidScan(str, i) = CidStep(CidScan(str, i - 1), str[i])
  <2>1. /\ 1..i \in SUBSET DOMAIN str /\ 1..i # {}
        /\ Max(1..i) = i /\ (1..i) \ {Max(1..i)} = 1..(i - 1)
    BY <1>1, LastPosition
  <2> QED
    BY <1>6, <2>1, Zenon DEF CidScan
<1>9. \A i \in 0..n : CidScan(str, i) \in R
  <2> DEFINE N == {i \in Nat : CidScan(str, i) \in R}
  <2>1. 0 \in N
    BY <1>2, <1>7
  <2>2. ASSUME NEW i \in 1..n, i - 1 \in N PROVE i \in N
    BY <1>1, <1>8, <2>2, CidStepType
  <2>3. 0..n \subseteq N
    <3> HIDE DEF N, n
    <3> QED
      BY <1>1, <2>1, <2>2, UptoInduction
  <2> QED
    BY <2>3
<1> QED
  BY <1>7, <1>8, <1>9

LEMMA CidScannedAppend ==
    ASSUME NEW S, NEW str \in Seq(S), NEW x \in S
    PROVE  /\ CidScanned(str) \in Cids(S)
           /\ CidScanned(Append(str, x)) = CidStep(CidScanned(str), x)
<1>1. PICK l \in Nat : l = Len(str)
  BY LenProperties
<1>2. PICK more \in Seq(S) : more = Append(str, x)
  BY AppendProperties
<1>3. Len(more) = l + 1 /\ more[l + 1] = x /\ \A i \in 1..l : more[i] = str[i]
  BY <1>1, <1>2, AppendProperties
<1>4. /\ CidScan(str, 0) = CidStart
      /\ \A i \in 1..l : CidScan(str, i) = CidStep(CidScan(str, i - 1), str[i])
      /\ CidScan(str, l) \in Cids(S)
  <2>1. l \in 0..Len(str)
    BY <1>1
  <2> QED
    BY <1>1, <2>1, CidScanDefined
<1>5. /\ CidScan(more, 0) = CidStart
      /\ \A i \in 1..(l + 1) : CidScan(more, i) = CidStep(CidScan(more, i - 1), more[i])
  BY <1>3, CidScanDefined
<1> DEFINE N == {i \in Nat : CidScan(more, i) = CidScan(str, i)}
<1>6. 0 \in N
  BY <1>4, <1>5
<1>7. ASSUME NEW i \in 1..l, i - 1 \in N PROVE i \in N
  <2>1. i \in 1..(l + 1) /\ i \in Nat
    OBVIOUS
  <2>2. CidScan(more, i - 1) = CidScan(str, i - 1)
    BY <1>7
  <2>3. CidScan(more, i) = CidStep(CidScan(more, i - 1), str[i])
    BY <1>3, <1>5, <2>1
  <2>4. CidScan(more, i) = CidScan(str, i)
    BY <1>4, <2>2, <2>3
  <2> QED
    BY <2>1, <2>4
<1>8. CidScan(more, l) = CidScan(str, l)
  <2>1. 0..l \subseteq N
    <3> HIDE DEF N
    <3> QED
      BY <1>6, <1>7, UptoInduction
  <2> QED
    BY <2>1
<1>9. CidScan(more, l + 1) = CidStep(CidScan(str, l), x)
  <2>1. l + 1 \in 1..(l + 1) /\ (l + 1) - 1 = l
    OBVIOUS
  <2> QED
    BY <1>3, <1>5, <1>8, <2>1
<1>10. CidScanned(str) = CidScan(str, l) /\ CidScanned(more) = CidScan(more, l + 1)
  BY <1>1, <1>3, CidScannedIsScan
<1> QED
  BY <1>2, <1>4, <1>9, <1>10

CidExtended(r, run) == [r EXCEPT !.pp = @ \o run]

LEMMA CidRun ==
    ASSUME NEW S, NEW str \in Seq(S), NEW run \in Seq(S),
           \A j \in 1..Len(run) : run[j] # "."
    PROVE  CidScanned(str \o run) = CidExtended(CidScanned(str), run)
<1>c. /\ str \in Seq(S) /\ run \in Seq(S)
      /\ \A j \in 1..Len(run) : run[j] # "."
  OBVIOUS
<1>1. PICK l \in Nat : l = Len(run)
  BY <1>c, LenProperties
<1>2. PICK r \in Cids(S) : r = CidScanned(str)
  <2>1. Len(str) \in 0..Len(str)
    BY <1>c, LenProperties
  <2> QED
    BY <1>c, <2>1, CidScanDefined, CidScannedIsScan
<1>3. r.pp \in Seq(S)
  BY DEF Cids
<1> DEFINE N == {i \in Nat : CidScanned(str \o SubSeq(run, 1, i))
                              = [r EXCEPT !.pp = @ \o SubSeq(run, 1, i)]}
<1>4. 0 \in N
  <2>1. SubSeq(run, 1, 0) = <<>>
    BY SubSeqEmpty
  <2>2. str \o <<>> = str /\ r.pp \o <<>> = r.pp
    BY <1>c, <1>3, ConcatEmptySeq
  <2>3. r = [r EXCEPT !.pp = r.pp]
    BY DEF Cids
  <2> QED
    BY <1>2, <2>1, <2>2, <2>3
<1>5. ASSUME NEW i \in 1..l, i - 1 \in N PROVE i \in N
  <2>1. PICK before \in Seq(S), x \in S : before = SubSeq(run, 1, i - 1) /\ x = run[i]
    BY <1>1, <1>c, ReadSoFar
  <2>2. SubSeq(run, 1, i) = Append(before, x)
    BY <1>1, <1>c, <2>1, ReadSoFar
  <2>3. AppendsBehind(S)
    BY AppendBehind
  <2>4. PICK from \in Seq(S) : from = r.pp
    BY <1>3
  <2>5. /\ str \o Append(before, x) = Append(str \o before, x)
        /\ from \o Append(before, x) = Append(from \o before, x)
    BY <1>c, <2>3, Zenon DEF AppendsBehind
  <2>6. PICK read \in Seq(S) : read = str \o before
    BY <1>c, ConcatProperties
  <2>7. PICK q \in Cids(S) : q = CidScanned(read)
    BY CidScannedAppend
  <2>8. q = [r EXCEPT !.pp = from \o before]
    BY <1>5, <2>1, <2>4, <2>6, <2>7
  <2>9. q.pp = from \o before
    BY <2>8 DEF Cids
  <2>10. x # "."
    BY <1>1, <1>c, <2>1
  <2>11. CidScanned(Append(read, x)) = [q EXCEPT !.pp = Append(@, x)]
    <3>1. CidScanned(Append(read, x)) = CidStep(q, x)
      BY <2>7, CidScannedAppend
    <3>2. CidStep(q, x) = [q EXCEPT !.pp = Append(@, x)]
      BY <2>10, Zenon DEF CidStep
    <3> QED
      BY <3>1, <3>2
  <2>12. [q EXCEPT !.pp = Append(@, x)] = [r EXCEPT !.pp = from \o Append(before, x)]
    BY <2>5, <2>8, <2>9 DEF Cids
  <2>13. CidScanned(str \o SubSeq(run, 1, i)) = [r EXCEPT !.pp = @ \o SubSeq(run, 1, i)]
    BY <2>2, <2>4, <2>5, <2>6, <2>11, <2>12
  <2> QED
    BY <2>13
<1>6. 0..l \subseteq N
  <2> HIDE DEF N
  <2> QED
    BY <1>4, <1>5, UptoInduction
<1>7. SubSeq(run, 1, l) = run
  BY <1>1, <1>c, SubSeqFull
<1>8. l \in N
  <2> HIDE DEF N
  <2>1. l \in 0..l
    OBVIOUS
  <2> QED
    BY <1>6, <2>1
<1> QED
  BY <1>2, <1>7, <1>8 DEF CidExtended

CidReads(str, pp, in_nsec, nsec, sec) == CidScanned(str) = Cid(pp, in_nsec, nsec, sec)

(* Characters that parse_cid only passes.                                  *)
Undotted(S, str, run) ==
    str \in Seq(S) /\ run \in Seq(S) /\ \A j \in 1..Len(run) : run[j] # "."

LEMMA CidPassed ==
    ASSUME NEW S, NEW str, NEW run, Undotted(S, str, run),
           NEW pp, NEW in_nsec, NEW nsec, NEW sec,
           CidReads(str, pp, in_nsec, nsec, sec)
    PROVE  CidReads(str \o run, pp \o run, in_nsec, nsec, sec)
<1>1. PICK s \in Seq(S), t \in Seq(S) : s = str /\ t = run
  BY DEF Undotted
<1>2. \A j \in 1..Len(t) : t[j] # "."
  BY <1>1 DEF Undotted
<1>3. CidScanned(s \o t) = CidExtended(CidScanned(s), t)
  BY <1>2, CidRun
<1>4. CidScanned(s) = Cid(pp, in_nsec, nsec, sec)
  BY <1>1 DEF CidReads
<1>5. CidExtended(Cid(pp, in_nsec, nsec, sec), t) = Cid(pp \o t, in_nsec, nsec, sec)
  <2>1. PICK more : more = pp \o t
    OBVIOUS
  <2>2. PICK r : r = Cid(pp, in_nsec, nsec, sec)
    OBVIOUS
  <2>3. r.pp = pp
    BY <2>2 DEF Cid
  <2>4. CidExtended(r, t) = [r EXCEPT !.pp = more]
    BY <2>1, <2>3, Zenon DEF CidExtended
  <2>5. [r EXCEPT !.pp = more] = Cid(more, in_nsec, nsec, sec)
    BY <2>2 DEF Cid
  <2> QED
    BY <2>1, <2>2, <2>4, <2>5
<1> QED
  BY <1>1, <1>3, <1>4, <1>5, Zenon DEF CidReads

LEMMA CidDots ==
    ASSUME NEW pp, NEW nsec, NEW sec
    PROVE  /\ CidStep(Cid(pp, TRUE, nsec, sec), ".") = Cid(<<>>, FALSE, Atoi(pp), sec)
           /\ CidStep(Cid(pp, FALSE, nsec, sec), ".") = Cid(<<>>, FALSE, nsec, Atoi(pp))
<1>1. PICK t : t = Atoi(pp)
  OBVIOUS
<1>2. CidStep(Cid(pp, TRUE, nsec, sec), ".")
          = [Cid(pp, TRUE, nsec, sec) EXCEPT !.nsec = Atoi(pp), !.pp = <<>>, !.in_nsec = FALSE]
  BY DEF CidStep, Cid
<1>3. CidStep(Cid(pp, FALSE, nsec, sec), ".")
          = [Cid(pp, FALSE, nsec, sec) EXCEPT !.sec = Atoi(pp), !.pp = <<>>]
  BY DEF CidStep, Cid
<1> QED
  BY <1>2, <1>3 DEF Cid

LEMMA CidScannedNothing == CidScanned(<<>>) = CidStart
<1>1. PICK none \in Seq({}) : none = <<>> /\ Len(none) = 0
  BY EmptySeq
<1>2. CidScan(none, 0) = CidStart
  BY CidScanDefined
<1>3. CidScanned(none) = CidScan(none, Len(none))
  BY CidScannedIsScan
<1> QED
  BY <1>1, <1>2, <1>3

CidChars(S) == Digits \subseteq S /\ "." \in S

LEMMA PaddedPassed ==
    ASSUME NEW S, CidChars(S), NEW str \in Seq(S), NEW n \in Nat, NEW width \in 1..10
    PROVE  Padded(n, width) \in Seq(S) /\ Undotted(S, str, Padded(n, width))
<1>1. PICK p \in Seq(Digits) : p = Padded(n, width) /\ Len(p) = width
  BY PaddedIs
<1>2. p \in Seq(S)
  <2>1. Digits \subseteq S
    BY DEF CidChars
  <2>2. Len(p) \in Nat /\ p \in [1..Len(p) -> Digits]
    BY LenProperties
  <2>3. p \in [1..Len(p) -> S]
    BY <2>1, <2>2
  <2> QED
    BY <2>2, <2>3, SeqDef
<1>3. \A j \in 1..width : p[j] # "."
  <2>1. ASSUME NEW j \in 1..width PROVE p[j] # "."
    <3>1. p[j] \in Digits
      BY <1>1, LenProperties
    <3>2. PICK m \in 1..10 : p[j] = DigitList[m]
      BY <3>1, DigitsAre
    <3> QED
      BY <3>2, DigitsAre
  <2> QED
    BY <2>1
<1> QED
  BY <1>1, <1>2, <1>3 DEF Undotted

(* A time whose fields gen_cid prints with all their digits, and whose     *)
(* seconds atoi can return.                                                *)
IsTime(nsec, sec) ==
    nsec \in Nat /\ nsec < 1000000000 /\ sec \in Nat /\ sec < 2147483648

LEMMA TimeBounds ==
    ASSUME NEW nsec, NEW sec, IsTime(nsec, sec)
    PROVE  /\ nsec \in Nat /\ sec \in Nat
           /\ nsec \div Tens[9] < 10 /\ sec \div Tens[10] < 10
<1>1. nsec \in Nat /\ nsec < 10 * Tens[9] /\ sec \in Nat /\ sec < 10 * Tens[10]
  BY SMT, TensAre DEF IsTime
<1>2. PICK p \in Nat, q \in Nat : p = Tens[9] /\ q = Tens[10] /\ p > 0 /\ q > 0
  BY TensGrow
<1> QED
  BY <1>1, <1>2, OneDigit

(* parse_cid reads the time and the name that gen_cid wrote, for every time*)
(* and for every name without a '.'.                                       *)
THEOREM CidIsRead ==
    ASSUME NEW S, CidChars(S), NEW nsec, NEW sec, IsTime(nsec, sec),
           NEW name \in Seq(S), \A j \in 1..Len(name) : name[j] # "."
    PROVE  ParseCid(GenCid(nsec, sec, name)) =
               [nsec |-> nsec, sec |-> sec, name |-> name]
<1>d. "." \in S
  BY DEF CidChars
<1>n. nsec \in Nat /\ sec \in Nat /\ 9 \in 1..10 /\ 10 \in 1..10
  BY TimeBounds
<1>1. Atoi(Padded(nsec, 9)) = nsec
  BY <1>n, TimeBounds, PaddedRead
<1>2. Atoi(Padded(sec, 10)) = sec
  BY <1>n, TimeBounds, PaddedRead
<1>3. PICK none \in Seq(S), dot \in Seq(S) : none = <<>> /\ dot = <<".">>
  BY <1>d, EmptySeq, OneElement
<1>4. PICK p \in Seq(S) : p = Padded(nsec, 9) /\ Undotted(S, none, p)
  BY <1>n, PaddedPassed
<1>5. PICK a \in Seq(S) : a = Append(p, ".")
  BY <1>d, AppendProperties
<1>6. PICK q \in Seq(S) : q = Padded(sec, 10) /\ Undotted(S, a, q)
  BY <1>n, PaddedPassed
<1>7. PICK b \in Seq(S) : b = a \o q
  BY ConcatProperties
<1>8. PICK c \in Seq(S) : c = Append(b, ".")
  BY <1>d, AppendProperties
<1>9. GenCid(nsec, sec, name) = c \o name
  <2>1. a = p \o dot /\ c = b \o dot
    BY <1>d, <1>3, <1>5, <1>8, AppendIsConcat
  <2> QED
    BY <1>3, <1>4, <1>6, <1>7, <2>1, Zenon DEF GenCid
<1>10. PICK zero : zero = 0
  OBVIOUS
<1>11. CidReads(p, p, TRUE, zero, zero)
  <2>1. CidReads(none, none, TRUE, zero, zero)
    BY <1>3, <1>10, CidScannedNothing DEF CidReads, Cid, CidStart
  <2>2. CidReads(none \o p, none \o p, TRUE, zero, zero)
    BY <1>4, <2>1, CidPassed
  <2>3. none \o p = p
    BY <1>3, ConcatEmptySeq
  <2> QED
    BY <2>2, <2>3
<1>12. CidReads(a, none, FALSE, nsec, zero)
  <2>1. CidScanned(a) = CidStep(CidScanned(p), ".")
    BY <1>5, <1>d, CidScannedAppend
  <2>2. CidStep(Cid(p, TRUE, zero, zero), ".") = Cid(<<>>, FALSE, Atoi(p), zero)
    BY CidDots
  <2> QED
    BY <1>1, <1>3, <1>4, <1>11, <2>1, <2>2, Zenon DEF CidReads
<1>13. CidReads(b, q, FALSE, nsec, zero)
  <2>1. CidReads(a \o q, none \o q, FALSE, nsec, zero)
    BY <1>6, <1>12, CidPassed
  <2>2. none \o q = q
    BY <1>3, ConcatEmptySeq
  <2> QED
    BY <1>7, <2>1, <2>2
<1>14. CidReads(c, none, FALSE, nsec, sec)
  <2>1. CidScanned(c) = CidStep(CidScanned(b), ".")
    BY <1>8, <1>d, CidScannedAppend
  <2>2. CidStep(Cid(q, FALSE, nsec, zero), ".") = Cid(<<>>, FALSE, nsec, Atoi(q))
    BY CidDots
  <2> QED
    BY <1>2, <1>3, <1>6, <1>13, <2>1, <2>2, Zenon DEF CidReads
<1>15. CidReads(c \o name, name, FALSE, nsec, sec)
  <2>1. Undotted(S, c, name)
    BY DEF Undotted
  <2>2. CidReads(c \o name, none \o name, FALSE, nsec, sec)
    BY <1>14, <2>1, CidPassed
  <2>3. none \o name = name
    BY <1>3, ConcatEmptySeq
  <2> QED
    BY <2>2, <2>3
<1>16. PICK r : r = CidScanned(c \o name)
  OBVIOUS
<1>17. r.nsec = nsec /\ r.sec = sec /\ r.pp = name
  BY <1>15, <1>16 DEF CidReads, Cid
<1>18. ParseCid(c \o name) = [nsec |-> r.nsec, sec |-> r.sec, name |-> r.pp]
  BY <1>16, Zenon DEF ParseCid, CidScanned, CidStep, CidStart
<1> QED
  BY <1>9, <1>17, <1>18

LEMMA NoDotWithin ==
    ASSUME NEW x \in Letter \cup {":", "/", "@", "+"}
    PROVE  x # "."
<1>1. "." \notin Letter
  <2>1. "." \in {"@", ":", "/", "~", "+", "#", ".", " ", "\n"}
    OBVIOUS
  <2>2. Letter \cap {"@", ":", "/", "~", "+", "#", ".", " ", "\n"} = {}
    BY LetterAssumption, Zenon DEF LetterAssumption
  <2> QED
    BY <2>1, <2>2, Zenon
<1>2. "." \notin {":", "/", "@", "+"}
  OBVIOUS
<1> QED
  BY <1>1, <1>2, Zenon

(* CidRead, for names of every length.                                     *)
THEOREM CidsRead ==
    ASSUME arg \in Strings
    PROVE  CidRead
<1> DEFINE S == Letter \cup {":", "/", "@", "+"} \cup Digits \cup {"."}
<1>s. CidChars(S)
  BY DEF CidChars
<1>1. arg \in Seq(S) /\ \A j \in 1..Len(arg) : arg[j] # "."
  <2>1. PICK n \in 0..MaxString :
            arg \in [1..n -> Letter \cup {":", "/", "@", "+"}]
    BY DEF Strings, BoundedSeq, SeqOf
  <2>2. n \in Nat
    BY MaxStringAssumption DEF MaxStringAssumption
  <2>3. arg \in [1..n -> S]
    BY <2>1
  <2>4. \A j \in 1..n : arg[j] # "."
    BY <2>1, NoDotWithin
  <2>5. arg \in Seq(S) /\ Len(arg) = n
    <3> HIDE DEF S
    <3> QED
      BY <2>2, <2>3, SeqDef, LenProperties
  <2> QED
    BY <2>4, <2>5
<1> HIDE DEF S
<1>2. \A nsec, sec : IsTime(nsec, sec) =>
          ParseCid(GenCid(nsec, sec, arg)) = [nsec |-> nsec, sec |-> sec, name |-> arg]
  BY <1>s, <1>1, CidIsRead
<1>3. \A nsec \in {0, 80, 999999999}, sec \in {0, 9, 1600000000} : IsTime(nsec, sec)
  BY SMT DEF IsTime
<1> QED
  BY <1>2, <1>3, SMT DEF CidRead
=============================================================================
