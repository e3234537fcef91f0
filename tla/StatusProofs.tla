---------------------------- MODULE StatusProofs ----------------------------
(***************************************************************************)
(* Theorems about Status, for every set of files, commits and contents and *)
(* every length of a second.                                               *)
(***************************************************************************)
EXTENDS Status, TLAPS

(* What ct_fcompare tells apart, is_modified sees in f by the times.       *)
Seen(copy, f) ==
    work[f] # None /\ ~ Alike(copy.data, work[f].data)
    => Delta(copy.time, work[f].time) > 0

StagedSeen ==
    \A f \in Files : stage[f] # None /\ "staged" \notin hasty[f]
                     => Seen(stage[f], f)
CommittedSeen ==
    \A f \in Indexed : "committed" \notin hasty[f] => Seen(Committed(f), f)

(* No copy is from the future.                                             *)
Past ==
    \A f \in Files :
        /\ stage[f] # None => stage[f].time <= now
        /\ \A c \in Cids : store[c][f] # None => store[c][f].time <= now

(* The copies that an index names were made by commits and are there.      *)
Backed ==
    \A c \in Cids : cindex[c] # None =>
        \A f \in Entries(cindex[c]) : /\ cindex[cindex[c][f]] # None
                                      /\ store[cindex[c][f]][f] # None
HeadsMade ==
    /\ tip # None => cindex[tip] # None
    /\ co # None => cindex[co] # None

(* A checkout has restored what it has not still to do.                    *)
Restored(f) == /\ work[f] # None
               /\ work[f].data = store[cindex[co][f]][f].data
CheckoutProgress ==
    IF co = None THEN left = {} /\ dest = None
    ELSE LET lines == Entries(cindex[co])
         IN /\ left \subseteq lines
            /\ dest \in (lines \ left) \cup {None}
            /\ \A f \in lines \ (left \cup {dest}) : Restored(f)

(* What makes StatusExact and CheckoutRestores follow: what a file is      *)
(* compared with is never younger than the clock and never changes once it *)
(* is in the store, so a change that is not hasty is of a later second.    *)
StatusInv ==
    /\ TypeOK
    /\ Past
    /\ Backed
    /\ HeadsMade
    /\ StagedSeen
    /\ CommittedSeen
    /\ CheckoutProgress

-----------------------------------------------------------------------------
(* The clock.                                                              *)

LEMMA SecGrows ==
    ASSUME NEW a \in Nat, NEW b \in Nat, a <= b
    PROVE  Sec(a) \in Nat /\ Sec(b) \in Nat /\ Sec(a) <= Sec(b)
<1> DEFINE P == PerSecond
<1>1. P \in Nat /\ P > 0
  BY TimeAssumption DEF TimeAssumption
<1> PICK qa \in Nat : qa = a \div P
  BY <1>1
<1> PICK qb \in Nat : qb = b \div P
  BY <1>1
<1>2. P * qa <= a /\ b < P * qb + P
  BY <1>1
<1>3. ASSUME qb + 1 <= qa PROVE P * (qb + 1) <= P * qa
  BY <1>1, <1>3
<1>4. P * (qb + 1) = P * qb + P
  BY <1>1
<1>5. P * qa \in Nat /\ P * qb \in Nat
  BY <1>1
<1>6. qa <= qb
  BY <1>1, <1>2, <1>3, <1>4, <1>5
<1> QED
  BY <1>6 DEF Sec

(* A change in a later second is seen.                                     *)
LEMMA LaterSeen ==
    ASSUME NEW a \in Nat, NEW b \in Nat, a <= b, Sec(a) # Sec(b)
    PROVE  Delta(a, b) > 0
BY SecGrows DEF Delta

LEMMA AlikeSelf == \A d : Alike(d, d)
BY DEF Alike

(* No content is like that of a missing file.                              *)
LEMMA AlikeNone ==
    ASSUME NEW d, Alike(d, None) \/ Alike(None, d)
    PROVE  d = None
BY TwinsAssumption, NoneIsNoCopy DEF Alike, TwinsAssumption, NoneIsNoCopy

LEMMA TimesNat ==
    ASSUME TypeOK
    PROVE  /\ now \in Nat
           /\ \A copy \in Copies : copy.time \in Nat
BY TimeAssumption DEF TypeOK, Copies, TimeAssumption

-----------------------------------------------------------------------------
(* Type correctness.                                                       *)

LEMMA InitType == Init => TypeOK
<1> SUFFICES ASSUME Init PROVE TypeOK
  OBVIOUS
<1>1. \A d \in Data : [data |-> d, time |-> 0] \in Copies
  BY TimeAssumption DEF Copies, TimeAssumption
<1> QED
  BY <1>1, TimeAssumption DEF Init, TypeOK, TimeAssumption

LEMMA PutType ==
    ASSUME TypeOK, NEW f \in Files, NEW d \in Data \cup {Blank}, Put(f, d)
    PROVE  /\ work' \in [Files -> Copies \cup {None}]
           /\ hasty' \in [Files -> SUBSET {"staged", "committed"}]
<1>1. [data |-> d, time |-> now] \in Copies
  BY DEF TypeOK, Copies
<1> QED
  BY <1>1 DEF Put, TypeOK

LEMMA CommitType ==
    ASSUME TypeOK, HeadsMade, NEW c \in Cids, Commit(c)
    PROVE  TypeOK' /\ HeadsMade'
<1>1. /\ cindex' \in [Cids -> Index \cup {None}]
      /\ cindex'[c] # None
      /\ \A d \in Cids : cindex[d] # None => cindex'[d] = cindex[d]
  <2> DEFINE base == IF tip = None THEN EmptyIndex ELSE cindex[tip]
             ix == Drop(Stamp(base, StagedFiles, c), stageRm)
  <2>1. ix \in Index
    <3>1. base \in Index
      BY DEF TypeOK, HeadsMade, EmptyIndex, Index
    <3> HIDE DEF base
    <3> QED
      BY <3>1 DEF Drop, Stamp, Index
  <2> QED
    BY <2>1, NoneAssumption DEF Commit, TypeOK, NoneAssumption
<1>2. store' \in [Cids -> [Files -> Copies \cup {None}]]
  <2> DEFINE own == [f \in Files |->
                        IF stage[f] = None THEN None
                        ELSE [stage[f] EXCEPT !.time = now]]
  <2>1. own \in [Files -> Copies \cup {None}]
    <3>1. \A copy \in Copies : [copy EXCEPT !.time = now] \in Copies
      BY DEF TypeOK, Copies
    <3> QED
      BY <3>1 DEF TypeOK
  <2> QED
    BY <2>1 DEF Commit, TypeOK
<1>3. hasty' \in [Files -> SUBSET {"staged", "committed"}]
  BY DEF Commit, TypeOK
<1> QED
  BY <1>1, <1>2, <1>3 DEF Commit, TypeOK, HeadsMade, checkout

LEMMA CheckoutWriteType ==
    ASSUME StatusInv, dest # None
    PROVE  /\ co \in Cids /\ dest \in Files /\ dest \in Entries(cindex[co])
           /\ store[cindex[co][dest]][dest] \in Copies
           /\ store[cindex[co][dest]][dest].data \in Data \cup {Blank}
<1>1. co \in Cids /\ dest \in Files /\ dest \in Entries(cindex[co])
  BY DEF StatusInv, TypeOK, CheckoutProgress
<1>2. cindex[co] \in Index
  BY <1>1, NoneAssumption
  DEF StatusInv, TypeOK, HeadsMade, NoneAssumption
<1>3. cindex[co][dest] \in Cids /\ store[cindex[co][dest]][dest] # None
  BY <1>1, <1>2, NoneAssumption
  DEF StatusInv, HeadsMade, Backed, Entries, Index, NoneAssumption
<1>4. store[cindex[co][dest]][dest] \in Copies
  BY <1>1, <1>3 DEF StatusInv, TypeOK
<1> QED
  BY <1>1, <1>4 DEF Copies

(* What the current index names.                                           *)
LEMMA CommittedCopy ==
    ASSUME StatusInv, NEW f \in Indexed
    PROVE  /\ f \in Files /\ tip \in Cids /\ cindex[tip] \in Index
           /\ f \in Entries(cindex[tip])
           /\ cindex[tip][f] \in Cids /\ cindex[cindex[tip][f]] # None
           /\ Committed(f) \in Copies /\ Committed(f) # None
           /\ Committed(f).time <= now
<1>1. f \in Entries(cindex[tip]) /\ f \in Files /\ tip \in Cids
  BY DEF StatusInv, TypeOK, Indexed, Entries
<1>2. cindex[tip] # None /\ cindex[tip] \in Index
  BY <1>1, NoneAssumption
  DEF StatusInv, TypeOK, HeadsMade, NoneAssumption
<1>3. /\ cindex[tip][f] \in Cids
      /\ cindex[cindex[tip][f]] # None /\ store[cindex[tip][f]][f] # None
  BY <1>1, <1>2, NoneAssumption
  DEF StatusInv, Backed, Entries, Index, NoneAssumption
<1>4. store[cindex[tip][f]][f] \in Copies
  BY <1>1, <1>3 DEF StatusInv, TypeOK
<1> QED
  BY <1>1, <1>2, <1>3, <1>4 DEF Committed, StatusInv, Past

LEMMA NextType ==
    ASSUME StatusInv, [Next]_vars
    PROVE  TypeOK' /\ HeadsMade'
<1> USE DEF repo, checkout
<1>t. TypeOK /\ HeadsMade
  BY DEF StatusInv
<1>1. CASE UNCHANGED vars
  BY <1>t, <1>1 DEF TypeOK, HeadsMade, vars
<1>2. CASE Tick
  BY <1>t, <1>2, TimeAssumption DEF Tick, TypeOK, HeadsMade, TimeAssumption
<1>3. ASSUME NEW f \in Files, NEW d \in Data \cup {Blank}, Edit(f, d)
      PROVE  TypeOK' /\ HeadsMade'
  BY <1>t, <1>3, PutType DEF Edit, TypeOK, HeadsMade
<1>4. ASSUME NEW f \in Files, Delete(f) \/ Unadd(f) \/ Rm(f)
      PROVE  TypeOK' /\ HeadsMade'
  BY <1>t, <1>4 DEF Delete, Unadd, Rm, TypeOK, HeadsMade
<1>5. ASSUME NEW f \in Files, Add(f)
      PROVE  TypeOK' /\ HeadsMade'
  <2>1. [data |-> IF work[f] = None THEN Blank ELSE work[f].data,
         time |-> now] \in Copies
    BY <1>t DEF TypeOK, Copies
  <2> QED
    BY <1>t, <1>5, <2>1 DEF Add, TypeOK, HeadsMade
<1>6. ASSUME NEW c \in Cids, Commit(c) PROVE TypeOK' /\ HeadsMade'
  BY <1>t, <1>6, CommitType
<1>7. CASE CheckoutStart
  BY <1>t, <1>7 DEF CheckoutStart, TypeOK, HeadsMade, Indexed, Entries
<1>8. ASSUME NEW f \in Files, CheckoutOpen(f)
      PROVE  TypeOK' /\ HeadsMade'
  BY <1>t, <1>8, PutType DEF CheckoutOpen, TypeOK, HeadsMade
<1>9. CASE CheckoutWrite
  <2>1. /\ dest \in Files
        /\ store[cindex[co][dest]][dest].data \in Data \cup {Blank}
    BY <1>9, CheckoutWriteType DEF CheckoutWrite
  <2>2. PICK f \in Files, d \in Data \cup {Blank} : Put(f, d)
    BY <1>9, <2>1 DEF CheckoutWrite
  <2> QED
    BY <1>t, <1>9, <2>2, PutType DEF CheckoutWrite, TypeOK, HeadsMade
<1>10. CASE CheckoutEnd \/ CheckoutDies
  BY <1>t, <1>10 DEF CheckoutEnd, CheckoutDies, TypeOK, HeadsMade
<1> QED
  BY <1>1, <1>2, <1>3, <1>4, <1>5, <1>6, <1>7, <1>8, <1>9, <1>10 DEF Next

-----------------------------------------------------------------------------
(* The invariant is kept.                                                  *)

LEMMA InitStatus == Init => StatusInv
<1> SUFFICES ASSUME Init PROVE StatusInv
  OBVIOUS
<1>1. TypeOK
  BY InitType
<1>2. Indexed = {}
  BY DEF Init, Indexed
<1> QED
  BY <1>1, <1>2
  DEF Init, StatusInv, Past, Backed, HeadsMade, StagedSeen, CommittedSeen,
      CheckoutProgress

(* The steps of the user and of checkout on the working files leave the    *)
(* repository and the clock alone.                                         *)
LEMMA RepoAlone ==
    ASSUME StatusInv, UNCHANGED <<now, repo>>
    PROVE  Past' /\ Backed'
BY DEF StatusInv, Past, Backed, repo

(* A change of a file is of a later second than the copies that it is not  *)
(* hidden from.                                                            *)
LEMMA PutSeen ==
    ASSUME StatusInv, NEW f \in Files, NEW d \in Data \cup {Blank}, Put(f, d),
           UNCHANGED <<now, repo>>
    PROVE  StagedSeen' /\ CommittedSeen'
<1>1. /\ work'[f] = [data |-> d, time |-> now]
      /\ \A g \in Files \ {f} : work'[g] = work[g] /\ hasty'[g] = hasty[g]
      /\ "staged" \notin hasty'[f] => ~ SameSecond(stage[f])
      /\ "committed" \notin hasty'[f] =>
             ~ (f \in Indexed /\ SameSecond(Committed(f)))
  BY DEF Put, StatusInv, TypeOK
<1>2. /\ UNCHANGED <<stage, Indexed>>
      /\ \A g \in Indexed : Committed(g)' = Committed(g)
  BY DEF repo, Indexed, Committed
<1>3. ASSUME NEW copy \in Copies, copy.time <= now, Sec(copy.time) # Sec(now)
      PROVE  Delta(copy.time, work'[f].time) > 0
  BY <1>1, <1>3, LaterSeen, TimesNat DEF StatusInv
<1>4. StagedSeen'
  <2> SUFFICES ASSUME NEW g \in Files, stage[g] # None,
                      "staged" \notin hasty'[g]
               PROVE  Seen(stage[g], g)'
    BY <1>2 DEF StagedSeen
  <2>1. CASE g = f
    <3>1. stage[f] \in Copies /\ stage[f].time <= now
      BY <2>1 DEF StatusInv, TypeOK, Past
    <3> QED
      BY <1>1, <1>2, <1>3, <2>1, <3>1 DEF Seen, SameSecond
  <2>2. CASE g # f
    BY <1>1, <1>2, <2>2 DEF StatusInv, StagedSeen, Seen
  <2> QED
    BY <2>1, <2>2
<1>5. CommittedSeen'
  <2> SUFFICES ASSUME NEW g \in Indexed, "committed" \notin hasty'[g]
               PROVE  Seen(Committed(g), g)'
    BY <1>2 DEF CommittedSeen
  <2>1. CASE g = f
    <3>1. Committed(f) \in Copies /\ Committed(f).time <= now
          /\ Committed(f) # None
      BY <2>1, CommittedCopy
    <3> QED
      BY <1>1, <1>2, <1>3, <2>1, <3>1 DEF Seen, SameSecond
  <2>2. CASE g # f
    BY <1>1, <1>2, <2>2, CommittedCopy DEF StatusInv, CommittedSeen, Seen
  <2> QED
    BY <2>1, <2>2
<1> QED
  BY <1>4, <1>5

(* A file that goes is not compared any more.                              *)
LEMMA GoneSeen ==
    ASSUME StatusInv, NEW f \in Files, work' = [work EXCEPT ![f] = None],
           UNCHANGED <<stage, tip, cindex, store, hasty>>
    PROVE  StagedSeen' /\ CommittedSeen'
<1>1. work'[f] = None /\ \A g \in Files \ {f} : work'[g] = work[g]
  BY DEF StatusInv, TypeOK
<1>2. /\ UNCHANGED <<stage, hasty, Indexed>>
      /\ \A g \in Indexed : Committed(g)' = Committed(g)
  BY DEF Indexed, Committed
<1>3. StagedSeen'
  BY <1>1, <1>2 DEF StatusInv, StagedSeen, Seen
<1>4. CommittedSeen'
  BY <1>1, <1>2, CommittedCopy DEF StatusInv, CommittedSeen, Seen
<1> QED
  BY <1>3, <1>4

LEMMA SameSeen ==
    ASSUME StatusInv, UNCHANGED <<work, stage, tip, cindex, store, hasty>>
    PROVE  StagedSeen' /\ CommittedSeen'
<1>1. /\ UNCHANGED <<stage, hasty, Indexed>>
      /\ \A g \in Indexed : Committed(g)' = Committed(g)
  BY DEF Indexed, Committed
<1>2. StagedSeen'
  BY <1>1 DEF StatusInv, StagedSeen, Seen
<1>3. CommittedSeen'
  BY <1>1 DEF StatusInv, CommittedSeen, Seen
<1> QED
  BY <1>2, <1>3

(* The user does not touch working files while a checkout runs.            *)
LEMMA NoCheckout ==
    ASSUME StatusInv, co = None, UNCHANGED checkout
    PROVE  CheckoutProgress'
BY DEF StatusInv, CheckoutProgress, checkout

LEMMA SameCheckout ==
    ASSUME StatusInv, UNCHANGED <<checkout, work>>,
           \A c \in Cids : cindex[c] # None => UNCHANGED <<cindex[c], store[c]>>
    PROVE  CheckoutProgress'
<1>1. CASE co = None
  BY <1>1, NoCheckout DEF checkout
<1>2. CASE co # None
  <2>1. co \in Cids /\ cindex[co] # None
    BY <1>2 DEF StatusInv, HeadsMade, TypeOK
  <2>2. cindex[co] \in Index
    BY <2>1, NoneAssumption DEF StatusInv, TypeOK, NoneAssumption
  <2>3. UNCHANGED <<co, left, dest, work, cindex[co]>>
    BY <2>1 DEF checkout
  <2>4. \A f \in Entries(cindex[co]) :
            store'[cindex[co][f]] = store[cindex[co][f]]
    <3> SUFFICES ASSUME NEW f \in Entries(cindex[co])
                 PROVE  store'[cindex[co][f]] = store[cindex[co][f]]
      OBVIOUS
    <3>1. cindex[co][f] \in Cids /\ cindex[cindex[co][f]] # None
      BY <2>1, <2>2 DEF Entries, Index, StatusInv, Backed
    <3> QED
      BY <3>1
  <2>5. \A f \in Entries(cindex[co]) : Restored(f)' <=> Restored(f)
    BY <2>3, <2>4 DEF Restored
  <2> QED
    BY <1>2, <2>3, <2>5 DEF StatusInv, CheckoutProgress
<1> QED
  BY <1>1, <1>2

LEMMA TickKeeps ==
    ASSUME StatusInv, Tick
    PROVE  Past' /\ Backed' /\ StagedSeen' /\ CommittedSeen'
           /\ CheckoutProgress'
<1>1. /\ UNCHANGED <<work, stage, tip, cindex, store, hasty, checkout>>
      /\ now' = now + 1
  BY DEF Tick, repo
<1>2. Past'
  <2>1. \A copy \in Copies : copy.time <= now => copy.time <= now'
    BY <1>1, TimesNat DEF StatusInv
  <2> QED
    BY <1>1, <2>1 DEF StatusInv, Past, TypeOK
<1>3. Backed'
  BY <1>1 DEF StatusInv, Backed
<1> QED
  BY <1>1, <1>2, <1>3, SameSeen, SameCheckout

LEMMA StageKeeps ==
    ASSUME StatusInv, NEW f \in Files, Add(f) \/ Unadd(f)
    PROVE  Past' /\ Backed' /\ StagedSeen' /\ CommittedSeen'
           /\ CheckoutProgress'
<1>1. /\ UNCHANGED <<now, work, tip, cindex, store, checkout>>
      /\ \A g \in Files \ {f} : stage'[g] = stage[g] /\ hasty'[g] = hasty[g]
      /\ "committed" \notin hasty'[f] => "committed" \notin hasty[f]
      /\ \/ stage'[f] = None
         \/ stage'[f] = [data |-> IF work[f] = None THEN Blank
                                  ELSE work[f].data, time |-> now]
  BY DEF Add, Unadd, StatusInv, TypeOK
<1>2. stage'[f] # None =>
          /\ stage'[f].time <= now
          /\ work[f] # None => stage'[f].data = work[f].data
  <2>1. now <= now
    BY TimesNat DEF StatusInv
  <2> QED
    BY <1>1, <2>1 DEF StatusInv, TypeOK, Copies
<1>3. Past'
  BY <1>1, <1>2 DEF StatusInv, Past
<1>4. Backed'
  BY <1>1 DEF StatusInv, Backed
<1>5. StagedSeen'
  BY <1>1, <1>2, AlikeSelf DEF StatusInv, StagedSeen, Seen
<1>6. CommittedSeen'
  <2>1. /\ UNCHANGED Indexed
        /\ \A g \in Indexed : Committed(g)' = Committed(g)
    BY <1>1 DEF Indexed, Committed
  <2> QED
    BY <1>1, <2>1, CommittedCopy DEF StatusInv, CommittedSeen, Seen
<1> QED
  BY <1>1, <1>3, <1>4, <1>5, <1>6, SameCheckout

(* What was staged is what a file is compared with from now on, or it has  *)
(* changed since and is hidden from the commit.                            *)
LEMMA CommitKeeps ==
    ASSUME StatusInv, TypeOK', HeadsMade', NEW c \in Cids, Commit(c)
    PROVE  Past' /\ Backed' /\ StagedSeen' /\ CommittedSeen'
           /\ CheckoutProgress'
<1> DEFINE base == IF tip = None THEN EmptyIndex ELSE cindex[tip]
<1>1. /\ cindex[c] = None
      /\ tip' = c /\ UNCHANGED <<now, work, checkout>>
      /\ \A f \in Files : stage'[f] = None
      /\ \A d \in Cids \ {c} : UNCHANGED <<cindex[d], store[d]>>
      /\ cindex'[c] = Drop(Stamp(base, StagedFiles, c), stageRm)
      /\ \A f \in Files :
             /\ stage[f] = None => store'[c][f] = None /\ hasty'[f] = hasty[f]
             /\ stage[f] # None =>
                    /\ store'[c][f] = [stage[f] EXCEPT !.time = now]
                    /\ hasty'[f] = IF \/ work[f] = None
                                      \/ Alike(stage[f].data, work[f].data)
                                   THEN {} ELSE {"committed"}
  BY DEF Commit, StatusInv, TypeOK
<1>2. /\ cindex'[c] # None /\ cindex'[c] \in Index
      /\ c \in Cids
  BY <1>1, NoneAssumption DEF HeadsMade, TypeOK, NoneAssumption
<1>3. \A f \in Files : stage[f] # None =>
          /\ store'[c][f] # None
          /\ store'[c][f].time = now /\ store'[c][f].data = stage[f].data
  <2>1. \A copy \in Copies :
            LET copied == [copy EXCEPT !.time = now]
            IN /\ copied \in Copies
               /\ copied.time = now /\ copied.data = copy.data
    BY DEF StatusInv, TypeOK, Copies
  <2> SUFFICES ASSUME NEW f \in Files, stage[f] # None
               PROVE  /\ store'[c][f] # None
                      /\ store'[c][f].time = now
                      /\ store'[c][f].data = stage[f].data
    OBVIOUS
  <2>2. PICK copy \in Copies : copy = stage[f]
    BY DEF StatusInv, TypeOK
  <2>3. store'[c][f] = [copy EXCEPT !.time = now]
    BY <1>1, <2>2
  <2> QED
    BY <2>1, <2>2, <2>3, NoneIsNoCopy DEF NoneIsNoCopy
<1>4. \A f \in Files : base[f] # None =>
          f \in Indexed /\ base[f] = cindex[tip][f]
  BY DEF EmptyIndex, Indexed, Entries
<1>5. \A f \in Entries(cindex'[c]) :
          \/ stage[f] # None /\ cindex'[c][f] = c
          \/ /\ stage[f] = None
             /\ f \in Indexed /\ cindex'[c][f] = cindex[tip][f]
  <2> SUFFICES ASSUME NEW f \in Files, cindex'[c][f] # None
               PROVE  \/ stage[f] # None /\ cindex'[c][f] = c
                      \/ /\ stage[f] = None
                         /\ f \in Indexed /\ cindex'[c][f] = cindex[tip][f]
    BY DEF Entries
  <2>1. cindex'[c][f] = IF f \in StagedFiles THEN c ELSE base[f]
    BY <1>1 DEF Drop, Stamp
  <2> QED
    BY <1>4, <2>1 DEF StagedFiles
<1>6. Past'
  <2>1. now \in Nat
    BY TimesNat DEF StatusInv
  <2>2. \A f \in Files, d \in Cids :
            store'[d][f] # None => store'[d][f].time <= now
    <3> SUFFICES ASSUME NEW f \in Files, NEW d \in Cids, store'[d][f] # None
                 PROVE  store'[d][f].time <= now
      OBVIOUS
    <3>1. CASE d = c
      <4>1. store'[c][f].time = now
        BY <1>1, <1>3, <3>1
      <4> QED
        BY <2>1, <3>1, <4>1
    <3>2. CASE d # c
      <4>1. store'[d] = store[d]
        BY <1>1, <3>2
      <4> QED
        BY <4>1 DEF StatusInv, Past
    <3> QED
      BY <3>1, <3>2
  <2> QED
    BY <1>1, <2>2 DEF Past
<1>7. Backed'
  <2> SUFFICES ASSUME NEW d \in Cids, cindex'[d] # None,
                      NEW f \in Entries(cindex'[d])
               PROVE  /\ cindex'[cindex'[d][f]] # None
                      /\ store'[cindex'[d][f]][f] # None
    BY DEF Backed
  <2>1. CASE d # c
    <3>1. /\ cindex'[d] = cindex[d] /\ cindex[d] \in Index
          /\ f \in Entries(cindex[d])
      BY <1>1, <2>1 DEF StatusInv, TypeOK
    <3>2. /\ cindex[d][f] \in Cids /\ cindex[cindex[d][f]] # None
          /\ store[cindex[d][f]][f] # None
      BY <3>1 DEF StatusInv, Backed, Entries, Index
    <3> QED
      BY <1>1, <3>1, <3>2
  <2>2. CASE d = c /\ stage[f] # None
    BY <1>2, <1>3, <1>5, <2>2 DEF Entries
  <2>3. CASE d = c /\ stage[f] = None
    <3>1. f \in Indexed /\ cindex'[c][f] = cindex[tip][f]
      BY <1>5, <2>3
    <3> QED
      BY <1>1, <2>3, <3>1, CommittedCopy DEF Committed
  <2> QED
    BY <2>1, <2>2, <2>3
<1>8. CommittedSeen'
  <2> SUFFICES ASSUME NEW f \in Indexed', "committed" \notin hasty'[f]
               PROVE  Seen(Committed(f), f)'
    BY DEF CommittedSeen
  <2>1. f \in Entries(cindex'[c]) /\ f \in Files
    BY <1>1 DEF Indexed, Entries
  <2>2. CASE stage[f] # None
    <3>1. Committed(f)' = store'[c][f]
      BY <1>1, <1>5, <2>1, <2>2 DEF Committed
    <3>2. work[f] = None \/ Alike(stage[f].data, work[f].data)
      BY <1>1, <2>1, <2>2
    <3> QED
      BY <1>1, <1>3, <2>1, <2>2, <3>1, <3>2 DEF Seen
  <2>3. CASE stage[f] = None
    <3>1. f \in Indexed /\ cindex'[c][f] = cindex[tip][f]
      BY <1>5, <2>1, <2>3
    <3>2. Committed(f)' = Committed(f)
      BY <1>1, <3>1, CommittedCopy DEF Committed
    <3> QED
      BY <1>1, <2>1, <2>3, <3>1, <3>2 DEF StatusInv, CommittedSeen, Seen
  <2> QED
    BY <2>2, <2>3
<1>9. StagedSeen'
  BY <1>1 DEF StagedSeen
<1>10. CheckoutProgress'
  BY <1>1, SameCheckout
<1> QED
  BY <1>6, <1>7, <1>8, <1>9, <1>10

LEMMA CheckoutStartKeeps ==
    ASSUME StatusInv, CheckoutStart
    PROVE  CheckoutProgress'
<1>1. /\ co' = tip /\ tip # None /\ left' = Indexed
      /\ UNCHANGED <<cindex, dest>>
  BY DEF CheckoutStart, repo
<1>2. dest = None
  BY DEF CheckoutStart, StatusInv, CheckoutProgress
<1>3. Indexed = Entries(cindex[tip])
  BY <1>1 DEF Indexed
<1> QED
  BY <1>1, <1>2, <1>3 DEF CheckoutProgress, Entries

(* The line that the checkout has taken is neither to do nor done.         *)
LEMMA CheckoutOpenKeeps ==
    ASSUME StatusInv, NEW f \in Files, CheckoutOpen(f)
    PROVE  CheckoutProgress'
<1>1. /\ dest = None /\ f \in left /\ dest' = f /\ left' = left \ {f}
      /\ UNCHANGED <<cindex, store, co>>
      /\ \A g \in Files \ {f} : work'[g] = work[g]
  BY DEF CheckoutOpen, Put, repo, StatusInv, TypeOK
<1>2. /\ co # None /\ left \subseteq Entries(cindex[co])
      /\ \A g \in Entries(cindex[co]) \ left : Restored(g)
  BY <1>1, NoneIsNoFile
  DEF StatusInv, CheckoutProgress, Entries, NoneIsNoFile
<1>3. \A g \in Entries(cindex[co]) \ left : Restored(g)'
  BY <1>1, <1>2 DEF Restored, Entries
<1>4. Entries(cindex[co])' = Entries(cindex[co])
  BY <1>1
<1> QED
  BY <1>1, <1>2, <1>3, <1>4 DEF CheckoutProgress

LEMMA CheckoutWriteKeeps ==
    ASSUME StatusInv, CheckoutWrite
    PROVE  CheckoutProgress'
<1>1. PICK f \in Files : f = dest
  BY CheckoutWriteType DEF CheckoutWrite
<1>2. /\ co \in Cids /\ f \in Entries(cindex[co])
      /\ dest' = None /\ UNCHANGED <<cindex, store, co, left>>
      /\ \A g \in Files \ {f} : work'[g] = work[g]
      /\ work'[f] = [data |-> store[cindex[co][f]][f].data, time |-> now]
  BY <1>1, CheckoutWriteType
  DEF CheckoutWrite, Put, repo, StatusInv, TypeOK
<1>3. /\ co # None /\ left \subseteq Entries(cindex[co])
      /\ \A g \in Entries(cindex[co]) \ (left \cup {f}) : Restored(g)
  BY <1>1, <1>2, NoneAssumption
  DEF StatusInv, CheckoutProgress, NoneAssumption
<1>4. work'[f] # None
  <2>1. work'[f] \in Copies
    <3>1. store[cindex[co][f]][f].data \in Data \cup {Blank}
      BY <1>1, CheckoutWriteType DEF CheckoutWrite
    <3> QED
      BY <1>2, <3>1 DEF StatusInv, TypeOK, Copies
  <2> QED
    BY <2>1, NoneIsNoCopy DEF NoneIsNoCopy
<1>5. Restored(f)'
  BY <1>2, <1>4 DEF Restored
<1>6. \A g \in Entries(cindex[co]) \ (left \cup {f}) : Restored(g)'
  BY <1>2, <1>3 DEF Restored, Entries
<1>7. Entries(cindex[co])' = Entries(cindex[co])
  BY <1>2
<1> QED
  BY <1>2, <1>3, <1>5, <1>6, <1>7 DEF CheckoutProgress

LEMMA NextStatus ==
    ASSUME StatusInv, [Next]_vars
    PROVE  StatusInv'
<1>t. TypeOK' /\ HeadsMade'
  BY NextType
<1> SUFFICES Past' /\ Backed' /\ StagedSeen' /\ CommittedSeen'
             /\ CheckoutProgress'
  BY <1>t DEF StatusInv
<1>1. CASE UNCHANGED <<now, work, repo, checkout, hasty>>
  BY <1>1, RepoAlone, SameSeen, SameCheckout DEF repo
<1>2. CASE Tick
  BY <1>2, TickKeeps
<1>3. ASSUME NEW f \in Files, NEW d \in Data \cup {Blank}, Edit(f, d)
      PROVE  Past' /\ Backed' /\ StagedSeen' /\ CommittedSeen'
             /\ CheckoutProgress'
  BY <1>3, RepoAlone, PutSeen, NoCheckout DEF Edit
<1>4. ASSUME NEW f \in Files, Delete(f)
      PROVE  Past' /\ Backed' /\ StagedSeen' /\ CommittedSeen'
             /\ CheckoutProgress'
  BY <1>4, RepoAlone, GoneSeen, NoCheckout DEF Delete, repo
<1>5. ASSUME NEW f \in Files, Rm(f)
      PROVE  Past' /\ Backed' /\ StagedSeen' /\ CommittedSeen'
             /\ CheckoutProgress'
  <2>1. Past' /\ Backed'
    BY <1>5 DEF Rm, StatusInv, Past, Backed
  <2> QED
    BY <1>5, <2>1, GoneSeen, NoCheckout DEF Rm
<1>6. ASSUME NEW f \in Files, Add(f) \/ Unadd(f)
      PROVE  Past' /\ Backed' /\ StagedSeen' /\ CommittedSeen'
             /\ CheckoutProgress'
  BY <1>6, StageKeeps
<1>7. ASSUME NEW c \in Cids, Commit(c)
      PROVE  Past' /\ Backed' /\ StagedSeen' /\ CommittedSeen'
             /\ CheckoutProgress'
  BY <1>t, <1>7, CommitKeeps
<1>8. CASE CheckoutStart
  BY <1>8, RepoAlone, SameSeen, CheckoutStartKeeps DEF CheckoutStart, repo
<1>9. ASSUME NEW f \in Files, CheckoutOpen(f)
      PROVE  Past' /\ Backed' /\ StagedSeen' /\ CommittedSeen'
             /\ CheckoutProgress'
  BY <1>9, RepoAlone, PutSeen, CheckoutOpenKeeps DEF CheckoutOpen
<1>10. CASE CheckoutWrite
  <2>1. /\ dest \in Files
        /\ store[cindex[co][dest]][dest].data \in Data \cup {Blank}
    BY <1>10, CheckoutWriteType DEF CheckoutWrite
  <2>2. PICK f \in Files, d \in Data \cup {Blank} : Put(f, d)
    BY <1>10, <2>1 DEF CheckoutWrite
  <2> QED
    BY <1>10, <2>2, RepoAlone, PutSeen, CheckoutWriteKeeps DEF CheckoutWrite
<1>11. CASE CheckoutEnd \/ CheckoutDies
  <2>1. CheckoutProgress'
    BY <1>11 DEF CheckoutEnd, CheckoutDies, CheckoutProgress
  <2> QED
    BY <1>11, <2>1, RepoAlone, SameSeen DEF CheckoutEnd, CheckoutDies, repo
<1> QED
  BY <1>1, <1>2, <1>3, <1>4, <1>5, <1>6, <1>7, <1>8, <1>9, <1>10, <1>11
  DEF Next, vars

LEMMA StatusAlways == Spec => []StatusInv
<1>1. StatusInv /\ [Next]_vars => StatusInv'
  BY NextStatus
<1> QED
  BY <1>1, InitStatus, PTL DEF Spec

(* Every state of a working directory and its repository is in its type.   *)
THEOREM TypeCorrect == Spec => []TypeOK
<1>1. StatusInv => TypeOK
  BY DEF StatusInv
<1> QED
  BY <1>1, StatusAlways, PTL

-----------------------------------------------------------------------------
(* What status shows.                                                      *)

(* A file of the index is shown if and only if it is not as the copy that  *)
(* is_modified takes for it, provided that the times let it look.          *)
LEMMA ComparedExactly ==
    ASSUME StatusInv, NEW f \in Indexed, Reference(f) \in Copies,
           Seen(Reference(f), f)
    PROVE  f \in Shown <=> ~ Alike(Reference(f).data, Content(work[f]))
<1>1. f \in Files
  BY CommittedCopy
<1>2. Reference(f).data \in Data \cup {Blank} /\ Reference(f).data # None
  BY NoneIsNoCopy DEF Copies, NoneIsNoCopy
<1>3. f \in Shown <=> work[f] = None \/ IsModified(f)
  BY <1>1 DEF Shown, RemovedFiles, ModifiedFiles, UntrackedFiles
<1>4. CASE work[f] = None
  BY <1>2, <1>3, <1>4, AlikeNone DEF Content
<1>5. CASE work[f] # None
  <2>1. IsModified(f) <=> ~ Alike(Reference(f).data, work[f].data)
    BY <1>5 DEF IsModified, Seen
  <2> QED
    BY <1>3, <1>5, <2>1 DEF Content
<1> QED
  BY <1>4, <1>5

LEMMA StatusInvExact ==
    ASSUME StatusInv
    PROVE  StatusExact
<1> SUFFICES
      ASSUME NEW f \in Files, f \notin Ignored \/ f \in Indexed,
             (IF stage[f] # None THEN "staged" ELSE "committed")
                 \notin hasty[f],
             stage[f] # None => f \notin DirFiles /\ f \in Indexed
      PROVE  f \in Shown <=> ~ Alike(Content(Upcoming(f)), Content(work[f]))
  BY DEF StatusExact, StagedFiles
<1>1. CASE stage[f] # None
  <2>1. Reference(f) = stage[f] /\ f \in Indexed
    BY <1>1 DEF Reference
  <2>2. stage[f] \in Copies /\ Seen(stage[f], f)
    BY <1>1 DEF StatusInv, TypeOK, StagedSeen
  <2>3. Content(Upcoming(f)) = stage[f].data
    BY <1>1 DEF Upcoming, Content
  <2> QED
    BY <2>1, <2>2, <2>3, ComparedExactly
<1>2. CASE stage[f] = None /\ f \in Indexed
  <2>1. Reference(f) = Committed(f)
    BY <1>2 DEF Reference
  <2>2. Committed(f) \in Copies /\ Committed(f) # None
        /\ Seen(Committed(f), f)
    BY <1>2, CommittedCopy DEF StatusInv, CommittedSeen
  <2>3. Content(Upcoming(f)) = Committed(f).data
    BY <1>2, <2>2 DEF Upcoming, Content
  <2> QED
    BY <1>2, <2>1, <2>2, <2>3, ComparedExactly
<1>3. CASE stage[f] = None /\ f \notin Indexed
  <2>1. f \in Shown <=> work[f] # None
    BY <1>3 DEF Shown, RemovedFiles, ModifiedFiles, UntrackedFiles,
                StagedFiles
  <2>2. Content(Upcoming(f)) = None
    BY <1>3 DEF Upcoming, Content
  <2>3. Content(work[f]) = None <=> work[f] = None
    BY NoneIsNoCopy DEF Content, StatusInv, TypeOK, Copies, NoneIsNoCopy
  <2> QED
    BY <2>1, <2>2, <2>3, AlikeSelf, AlikeNone
<1> QED
  BY <1>1, <1>2, <1>3

(* status shows a file exactly when it differs from what the next commit   *)
(* would hold, except the changes that hide in a second, before a commit   *)
(* or behind a NUL byte, and the staged files that it compares with the    *)
(* wrong copy or with none.                                                *)
THEOREM StatusIsExact == Spec => []StatusExact
<1>1. StatusInv => StatusExact
  BY StatusInvExact
<1> QED
  BY <1>1, StatusAlways, PTL

-----------------------------------------------------------------------------
(* What a checkout leaves.                                                 *)

LEMMA EndRestored ==
    ASSUME StatusInv, CheckoutEnd
    PROVE  /\ \A f \in Entries(cindex[co]) : Restored(f)
           /\ co = tip => RemovedFiles \cup ModifiedFiles \subseteq StagedFiles
<1>1. co # None /\ left = {} /\ dest = None
  BY DEF CheckoutEnd
<1>2. \A f \in Entries(cindex[co]) : Restored(f)
  BY <1>1, NoneIsNoFile
  DEF StatusInv, CheckoutProgress, Entries, NoneIsNoFile
<1>3. ASSUME co = tip, NEW f \in Indexed, stage[f] = None
      PROVE  f \notin RemovedFiles \cup ModifiedFiles
  <2>1. Restored(f)
    BY <1>2, <1>3, CommittedCopy
  <2>2. Reference(f) = store[cindex[co][f]][f]
    BY <1>3 DEF Reference, Committed
  <2> QED
    BY <2>1, <2>2, AlikeSelf DEF Restored, RemovedFiles, ModifiedFiles, IsModified
<1> QED
  BY <1>2, <1>3, CommittedCopy
  DEF RemovedFiles, ModifiedFiles, StagedFiles

(* A checkout that runs to its end has restored every file of the commit   *)
(* that was current when it began, whatever was committed meanwhile.       *)
THEOREM CheckoutIsWhole == Spec => CheckoutRestores
<1>1. StatusInv /\ [Next]_vars =>
          [CheckoutEnd =>
              /\ \A f \in Entries(cindex[co]) :
                     /\ work[f] # None
                     /\ work[f].data = store[cindex[co][f]][f].data
              /\ co = tip =>
                     RemovedFiles \cup ModifiedFiles \subseteq StagedFiles
          ]_vars
  BY EndRestored DEF Restored
<1> QED
  BY <1>1, StatusAlways, PTL DEF Spec, CheckoutRestores
=============================================================================
