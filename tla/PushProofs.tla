----------------------------- MODULE PushProofs -----------------------------
(***************************************************************************)
(* Theorems about Push, for every set of files, commits and pushes, and    *)
(* for any number of faults.                                               *)
(*                                                                         *)
(* The operators below have the parts of the state that they look at as    *)
(* arguments, so that the lemmas about them hold before and after a step:  *)
(* ix is cindex, par is parent and b is a batch of commits and copies.     *)
(***************************************************************************)
EXTENDS Push, TLAPS, FiniteSetTheorems

MadeIn(ix) == {c \in Cids : ix[c] # None}
OwnedIn(ix, c) == {c} \X {f \in Files : ix[c][f] = c}
ClosedIn(par, S) == \A c \in S : par[c] \in S \cup {None}

(* S lies in b with its own copies, and contains what it was made on.      *)
Complete(b, par, ix, S) ==
    /\ S \subseteq b.dirs \cap MadeIn(ix)
    /\ ClosedIn(par, S)
    /\ \A c \in S : OwnedIn(ix, c) \subseteq b.copies

(* The commits that b has together with all that they were made on.        *)
Has(b, par, ix) ==
    UNION {S \in SUBSET Cids : Complete(b, par, ix, S)}

(* Unpacked into far, the batch b completes the commit c: it holds commits *)
(* down to the first one or to one that far has.                           *)
Brings(b, far_, par, ix, c) ==
    \E R \in SUBSET (b.dirs \cap MadeIn(ix)) :
        /\ c \in R \cup Has(far_, par, ix)
        /\ \A d \in R : /\ OwnedIn(ix, d) \subseteq b.copies
                        /\ par[d] \in R \cup Has(far_, par, ix) \cup {None}

(* The local history: a line of an index names a commit that the index's   *)
(* own commit was made on, or that commit itself, and that has the copy.   *)
LocalInv ==
    /\ tip \in Made \cup {None}
    /\ \A c \in Made : parent[c] \in Made \cup {None}
    /\ \A c \in Made : \A f \in Entries(cindex[c]) :
           /\ cindex[c][f] \in Made
           /\ cindex[cindex[c][f]][f] = cindex[c][f]
           /\ \A S \in SUBSET Cids :
                  ClosedIn(parent, S) /\ c \in S => cindex[c][f] \in S

(* What a push that walks has gathered.                                    *)
Gathers(p) ==
    LET R == items[p].dirs
    IN /\ R \subseteq Made
       /\ walk[p] \in Made \cup {None}
       /\ cid[p] \in R \cup {walk[p]}
       /\ \A d \in R : /\ parent[d] \in R \cup {walk[p]}
                       /\ OwnedIn(cindex, d) \subseteq items[p].copies

Held == Has(far, parent, cindex)

(* How far each push has brought its commit.                               *)
PushInv(p) ==
    /\ rlatest[p] \in Held \cup {None}
    /\ pc[p] \in {"idle", "read"} => items[p] = NoBatch
    /\ pc[p] \notin {"idle", "read"} => cid[p] \in Made
    /\ pc[p] = "walk" => Gathers(p)
    /\ pc[p] = "scp" => Brings(packet, far, parent, cindex, cid[p])
    /\ pc[p] = "unpack" /\ rpacket # None =>
           Brings(rpacket, far, parent, cindex, cid[p])
    /\ pc[p] \in {"publish", "report"} => cid[p] \in Held

(* Pushes that have not crossed send the same commit.                      *)
SameCommit ==
    \A p, q \in Pushers : cid[p] = cid[q] \/ None \in {cid[p], cid[q]}

RemoteInv ==
    /\ rcurrent \in Held \cup {Blank, None}
    /\ SameCommit
    /\ \A p \in Pushers : PushInv(p)

PushInvariant ==
    /\ LocalInv
    /\ torn \/ crossed \/ RemoteInv

-----------------------------------------------------------------------------
(* Type correctness.                                                       *)

LEMMA InitType == Init => TypeOK
<1>1. NoBatch \in Batches
  BY DEF NoBatch, Batches
<1>2. 0 \in 0..MaxFaults
  BY MaxFaultsAssumption DEF MaxFaultsAssumption
<1> QED
  BY <1>1, <1>2 DEF Init, TypeOK, PushSteps

LEMMA JoinType ==
    ASSUME NEW a \in Batches, NEW b \in Batches
    PROVE  Join(a, b) \in Batches
BY DEF Join, Batches

(* The index of a commit that is made on the tip.                          *)
LEMMA NewIndexType ==
    ASSUME TypeOK, NEW c \in Cids, NEW staged, NEW removed,
           tip \in Made \cup {None}
    PROVE  Drop(Stamp(IF tip = None THEN EmptyIndex ELSE cindex[tip], staged, c),
                removed) \in Index
<1> DEFINE base == IF tip = None THEN EmptyIndex ELSE cindex[tip]
<1>1. base \in Index
  BY DEF TypeOK, Made, EmptyIndex, Index
<1> HIDE DEF base
<1>2. Stamp(base, staged, c) \in Index
  BY <1>1 DEF Stamp, Index
<1>3. Drop(Stamp(base, staged, c), removed) \in Index
  BY <1>2 DEF Drop, Index
<1> QED
  BY <1>3 DEF base

LEMMA ExitsType ==
    ASSUME TypeOK, NEW p \in Pushers, Exits(p)
    PROVE  /\ pc' \in [Pushers -> PushSteps]
           /\ cid' \in [Pushers -> Cids \cup {None}]
           /\ rlatest' \in [Pushers -> Cids \cup {None}]
           /\ walk' \in [Pushers -> Cids \cup {None}]
           /\ items' \in [Pushers -> Batches]
<1>1. NoBatch \in Batches
  BY DEF NoBatch, Batches
<1> QED
  BY <1>1 DEF TypeOK, Exits, PushSteps

LEMMA FaultType == TypeOK /\ Fault => faults' \in 0..MaxFaults
BY MaxFaultsAssumption DEF TypeOK, Fault, MaxFaultsAssumption

(* What the types of an index and of told depend on.                       *)
PushHasId == \A p \in Pushers : pc[p] \notin {"idle", "read"} => cid[p] \in Cids

TypeInv == TypeOK /\ tip \in Made \cup {None} /\ PushHasId

LEMMA WalkType ==
    ASSUME TypeOK, NEW p \in Pushers, Walk(p)
    PROVE  TypeOK'
<1>1. walk[p] \in Cids
  BY DEF TypeOK, Walk, RangeDone
<1>2. [dirs |-> {walk[p]}, copies |-> Owned(walk[p])] \in Batches
  BY <1>1 DEF Owned, Batches
<1>3. items' \in [Pushers -> Batches]
  BY <1>2, JoinType DEF TypeOK, Walk
<1>4. walk' \in [Pushers -> Cids \cup {None}]
  BY <1>1 DEF TypeOK, Walk
<1> QED
  BY <1>3, <1>4 DEF TypeOK, Walk, local, remote, history

LEMMA NextType ==
    ASSUME TypeInv, [Next]_vars
    PROVE  TypeInv'
<1> USE DEF TypeInv, PushHasId, local, remote, memory, history
<1>1. CASE \E c \in Cids, staged, removed \in SUBSET (Files \ ColonFiles) :
               Commit(c, staged, removed)
  <2> PICK c \in Cids, staged, removed \in SUBSET (Files \ ColonFiles) :
           Commit(c, staged, removed)
    BY <1>1
  <2> DEFINE new == Drop(Stamp(IF tip = None THEN EmptyIndex ELSE cindex[tip],
                               staged, c), removed)
  <2>1. new \in Index
    BY NewIndexType
  <2> HIDE DEF new
  <2>2. cindex' = [cindex EXCEPT ![c] = new]
    BY DEF Commit, new
  <2>3. /\ cindex' \in [Cids -> Index \cup {None}]
        /\ parent' \in [Cids -> Cids \cup {None}]
        /\ tip' \in Cids
        /\ last' \in Cids \cup {None}
        /\ follows' \in [Cids -> Cids \cup {None}]
    BY <2>1, <2>2 DEF Commit, TypeOK
  <2>4. new # None
    BY <2>1, NoneAssumption DEF NoneAssumption
  <2>5. tip' \in Made'
    BY <2>2, <2>3, <2>4 DEF Commit, Made, TypeOK
  <2>6. TypeOK'
    BY <2>3 DEF Commit, TypeOK
  <2>7. pc' = pc /\ cid' = cid
    BY DEF Commit
  <2> QED
    BY <2>5, <2>6, <2>7
<1>l. CASE LoseTip
  BY <1>l, FaultType DEF LoseTip, TypeOK, Made
<1>2. ASSUME NEW p \in Pushers, Query(p)
      PROVE  TypeInv'
  <2>1. /\ pc' \in [Pushers -> PushSteps]
        /\ rlatest' \in [Pushers -> Cids \cup {None}]
        /\ faults' \in 0..MaxFaults
    BY <1>2, FaultType DEF Query, Goes, TypeOK, PushSteps
  <2> QED
    BY <1>2, <2>1 DEF Query, Goes, TypeOK, Made
<1>3. ASSUME NEW p \in Pushers, ReadCurrent(p)
      PROVE  TypeInv'
  <2>1. CASE Exits(p) /\ told' = told \cup ({tip} \cap Cids) /\ UNCHANGED crossed
    BY <1>3, <2>1, ExitsType DEF ReadCurrent, Exits, TypeOK, Made
  <2>2. CASE /\ tip # None
             /\ Goes(p, "read", "walk")
             /\ cid' = [cid EXCEPT ![p] = tip]
             /\ walk' = [walk EXCEPT ![p] = tip]
             /\ crossed' = (crossed \/ \E q \in Pushers : cid[q] \notin {None, tip})
             /\ UNCHANGED <<rlatest, items, told>>
    <3>1. crossed' \in BOOLEAN
      BY <2>2, Zenon DEF TypeOK
    <3> QED
      BY <1>3, <2>2, <3>1 DEF ReadCurrent, Goes, TypeOK, PushSteps, Made
  <2> QED
    BY <1>3, <2>1, <2>2 DEF ReadCurrent
<1>4. ASSUME NEW p \in Pushers, Walk(p)
      PROVE  TypeInv'
  BY <1>4, WalkType DEF Walk, Made
<1>5. ASSUME NEW p \in Pushers, Tar(p)
      PROVE  TypeInv'
  BY <1>5 DEF Tar, Goes, TypeOK, PushSteps, Made
<1>6. ASSUME NEW p \in Pushers, Scp(p)
      PROVE  TypeInv'
  BY <1>6 DEF Scp, Goes, TypeOK, PushSteps, Made
<1>7. ASSUME NEW p \in Pushers, Unpack(p)
      PROVE  TypeInv'
  <2>1. far' \in Batches
    BY <1>7, JoinType DEF Unpack, TypeOK
  <2> QED
    BY <1>7, <2>1 DEF Unpack, Goes, TypeOK, PushSteps, Made
<1>8. ASSUME NEW p \in Pushers, UnpackFails(p)
      PROVE  TypeInv'
  <2>1. far' \in Batches /\ faults' \in 0..MaxFaults
    <3>1. CASE rpacket = None /\ UNCHANGED <<far, faults>>
      BY <3>1 DEF TypeOK
    <3>2. CASE /\ rpacket # None
               /\ Fault
               /\ \E d \in SUBSET rpacket.dirs, s \in SUBSET rpacket.copies :
                      far' = Join(far, [dirs |-> d, copies |-> s])
      <4> PICK d \in SUBSET rpacket.dirs, s \in SUBSET rpacket.copies :
               far' = Join(far, [dirs |-> d, copies |-> s])
        BY <3>2
      <4>1. [dirs |-> d, copies |-> s] \in Batches
        BY <3>2 DEF TypeOK, Batches
      <4> QED
        BY <3>2, <4>1, JoinType, FaultType DEF TypeOK
    <3> QED
      BY <1>8, <3>1, <3>2 DEF UnpackFails
  <2> QED
    BY <1>8, <2>1 DEF UnpackFails, Goes, TypeOK, PushSteps, Made
<1>9. ASSUME NEW p \in Pushers, Publish(p)
      PROVE  TypeInv'
  BY <1>9 DEF Publish, Goes, TypeOK, PushSteps, Made
<1>10. ASSUME NEW p \in Pushers, Report(p)
       PROVE  TypeInv'
  <2>1. told' \subseteq Cids
    BY <1>10 DEF Report, TypeOK
  <2> QED
    BY <1>10, <2>1, ExitsType DEF Report, Exits, TypeOK, Made
<1>11. ASSUME NEW p \in Pushers, Fails(p)
       PROVE  TypeInv'
  <2>1. CASE ScpFails(p)
    BY <2>1, ExitsType, FaultType DEF ScpFails, Exits, TypeOK, Made
  <2>2. CASE PublishFails(p)
    BY <2>2, FaultType DEF PublishFails, Goes, TypeOK, PushSteps, Made
  <2>3. CASE Stop(p)
    BY <2>3, ExitsType, FaultType DEF Stop, Exits, TypeOK, Made
  <2> QED
    BY <1>11, <2>1, <2>2, <2>3 DEF Fails
<1>12. CASE UNCHANGED vars
  BY <1>12 DEF vars, TypeOK, Made
<1> QED
  BY <1>1, <1>l, <1>2, <1>3, <1>4, <1>5, <1>6, <1>7, <1>8, <1>9, <1>10, <1>11,
     <1>12
  DEF Next, Step

(* The types hold of every value that a push computes.                     *)
THEOREM TypeCorrect == Spec => []TypeOK
<1>1. Init => TypeInv
  BY InitType DEF TypeInv, PushHasId, Init
<1>2. TypeInv /\ [Next]_vars => TypeInv'
  BY NextType
<1>3. TypeInv => TypeOK
  BY DEF TypeInv
<1> QED
  BY <1>1, <1>2, <1>3, PTL DEF Spec

-----------------------------------------------------------------------------
(* Commits and copies.                                                     *)

(* The union of complete sets of commits is complete.                      *)
LEMMA HasComplete ==
    ASSUME NEW b, NEW par, NEW ix
    PROVE  Complete(b, par, ix, Has(b, par, ix))
<1> DEFINE H == Has(b, par, ix)
<1>1. ASSUME NEW c \in H
      PROVE  /\ c \in b.dirs \cap MadeIn(ix)
             /\ par[c] \in H \cup {None}
             /\ OwnedIn(ix, c) \subseteq b.copies
  <2> PICK S \in SUBSET Cids : Complete(b, par, ix, S) /\ c \in S
    BY DEF Has
  <2>1. par[c] \in S \cup {None}
    BY DEF Complete, ClosedIn
  <2>2. S \subseteq H
    BY DEF Has
  <2> QED
    BY <2>1, <2>2 DEF Complete
<1>2. QED
  BY <1>1 DEF Complete, ClosedIn

LEMMA CompleteHas ==
    ASSUME NEW b, NEW par, NEW ix, NEW S, Complete(b, par, ix, S)
    PROVE  S \subseteq Has(b, par, ix)
<1>1. S \in SUBSET Cids
  BY DEF Complete, MadeIn
<1> QED
  BY <1>1 DEF Has

(* Nothing is taken away from a batch and no commit is changed.            *)
Extends(b1, par1, ix1, b2, par2, ix2) ==
    /\ b1.dirs \subseteq b2.dirs
    /\ b1.copies \subseteq b2.copies
    /\ \A c \in MadeIn(ix1) : ix2[c] = ix1[c] /\ par2[c] = par1[c]

LEMMA HasGrows ==
    ASSUME NEW b1, NEW par1, NEW ix1, NEW b2, NEW par2, NEW ix2,
           Extends(b1, par1, ix1, b2, par2, ix2)
    PROVE  Has(b1, par1, ix1) \subseteq Has(b2, par2, ix2)
<1> DEFINE H == Has(b1, par1, ix1)
<1>1. Complete(b1, par1, ix1, H)
  BY HasComplete
<1> HIDE DEF H
<1>2. ASSUME NEW c \in H
      PROVE  /\ c \in b2.dirs \cap MadeIn(ix2)
             /\ par2[c] \in H \cup {None}
             /\ OwnedIn(ix2, c) \subseteq b2.copies
  <2>1. c \in b1.dirs /\ c \in MadeIn(ix1)
    BY <1>1 DEF Complete
  <2>2. ix2[c] = ix1[c] /\ par2[c] = par1[c]
    BY <2>1 DEF Extends
  <2>3. OwnedIn(ix2, c) = OwnedIn(ix1, c)
    BY <2>2 DEF OwnedIn
  <2> QED
    BY <1>1, <2>1, <2>2, <2>3 DEF Complete, ClosedIn, MadeIn, Extends
<1>3. Complete(b2, par2, ix2, H)
  BY <1>2 DEF Complete, ClosedIn
<1> QED
  BY <1>3, CompleteHas DEF H

LEMMA BringsGrows ==
    ASSUME NEW b, NEW c, NEW f1, NEW par1, NEW ix1, NEW f2, NEW par2, NEW ix2,
           Extends(f1, par1, ix1, f2, par2, ix2), Brings(b, f1, par1, ix1, c)
    PROVE  Brings(b, f2, par2, ix2, c)
<1>1. PICK R \in SUBSET (b.dirs \cap MadeIn(ix1)) :
        /\ c \in R \cup Has(f1, par1, ix1)
        /\ \A d \in R : /\ OwnedIn(ix1, d) \subseteq b.copies
                        /\ par1[d] \in R \cup Has(f1, par1, ix1) \cup {None}
  BY DEF Brings
<1>2. Has(f1, par1, ix1) \subseteq Has(f2, par2, ix2)
  BY HasGrows
<1>3. \A d \in R : ix2[d] = ix1[d] /\ par2[d] = par1[d]
  BY DEF Extends
<1>4. R \in SUBSET (b.dirs \cap MadeIn(ix2))
  BY <1>3 DEF MadeIn
<1>5. \A d \in R : OwnedIn(ix2, d) = OwnedIn(ix1, d)
  BY <1>3 DEF OwnedIn
<1>6. \A d \in R : /\ OwnedIn(ix2, d) \subseteq b.copies
                  /\ par2[d] \in R \cup Has(f2, par2, ix2) \cup {None}
  BY <1>1, <1>2, <1>3, <1>5
<1> QED
  BY <1>1, <1>2, <1>4, <1>6 DEF Brings

(* Unpacking a batch that brings a commit completes it.                    *)
LEMMA UnpackCompletes ==
    ASSUME NEW b, NEW f, NEW par, NEW ix, NEW c, Brings(b, f, par, ix, c)
    PROVE  c \in Has(Join(f, b), par, ix)
<1>1. PICK R \in SUBSET (b.dirs \cap MadeIn(ix)) :
        /\ c \in R \cup Has(f, par, ix)
        /\ \A d \in R : /\ OwnedIn(ix, d) \subseteq b.copies
                        /\ par[d] \in R \cup Has(f, par, ix) \cup {None}
  BY DEF Brings
<1> DEFINE H == Has(f, par, ix)
<1>2. Complete(f, par, ix, H)
  BY HasComplete
<1> HIDE DEF H
<1>3. /\ Join(f, b).dirs = f.dirs \cup b.dirs
      /\ Join(f, b).copies = f.copies \cup b.copies
  BY DEF Join
<1>4. \A d \in R \cup H : /\ d \in Join(f, b).dirs \cap MadeIn(ix)
                        /\ par[d] \in (R \cup H) \cup {None}
                        /\ OwnedIn(ix, d) \subseteq Join(f, b).copies
  BY <1>1, <1>2, <1>3 DEF Complete, ClosedIn, H
<1>5. Complete(Join(f, b), par, ix, R \cup H)
  BY <1>4 DEF Complete, ClosedIn
<1> QED
  BY <1>1, <1>5, CompleteHas DEF H

(* Every copy that an index line of a commit names comes with the commit.  *)
LEMMA HeldWhole ==
    ASSUME TypeOK, LocalInv, NEW c \in Held
    PROVE  Whole(c)
<1>1. Complete(far, parent, cindex, Held)
  BY HasComplete DEF Held
<1>2. /\ Held \in SUBSET (far.dirs \cap Made)
      /\ Closed(Held)
      /\ ClosedIn(parent, Held)
      /\ Held \in SUBSET Cids
  BY <1>1 DEF Complete, MadeIn, Made, Closed, ClosedIn
<1>3. ASSUME NEW d \in Held, NEW f \in Entries(cindex[d])
      PROVE  <<cindex[d][f], f>> \in far.copies
  <2> DEFINE o == cindex[d][f]
  <2>1. d \in Made
    BY <1>2
  <2>2. o \in Held /\ cindex[o][f] = o
    BY <1>2, <2>1 DEF LocalInv
  <2>3. f \in Files
    BY DEF Entries
  <2>4. <<o, f>> \in OwnedIn(cindex, o)
    BY <2>2, <2>3 DEF OwnedIn
  <2> QED
    BY <1>1, <2>2, <2>4 DEF Complete
<1> QED
  BY <1>2, <1>3 DEF Whole


-----------------------------------------------------------------------------
(* The local history.                                                      *)

Push(p) == Query(p) \/ Step(p) \/ Fails(p)

LEMMA PushLeavesLocal ==
    ASSUME NEW p \in Pushers, Push(p)
    PROVE  UNCHANGED <<tip, parent, cindex, last, follows>>
BY DEF Push, Query, Step, ReadCurrent, Walk, Tar, Scp, Unpack, UnpackFails,
       Publish, Report, Fails, ScpFails, PublishFails, Stop, local

(* A commit changes nothing of the commits that are made.                  *)
LEMMA CommitKeeps ==
    ASSUME TypeOK, NEW c \in Cids, NEW staged, NEW removed,
           Commit(c, staged, removed)
    PROVE  /\ c \notin Made
           /\ \A d \in Made : cindex'[d] = cindex[d] /\ parent'[d] = parent[d]
           /\ Made \subseteq Made'
           /\ Made' \subseteq Made \cup {c}
           /\ tip' = c /\ parent'[c] = tip
           /\ cindex'[c] = Drop(Stamp(IF tip = None THEN EmptyIndex
                                      ELSE cindex[tip], staged, c), removed)
<1> DEFINE new == Drop(Stamp(IF tip = None THEN EmptyIndex ELSE cindex[tip],
                             staged, c), removed)
<1> HIDE DEF new
<1>1. /\ cindex[c] = None
      /\ cindex' = [cindex EXCEPT ![c] = new]
      /\ parent' = [parent EXCEPT ![c] = tip]
      /\ tip' = c
  BY DEF Commit, new
<1>2. c \notin Made
  BY <1>1 DEF Made
<1>3. \A d \in Made : cindex'[d] = cindex[d] /\ parent'[d] = parent[d]
  BY <1>1, <1>2 DEF TypeOK, Made
<1>4. Made \subseteq Made' /\ Made' \subseteq Made \cup {c}
  BY <1>1, <1>3 DEF TypeOK, Made
<1>5. cindex'[c] = new /\ parent'[c] = tip
  BY <1>1 DEF TypeOK
<1> QED
  BY <1>1, <1>2, <1>3, <1>4, <1>5 DEF new

LEMMA ClosedBefore ==
    ASSUME TypeOK, LocalInv, NEW c \in Cids, NEW staged, NEW removed,
           Commit(c, staged, removed), NEW S \in SUBSET Cids, ClosedIn(parent', S)
    PROVE  ClosedIn(parent, S \cap Made)
<1> SUFFICES ASSUME NEW d \in S \cap Made
             PROVE  parent[d] \in (S \cap Made) \cup {None}
  BY DEF ClosedIn
<1>1. parent'[d] \in S \cup {None} /\ parent'[d] = parent[d]
  BY CommitKeeps DEF ClosedIn
<1> QED
  BY <1>1 DEF LocalInv

LEMMA CommitLocal ==
    ASSUME TypeInv, LocalInv, NEW c \in Cids, NEW staged, NEW removed,
           Commit(c, staged, removed), c \in Made'
    PROVE  LocalInv'
<1> USE DEF TypeInv
<1>1. /\ c \notin Made
      /\ \A d \in Made : cindex'[d] = cindex[d] /\ parent'[d] = parent[d]
      /\ Made' = Made \cup {c}
      /\ tip' = c /\ parent'[c] = tip
  BY CommitKeeps
<1>2. \A d \in Made' : parent'[d] \in Made' \cup {None}
  BY <1>1 DEF LocalInv
<1>3. \A S \in SUBSET Cids :
          ClosedIn(parent', S) => ClosedIn(parent, S \cap Made)
  BY ClosedBefore
(* The lines of a commit that was made before.                             *)
<1>4. ASSUME NEW d \in Made, NEW f \in Entries(cindex[d])
      PROVE  /\ cindex[d][f] \in Made'
             /\ cindex'[cindex[d][f]][f] = cindex[d][f]
             /\ \A S \in SUBSET Cids :
                    ClosedIn(parent', S) /\ d \in S => cindex[d][f] \in S
  <2> DEFINE o == cindex[d][f]
  <2>1. o \in Made /\ cindex[o][f] = o
    BY DEF LocalInv
  <2>2. cindex'[o] = cindex[o]
    BY <1>1, <2>1
  <2>3. ASSUME NEW S \in SUBSET Cids, ClosedIn(parent', S), d \in S
        PROVE  o \in S
    <3>1. ClosedIn(parent, S \cap Made) /\ d \in S \cap Made
      BY <1>3, <2>3
    <3>2. S \cap Made \in SUBSET Cids
      OBVIOUS
    <3> QED
      BY <3>1, <3>2 DEF LocalInv
  <2> QED
    BY <1>1, <2>1, <2>2, <2>3
(* The lines of the new commit.                                            *)
<1>5. ASSUME NEW f \in Entries(cindex'[c])
      PROVE  /\ cindex'[c][f] \in Made'
             /\ cindex'[cindex'[c][f]][f] = cindex'[c][f]
             /\ \A S \in SUBSET Cids :
                    ClosedIn(parent', S) /\ c \in S => cindex'[c][f] \in S
  <2>1. f \in Files /\ cindex'[c][f] # None
    BY DEF Entries
  <2>2. cindex'[c] = Drop(Stamp(IF tip = None THEN EmptyIndex
                                ELSE cindex[tip], staged, c), removed)
    BY CommitKeeps
  <2>3. CASE cindex'[c][f] = c
    BY <1>1, <2>3
  <2>4. CASE cindex'[c][f] # c
    <3>1. /\ tip # None
          /\ cindex'[c][f] = cindex[tip][f]
      BY <2>1, <2>2, <2>4 DEF Drop, Stamp, EmptyIndex
    <3>2. tip \in Made /\ f \in Entries(cindex[tip])
      BY <2>1, <3>1 DEF Entries
    <3>3. \A S \in SUBSET Cids : ClosedIn(parent', S) /\ c \in S => tip \in S
      BY <1>1, <3>1 DEF ClosedIn
    <3> QED
      BY <1>4, <3>1, <3>2, <3>3
  <2> QED
    BY <2>3, <2>4
<1>6. \A d \in Made' : \A f \in Entries(cindex'[d]) :
           /\ cindex'[d][f] \in Made'
           /\ cindex'[cindex'[d][f]][f] = cindex'[d][f]
           /\ \A S \in SUBSET Cids :
                  ClosedIn(parent', S) /\ d \in S => cindex'[d][f] \in S
  BY <1>1, <1>4, <1>5
<1> QED
  BY <1>1, <1>2, <1>6 DEF LocalInv

LEMMA LocalKept ==
    ASSUME LocalInv, UNCHANGED <<parent, cindex>>, tip' \in {tip, None}
    PROVE  LocalInv'
BY DEF LocalInv, Made

(* A commit that loses current leaves everything else as it is.            *)
LEMMA LoseTipKeeps ==
    ASSUME LoseTip
    PROVE  /\ tip' = None
           /\ UNCHANGED <<parent, cindex, last, follows, packet, rpacket, far,
                          rcurrent, pc, cid, rlatest, walk, items, torn, crossed>>
           /\ Made' = Made
BY DEF LoseTip, remote, memory, history, Made

-----------------------------------------------------------------------------
(* The remote.                                                             *)

(* A push that does not move keeps what it has brought its commit to, when *)
(* nothing is taken from the remote and its packets still bring the commit.*)
LEMMA OthersKeep ==
    ASSUME NEW q \in Pushers, PushInv(q),
           /\ pc'[q] = pc[q] /\ cid'[q] = cid[q] /\ rlatest'[q] = rlatest[q]
           /\ walk'[q] = walk[q] /\ items'[q] = items[q],
           Extends(far, parent, cindex, far', parent', cindex'),
           pc[q] = "scp" => \/ packet' = packet
                            \/ Brings(packet', far', parent', cindex', cid[q]),
           pc[q] = "unpack" => \/ rpacket' \in {rpacket, None}
                               \/ Brings(rpacket', far', parent', cindex', cid[q])
    PROVE  PushInv(q)'
<1>1. Held \subseteq Held'
  BY HasGrows DEF Held
<1>2. Made \subseteq Made'
  BY DEF Extends, Made, MadeIn
<1>3. pc[q] = "walk" => Gathers(q)'
  <2> HAVE pc[q] = "walk"
  <2>1. Gathers(q)
    BY DEF PushInv
  <2>2. \A d \in items[q].dirs : cindex'[d] = cindex[d] /\ parent'[d] = parent[d]
    BY <2>1 DEF Gathers, Extends, Made, MadeIn
  <2>3. \A d \in items[q].dirs : OwnedIn(cindex', d) = OwnedIn(cindex, d)
    BY <2>2 DEF OwnedIn
  <2> QED
    BY <1>2, <2>1, <2>2, <2>3 DEF Gathers
<1>4. pc[q] = "scp" => Brings(packet', far', parent', cindex', cid[q])
  BY BringsGrows DEF PushInv
<1>5. pc[q] = "unpack" /\ rpacket' # None =>
          Brings(rpacket', far', parent', cindex', cid[q])
  BY BringsGrows DEF PushInv
<1> QED
  BY <1>1, <1>2, <1>3, <1>4, <1>5 DEF PushInv


LEMMA ExtendsSame ==
    ASSUME UNCHANGED <<far, parent, cindex>>
    PROVE  /\ Extends(far, parent, cindex, far', parent', cindex')
           /\ Held' = Held
           /\ Made' = Made
BY DEF Extends, Held, Made

(* A push that ends has nothing more to bring.                             *)
LEMMA EndedPush ==
    ASSUME TypeOK, NEW p \in Pushers, Exits(p)
    PROVE  PushInv(p)'
<1>1. /\ pc'[p] = "idle" /\ rlatest'[p] = None /\ items'[p] = NoBatch
  BY DEF Exits, TypeOK
<1> QED
  BY <1>1 DEF PushInv

LEMMA EndedSame ==
    ASSUME TypeOK, SameCommit, NEW p \in Pushers, Exits(p)
    PROVE  SameCommit'
BY DEF SameCommit, Exits, TypeOK

(* A push that has a commit sends the same one as any other.               *)
LEMMA OneCommit ==
    ASSUME SameCommit, NEW p \in Pushers, NEW q \in Pushers,
           PushInv(p), PushInv(q),
           pc[p] \notin {"idle", "read"}, pc[q] \notin {"idle", "read"}
    PROVE  cid[p] = cid[q]
<1>1. cid[p] \in Cids /\ cid[q] \in Cids
  BY DEF PushInv, Made
<1> QED
  BY <1>1, NoneAssumption DEF SameCommit, NoneAssumption

(* What the walk has gathered when it is done brings the commit.           *)
LEMMA PackedBrings ==
    ASSUME TypeOK, NEW p \in Pushers, PushInv(p), pc[p] = "walk", RangeDone(p)
    PROVE  Brings(items[p], far, parent, cindex, cid[p])
<1> DEFINE R == items[p].dirs
<1>1. /\ Gathers(p)
      /\ cid[p] \in Made
      /\ rlatest[p] \in Held \cup {None}
  BY DEF PushInv
<1>2. walk[p] \in Held \cup {None}
  BY <1>1 DEF RangeDone
<1>3. cid[p] # None
  BY <1>1, NoneAssumption DEF Made, NoneAssumption
<1>4. /\ R \in SUBSET (items[p].dirs \cap MadeIn(cindex))
      /\ cid[p] \in R \cup Held
      /\ \A d \in R : /\ OwnedIn(cindex, d) \subseteq items[p].copies
                      /\ parent[d] \in R \cup Held \cup {None}
  BY <1>1, <1>2, <1>3 DEF Gathers, Made, MadeIn
<1> QED
  BY <1>4 DEF Brings, Held

LEMMA WalkGathers ==
    ASSUME TypeOK, LocalInv, NEW p \in Pushers, PushInv(p), Walk(p)
    PROVE  PushInv(p)'
<1>1. /\ Gathers(p)
      /\ cid[p] \in Made
      /\ walk[p] \in Made
  BY DEF PushInv, Walk, RangeDone, Gathers
<1>2. /\ items'[p] = Join(items[p], [dirs |-> {walk[p]}, copies |-> Owned(walk[p])])
      /\ walk'[p] = parent[walk[p]]
      /\ cid' = cid /\ pc' = pc /\ rlatest' = rlatest
  BY DEF Walk, TypeOK
<1>3. UNCHANGED <<far, parent, cindex, packet, rpacket>>
  BY DEF Walk, local, remote
<1>4. /\ items'[p].dirs = items[p].dirs \cup {walk[p]}
      /\ items'[p].copies = items[p].copies \cup OwnedIn(cindex, walk[p])
  BY <1>2 DEF Join, Owned, OwnedIn
<1>5. Gathers(p)'
  BY <1>1, <1>2, <1>3, <1>4, ZenonT(30) DEF Gathers, LocalInv, Made
<1> QED
  BY <1>2, <1>3, <1>5, ExtendsSame DEF PushInv, Walk


(* The variables of the other pushes.                                      *)
LEMMA OthersStay ==
    ASSUME TypeOK, NEW p \in Pushers, Push(p), NEW q \in Pushers, q # p
    PROVE  /\ pc'[q] = pc[q] /\ cid'[q] = cid[q] /\ rlatest'[q] = rlatest[q]
           /\ walk'[q] = walk[q] /\ items'[q] = items[q]
<1> USE DEF TypeOK, Goes, Exits, memory
<1>1. CASE Query(p)
  BY <1>1 DEF Query
<1>2. CASE ReadCurrent(p)
  BY <1>2 DEF ReadCurrent
<1>3. CASE Walk(p)
  BY <1>3 DEF Walk
<1>4. CASE Tar(p) \/ Scp(p) \/ Unpack(p) \/ UnpackFails(p) \/ Publish(p)
  BY <1>4 DEF Tar, Scp, Unpack, UnpackFails, Publish
<1>5. CASE Report(p)
  BY <1>5 DEF Report
<1>6. CASE Fails(p)
  BY <1>6 DEF Fails, ScpFails, PublishFails, Stop
<1> QED
  BY <1>1, <1>2, <1>3, <1>4, <1>5, <1>6 DEF Push, Step

(* A step of a push that leaves the remote files and the packets alone.    *)
LEMMA QuietStep ==
    ASSUME TypeOK, RemoteInv, NEW p \in Pushers, Push(p),
           UNCHANGED <<far, packet, rpacket>>,
           PushInv(p)', SameCommit', rcurrent' \in Held \cup {Blank, None}
    PROVE  RemoteInv'
<1>1. UNCHANGED <<far, parent, cindex>>
  BY PushLeavesLocal
<1>2. ASSUME NEW q \in Pushers PROVE PushInv(q)'
  <2>1. CASE q = p
    BY <2>1
  <2>2. CASE q # p
    BY <1>1, <2>2, ExtendsSame, OthersKeep, OthersStay DEF RemoteInv
  <2> QED
    BY <2>1, <2>2
<1> QED
  BY <1>1, <1>2, ExtendsSame DEF RemoteInv

LEMMA PushKeeps ==
    ASSUME TypeOK, LocalInv, RemoteInv, NEW p \in Pushers, Push(p),
           ~ torn', ~ crossed'
    PROVE  RemoteInv'
<1>1. UNCHANGED <<tip, parent, cindex>>
  BY PushLeavesLocal
<1>2. PushInv(p) /\ SameCommit /\ rcurrent \in Held \cup {Blank, None}
  BY DEF RemoteInv
<1>3. CASE Query(p)
  <2>1. /\ pc'[p] = "read"
        /\ rlatest'[p] \in Held \cup {None}
        /\ UNCHANGED <<far, packet, rpacket, rcurrent, cid, items>>
    BY <1>2, <1>3, BlankAssumption, NoneAssumption
    DEF Query, Goes, TypeOK, PushInv, remote, BlankAssumption, NoneAssumption
  <2>2. items[p] = NoBatch
    BY <1>2, <1>3 DEF PushInv, Query, Goes
  <2>3. PushInv(p)'
    BY <1>1, <2>1, <2>2, ExtendsSame DEF PushInv
  <2>4. SameCommit'
    BY <1>2, <2>1 DEF SameCommit
  <2> QED
    BY <1>2, <2>1, <2>3, <2>4, QuietStep
<1>4. CASE ReadCurrent(p)
  <2>1. UNCHANGED <<far, packet, rpacket, rcurrent>>
    BY <1>4 DEF ReadCurrent, remote
  <2>2. CASE Exits(p)
    BY <1>2, <2>1, <2>2, EndedPush, EndedSame, QuietStep
  <2>3. CASE /\ tip \notin {None, rlatest[p]}
             /\ Goes(p, "read", "walk")
             /\ cid' = [cid EXCEPT ![p] = tip]
             /\ walk' = [walk EXCEPT ![p] = tip]
             /\ crossed' = (crossed \/ \E q \in Pushers : cid[q] \notin {None, tip})
             /\ UNCHANGED <<rlatest, items, told>>
    <3>1. /\ pc'[p] = "walk" /\ cid'[p] = tip /\ walk'[p] = tip
          /\ items'[p] = NoBatch /\ rlatest'[p] = rlatest[p]
          /\ tip \in Made
      BY <1>2, <2>3 DEF TypeOK, Goes, PushInv, LocalInv
    <3>2. Gathers(p)'
      BY <1>1, <3>1 DEF Gathers, NoBatch, Made
    <3>3. PushInv(p)'
      BY <1>1, <1>2, <2>1, <3>1, <3>2, ExtendsSame DEF PushInv
    <3>4. \A q \in Pushers : cid[q] \in {None, tip}
      BY <2>3
    <3>5. SameCommit'
      BY <2>3, <3>4 DEF SameCommit, TypeOK
    <3> QED
      BY <1>2, <2>1, <3>3, <3>5, QuietStep
  <2> QED
    BY <1>4, <2>2, <2>3 DEF ReadCurrent
<1>5. CASE Walk(p)
  <2>1. UNCHANGED <<far, packet, rpacket, rcurrent, cid>>
    BY <1>5 DEF Walk, remote
  <2>2. SameCommit'
    BY <1>2, <2>1 DEF SameCommit
  <2> QED
    BY <1>2, <1>5, <2>1, <2>2, WalkGathers, QuietStep
<1>6. CASE Tar(p)
  <2>1. /\ pc[p] = "walk" /\ RangeDone(p) /\ pc'[p] = "scp"
        /\ packet' = items[p]
        /\ UNCHANGED <<far, rpacket, rcurrent, cid, rlatest>>
    BY <1>6 DEF Tar, Goes, TypeOK, remote, memory
  <2>2. Brings(packet', far', parent', cindex', cid[p])
    BY <1>1, <1>2, <2>1, PackedBrings
  <2>3. PushInv(p)'
    BY <1>1, <1>2, <2>1, <2>2, ExtendsSame DEF PushInv
  <2>4. ASSUME NEW q \in Pushers, q # p PROVE PushInv(q)'
    <3>1. pc[q] = "scp" => cid[q] = cid[p]
      BY <1>2, <2>1, OneCommit DEF RemoteInv
    <3> QED
      BY <1>1, <2>1, <2>2, <2>4, <3>1, ExtendsSame, OthersStay, OthersKeep
      DEF RemoteInv
  <2>5. SameCommit'
    BY <1>2, <2>1 DEF SameCommit
  <2> QED
    BY <1>1, <1>2, <2>1, <2>3, <2>4, <2>5, ExtendsSame DEF RemoteInv
<1>7. CASE Scp(p)
  <2>1. /\ pc[p] = "scp" /\ pc'[p] = "unpack"
        /\ rpacket' = packet
        /\ UNCHANGED <<far, packet, rcurrent, cid, rlatest>>
    BY <1>7 DEF Scp, Goes, TypeOK, memory
  <2>2. Brings(rpacket', far', parent', cindex', cid[p])
    BY <1>1, <1>2, <2>1 DEF PushInv
  <2>3. PushInv(p)'
    BY <1>1, <1>2, <2>1, <2>2, ExtendsSame DEF PushInv
  <2>4. ASSUME NEW q \in Pushers, q # p PROVE PushInv(q)'
    <3>1. pc[q] = "unpack" => cid[q] = cid[p]
      BY <1>2, <2>1, OneCommit DEF RemoteInv
    <3> QED
      BY <1>1, <2>1, <2>2, <2>4, <3>1, ExtendsSame, OthersStay, OthersKeep
      DEF RemoteInv
  <2>5. SameCommit'
    BY <1>2, <2>1 DEF SameCommit
  <2> QED
    BY <1>1, <1>2, <2>1, <2>3, <2>4, <2>5, ExtendsSame DEF RemoteInv
<1>8. CASE Unpack(p)
  <2>1. /\ pc[p] = "unpack" /\ pc'[p] = "publish" /\ rpacket # None
        /\ far' = Join(far, rpacket) /\ rpacket' = None
        /\ UNCHANGED <<packet, rcurrent, cid, rlatest>>
    BY <1>8 DEF Unpack, Goes, TypeOK, memory
  <2>2. Extends(far, parent, cindex, far', parent', cindex')
    BY <1>1, <2>1 DEF Extends, Join
  <2>3. Held \subseteq Held' /\ Made' = Made
    BY <1>1, <2>2, HasGrows DEF Held, Made
  <2>4. cid[p] \in Held'
    BY <1>1, <1>2, <2>1, UnpackCompletes DEF PushInv, Held
  <2>5. PushInv(p)'
    BY <1>2, <2>1, <2>3, <2>4 DEF PushInv
  <2>6. ASSUME NEW q \in Pushers, q # p PROVE PushInv(q)'
    BY <2>1, <2>2, <2>6, OthersStay, OthersKeep DEF RemoteInv
  <2>7. SameCommit'
    BY <1>2, <2>1 DEF SameCommit
  <2> QED
    BY <1>2, <2>1, <2>3, <2>5, <2>6, <2>7 DEF RemoteInv
<1>9. CASE UnpackFails(p)
  BY <1>9 DEF UnpackFails
<1>10. CASE Publish(p) \/ PublishFails(p)
  <2>1. /\ pc[p] = "publish" /\ pc'[p] = "report"
        /\ rcurrent' \in {rcurrent, cid[p], Blank}
        /\ UNCHANGED <<far, packet, rpacket, cid, rlatest>>
    BY <1>10 DEF Publish, PublishFails, Goes, TypeOK, memory
  <2>2. cid[p] \in Held
    BY <1>2, <2>1 DEF PushInv
  <2>3. PushInv(p)'
    BY <1>1, <1>2, <2>1, <2>2, ExtendsSame DEF PushInv
  <2>4. SameCommit'
    BY <1>2, <2>1 DEF SameCommit
  <2> QED
    BY <1>2, <2>1, <2>2, <2>3, <2>4, QuietStep
<1>11. CASE Report(p) \/ Stop(p)
  <2>1. Exits(p) /\ UNCHANGED <<far, packet, rpacket, rcurrent>>
    BY <1>11 DEF Report, Stop, remote
  <2> QED
    BY <1>2, <2>1, EndedPush, EndedSame, QuietStep
<1>12. CASE ScpFails(p)
  <2>1. /\ Exits(p) /\ rpacket' = None
        /\ UNCHANGED <<far, packet, rcurrent>>
    BY <1>12 DEF ScpFails
  <2>2. ASSUME NEW q \in Pushers, q # p PROVE PushInv(q)'
    BY <1>1, <2>1, <2>2, ExtendsSame, OthersStay, OthersKeep DEF RemoteInv
  <2> QED
    BY <1>1, <1>2, <2>1, <2>2, EndedPush, EndedSame, ExtendsSame DEF RemoteInv
<1> QED
  BY <1>3, <1>4, <1>5, <1>6, <1>7, <1>8, <1>9, <1>10, <1>11, <1>12
  DEF Push, Step, Fails

LEMMA CommitKeepsRemote ==
    ASSUME TypeInv, LocalInv, RemoteInv, NEW c \in Cids, NEW staged, NEW removed,
           Commit(c, staged, removed)
    PROVE  RemoteInv'
<1>1. UNCHANGED <<packet, rpacket, far, rcurrent, pc, cid, rlatest, walk, items>>
  BY DEF Commit, remote, memory
<1>2. Extends(far, parent, cindex, far', parent', cindex')
  BY <1>1, CommitKeeps DEF TypeInv, Extends, Made, MadeIn
<1>3. Held \subseteq Held'
  BY <1>2, HasGrows DEF Held
<1>4. \A q \in Pushers : PushInv(q)'
  BY <1>1, <1>2, OthersKeep DEF RemoteInv
<1>5. SameCommit'
  BY <1>1 DEF RemoteInv, SameCommit
<1> QED
  BY <1>1, <1>3, <1>4, <1>5 DEF RemoteInv

-----------------------------------------------------------------------------
(* The theorem.                                                            *)

(* Once pushes have crossed or one was torn they stay so.                  *)
LEMMA HistoryStays ==
    ASSUME [Next]_vars
    PROVE  /\ torn => torn'
           /\ crossed => crossed'
<1>1. ASSUME NEW c \in Cids, NEW staged, NEW removed, Commit(c, staged, removed)
      PROVE  UNCHANGED <<torn, crossed>>
  BY <1>1 DEF Commit, history
<1>2. ASSUME NEW p \in Pushers, Push(p)
      PROVE  /\ torn => torn'
             /\ crossed => crossed'
  <2>1. CASE ReadCurrent(p)
    <3>1. /\ torn' = torn
          /\ \/ crossed' = crossed
             \/ crossed' = (crossed \/ \E q \in Pushers : cid[q] \notin {None, tip})
      BY <2>1, Zenon DEF ReadCurrent
    <3>2. torn => torn'
      BY <3>1
    <3>3. CASE crossed' = crossed
      BY <3>2, <3>3
    <3>4. CASE crossed' = (crossed \/ \E q \in Pushers : cid[q] \notin {None, tip})
      BY <3>2, <3>4
    <3> QED
      BY <3>1, <3>3, <3>4
  <2>2. CASE UnpackFails(p)
    BY <2>2 DEF UnpackFails
  <2>3. CASE ~ ReadCurrent(p) /\ ~ UnpackFails(p)
    <3>1. UNCHANGED <<torn, crossed>>
      BY <1>2, <2>3 DEF Push, Query, Step, Walk, Tar, Scp, Unpack, Publish, Report,
           Fails, ScpFails, PublishFails, Stop, history
    <3> QED
      BY <3>1
  <2> QED
    BY <2>1, <2>2, <2>3
<1> QED
  BY <1>1, <1>2, LoseTipKeeps DEF Next, Push, vars, history

LEMMA NextInvariant ==
    ASSUME TypeInv, TypeInv', PushInvariant, [Next]_vars
    PROVE  PushInvariant'
<1>1. ASSUME NEW c \in Cids, NEW staged, NEW removed, Commit(c, staged, removed)
      PROVE  PushInvariant'
  <2>1. c \in Made'
    BY <1>1, NoneAssumption DEF TypeInv, Commit, NoneAssumption
  <2>2. LocalInv'
    BY <1>1, <2>1, CommitLocal DEF PushInvariant
  <2>3. UNCHANGED <<torn, crossed>>
    BY <1>1 DEF Commit, history
  <2> QED
    BY <1>1, <2>2, <2>3, CommitKeepsRemote DEF PushInvariant
<1>2. ASSUME NEW p \in Pushers, Push(p)
      PROVE  PushInvariant'
  <2>1. LocalInv'
    BY <1>2, PushLeavesLocal, LocalKept DEF PushInvariant
  <2>2. torn' \/ crossed' \/ RemoteInv'
    BY <1>2, HistoryStays, PushKeeps DEF PushInvariant, TypeInv
  <2> QED
    BY <2>1, <2>2 DEF PushInvariant
<1>3. CASE UNCHANGED vars \/ LoseTip
  <2>1. /\ UNCHANGED <<parent, cindex, packet, rpacket, far, rcurrent, pc, cid,
                       rlatest, walk, items, torn, crossed>>
        /\ tip' \in {tip, None}
    BY <1>3, LoseTipKeeps DEF vars, local, remote, memory, history
  <2>2. LocalInv'
    BY <2>1, LocalKept DEF PushInvariant
  <2>3. RemoteInv => RemoteInv'
    <3> HAVE RemoteInv
    <3>1. \A q \in Pushers : PushInv(q)'
      BY <2>1, ExtendsSame, OthersKeep DEF RemoteInv
    <3> QED
      BY <2>1, <3>1, ExtendsSame DEF RemoteInv, SameCommit
  <2> QED
    BY <2>1, <2>2, <2>3 DEF PushInvariant
<1> QED
  BY <1>1, <1>2, <1>3 DEF Next, Push

LEMMA NextLocal ==
    ASSUME TypeInv, TypeInv', LocalInv, [Next]_vars
    PROVE  LocalInv'
<1>1. ASSUME NEW c \in Cids, NEW staged, NEW removed, Commit(c, staged, removed)
      PROVE  LocalInv'
  <2>1. c \in Made'
    BY <1>1, NoneAssumption DEF TypeInv, Commit, NoneAssumption
  <2> QED
    BY <1>1, <2>1, CommitLocal
<1>2. ASSUME NEW p \in Pushers, Push(p)
      PROVE  LocalInv'
  BY <1>2, PushLeavesLocal, LocalKept
<1>3. CASE UNCHANGED vars \/ LoseTip
  BY <1>3, LoseTipKeeps, LocalKept DEF vars, local
<1> QED
  BY <1>1, <1>2, <1>3 DEF Next, Push

(* What the remote's current names has arrived whole, whatever fails and   *)
(* however many pushes overlap, as long as no push went on after a failed  *)
(* unpack and the pushes that overlapped sent the same commit.             *)
THEOREM RemoteStaysWhole == Spec => []RemoteWhole
<1>1. Init => TypeInv /\ PushInvariant
  <2> SUFFICES ASSUME Init PROVE TypeInv /\ PushInvariant
    OBVIOUS
  <2>1. TypeInv
    BY InitType DEF TypeInv, PushHasId, Init
  <2>2. Made = {}
    BY DEF Init, Made
  <2>3. LocalInv
    BY <2>2 DEF Init, LocalInv
  <2>4. RemoteInv
    BY DEF Init, RemoteInv, SameCommit, PushInv
  <2> QED
    BY <2>1, <2>3, <2>4 DEF PushInvariant
<1>2. TypeInv /\ PushInvariant /\ [Next]_vars => (TypeInv /\ PushInvariant)'
  BY NextType, NextInvariant
<1>3. TypeInv /\ PushInvariant => RemoteWhole
  <2> SUFFICES ASSUME TypeInv, PushInvariant, RemoteInv, rcurrent \in Cids
               PROVE  Whole(rcurrent)
    BY DEF RemoteWhole, PushInvariant
  <2>1. rcurrent \in Held
    BY BlankAssumption, NoneAssumption
    DEF RemoteInv, BlankAssumption, NoneAssumption
  <2> QED
    BY <2>1, HeldWhole DEF TypeInv, PushInvariant
<1> QED
  BY <1>1, <1>2, <1>3, PTL DEF Spec


-----------------------------------------------------------------------------
(* The remote does not go back.                                            *)

(* b is a, or came after it.                                               *)
Before(a, b) == \A S \in SUBSET Cids : ClosedIn(follows, S) /\ b \in S => a \in S

(* A commit is made on the one it follows, unless current was lost.        *)
OrderInv ==
    /\ last \in Made \cup {None}
    /\ tip \in {last, None}
    /\ \A c \in Made : /\ follows[c] \in Made \cup {None}
                       /\ parent[c] \in {follows[c], None}

(* The remote's current is not ahead of what any push sends, and that not  *)
(* of the last commit.                                                     *)
Behind ==
    /\ rcurrent \in Cids => last \in Made /\ rcurrent \in Made /\ Before(rcurrent, last)
    /\ \A p \in Pushers : pc[p] \notin {"idle", "read"} =>
           /\ last \in Made /\ cid[p] \in Made
           /\ Before(cid[p], last)
           /\ rcurrent \in Cids => Before(rcurrent, cid[p])

AdvanceInv == LocalInv /\ OrderInv /\ (crossed \/ (SameCommit /\ Behind))

LEMMA CommitFollows ==
    ASSUME TypeInv, NEW c \in Cids, NEW staged, NEW removed,
           Commit(c, staged, removed)
    PROVE  /\ \A d \in Made : follows'[d] = follows[d]
           /\ follows'[c] = last /\ last' = c
<1>1. /\ cindex[c] = None /\ last' = c
      /\ follows' = [follows EXCEPT ![c] = last]
  BY DEF Commit
<1> QED
  BY <1>1 DEF TypeInv, TypeOK, Made

LEMMA CommitOrder ==
    ASSUME TypeInv, OrderInv, NEW c \in Cids, NEW staged, NEW removed,
           Commit(c, staged, removed), c \in Made'
    PROVE  OrderInv'
<1>1. /\ \A d \in Made : parent'[d] = parent[d] /\ follows'[d] = follows[d]
      /\ Made \subseteq Made' /\ Made' \subseteq Made \cup {c}
      /\ tip' = c /\ last' = c /\ parent'[c] = tip /\ follows'[c] = last
  BY CommitKeeps, CommitFollows DEF TypeInv
<1> QED
  BY <1>1 DEF OrderInv

LEMMA OrderKept ==
    ASSUME OrderInv, UNCHANGED <<parent, cindex, last, follows>>, tip' \in {tip, None}
    PROVE  OrderInv'
BY DEF OrderInv, Made

(* What is closed under what commits were made on is closed under what     *)
(* they came after, as long as current was never lost.                     *)
LEMMA NeverLost ==
    ASSUME OrderInv, LostAt = {}, NEW S \in SUBSET Cids, ClosedIn(parent, S)
    PROVE  ClosedIn(follows, S \cap Made)
<1> SUFFICES ASSUME NEW d \in S \cap Made
             PROVE  follows[d] \in (S \cap Made) \cup {None}
  BY DEF ClosedIn
<1>1. /\ follows[d] \in Made \cup {None}
      /\ parent[d] \in {follows[d], None}
      /\ parent[d] \in S \cup {None}
  BY DEF OrderInv, ClosedIn
<1>2. parent[d] = None /\ follows[d] # None => follows[d] \in LostAt
  BY <1>1 DEF LostAt
<1> QED
  BY <1>1, <1>2

LEMMA FollowsBefore ==
    ASSUME TypeInv, OrderInv, NEW c \in Cids, NEW staged, NEW removed,
           Commit(c, staged, removed), NEW S \in SUBSET Cids, ClosedIn(follows', S)
    PROVE  ClosedIn(follows, S \cap Made)
<1> SUFFICES ASSUME NEW d \in S \cap Made
             PROVE  follows[d] \in (S \cap Made) \cup {None}
  BY DEF ClosedIn
<1>1. follows'[d] \in S \cup {None} /\ follows'[d] = follows[d]
  BY CommitFollows DEF ClosedIn
<1> QED
  BY <1>1 DEF OrderInv

LEMMA CommitStaysBehind ==
    ASSUME TypeInv, OrderInv, Behind, NEW c \in Cids, NEW staged, NEW removed,
           Commit(c, staged, removed), c \in Made'
    PROVE  Behind'
<1>1. UNCHANGED <<rcurrent, pc, cid>>
  BY DEF Commit, remote, memory
<1>2. /\ Made \subseteq Made'
      /\ last' = c /\ follows'[c] = last
  BY CommitKeeps, CommitFollows DEF TypeInv
<1>3. ASSUME NEW a \in Made, NEW b \in Made, Before(a, b)
      PROVE  Before(a, b)'
  <2> SUFFICES ASSUME NEW S \in SUBSET Cids, ClosedIn(follows', S), b \in S
               PROVE  a \in S
    BY DEF Before
  <2>1. S \cap Made \in SUBSET Cids /\ ClosedIn(follows, S \cap Made)
    BY FollowsBefore
  <2> QED
    BY <1>3, <2>1 DEF Before
<1>4. ASSUME NEW a \in Made, last \in Made, Before(a, last)
      PROVE  Before(a, last)'
  <2> SUFFICES ASSUME NEW S \in SUBSET Cids, ClosedIn(follows', S), c \in S
               PROVE  a \in S
    BY <1>2 DEF Before
  <2>1. last # None
    BY <1>4, NoneAssumption DEF Made, NoneAssumption
  <2>2. last \in S
    BY <1>2, <2>1 DEF ClosedIn
  <2>3. S \cap Made \in SUBSET Cids /\ ClosedIn(follows, S \cap Made)
    BY FollowsBefore
  <2> QED
    BY <1>4, <2>2, <2>3 DEF Before
<1>5. rcurrent' \in Cids =>
          last' \in Made' /\ rcurrent' \in Made' /\ Before(rcurrent, last)'
  BY <1>1, <1>2, <1>4 DEF Behind
<1>6. ASSUME NEW p \in Pushers, pc'[p] \notin {"idle", "read"}
      PROVE  /\ last' \in Made' /\ cid'[p] \in Made'
             /\ Before(cid[p], last)'
             /\ rcurrent' \in Cids => Before(rcurrent, cid[p])'
  <2>1. /\ last \in Made /\ cid[p] \in Made
        /\ Before(cid[p], last)
        /\ rcurrent \in Cids => rcurrent \in Made /\ Before(rcurrent, cid[p])
    BY <1>1, <1>6 DEF Behind
  <2> QED
    BY <1>1, <1>2, <1>3, <1>4, <2>1
<1> QED
  BY <1>5, <1>6 DEF Behind


LEMMA PushAdvances ==
    ASSUME TypeInv, OrderInv, SameCommit, Behind, NEW p \in Pushers, Push(p),
           ~ crossed'
    PROVE  SameCommit' /\ Behind' /\ Advances
<1> USE DEF TypeInv
<1>1. UNCHANGED <<tip, parent, cindex, last, follows>> /\ Made' = Made
  BY PushLeavesLocal DEF Made
(* A push that does not read current: its commit is given up or kept, and  *)
(* the remote's current is kept, lost or set to its commit.                *)
<1>2. ASSUME cid'[p] \in {cid[p], None},
             pc'[p] \notin {"idle", "read"} =>
                 pc[p] \notin {"idle", "read"} /\ cid'[p] = cid[p],
             rcurrent' \in {rcurrent, Blank} \/
                 (pc[p] \notin {"idle", "read"} /\ rcurrent' = cid[p]),
             cid' \in [Pushers -> Cids \cup {None}]
      PROVE  SameCommit' /\ Behind' /\ Advances
  <2>1. ASSUME NEW q \in Pushers, q # p PROVE cid'[q] = cid[q] /\ pc'[q] = pc[q]
    BY <2>1, OthersStay
  <2>2. SameCommit'
    <3> SUFFICES ASSUME NEW q \in Pushers, NEW r \in Pushers
                 PROVE  cid'[q] = cid'[r] \/ None \in {cid'[q], cid'[r]}
      BY DEF SameCommit
    <3>1. cid'[q] \in {cid[q], None} /\ cid'[r] \in {cid[r], None}
      BY <1>2, <2>1
    <3> QED
      BY <3>1 DEF SameCommit
  <2>3. rcurrent' \in Cids =>
            /\ last \in Made /\ rcurrent' \in Made
            /\ Before(rcurrent', last)
    BY <1>2, BlankAssumption DEF Behind, BlankAssumption
  <2>4. ASSUME NEW q \in Pushers, pc'[q] \notin {"idle", "read"}
        PROVE  /\ last \in Made /\ cid'[q] \in Made
               /\ Before(cid'[q], last)
               /\ rcurrent' \in Cids => Before(rcurrent', cid'[q])
    <3>1. pc[q] \notin {"idle", "read"} /\ cid'[q] = cid[q]
      BY <1>2, <2>1, <2>4
    <3>2. /\ last \in Made /\ cid[q] \in Made
          /\ Before(cid[q], last)
          /\ rcurrent \in Cids => Before(rcurrent, cid[q])
      BY <3>1 DEF Behind
    <3>3. ASSUME rcurrent' = cid[p], pc[p] \notin {"idle", "read"}
          PROVE  Before(rcurrent', cid[q])
      <4>1. cid[p] \in Made /\ cid[q] \in Made
        BY <3>2, <3>3 DEF Behind
      <4>2. cid[p] = cid[q]
        BY <4>1, NoneAssumption DEF SameCommit, Made, NoneAssumption
      <4> QED
        BY <3>3, <4>2 DEF Before
    <3> QED
      BY <1>2, <3>1, <3>2, <3>3, BlankAssumption DEF BlankAssumption
  <2>5. Behind'
    BY <1>1, <2>3, <2>4 DEF Behind, Before
  <2>6. Advances
    <3>1. CASE rcurrent' = rcurrent
      BY <3>1 DEF Advances
    <3>2. CASE rcurrent' = Blank
      BY <3>2 DEF Advances
    <3>3. CASE /\ pc[p] \notin {"idle", "read"} /\ rcurrent' = cid[p]
               /\ rcurrent \notin {Blank, None}
      <4>1. rcurrent \in Made /\ Before(rcurrent, cid[p])
        BY <3>3 DEF Behind, TypeOK
      <4>2. ASSUME NEW S \in SUBSET Cids, Settled(S)', rcurrent' \in S
            PROVE  rcurrent \in S
        <5>1. ClosedIn(follows, S)
          BY <1>1, <4>2 DEF Settled, ClosedIn
        <5> QED
          BY <3>3, <4>1, <4>2, <5>1 DEF Before
      <4>3. ASSUME LostAt = {}, NEW S \in SUBSET Cids, Closed(S)', rcurrent' \in S
            PROVE  rcurrent \in S
        <5>1. ClosedIn(parent, S)
          BY <1>1, <4>3 DEF Closed, ClosedIn
        <5>2. S \cap Made \in SUBSET Cids /\ ClosedIn(follows, S \cap Made)
          BY <4>3, <5>1, NeverLost
        <5>3. cid[p] \in S \cap Made
          BY <3>3, <4>3 DEF Behind
        <5> QED
          BY <4>1, <5>2, <5>3 DEF Before
      <4> QED
        BY <4>2, <4>3 DEF Advances
    <3>4. CASE rcurrent \in {Blank, None}
      BY <3>4 DEF Advances
    <3> QED
      BY <1>2, <3>1, <3>2, <3>3, <3>4
  <2> QED
    BY <2>2, <2>5, <2>6
<1>3. TypeOK'
  BY NextType DEF Next, Push
<1>4. CASE ReadCurrent(p) /\ ~ Exits(p)
  <2>1. /\ tip \notin {None, rlatest[p]}
        /\ Goes(p, "read", "walk")
        /\ cid' = [cid EXCEPT ![p] = tip]
        /\ crossed' = (crossed \/ \E q \in Pushers : cid[q] \notin {None, tip})
        /\ rcurrent' = rcurrent
    BY <1>4 DEF ReadCurrent, remote
  <2>2. \A q \in Pushers : cid[q] \in {None, tip}
    BY <2>1
  <2>3. SameCommit'
    BY <2>1, <2>2 DEF SameCommit, TypeOK
  <2>l. tip = last /\ last \in Made
    BY <2>1 DEF OrderInv
  <2>4. ASSUME NEW q \in Pushers, pc'[q] \notin {"idle", "read"}
        PROVE  /\ last \in Made /\ cid'[q] = last
    <3>1. CASE q = p
      BY <2>1, <2>l, <3>1 DEF TypeOK
    <3>2. CASE q # p
      <4>1. pc'[q] = pc[q] /\ cid'[q] = cid[q]
        BY <3>2, OthersStay
      <4>2. cid[q] \in Made
        BY <2>4, <4>1 DEF Behind
      <4> QED
        BY <2>2, <2>l, <4>1, <4>2, NoneAssumption DEF Made, NoneAssumption
    <3> QED
      BY <3>1, <3>2
  <2>5. Before(last, last)
    BY DEF Before
  <2>6. Behind'
    BY <1>1, <2>1, <2>4, <2>5 DEF Behind, Before
  <2> QED
    BY <2>1, <2>3, <2>6 DEF Advances
<1>5. CASE Exits(p)
  <2>1. cid'[p] = None /\ pc'[p] = "idle"
    BY <1>5 DEF Exits, TypeOK
  <2>2. rcurrent' = rcurrent
    BY <1>5, <2>1 DEF Push, Query, Step, ReadCurrent, Walk, Tar, Scp, Unpack,
       UnpackFails, Publish, Report, Fails, ScpFails, PublishFails, Stop, Goes, remote,
       TypeOK
  <2> QED
    BY <1>2, <1>3, <2>1, <2>2 DEF TypeOK
<1>6. CASE ~ Exits(p) /\ ~ ReadCurrent(p)
  <2>1. /\ cid' = cid
        /\ pc'[p] \notin {"idle", "read"} => pc[p] \notin {"idle", "read"}
    BY <1>6 DEF Push, Query, Step, Walk, Tar, Scp, Unpack, UnpackFails, Publish,
       Report, Fails, ScpFails, PublishFails, Stop, Goes, memory, TypeOK
  <2>2. rcurrent' \in {rcurrent, Blank} \/
            (pc[p] \notin {"idle", "read"} /\ rcurrent' = cid[p])
    BY <1>6 DEF Push, Query, Step, Walk, Tar, Scp, Unpack, UnpackFails, Publish,
       Report, Fails, ScpFails, PublishFails, Stop, Goes, remote
  <2> QED
    BY <1>2, <1>3, <2>1, <2>2 DEF TypeOK
<1> QED
  BY <1>4, <1>5, <1>6

LEMMA NextAdvances ==
    ASSUME TypeInv, TypeInv', AdvanceInv, [Next]_vars
    PROVE  AdvanceInv' /\ [Advances]_vars
<1>1. ASSUME NEW c \in Cids, NEW staged, NEW removed, Commit(c, staged, removed)
      PROVE  AdvanceInv' /\ Advances
  <2>1. c \in Made'
    BY <1>1, NoneAssumption DEF TypeInv, Commit, NoneAssumption
  <2>2. LocalInv'
    BY <1>1, <2>1, CommitLocal DEF AdvanceInv
  <2>o. OrderInv'
    BY <1>1, <2>1, CommitOrder DEF AdvanceInv
  <2>3. UNCHANGED <<crossed, cid, rcurrent>>
    BY <1>1 DEF Commit, history, memory, remote
  <2>4. SameCommit /\ Behind => SameCommit' /\ Behind'
    BY <1>1, <2>1, <2>3, CommitStaysBehind DEF AdvanceInv, SameCommit
  <2> QED
    BY <2>2, <2>o, <2>3, <2>4 DEF AdvanceInv, Advances
<1>2. ASSUME NEW p \in Pushers, Push(p)
      PROVE  AdvanceInv' /\ Advances
  <2>1. LocalInv' /\ OrderInv'
    BY <1>2, PushLeavesLocal, LocalKept, OrderKept DEF AdvanceInv
  <2>2. CASE crossed'
    BY <2>1, <2>2 DEF AdvanceInv, Advances
  <2>3. CASE ~ crossed'
    BY <1>2, <2>1, <2>3, HistoryStays, PushAdvances DEF AdvanceInv
  <2> QED
    BY <2>2, <2>3
<1>3. CASE UNCHANGED vars \/ LoseTip
  <2>1. /\ UNCHANGED <<parent, cindex, last, follows, rcurrent, pc, cid, crossed>>
        /\ tip' \in {tip, None}
    BY <1>3, LoseTipKeeps DEF vars, local, remote, memory, history
  <2>2. LocalInv' /\ OrderInv'
    BY <2>1, LocalKept, OrderKept DEF AdvanceInv
  <2>3. SameCommit /\ Behind => SameCommit' /\ Behind'
    BY <2>1 DEF SameCommit, Behind, Before, Made
  <2> QED
    BY <2>1, <2>2, <2>3 DEF AdvanceInv, Advances
<1> QED
  BY <1>1, <1>2, <1>3 DEF Next, Push

(* As long as pushes that overlap send the same commit, the remote's       *)
(* current only moves forward, whatever fails: also after a failed unpack. *)
(* It moves to a commit made on the one it named, unless a commit that     *)
(* ended half way has lost the local current before.                       *)
THEOREM RemoteOnlyAdvances == Spec => RemoteAdvances
<1>1. Init => TypeInv /\ AdvanceInv
  <2> SUFFICES ASSUME Init PROVE TypeInv /\ AdvanceInv
    OBVIOUS
  <2>1. TypeInv
    BY InitType DEF TypeInv, PushHasId, Init
  <2>2. Made = {}
    BY DEF Init, Made
  <2>3. LocalInv
    BY <2>2 DEF Init, LocalInv
  <2>4. OrderInv /\ SameCommit /\ Behind
    BY <2>2, NoneAssumption DEF Init, OrderInv, SameCommit, Behind, NoneAssumption
  <2> QED
    BY <2>1, <2>3, <2>4 DEF AdvanceInv
<1>2. TypeInv /\ AdvanceInv /\ [Next]_vars
          => (TypeInv /\ AdvanceInv)' /\ [Advances]_vars
  BY NextType, NextAdvances
<1> QED
  BY <1>1, <1>2, PTL DEF Spec, RemoteAdvances

-----------------------------------------------------------------------------
(* The walk over the parents ends.                                         *)

(* The commit c and all that it was made on.                               *)
Line(par, c) ==
    {d \in Cids : \A S \in SUBSET Cids : ClosedIn(par, S) /\ c \in S => d \in S}

(* What a walk that has got to w may still meet.                           *)
Ahead(par, w) == IF w = None THEN {} ELSE Line(par, w)

(* No commit was made on itself, and none on infinitely many.              *)
Grounded ==
    \A c \in Made : /\ IsFiniteSet(Line(parent, c))
                    /\ c \notin Ahead(parent, parent[c])

WalksMade == \A p \in Pushers : pc[p] = "walk" => walk[p] \in Made \cup {None}

LEMMA LineClosed ==
    ASSUME NEW par, NEW c \in Cids,
           \A d \in Cids : par[d] \in Cids \cup {None}
    PROVE  c \in Line(par, c) /\ ClosedIn(par, Line(par, c))
<1>1. c \in Line(par, c)
  BY DEF Line
<1>2. ASSUME NEW d \in Line(par, c), par[d] # None
      PROVE  par[d] \in Line(par, c)
  <2>1. d \in Cids /\ par[d] \in Cids
    BY <1>2 DEF Line
  <2>2. ASSUME NEW S \in SUBSET Cids, ClosedIn(par, S), c \in S
        PROVE  par[d] \in S
    <3>1. d \in S
      BY <2>2 DEF Line
    <3> QED
      BY <1>2, <2>2, <3>1 DEF ClosedIn
  <2> QED
    BY <2>1, <2>2 DEF Line
<1> QED
  BY <1>1, <1>2 DEF ClosedIn

LEMMA LineWithin ==
    ASSUME NEW par, NEW c, NEW S \in SUBSET Cids, ClosedIn(par, S), c \in S
    PROVE  Line(par, c) \subseteq S
BY DEF Line

LEMMA ParentsTyped ==
    TypeOK => \A d \in Cids : parent[d] \in Cids \cup {None}
BY DEF TypeOK

(* A new commit leaves what the others were made on as it is, and was made *)
(* on what the tip was made on, and the tip.                               *)
LEMMA CommitLines ==
    ASSUME TypeInv, LocalInv, TypeOK', NEW c \in Cids, NEW staged, NEW removed,
           Commit(c, staged, removed)
    PROVE  /\ \A d \in Made : Line(parent', d) = Line(parent, d)
           /\ Line(parent', c) \subseteq {c} \cup Ahead(parent, tip)
           /\ Ahead(parent', tip) = Ahead(parent, tip)
           /\ Ahead(parent, tip) \subseteq Made
<1> USE DEF TypeInv
<1>1. /\ c \notin Made /\ parent'[c] = tip
      /\ \A d \in Made : parent'[d] = parent[d]
  BY CommitKeeps
<1>2. Made \in SUBSET Cids /\ ClosedIn(parent, Made)
  BY DEF Made, LocalInv, ClosedIn
<1>3. \A d \in Cids : parent[d] \in Cids \cup {None}
  BY ParentsTyped
<1>4. \A d \in Cids : parent'[d] \in Cids \cup {None}
  BY DEF TypeOK
<1>5. ASSUME NEW d \in Made
      PROVE  Line(parent', d) = Line(parent, d) /\ Line(parent, d) \subseteq Made
  <2>1. d \in Line(parent, d) /\ ClosedIn(parent, Line(parent, d))
    BY <1>2, <1>3, LineClosed
  <2>2. Line(parent, d) \subseteq Made
    BY <1>2, LineWithin
  <2>3. ClosedIn(parent', Line(parent, d))
    BY <1>1, <2>1, <2>2 DEF ClosedIn
  <2>4. Line(parent', d) \subseteq Line(parent, d)
    BY <1>2, <2>1, <2>2, <2>3, LineWithin
  <2>5. d \in Line(parent', d) /\ ClosedIn(parent', Line(parent', d))
    BY <1>2, <1>4, LineClosed
  <2>6. ClosedIn(parent, Line(parent', d))
    BY <1>1, <2>2, <2>4, <2>5 DEF ClosedIn
  <2>7. Line(parent, d) \subseteq Line(parent', d)
    BY <1>2, <2>2, <2>4, <2>5, <2>6, LineWithin
  <2> QED
    BY <2>2, <2>4, <2>7
<1>6. /\ Ahead(parent', tip) = Ahead(parent, tip)
      /\ Ahead(parent, tip) \subseteq Made
  BY <1>5 DEF Ahead
<1>7. ClosedIn(parent', {c} \cup Ahead(parent, tip))
  <2>1. tip # None => tip \in Ahead(parent, tip)
    BY <1>2, <1>3, LineClosed DEF Ahead
  <2>2. ClosedIn(parent, Ahead(parent, tip))
    <3>1. CASE tip = None
      BY <3>1 DEF Ahead, ClosedIn
    <3>2. CASE tip # None
      BY <1>2, <1>3, <3>2, LineClosed DEF Ahead
    <3> QED
      BY <3>1, <3>2
  <2> QED
    BY <1>1, <1>6, <2>1, <2>2 DEF ClosedIn
<1>8. Line(parent', c) \subseteq {c} \cup Ahead(parent, tip)
  BY <1>2, <1>6, <1>7, LineWithin
<1> QED
  BY <1>5, <1>6, <1>8

LEMMA CommitGrounded ==
    ASSUME TypeInv, LocalInv, TypeOK', Grounded, NEW c \in Cids, NEW staged,
           NEW removed, Commit(c, staged, removed)
    PROVE  Grounded'
<1> USE DEF TypeInv
<1>1. /\ c \notin Made /\ Made' \subseteq Made \cup {c} /\ parent'[c] = tip
      /\ \A d \in Made : parent'[d] = parent[d]
  BY CommitKeeps
<1>2. /\ \A d \in Made : Line(parent', d) = Line(parent, d)
      /\ Line(parent', c) \subseteq {c} \cup Ahead(parent, tip)
      /\ Ahead(parent', tip) = Ahead(parent, tip)
      /\ Ahead(parent, tip) \subseteq Made
  BY CommitLines
<1>3. ASSUME NEW d \in Made
      PROVE  /\ IsFiniteSet(Line(parent', d))
             /\ d \notin Ahead(parent', parent'[d])
  <2>1. Ahead(parent', parent[d]) = Ahead(parent, parent[d])
    BY <1>2 DEF LocalInv, Ahead
  <2> QED
    BY <1>1, <1>2, <2>1 DEF Grounded
<1>4. IsFiniteSet(Line(parent', c))
  <2>1. IsFiniteSet(Ahead(parent, tip))
    BY FS_EmptySet DEF Grounded, Ahead
  <2>2. IsFiniteSet({c} \cup Ahead(parent, tip))
    BY <2>1, FS_Singleton, FS_Union
  <2> QED
    BY <1>2, <2>2, FS_Subset
<1>5. c \notin Ahead(parent', parent'[c])
  BY <1>1, <1>2
<1> QED
  BY <1>1, <1>3, <1>4, <1>5 DEF Grounded

(* How many steps a push that has begun its walk has still to take at most.*)
StepsAhead(p) ==
    CASE pc[p] = "walk" -> Cardinality(Ahead(parent, walk[p])) + 5
      [] pc[p] = "scp" -> 4
      [] pc[p] = "unpack" -> 3
      [] pc[p] = "publish" -> 2
      [] pc[p] = "report" -> 1
      [] OTHER -> 0

RunsOut ==
    \A p \in Pushers :
        /\ StepsAhead(p) \in Nat
        /\ \/ pc[p] \in {"idle", "read"}
           \/ UNCHANGED <<pc[p], walk[p], StepsAhead(p)>>
           \/ StepsAhead(p)' < StepsAhead(p)

WalkInv == TypeInv /\ LocalInv /\ Grounded /\ WalksMade

LEMMA AheadFinite ==
    ASSUME WalkInv, NEW p \in Pushers, pc[p] = "walk"
    PROVE  /\ IsFiniteSet(Ahead(parent, walk[p]))
           /\ Cardinality(Ahead(parent, walk[p])) \in Nat
BY FS_EmptySet, FS_CardinalityType DEF WalkInv, Grounded, WalksMade, Ahead

(* One round of the walk: the commit it leaves is behind it for good.      *)
LEMMA WalkNearer ==
    ASSUME WalkInv, NEW p \in Pushers, Walk(p)
    PROVE  /\ pc[p] = "walk" /\ pc' = pc /\ walk'[p] \in Made \cup {None}
           /\ Cardinality(Ahead(parent, walk'[p])) \in Nat
           /\ Cardinality(Ahead(parent, walk'[p])) <
                  Cardinality(Ahead(parent, walk[p]))
<1> DEFINE w == walk[p]
<1>1. /\ pc[p] = "walk" /\ pc' = pc /\ w # None /\ w \in Made
      /\ walk'[p] = parent[w] /\ parent[w] \in Made \cup {None}
  BY DEF WalkInv, TypeInv, TypeOK, Walk, RangeDone, WalksMade, LocalInv
<1>2. w \in Cids /\ \A d \in Cids : parent[d] \in Cids \cup {None}
  BY <1>1, ParentsTyped DEF WalkInv, TypeInv, Made
<1>3. w \in Line(parent, w) /\ ClosedIn(parent, Line(parent, w))
  BY <1>2, LineClosed
<1>4. Ahead(parent, parent[w]) \subseteq Line(parent, w)
  <2>1. CASE parent[w] = None
    BY <2>1 DEF Ahead
  <2>2. CASE parent[w] # None
    <3>1. parent[w] \in Line(parent, w)
      BY <1>3, <2>2 DEF ClosedIn
    <3>2. Line(parent, w) \in SUBSET Cids
      BY DEF Line
    <3> QED
      BY <1>3, <2>2, <3>1, <3>2, LineWithin DEF Ahead
  <2> QED
    BY <2>1, <2>2
<1>5. w \notin Ahead(parent, parent[w]) /\ IsFiniteSet(Line(parent, w))
  BY <1>1 DEF WalkInv, Grounded
<1>6. /\ Cardinality(Ahead(parent, parent[w])) \in Nat
      /\ Cardinality(Ahead(parent, parent[w])) < Cardinality(Line(parent, w))
  <2>1. IsFiniteSet(Ahead(parent, parent[w]))
    BY <1>4, <1>5, FS_Subset
  <2>2. Ahead(parent, parent[w]) # Line(parent, w)
    BY <1>3, <1>5
  <2>3. /\ Cardinality(Ahead(parent, parent[w])) <= Cardinality(Line(parent, w))
        /\ Cardinality(Ahead(parent, parent[w])) # Cardinality(Line(parent, w))
    BY <1>4, <1>5, <2>2, FS_Subset
  <2>4. Cardinality(Line(parent, w)) \in Nat
    BY <1>5, FS_CardinalityType
  <2> QED
    BY <2>1, <2>3, <2>4, FS_CardinalityType
<1> QED
  BY <1>1, <1>6 DEF Ahead

LEMMA StepNearer ==
    ASSUME WalkInv, TypeOK', NEW p \in Pushers, Push(p), pc[p] \notin {"idle", "read"}
    PROVE  StepsAhead(p)' < StepsAhead(p)
<1>t. TypeOK
  BY DEF WalkInv, TypeInv
<1>0. UNCHANGED parent
  BY PushLeavesLocal
<1>1. CASE Walk(p)
  <2>1. pc'[p] = "walk" /\ pc[p] = "walk"
    BY <1>1, WalkNearer
  <2>2. PICK m \in Nat, n \in Nat :
            /\ m = Cardinality(Ahead(parent', walk'[p]))
            /\ n = Cardinality(Ahead(parent, walk[p])) /\ m < n
    BY <1>0, <1>1, <2>1, WalkNearer, AheadFinite
  <2> QED
    BY <2>1, <2>2 DEF StepsAhead
<1>2. CASE Tar(p)
  <2>1. pc[p] = "walk" /\ pc'[p] = "scp"
    BY <1>2, <1>t DEF Tar, Goes, TypeOK
  <2>2. Cardinality(Ahead(parent, walk[p])) \in Nat
    BY <2>1, AheadFinite
  <2> QED
    BY <2>1, <2>2 DEF StepsAhead
<1>3. CASE Scp(p) \/ Unpack(p) \/ UnpackFails(p) \/ Publish(p) \/ PublishFails(p)
  <2>1. \/ pc[p] = "scp" /\ pc'[p] = "unpack"
        \/ pc[p] = "unpack" /\ pc'[p] = "publish"
        \/ pc[p] = "publish" /\ pc'[p] = "report"
    BY <1>3, <1>t DEF Scp, Unpack, UnpackFails, Publish, PublishFails, Goes,
                      TypeOK
  <2> QED
    BY <2>1 DEF StepsAhead
<1>4. CASE Report(p) \/ ScpFails(p) \/ Stop(p)
  <2>1. pc'[p] = "idle"
    BY <1>4, <1>t DEF Report, ScpFails, Stop, Exits, TypeOK
  <2>2. StepsAhead(p)' = 0
    BY <2>1 DEF StepsAhead
  <2>3. pc[p] = "walk" => Cardinality(Ahead(parent, walk[p])) \in Nat
    BY AheadFinite
  <2>4. pc[p] \in {"walk", "scp", "unpack", "publish", "report"}
    BY <1>t DEF TypeOK, PushSteps
  <2>5. StepsAhead(p) > 0
    BY <2>3, <2>4 DEF StepsAhead
  <2> QED
    BY <2>2, <2>5
<1>5. CASE Query(p) \/ ReadCurrent(p)
  BY <1>5 DEF Query, ReadCurrent, Goes
<1> QED
  BY <1>1, <1>2, <1>3, <1>4, <1>5 DEF Push, Step, Fails

LEMMA OtherPushes ==
    ASSUME TypeOK, NEW p \in Pushers, NEW q \in Pushers, q # p, Push(q)
    PROVE  UNCHANGED <<pc[p], walk[p]>>
BY DEF Push, Query, Step, ReadCurrent, Walk, Tar, Scp, Unpack, UnpackFails,
       Publish, Report, Fails, ScpFails, PublishFails, Stop, Goes, Exits,
       memory, TypeOK

LEMMA BeginsAtTip ==
    ASSUME WalkInv, NEW p \in Pushers, Push(p), pc'[p] = "walk"
    PROVE  walk'[p] \in Made \cup {None}
<1>t. TypeOK
  BY DEF WalkInv, TypeInv
<1>1. CASE Walk(p)
  BY <1>1, WalkNearer
<1>2. CASE ReadCurrent(p)
  <2>1. walk'[p] = tip
    BY <1>2, <1>t DEF ReadCurrent, Goes, Exits, TypeOK
  <2> QED
    BY <2>1 DEF WalkInv, LocalInv
<1>3. CASE ~ Walk(p) /\ ~ ReadCurrent(p)
  BY <1>3, <1>t DEF Push, Query, Step, Tar, Scp, Unpack, UnpackFails, Publish,
     Report, Fails, ScpFails, PublishFails, Stop, Goes, Exits, memory, TypeOK
<1> QED
  BY <1>1, <1>2, <1>3

LEMMA NextRunsOut ==
    ASSUME WalkInv, TypeInv', LocalInv', [Next]_vars
    PROVE  WalkInv' /\ [RunsOut]_vars
<1>t. TypeInv /\ TypeOK /\ TypeOK'
  BY DEF WalkInv, TypeInv
<1>n. \A p \in Pushers : StepsAhead(p) \in Nat
  BY AheadFinite DEF StepsAhead
<1>1. ASSUME NEW c \in Cids, NEW staged, NEW removed, Commit(c, staged, removed)
      PROVE  WalkInv' /\ RunsOut
  <2>1. UNCHANGED <<pc, walk>> /\ Made \subseteq Made'
    BY <1>1, <1>t, CommitKeeps DEF Commit, memory
  <2>2. WalksMade'
    BY <2>1 DEF WalkInv, WalksMade
  <2>3. Grounded'
    BY <1>1, <1>t, CommitGrounded DEF WalkInv
  <2>4. ASSUME NEW p \in Pushers PROVE StepsAhead(p)' = StepsAhead(p)
    <3>1. pc[p] = "walk" => Ahead(parent', walk[p]) = Ahead(parent, walk[p])
      BY <1>1, <1>t, CommitLines DEF WalkInv, WalksMade, Ahead
    <3> QED
      BY <2>1, <3>1 DEF StepsAhead
  <2> QED
    BY <1>n, <2>1, <2>2, <2>3, <2>4 DEF WalkInv, RunsOut
<1>2. ASSUME NEW q \in Pushers, Push(q)
      PROVE  WalkInv' /\ RunsOut
  <2>1. UNCHANGED <<tip, parent, cindex>>
    BY <1>2, PushLeavesLocal
  <2>2. Made' = Made
    BY <2>1 DEF Made
  <2>3. Grounded'
    BY <2>1, <2>2 DEF WalkInv, Grounded
  <2>4. WalksMade'
    BY <1>2, <1>t, <2>2, OtherPushes, BeginsAtTip DEF WalkInv, WalksMade
  <2>5. ASSUME NEW p \in Pushers, p # q
        PROVE  UNCHANGED <<pc[p], walk[p], StepsAhead(p)>>
    <3>1. UNCHANGED <<pc[p], walk[p], parent>>
      BY <1>2, <1>t, <2>1, <2>5, OtherPushes
    <3> QED
      BY <3>1 DEF StepsAhead
  <2>6. pc[q] \in {"idle", "read"} \/ StepsAhead(q)' < StepsAhead(q)
    BY <1>2, <1>t, StepNearer
  <2> QED
    BY <1>n, <2>3, <2>4, <2>5, <2>6 DEF WalkInv, RunsOut
<1>3. CASE UNCHANGED vars \/ LoseTip
  <2>1. UNCHANGED <<parent, cindex, pc, walk>>
    BY <1>3, LoseTipKeeps DEF vars, local, memory
  <2>2. Made' = Made
    BY <2>1 DEF Made
  <2>3. \A p \in Pushers : UNCHANGED <<pc[p], walk[p], StepsAhead(p)>>
    BY <2>1 DEF StepsAhead
  <2> QED
    BY <1>n, <2>1, <2>2, <2>3 DEF WalkInv, Grounded, WalksMade, RunsOut
<1> QED
  BY <1>1, <1>2, <1>3 DEF Next, Push

(* A push whose walk has begun takes finitely many steps, although nobody  *)
(* checks that the walk ever meets the commit the remote named: commits    *)
(* made meanwhile do not put its end off, and no other push sets it back.  *)
THEOREM PushesRunOut == Spec => [][RunsOut]_vars
<1>1. Init => TypeInv /\ WalkInv
  <2> SUFFICES ASSUME Init PROVE TypeInv /\ WalkInv
    OBVIOUS
  <2>1. TypeInv
    BY InitType DEF TypeInv, PushHasId, Init
  <2>2. Made = {}
    BY DEF Init, Made
  <2>3. LocalInv
    BY <2>2 DEF Init, LocalInv
  <2>5. Grounded /\ WalksMade
    BY <2>2 DEF Init, Grounded, WalksMade
  <2> QED
    BY <2>1, <2>3, <2>5 DEF WalkInv
<1>2. TypeInv /\ WalkInv /\ [Next]_vars
          => (TypeInv /\ WalkInv)' /\ [RunsOut]_vars
  <2> SUFFICES ASSUME TypeInv, WalkInv, [Next]_vars
               PROVE  (TypeInv /\ WalkInv)' /\ [RunsOut]_vars
    OBVIOUS
  <2>1. TypeInv' /\ LocalInv'
    BY NextType, NextLocal DEF WalkInv
  <2> QED
    BY <2>1, NextRunsOut
<1> QED
  BY <1>1, <1>2, PTL DEF Spec
=============================================================================
