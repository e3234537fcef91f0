----------------------------- MODULE RepoProofs -----------------------------
(***************************************************************************)
(* Theorems about Repo, for every set of files, commits and processes.     *)
(***************************************************************************)
EXTENDS RepoProps, TLAPS

-----------------------------------------------------------------------------
(* Type correctness.                                                       *)

LEMMA InitType == Init => TypeOK
BY DEF Init, TypeOK, Tip, Contents, Copies, NoCopies, Steps, EmptyIndex, Index

(* A process that ends leaves its variables in their types.                *)
LEMMA ExitsType ==
    ASSUME TypeOK, NEW p \in Procs, Exits(p)
    PROVE  /\ pc' \in [Procs -> Steps]
           /\ cid' \in [Procs -> Cids \cup {None}]
           /\ tree' \in [Procs -> Index]
           /\ todo' \in [Procs -> SUBSET Files]
           /\ buf' \in [Procs -> Copies]
           /\ fd' \in [Procs -> SUBSET Handles]
BY DEF TypeOK, Exits, Steps, EmptyIndex, Index, Copies, NoCopies

LEMMA HandlesExist ==
    /\ CurrentFile \in Handles
    /\ StageRmFile \in Handles
    /\ \A c \in Cids : ParentFile(c) \in Handles /\ RemoveFile(c) \in Handles
    /\ \A f \in Files : StageFile(f) \in Handles
    /\ \A c \in Cids, f \in Files : StoreFile(c, f) \in Handles
<1>1. ASSUME NEW c \in Cids, NEW f \in Files
      PROVE  StoreFile(c, f) \in Handles
  <2>1. <<c, f>> \in Cids \X Files /\ <<c, f>>[1] = c /\ <<c, f>>[2] = f
    OBVIOUS
  <2> QED
    BY <2>1 DEF Handles
<1> QED
  BY <1>1 DEF Handles

(* A rename or an unlink leaves every open file a name or none.            *)
LEMMA RenamedType ==
    ASSUME TypeOK, NEW from, NEW to \in Handles
    PROVE  Renamed(from, to) \in [Procs -> SUBSET Handles]
<1>1. \A q \in Procs :
          {IF h = from THEN to ELSE h : h \in fd[q]} \in SUBSET Handles
  BY DEF TypeOK
<1> QED
  BY <1>1 DEF Renamed

LEMMA UnlinkedType ==
    ASSUME TypeOK, NEW name
    PROVE  Unlinked(name) \in [Procs -> SUBSET Handles]
BY DEF TypeOK, Unlinked

(* From CommitBegin on, the process that commits has an id of its own.     *)
CommitHasId == \A p \in Procs : pc[p] \in CommitSteps => cid[p] \in dirs

TypeInv == TypeOK /\ CommitHasId

(* The actions of a command.                                               *)
Works(p) == Start(p) \/ Step(p)

LEMMA WorksType ==
    ASSUME TypeInv, NEW p \in Procs, Works(p)
    PROVE  TypeInv'
<1> USE DEF TypeInv, TypeOK, CommitHasId, CommitSteps, Goes, Starts, locals,
            faults
<1>0. CASE \E args \in SUBSET Files : AddBegin(p, args)
  <2> PICK args \in SUBSET Files : AddBegin(p, args)
    BY <1>0
  <2> QED
    BY DEF AddBegin, disk, Steps
<1>20. CASE AddExit(p)
  BY <1>20, ExitsType DEF AddExit, Exits, disk, Steps
<1>1. CASE \E f \in Files : AddOpen(p, f)
  <2> PICK f \in Files : AddOpen(p, f)
    BY <1>1
  <2>1. stage' \in [Files -> Contents \cup {None}]
    BY DEF AddOpen, Contents
  <2>2. /\ buf' \in [Procs -> Copies]
        /\ fd' \in [Procs -> SUBSET Handles]
    <3>1. CASE /\ buf' \in {buf, [buf EXCEPT ![p] = NoCopies]}
               /\ UNCHANGED fd
      <4>1. NoCopies \in Copies
        BY DEF NoCopies, Copies
      <4> HIDE DEF NoCopies
      <4> QED
        BY <3>1, <4>1
    <3>2. CASE /\ buf' = [buf EXCEPT ![p][f] = work[f]]
               /\ fd' = [fd EXCEPT ![p] = @ \cup {StageFile(f)}]
      <4>1. [buf[p] EXCEPT ![f] = work[f]] \in Copies
        BY DEF Copies
      <4> QED
        BY <3>2, <4>1, HandlesExist
    <3> QED
      BY <3>1, <3>2 DEF AddOpen
  <2>3. todo' \in [Procs -> SUBSET Files]
    BY DEF AddOpen
  <2> QED
    BY <2>1, <2>2, <2>3 DEF AddOpen, faults
<1>2. CASE \E f \in Files : AddFlush(p, f)
  <2> PICK f \in Files : AddFlush(p, f)
    BY <1>2
  <2>1. buf[p][f] \in Contents
    BY DEF AddFlush, Contents, Copies
  <2>2. stage' \in [Files -> Contents \cup {None}]
    BY <2>1 DEF AddFlush
  <2>3. store' \in [Cids -> [Files -> Contents \cup {None}]]
    <3>1. \A c \in Cids :
              [store[c] EXCEPT ![f] = IF StoreFile(c, f) \in fd[p]
                                      THEN buf[p][f] ELSE @]
                  \in [Files -> Contents \cup {None}]
      BY <2>1
    <3> QED
      BY <3>1 DEF AddFlush
  <2>4. buf' \in [Procs -> Copies]
    <3>1. [buf[p] EXCEPT ![f] = None] \in Copies
      BY DEF Copies
    <3> QED
      BY <3>1 DEF AddFlush
  <2> QED
    BY <2>2, <2>3, <2>4 DEF AddFlush, faults
<1>3. CASE \E f \in Files : Unadd(p, f)
  <2> PICK f \in Files : Unadd(p, f)
    BY <1>3
  <2>1. fd' \in [Procs -> SUBSET Handles]
    BY UnlinkedType DEF Unadd
  <2> QED
    BY <2>1 DEF Unadd
<1>4. CASE \E gone \in SUBSET Files : RmUnlink(p, gone)
  <2> PICK gone \in SUBSET Files : RmUnlink(p, gone)
    BY <1>4
  <2>1. /\ stageRm' \in (SUBSET Files) \cup {None}
        /\ work' \in [Files -> Data \cup {None}]
        /\ pc' \in [Procs -> Steps]
        /\ todo' \in [Procs -> SUBSET Files]
        /\ fd' \in [Procs -> SUBSET Handles]
    BY HandlesExist DEF RmUnlink, Listed, Steps
  <2> QED
    BY <2>1 DEF RmUnlink
<1>5. CASE RmFlush(p)
  <2>1. /\ stageRm' \in (SUBSET Files) \cup {None}
        /\ remove' \in [Cids -> (SUBSET Files) \cup {None}]
    BY <1>5 DEF RmFlush, Listed
  <2> QED
    BY <1>5, <2>1, ExitsType DEF RmFlush, Exits
<1>6. CASE \E c \in Cids : CommitBegin(p, c)
  BY <1>6 DEF CommitBegin, Steps
<1>7. CASE TakeParent(p)
  <2>1. cid[p] \in Cids
    BY <1>7 DEF TakeParent
  <2>2. fd' \in [Procs -> SUBSET Handles]
    BY <1>7, <2>1, RenamedType, HandlesExist DEF TakeParent
  <2>3. /\ current' \in Tip
        /\ parent' \in [Cids -> Tip]
    BY <1>7, <2>1 DEF TakeParent, Tip
  <2> QED
    BY <1>7, <2>2, <2>3 DEF TakeParent, Steps
<1>8. CASE TakeRemove(p)
  <2>1. cid[p] \in Cids
    BY <1>8 DEF TakeRemove
  <2>2. fd' \in [Procs -> SUBSET Handles]
    BY <1>8, <2>1, RenamedType, HandlesExist DEF TakeRemove
  <2>3. /\ stageRm' \in (SUBSET Files) \cup {None}
        /\ remove' \in [Cids -> (SUBSET Files) \cup {None}]
    BY <1>8, <2>1 DEF TakeRemove
  <2> QED
    BY <1>8, <2>2, <2>3 DEF TakeRemove, Steps
<1>9. CASE ReadIndex(p)
  <2>1. cid[p] \in Cids
    BY <1>9 DEF ReadIndex
  <2>2. CASE Goes(p, "readIndex", "writeIndex")
    <3>1. PICK ix : /\ ix = Inherited(parent[cid[p]])
                    /\ NoParent(parent[cid[p]]) \/ Loadable(parent[cid[p]])
                    /\ tree' = [tree EXCEPT ![p] = Stamp(ix, Staged, cid[p])]
                    /\ UNCHANGED <<disk, cid, todo, buf, fd, faults>>
      BY <1>9, <2>2 DEF ReadIndex, Exits, Steps
    <3>2. ix \in Index
      BY <2>1, <3>1, BlankAssumption, NoneAssumption
      DEF Inherited, NoParent, Loadable, EmptyIndex, Index, BlankAssumption,
          NoneAssumption
    <3>3. Stamp(ix, Staged, cid[p]) \in Index
      BY <2>1, <3>2 DEF Stamp, Index
    <3> QED
      BY <2>2, <3>1, <3>3 DEF Steps, disk
  <2>3. CASE Exits(p) /\ UNCHANGED <<disk, faults>>
    BY <2>3, ExitsType DEF disk, Exits
  <2> QED
    BY <1>9, <2>2, <2>3 DEF ReadIndex
<1>10. CASE WriteIndex(p)
  <2>1. cid[p] \in Cids
    BY <1>10 DEF WriteIndex
  <2>2. /\ Drop(tree[p], Listed(remove[cid[p]])) \in Index
        /\ EmptyIndex \in Index
    BY DEF Drop, Index, EmptyIndex
  <2> QED
    BY <1>10, <2>1, <2>2 DEF WriteIndex, Steps
<1>11. CASE ListStage(p)
  BY <1>11 DEF ListStage, Staged, disk, Steps
<1>12. CASE \E f \in Files : MoveFile(p, f)
  <2> PICK f \in Files : MoveFile(p, f)
    BY <1>12
  <2>1. cid[p] \in Cids
    BY DEF MoveFile
  <2>2. fd' \in [Procs -> SUBSET Handles]
    BY <2>1, RenamedType, HandlesExist DEF MoveFile
  <2>3. stage' \in [Files -> Contents \cup {None}]
    BY DEF MoveFile
  <2>4. store' \in [Cids -> [Files -> Contents \cup {None}]]
    <3>1. [store[cid[p]] EXCEPT ![f] = stage[f]]
              \in [Files -> Contents \cup {None}]
      BY <2>1
    <3>2. \/ store' = store
          \/ store' = [store EXCEPT ![cid[p]] =
                          [store[cid[p]] EXCEPT ![f] = stage[f]]]
      BY <2>1 DEF MoveFile
    <3> QED
      BY <2>1, <3>1, <3>2
  <2>5. todo' \in [Procs -> SUBSET Files]
    BY DEF MoveFile
  <2>6. missed' \in SUBSET (Cids \X Files)
    BY <2>1 DEF MoveFile
  <2> QED
    BY <2>2, <2>3, <2>4, <2>5, <2>6 DEF MoveFile
<1>13. CASE OpenCurrent(p)
  BY <1>13, HandlesExist DEF OpenCurrent, Steps, Tip
<1>14. CASE WriteCurrent(p)
  BY <1>14 DEF WriteCurrent, Steps, Tip
<1>15. CASE ProbeMillis(p)
  <2>1. cid[p] \in Cids /\ MillisOf[cid[p]] \in Millis
    BY <1>15, MillisAssumption DEF ProbeMillis, MillisAssumption
  <2>2. expected' \in [Millis -> Cids \cup {None}]
    BY <1>15, <2>1 DEF ProbeMillis
  <2>3. conflicts' \in [Millis -> Seq(Cids \cup {NL}) \cup {None}]
    <3> DEFINE m == MillisOf[cid[p]]
    <3>1. CASE expected[m] # None
      <4>1. <<expected[m]>> \in Seq(Cids \cup {NL})
        BY <2>1, <3>1
      <4> QED
        BY <1>15, <3>1, <4>1 DEF ProbeMillis
    <3>2. CASE expected[m] = None
      BY <1>15, <3>2 DEF ProbeMillis
    <3> QED
      BY <3>1, <3>2
  <2> QED
    BY <1>15, <2>2, <2>3 DEF ProbeMillis, Steps
<1>16. CASE AppendMillis(p)
  <2>1. cid[p] \in Cids /\ MillisOf[cid[p]] \in Millis
    BY <1>16, MillisAssumption DEF AppendMillis, MillisAssumption
  <2>2. conflicts' \in [Millis -> Seq(Cids \cup {NL}) \cup {None}]
    <3> DEFINE m == MillisOf[cid[p]]
               old == IF conflicts[m] = None THEN <<>> ELSE conflicts[m]
    <3>1. old \in Seq(Cids \cup {NL})
      BY <2>1
    <3>2. old \o <<NL, cid[p], NL>> \in Seq(Cids \cup {NL})
      BY <2>1, <3>1
    <3>3. conflicts' = [conflicts EXCEPT ![m] = old \o <<NL, cid[p], NL>>]
      BY <1>16 DEF AppendMillis
    <3> HIDE DEF m, old
    <3> QED
      BY <3>2, <3>3
  <2> QED
    BY <1>16, <2>2, ExitsType DEF AppendMillis, Exits
<1>17. CASE WriteMillis(p)
  <2>1. cid[p] \in Cids /\ MillisOf[cid[p]] \in Millis
    BY <1>17, MillisAssumption DEF WriteMillis, MillisAssumption
  <2>2. conflicts' \in [Millis -> Seq(Cids \cup {NL}) \cup {None}]
    <3> DEFINE m == MillisOf[cid[p]]
    <3>1. CASE conflicts[m] # None
      <4>1. conflicts[m] \o <<cid[p], NL>> \in Seq(Cids \cup {NL})
        BY <2>1, <3>1
      <4> QED
        BY <1>17, <3>1, <4>1 DEF WriteMillis
    <3>2. CASE conflicts[m] = None
      BY <1>17, <3>2 DEF WriteMillis
    <3> QED
      BY <3>1, <3>2
  <2>3. expected' \in [Millis -> Cids \cup {None}]
    BY <1>17, <2>1 DEF WriteMillis
  <2> QED
    BY <1>17, <2>2, <2>3, ExitsType DEF WriteMillis, Exits
<1> QED
  BY <1>0, <1>1, <1>2, <1>3, <1>4, <1>5, <1>6, <1>7, <1>8, <1>9, <1>10, <1>11,
     <1>12, <1>13, <1>14, <1>15, <1>16, <1>17, <1>20 DEF Works, Start, Step

LEMMA NextType == TypeInv /\ [Next]_vars => TypeInv'
<1> SUFFICES ASSUME TypeInv, [Next]_vars
             PROVE  TypeInv'
  OBVIOUS
<1>1. CASE UNCHANGED vars
  BY <1>1 DEF vars, disk, locals, faults, TypeInv, TypeOK, CommitHasId
<1>2. CASE \E f \in Files, d \in Data \cup {None} : Edit(f, d)
  BY <1>2 DEF Edit, locals, faults, TypeInv, TypeOK, CommitHasId
<1>3. CASE \E p \in Procs : Works(p)
  BY <1>3, WorksType
<1>4. CASE \E p \in Procs : Crash(p)
  <2> PICK p \in Procs : Crash(p)
    BY <1>4
  <2>1. kills' \in Nat
    BY DEF Crash, TypeInv, TypeOK
  <2>2. TypeOK'
    BY <2>1, ExitsType DEF Crash, disk, TypeInv, TypeOK
  <2>3. CommitHasId'
    BY DEF Crash, Exits, disk, TypeInv, TypeOK, CommitHasId, CommitSteps
  <2> QED
    BY <2>2, <2>3 DEF TypeInv
<1> QED
  BY <1>1, <1>2, <1>3, <1>4 DEF Next, Works

(* Every variable of the repository keeps its type, whichever commands run *)
(* and whenever they are killed.                                           *)
THEOREM TypeCorrect == Spec => []TypeOK
<1>1. Init => TypeInv
  BY InitType DEF Init, TypeInv, CommitHasId, CommitSteps
<1>2. TypeInv => TypeOK
  BY DEF TypeInv
<1> QED
  BY <1>1, <1>2, NextType, PTL DEF Spec

-----------------------------------------------------------------------------
(* No commit dangles.                                                      *)

(* Two restrictions on what may run side by side: only one process commits *)
(* and nobody else runs unadd.  Any number of others may add and rm.       *)
OneCommitter ==
    \A p, q \in Procs : "commit" \in Role[p] /\ "commit" \in Role[q] => p = q
NoRivalUnadd ==
    \A p, q \in Procs : "commit" \in Role[p] /\ "unadd" \in Role[q] => p = q

(* Every file of the index ix has its copy in the store st, or its mv      *)
(* failed (it is in ms), or c owns it and it is one of the files in "left" *)
(* that c has still to move from the stage sg.                             *)
Backed(ix, c, st, sg, left, ms) ==
    \A f \in Files :
        ix[f] # None =>
            \/ st[ix[f]][f] # None
            \/ <<ix[f], f>> \in ms
            \/ ix[f] = c /\ sg[f] # None /\ f \in left

(* Nothing that was there has gone: from the store, from the stage.        *)
StoreGrows(st, st2) ==
    \A c \in Cids, f \in Files : st[c][f] # None => st2[c][f] # None
StageGrows(sg, sg2) == \A f \in Files : sg[f] # None => sg2[f] # None

(* The steps of a commit up to the one that makes it current, and those of *)
(* them that have composed an index.                                       *)
Composing == {"writeIndex", "listStage", "moveFiles", "writeCurrent"}
Before == {"takeParent", "takeRemove", "readIndex"} \cup Composing

(* The files that the commit of p may still have to move.                  *)
Left(p) == CASE pc[p] \in {"writeIndex", "listStage"} -> Files
             [] pc[p] = "moveFiles" -> todo[p]
             [] OTHER -> {}

RolesKept == \A p \in Procs : pc[p] \in CommitSteps => "commit" \in Role[p]
NamedMade == Named \subseteq dirs
NotYetNamed == \A p \in Procs : pc[p] \in Before => cid[p] \notin Named
TreeBacked ==
    \A p \in Procs : pc[p] = "writeIndex" =>
        Backed(tree[p], cid[p], store, stage, Left(p), missed)
IndexBacked ==
    \A p \in Procs : pc[p] \in Composing \ {"writeIndex"} =>
        /\ cindex[cid[p]] # None
        /\ Backed(cindex[cid[p]], cid[p], store, stage, Left(p), missed)

(* What makes NoDangling inductive: at each of its steps a commit keeps    *)
(* the promise that it is not named before all its copies are stored.      *)
KeepInv ==
    /\ TypeInv
    /\ RolesKept
    /\ NamedMade
    /\ NotYetNamed
    /\ TreeBacked
    /\ IndexBacked
    /\ NoDangling

LEMMA BackedGrows ==
    ASSUME NEW ix \in Index, NEW c, NEW st, NEW st2, NEW sg, NEW sg2, NEW left,
           NEW ms, NEW ms2,
           StoreGrows(st, st2), StageGrows(sg, sg2), ms \subseteq ms2,
           Backed(ix, c, st, sg, left, ms)
    PROVE  Backed(ix, c, st2, sg2, left, ms2)
BY DEF Index, StoreGrows, StageGrows, Backed

LEMMA InitKeeps == Init => KeepInv
<1> SUFFICES ASSUME Init PROVE KeepInv
  OBVIOUS
<1>1. TypeInv
  BY InitType DEF Init, TypeInv, CommitHasId, CommitSteps
<1>2. Named = {}
  BY NoneAssumption DEF Init, Named, NoneAssumption
<1> QED
  BY <1>1, <1>2
  DEF Init, KeepInv, RolesKept, NamedMade, NotYetNamed, TreeBacked,
      IndexBacked, NoDangling, CommitSteps, Composing, Before

(* Two processes never commit at the same time.                            *)
LEMMA OneAtATime ==
    ASSUME OneCommitter, KeepInv, NEW p \in Procs, NEW q \in Procs,
           pc[p] \in CommitSteps, pc[q] \in CommitSteps
    PROVE  p = q
BY DEF OneCommitter, KeepInv, RolesKept

(* A named commit whose index is left alone stays kept as the store grows. *)
LEMMA StillKept ==
    ASSUME KeepInv, NEW c \in Named, UNCHANGED cindex[c],
           StoreGrows(store, store'), missed \subseteq missed'
    PROVE  /\ cindex'[c] # None
           /\ \A f \in Entries(cindex'[c]) :
                  \/ store'[cindex'[c][f]][f] # None
                  \/ <<cindex'[c][f], f>> \in missed'
<1>1. /\ c \in Cids /\ cindex[c] # None
      /\ \A f \in Entries(cindex[c]) :
             \/ store[cindex[c][f]][f] # None
             \/ <<cindex[c][f], f>> \in missed
  BY DEF KeepInv, NoDangling, Stored, Named
<1>2. cindex[c] \in Index
  BY <1>1 DEF KeepInv, TypeInv, TypeOK
<1> QED
  BY <1>1, <1>2 DEF Index, StoreGrows, Entries

(* The steps that neither compose an index nor name a commit.              *)
LEMMA QuietStep ==
    ASSUME KeepInv, TypeInv', RolesKept',
           Named' \subseteq Named,
           dirs \subseteq dirs',
           UNCHANGED cindex,
           StoreGrows(store, store'), missed \subseteq missed',
           \A p \in Procs : pc'[p] \in Before => cid'[p] \notin Named,
           \A p \in Procs : pc'[p] \in Composing =>
               /\ UNCHANGED <<pc[p], cid[p], tree[p], todo[p]>>
               /\ StageGrows(stage, stage')
    PROVE  KeepInv'
<1>1. NamedMade'
  BY DEF KeepInv, NamedMade
<1>2. NotYetNamed'
  BY DEF KeepInv, NotYetNamed
<1>3. TreeBacked'
  <2> SUFFICES ASSUME NEW p \in Procs, pc'[p] = "writeIndex"
               PROVE  Backed(tree'[p], cid'[p], store', stage', Left(p)', missed')
    BY DEF TreeBacked
  <2>1. /\ UNCHANGED <<pc[p], tree[p], todo[p], cid[p]>>
        /\ StageGrows(stage, stage')
    BY DEF Composing, Before
  <2>2. tree[p] \in Index /\ Left(p)' = Left(p)
    BY <2>1 DEF KeepInv, TypeInv, TypeOK, Left
  <2>3. Backed(tree[p], cid[p], store, stage, Left(p), missed)
    BY <2>1 DEF KeepInv, TreeBacked
  <2> QED
    BY <2>1, <2>2, <2>3, BackedGrows
<1>4. IndexBacked'
  <2> SUFFICES ASSUME NEW p \in Procs, pc'[p] \in Composing \ {"writeIndex"}
               PROVE  /\ cindex'[cid'[p]] # None
                      /\ Backed(cindex'[cid'[p]], cid'[p], store', stage',
                                Left(p)', missed')
    BY DEF IndexBacked
  <2>1. /\ UNCHANGED <<pc[p], tree[p], todo[p], cid[p]>>
        /\ StageGrows(stage, stage')
    BY DEF Composing, Before
  <2>2. /\ cindex[cid[p]] # None
        /\ Backed(cindex[cid[p]], cid[p], store, stage, Left(p), missed)
    BY <2>1 DEF KeepInv, IndexBacked
  <2>3. cindex[cid[p]] \in Index /\ Left(p)' = Left(p)
    BY <2>1, <2>2 DEF KeepInv, TypeInv, TypeOK, CommitHasId, CommitSteps,
                      Composing, Left
  <2> QED
    BY <2>1, <2>2, <2>3, BackedGrows
<1>5. NoDangling'
  BY StillKept DEF NoDangling, Stored, faults
<1> QED
  BY <1>1, <1>2, <1>3, <1>4, <1>5 DEF KeepInv

(* Files are edited, staged, taken from the stage and removed, and commits *)
(* begin and end, without touching what KeepInv says of other commits.     *)
LEMMA QuietActions ==
    ASSUME NoRivalUnadd, KeepInv, TypeInv', NEW p \in Procs,
           \/ \E args \in SUBSET Files : AddBegin(p, args)
           \/ \E f \in Files : AddOpen(p, f) \/ AddFlush(p, f) \/ Unadd(p, f)
           \/ \E gone \in SUBSET Files : RmUnlink(p, gone)
           \/ \E c \in Cids : CommitBegin(p, c)
           \/ AddExit(p) \/ RmFlush(p) \/ TakeParent(p) \/ TakeRemove(p)
           \/ ProbeMillis(p) \/ AppendMillis(p) \/ WriteMillis(p)
    PROVE  KeepInv'
<1> USE DEF Goes, Starts, locals, faults, CommitSteps, Before, Composing
<1>0. CASE \/ \E args \in SUBSET Files : AddBegin(p, args)
           \/ AddExit(p)
  <2>1. Named' = Named
    BY <1>0 DEF AddBegin, AddExit, disk, Named
  <2>2. StageGrows(stage, stage') /\ StoreGrows(store, store')
    BY <1>0 DEF AddBegin, AddExit, disk, StageGrows, StoreGrows
  <2>3. /\ UNCHANGED <<cindex, dirs, missed>>
        /\ \A q \in Procs \ {p} :
               UNCHANGED <<pc[q], cid[q], tree[q], todo[q]>>
        /\ pc'[p] \in {"idle", "adding"}
    BY <1>0 DEF AddBegin, AddExit, Exits, disk, KeepInv, TypeInv, TypeOK
  <2>4. RolesKept'
    BY <2>3 DEF KeepInv, RolesKept
  <2> QED
    BY <2>1, <2>2, <2>3, <2>4, QuietStep DEF KeepInv, NotYetNamed
<1>1. CASE \E f \in Files : AddOpen(p, f)
  <2> PICK f \in Files : AddOpen(p, f)
    BY <1>1
  <2>1. Named' = Named
    BY DEF AddOpen, Named
  <2>2. StageGrows(stage, stage')
    BY BlankAssumption DEF AddOpen, StageGrows, BlankAssumption, KeepInv,
                           TypeInv, TypeOK
  <2>3. /\ StoreGrows(store, store')
        /\ UNCHANGED <<pc, cid, tree, cindex, dirs, missed>>
        /\ pc[p] = "adding" /\ \A q \in Procs \ {p} : todo'[q] = todo[q]
    BY DEF AddOpen, StoreGrows, KeepInv, TypeInv, TypeOK
  <2>4. RolesKept'
    BY <2>3 DEF KeepInv, RolesKept
  <2> QED
    BY <2>1, <2>2, <2>3, <2>4, QuietStep DEF KeepInv, NotYetNamed
<1>2. CASE \E f \in Files : AddFlush(p, f)
  <2> PICK f \in Files : AddFlush(p, f)
    BY <1>2
  <2>1. Named' = Named
    BY DEF AddFlush, Named
  <2>2. StageGrows(stage, stage') /\ StoreGrows(store, store')
    BY DEF AddFlush, StageGrows, StoreGrows, KeepInv, TypeInv, TypeOK
  <2>3. UNCHANGED <<pc, cid, tree, todo, cindex, dirs, missed>>
    BY DEF AddFlush
  <2>4. RolesKept'
    BY <2>3 DEF KeepInv, RolesKept
  <2> QED
    BY <2>1, <2>2, <2>3, <2>4, QuietStep DEF KeepInv, NotYetNamed
<1>3. CASE \E f \in Files : Unadd(p, f)
  <2> PICK f \in Files : Unadd(p, f)
    BY <1>3
  <2>1. Named' = Named
    BY DEF Unadd, Named
  <2>2. \A q \in Procs : pc[q] \notin CommitSteps
    BY DEF Unadd, NoRivalUnadd, KeepInv, RolesKept
  <2>3. RolesKept'
    BY DEF Unadd, KeepInv, RolesKept
  <2>4. StoreGrows(store, store')
    BY DEF Unadd, StoreGrows
  <2> QED
    BY <2>1, <2>2, <2>3, <2>4, QuietStep DEF Unadd
<1>4. CASE \E gone \in SUBSET Files : RmUnlink(p, gone)
  <2> PICK gone \in SUBSET Files : RmUnlink(p, gone)
    BY <1>4
  <2>1. Named' = Named
    BY DEF RmUnlink, Named
  <2>2. StageGrows(stage, stage') /\ StoreGrows(store, store')
    BY DEF RmUnlink, StageGrows, StoreGrows
  <2>3. RolesKept'
    BY DEF RmUnlink, KeepInv, RolesKept, TypeInv, TypeOK
  <2> QED
    BY <2>1, <2>2, <2>3, QuietStep
    DEF RmUnlink, KeepInv, NotYetNamed, TypeInv, TypeOK
<1>5. CASE RmFlush(p)
  <2>1. Named' = Named
    BY <1>5 DEF RmFlush, Named
  <2>2. StageGrows(stage, stage') /\ StoreGrows(store, store')
    BY <1>5 DEF RmFlush, StageGrows, StoreGrows
  <2>3. RolesKept'
    BY <1>5 DEF RmFlush, Exits, KeepInv, RolesKept, TypeInv, TypeOK
  <2> QED
    BY <1>5, <2>1, <2>2, <2>3, QuietStep
    DEF RmFlush, Exits, KeepInv, NotYetNamed, TypeInv, TypeOK
<1>6. CASE \E c \in Cids : CommitBegin(p, c)
  <2> PICK c \in Cids : CommitBegin(p, c)
    BY <1>6
  <2>1. Named' = Named /\ c \notin Named
    BY DEF CommitBegin, Named, KeepInv, NamedMade
  <2>2. StageGrows(stage, stage') /\ StoreGrows(store, store')
    BY DEF CommitBegin, StageGrows, StoreGrows
  <2>3. RolesKept'
    BY DEF CommitBegin, KeepInv, RolesKept, TypeInv, TypeOK
  <2> QED
    BY <2>1, <2>2, <2>3, QuietStep
    DEF CommitBegin, KeepInv, NotYetNamed, TypeInv, TypeOK
<1>7. CASE TakeParent(p)
  <2>1. Named' \subseteq Named
    BY <1>7, NoneAssumption
    DEF TakeParent, Named, NoneAssumption, KeepInv, TypeInv, TypeOK, CommitHasId
  <2>2. StageGrows(stage, stage') /\ StoreGrows(store, store')
    BY <1>7 DEF TakeParent, StageGrows, StoreGrows
  <2>3. RolesKept'
    BY <1>7 DEF TakeParent, KeepInv, RolesKept, TypeInv, TypeOK
  <2> QED
    BY <1>7, <2>1, <2>2, <2>3, QuietStep
    DEF TakeParent, KeepInv, NotYetNamed, TypeInv, TypeOK
<1>8. CASE TakeRemove(p)
  <2>1. Named' = Named
    BY <1>8 DEF TakeRemove, Named
  <2>2. StageGrows(stage, stage') /\ StoreGrows(store, store')
    BY <1>8 DEF TakeRemove, StageGrows, StoreGrows
  <2>3. RolesKept'
    BY <1>8 DEF TakeRemove, KeepInv, RolesKept, TypeInv, TypeOK
  <2> QED
    BY <1>8, <2>1, <2>2, <2>3, QuietStep
    DEF TakeRemove, KeepInv, NotYetNamed, TypeInv, TypeOK
<1>9. CASE ProbeMillis(p)
  <2>1. Named' = Named
    BY <1>9 DEF ProbeMillis, Named
  <2>2. StageGrows(stage, stage') /\ StoreGrows(store, store')
    BY <1>9 DEF ProbeMillis, StageGrows, StoreGrows
  <2>3. RolesKept'
    BY <1>9 DEF ProbeMillis, KeepInv, RolesKept, TypeInv, TypeOK
  <2> QED
    BY <1>9, <2>1, <2>2, <2>3, QuietStep
    DEF ProbeMillis, KeepInv, NotYetNamed, TypeInv, TypeOK
<1>10. CASE AppendMillis(p) \/ WriteMillis(p)
  <2>1. Named' = Named
    BY <1>10 DEF AppendMillis, WriteMillis, Named
  <2>2. StageGrows(stage, stage') /\ StoreGrows(store, store')
    BY <1>10 DEF AppendMillis, WriteMillis, StageGrows, StoreGrows
  <2>3. Exits(p) /\ UNCHANGED <<cindex, dirs, missed>>
    BY <1>10 DEF AppendMillis, WriteMillis
  <2>4. RolesKept'
    BY <2>3 DEF Exits, KeepInv, RolesKept, TypeInv, TypeOK
  <2> QED
    BY <2>1, <2>2, <2>3, <2>4, QuietStep
    DEF Exits, KeepInv, NotYetNamed, TypeInv, TypeOK
<1> QED
  BY <1>0, <1>1, <1>2, <1>3, <1>4, <1>5, <1>6, <1>7, <1>8, <1>9, <1>10

(* A step of the one process that commits, which another step of a commit  *)
(* follows: what KeepInv says of it and of the named commits is enough.    *)
LEMMA CommitterStep ==
    ASSUME OneCommitter, KeepInv, TypeInv', NEW p \in Procs,
           pc[p] \in CommitSteps, Goes(p, pc[p], pc'[p]), pc'[p] \in CommitSteps,
           UNCHANGED <<dirs, cid>>,
           Named' \subseteq dirs,
           pc'[p] \in Before => cid[p] \notin Named',
           TreeBacked' \/ pc'[p] # "writeIndex",
           pc'[p] \in Composing \ {"writeIndex"} =>
               /\ cindex'[cid[p]] # None
               /\ Backed(cindex'[cid[p]], cid[p], store', stage', Left(p)',
                         missed'),
           NoDangling'
    PROVE  KeepInv'
<1>1. \A q \in Procs \ {p} : pc'[q] = pc[q] /\ pc'[q] \notin CommitSteps
  BY OneAtATime DEF Goes, KeepInv, TypeInv, TypeOK
<1>2. RolesKept'
  BY <1>1 DEF KeepInv, RolesKept
<1>3. NamedMade'
  BY DEF NamedMade
<1>4. NotYetNamed'
  BY <1>1 DEF NotYetNamed, Before, Composing, CommitSteps
<1>5. TreeBacked'
  BY <1>1 DEF TreeBacked, CommitSteps
<1>6. IndexBacked'
  BY <1>1 DEF IndexBacked, Composing, CommitSteps
<1> QED
  BY <1>2, <1>3, <1>4, <1>5, <1>6 DEF KeepInv

LEMMA ReadIndexKeeps ==
    ASSUME OneCommitter, KeepInv, TypeInv', NEW p \in Procs, ReadIndex(p)
    PROVE  KeepInv'
<1> DEFINE c == cid[p]
           up == parent[cid[p]]
<1>1. Named' = Named /\ StoreGrows(store, store') /\ StageGrows(stage, stage')
  BY DEF ReadIndex, disk, Named, StoreGrows, StageGrows
<1>2. CASE Goes(p, "readIndex", "writeIndex")
  <2>1. /\ NoParent(up) \/ Loadable(up)
        /\ tree' = [tree EXCEPT ![p] = Stamp(Inherited(up), Staged, c)]
        /\ UNCHANGED <<disk, cid, todo, missed>>
    BY <1>2 DEF ReadIndex, Exits, Goes, KeepInv, TypeInv, TypeOK, Steps, faults
  <2>2. pc[p] = "readIndex" /\ pc'[p] = "writeIndex" /\ c \in Cids
    BY <1>2 DEF Goes, KeepInv, TypeInv, TypeOK, CommitHasId, CommitSteps
  <2>3. \A f \in Files : Inherited(up)[f] # None =>
            Stored(Inherited(up)[f], f)
    BY <2>1, <2>2, BlankAssumption, NoneAssumption
    DEF Inherited, EmptyIndex, KeepInv, NoDangling, Named, Entries
  <2>4. Backed(Stamp(Inherited(up), Staged, c), c, store, stage, Files, missed)
    BY <2>3 DEF Backed, Stamp, Staged, Stored
  <2>5. tree'[p] = Stamp(Inherited(up), Staged, c)
    BY <2>1 DEF KeepInv, TypeInv, TypeOK
  <2>6. TreeBacked'
    <3> SUFFICES ASSUME NEW q \in Procs, pc'[q] = "writeIndex"
                 PROVE  Backed(tree'[q], cid'[q], store', stage', Left(q)', missed')
      BY DEF TreeBacked
    <3>1. q = p
      BY <1>2, <2>2, OneAtATime
      DEF Goes, CommitSteps, KeepInv, TypeInv, TypeOK
    <3>2. Left(p)' = Files
      BY <2>2 DEF Left
    <3> QED
      BY <2>1, <2>4, <2>5, <3>1, <3>2 DEF disk
  <2>7. NoDangling'
    BY <1>1, <2>1, StillKept DEF NoDangling, Stored, faults, disk
  <2>8. Named' \subseteq dirs /\ c \notin Named'
    BY <1>1, <2>2 DEF KeepInv, NamedMade, NotYetNamed, Before
  <2> QED
    BY <1>2, <2>1, <2>2, <2>6, <2>7, <2>8, CommitterStep
    DEF CommitSteps, disk, Goes
<1>3. CASE Exits(p)
  <2>1. UNCHANGED <<cindex, dirs, missed>>
    BY DEF ReadIndex, disk, faults
  <2>2. RolesKept'
    BY <1>3 DEF Exits, KeepInv, RolesKept, TypeInv, TypeOK,
                CommitSteps
  <2> QED
    BY <1>1, <1>3, <2>1, <2>2, QuietStep
    DEF Exits, KeepInv, NotYetNamed, TypeInv, TypeOK, Before, Composing
<1> QED
  BY <1>2, <1>3 DEF ReadIndex

LEMMA WriteIndexKeeps ==
    ASSUME OneCommitter, KeepInv, TypeInv', NEW p \in Procs, WriteIndex(p)
    PROVE  KeepInv'
<1> DEFINE c == cid[p]
           ix == Drop(tree[p], Listed(remove[c]))
<1>1. /\ pc[p] = "writeIndex" /\ pc'[p] = "listStage" /\ c \in Cids
      /\ Left(p) = Files /\ Left(p)' = Files
  BY DEF WriteIndex, Goes, KeepInv, TypeInv, TypeOK, CommitHasId, CommitSteps,
         Left
<1>2. cindex'[c] = ix /\ \A d \in Cids \ {c} : cindex'[d] = cindex[d]
  BY <1>1 DEF WriteIndex, KeepInv, TypeInv, TypeOK
<1>3. ix # None
  BY NoneAssumption, <1>1 DEF KeepInv, TypeInv, TypeOK, Drop, Index,
                             NoneAssumption
<1>4. Backed(ix, c, store, stage, Files, missed)
  BY <1>1 DEF KeepInv, TreeBacked, Backed, Drop
<1>5. Named' = Named /\ c \notin Named /\ Named \subseteq dirs
  BY <1>1 DEF WriteIndex, Named, KeepInv, NamedMade, NotYetNamed, Before,
              Composing
<1>6. NoDangling'
  BY <1>2, <1>5, StillKept DEF NoDangling, Stored, faults, Named, WriteIndex, StoreGrows
<1>7. /\ UNCHANGED <<dirs, cid, missed, store, stage>>
      /\ Goes(p, pc[p], pc'[p])
  BY <1>1 DEF WriteIndex, Goes, faults
<1> HIDE DEF c, ix
<1> QED
  BY <1>1, <1>2, <1>3, <1>4, <1>5, <1>6, <1>7, CommitterStep
  DEF CommitSteps, c

LEMMA ListStageKeeps ==
    ASSUME OneCommitter, KeepInv, TypeInv', NEW p \in Procs, ListStage(p)
    PROVE  KeepInv'
<1> DEFINE c == cid[p]
<1>1. /\ pc[p] = "listStage" /\ pc'[p] = "moveFiles" /\ c \in Cids
      /\ Left(p) = Files /\ Left(p)' = Staged
  BY DEF ListStage, Goes, KeepInv, TypeInv, TypeOK, CommitHasId, CommitSteps,
         Left
<1>2. cindex[c] # None /\ Backed(cindex[c], c, store, stage, Staged, missed)
  BY <1>1 DEF KeepInv, IndexBacked, Composing, Backed, Staged
<1>3. Named' = Named /\ c \notin Named /\ Named \subseteq dirs
  BY <1>1 DEF ListStage, disk, Named, KeepInv, NamedMade, NotYetNamed, Before,
              Composing
<1>4. NoDangling'
  BY <1>3, StillKept DEF NoDangling, Stored, faults, ListStage, disk, StoreGrows
<1>5. /\ UNCHANGED <<dirs, cid, missed, store, stage, cindex>>
      /\ Goes(p, pc[p], pc'[p])
  BY <1>1 DEF ListStage, disk, Goes, faults
<1> HIDE DEF c
<1> QED
  BY <1>1, <1>2, <1>3, <1>4, <1>5, CommitterStep DEF CommitSteps, c

LEMMA MoveFileKeeps ==
    ASSUME OneCommitter, KeepInv, TypeInv', NEW p \in Procs,
           NEW f \in Files, MoveFile(p, f)
    PROVE  KeepInv'
<1> DEFINE c == cid[p]
<1>1. /\ pc[p] = "moveFiles" /\ c \in Cids /\ UNCHANGED <<pc, cid>>
      /\ Left(p) = todo[p] /\ Left(p)' = todo[p] \ {f}
  BY DEF MoveFile, KeepInv, TypeInv, TypeOK, CommitHasId, CommitSteps, Left
<1>2. StoreGrows(store, store') /\ missed \subseteq missed'
  <2>1. CASE UNCHANGED store /\ missed' = missed \cup {<<c, f>>}
    BY <2>1 DEF StoreGrows
  <2>2. CASE stage[f] # None /\ UNCHANGED missed
             /\ store' = [store EXCEPT ![c] = [store[c] EXCEPT ![f] = stage[f]]]
    BY <1>1, <2>2 DEF StoreGrows, KeepInv, TypeInv, TypeOK
  <2> QED
    BY <1>1, <2>1, <2>2 DEF MoveFile
<1>3. /\ cindex[c] \in Index /\ cindex[c] # None
      /\ Backed(cindex[c], c, store, stage, todo[p], missed)
  BY <1>1 DEF KeepInv, IndexBacked, Composing, TypeInv, TypeOK
<1>4. /\ \A g \in Files \ {f} : stage'[g] = stage[g]
      /\ store'[c][f] # None \/ <<c, f>> \in missed'
  BY <1>1 DEF MoveFile, KeepInv, TypeInv, TypeOK
<1>5. Backed(cindex[c], c, store', stage', todo[p] \ {f}, missed')
  BY <1>2, <1>3, <1>4 DEF Backed, Index, StoreGrows
<1>6. Named' = Named /\ c \notin Named /\ Named \subseteq dirs
  BY <1>1 DEF MoveFile, Named, KeepInv, NamedMade, NotYetNamed, Before,
              Composing
<1>7. NoDangling'
  BY <1>2, <1>6, StillKept DEF NoDangling, Stored, faults, MoveFile
<1>8. /\ UNCHANGED <<dirs, cid, cindex>>
      /\ Goes(p, pc[p], pc'[p])
  BY <1>1 DEF MoveFile, Goes, KeepInv, TypeInv, TypeOK
<1> HIDE DEF c
<1> QED
  BY <1>1, <1>3, <1>5, <1>6, <1>7, <1>8, CommitterStep DEF CommitSteps, c

LEMMA OpenCurrentKeeps ==
    ASSUME OneCommitter, KeepInv, TypeInv', NEW p \in Procs, OpenCurrent(p)
    PROVE  KeepInv'
<1> DEFINE c == cid[p]
<1>1. /\ pc[p] = "moveFiles" /\ pc'[p] = "writeCurrent" /\ c \in Cids
      /\ Left(p) = {} /\ Left(p)' = {}
  BY DEF OpenCurrent, Goes, KeepInv, TypeInv, TypeOK, CommitHasId, CommitSteps,
         Left
<1>2. cindex[c] # None /\ Backed(cindex[c], c, store, stage, {}, missed)
  BY <1>1 DEF KeepInv, IndexBacked, Composing
<1>3. Named' \subseteq Named /\ c \notin Named /\ Named \subseteq dirs
  BY <1>1, BlankAssumption
  DEF OpenCurrent, Named, KeepInv, NamedMade, NotYetNamed, Before, Composing,
      BlankAssumption
<1>4. NoDangling'
  BY <1>3, StillKept DEF NoDangling, Stored, faults, OpenCurrent, StoreGrows
<1>5. /\ UNCHANGED <<dirs, cid, missed, store, stage, cindex>>
      /\ Goes(p, pc[p], pc'[p])
  BY <1>1 DEF OpenCurrent, locals, Goes, faults
<1> HIDE DEF c
<1> QED
  BY <1>1, <1>2, <1>3, <1>4, <1>5, CommitterStep DEF CommitSteps, c

LEMMA WriteCurrentKeeps ==
    ASSUME OneCommitter, KeepInv, TypeInv', NEW p \in Procs, WriteCurrent(p)
    PROVE  KeepInv'
<1> DEFINE c == cid[p]
<1>1. /\ pc[p] = "writeCurrent" /\ pc'[p] = "probeMillis"
      /\ c \in Cids /\ c \in dirs /\ Left(p) = {}
  BY DEF WriteCurrent, Goes, KeepInv, TypeInv, TypeOK, CommitHasId, CommitSteps,
         Left
<1>2. cindex[c] # None /\ Backed(cindex[c], c, store, stage, {}, missed)
  BY <1>1 DEF KeepInv, IndexBacked, Composing
<1>3. Named' \subseteq Named \cup {c} /\ Named \subseteq dirs
  BY <1>1 DEF WriteCurrent, Named, KeepInv, NamedMade
<1>4. UNCHANGED <<dirs, cid, missed, store, stage, cindex>>
  BY DEF WriteCurrent, locals, faults
<1>5. NoDangling'
  <2>1. \A f \in Entries(cindex[c]) : Stored(cindex[c][f], f)
    BY <1>2 DEF Backed, Entries, Stored
  <2> QED
    BY <1>2, <1>3, <1>4, <2>1, StillKept DEF NoDangling, Stored, faults, StoreGrows
<1>6. Goes(p, pc[p], pc'[p])
  BY <1>1 DEF WriteCurrent, Goes
<1> HIDE DEF c
<1> QED
  BY <1>1, <1>3, <1>4, <1>5, <1>6, CommitterStep
  DEF CommitSteps, Before, Composing

LEMMA NextKeeps ==
    ASSUME OneCommitter, NoRivalUnadd, KeepInv, [Next]_vars
    PROVE  KeepInv'
<1>1. TypeInv'
  BY NextType DEF KeepInv
<1>2. CASE UNCHANGED vars
  BY <1>2 DEF vars, disk, locals, faults, KeepInv, TypeInv, TypeOK,
              CommitHasId, RolesKept, NamedMade, NotYetNamed, TreeBacked,
              IndexBacked, NoDangling, Stored, Named, Left
<1>3. CASE \E f \in Files, d \in Data \cup {None} : Edit(f, d)
  <2>1. /\ UNCHANGED <<stage, store, cindex, dirs, current, parent, pc, cid,
                       tree, todo, missed>>
        /\ Named' = Named
    BY <1>3 DEF Edit, locals, faults, Named
  <2>2. StageGrows(stage, stage') /\ StoreGrows(store, store')
    BY <2>1 DEF StageGrows, StoreGrows
  <2>3. RolesKept'
    BY <2>1 DEF KeepInv, RolesKept
  <2> QED
    BY <1>1, <2>1, <2>2, <2>3, QuietStep DEF KeepInv, NotYetNamed
<1>4. CASE \E p \in Procs : Works(p)
  <2> PICK p \in Procs : Works(p)
    BY <1>4
  <2>1. CASE \/ ReadIndex(p) \/ WriteIndex(p) \/ ListStage(p)
             \/ \E f \in Files : MoveFile(p, f)
             \/ OpenCurrent(p) \/ WriteCurrent(p)
    BY <1>1, <2>1, ReadIndexKeeps, WriteIndexKeeps, ListStageKeeps,
       MoveFileKeeps, OpenCurrentKeeps, WriteCurrentKeeps
  <2> QED
    BY <1>1, <2>1, QuietActions DEF Works, Start, Step
<1>5. CASE \E p \in Procs : Crash(p)
  <2> PICK p \in Procs : Crash(p)
    BY <1>5
  <2>1. /\ Exits(p) /\ UNCHANGED <<stage, store, cindex, dirs, missed>>
        /\ Named' = Named
    BY DEF Crash, disk, Named
  <2>2. StageGrows(stage, stage') /\ StoreGrows(store, store')
    BY <2>1 DEF StageGrows, StoreGrows
  <2>3. RolesKept'
    BY <2>1 DEF Exits, KeepInv, RolesKept, TypeInv, TypeOK,
                CommitSteps
  <2> QED
    BY <1>1, <2>1, <2>2, <2>3, QuietStep
    DEF Exits, KeepInv, NotYetNamed, TypeInv, TypeOK, Before, Composing
<1> QED
  BY <1>2, <1>3, <1>4, <1>5 DEF Next, Works

(* If one process commits at a time and nobody unstages files under its    *)
(* feet, then a commit that was ever current names no file that is not in  *)
(* .cams/files, but for the files whose mv failed, however many processes  *)
(* add and remove files meanwhile and whichever command is killed half     *)
(* way.                                                                    *)
THEOREM NothingDangles ==
    ASSUME OneCommitter, NoRivalUnadd
    PROVE  Spec => []NoDangling
<1>1. KeepInv /\ [Next]_vars => KeepInv'
  BY NextKeeps
<1>2. KeepInv => NoDangling
  BY DEF KeepInv
<1> QED
  BY <1>1, <1>2, InitKeeps, PTL DEF Spec
-----------------------------------------------------------------------------
(* Snapshots are frozen.                                                   *)

(* Nobody stages files while another process commits; rm and unadd may run.*)
NoRivalAdd ==
    \A p, q \in Procs : "commit" \in Role[p] /\ "add" \in Role[q] => p = q

(* The steps of a commit between its two changes of current.               *)
Holding == {"takeRemove", "readIndex"} \cup Composing

(* The index ix of c names copies of c itself and of named commits.        *)
Owned(ix, c) == \A f \in Files : ix[f] \in Named \cup {c, None}

AddersKept == \A p \in Procs : pc[p] = "adding" => "add" \in Role[p]
CurrentTaken == \A p \in Procs : pc[p] \in Holding => current \notin Cids
OpenFiles ==
    \A p \in Procs :
        /\ pc[p] = "writeCurrent" => fd[p] = {CurrentFile}
        /\ pc[p] = "adding" =>
               \A c \in Cids, f \in Files : StoreFile(c, f) \notin fd[p]
        /\ pc[p] = "idle" => fd[p] = {}
FreshParent ==
    /\ \A c \in Cids \ dirs : parent[c] = None
    /\ \A p \in Procs : pc[p] = "takeParent" => parent[cid[p]] = None
TreeOwned ==
    \A p \in Procs : pc[p] = "writeIndex" => Owned(tree[p], cid[p])
IndexOwned ==
    \A p \in Procs : pc[p] \in Composing \ {"writeIndex"} =>
        cindex[cid[p]] \in Index /\ Owned(cindex[cid[p]], cid[p])
NamedOwned == \A c \in Named : cindex[c] \in Index /\ Owned(cindex[c], c)

(* What makes SnapshotsFrozen follow step by step: a commit writes to its  *)
(* own files only, it is not named while it does, and no named commit has  *)
(* a line that leads to them.                                              *)
FrozenInv ==
    /\ TypeInv
    /\ RolesKept
    /\ AddersKept
    /\ NamedMade
    /\ NotYetNamed
    /\ CurrentTaken
    /\ OpenFiles
    /\ FreshParent
    /\ TreeOwned
    /\ IndexOwned
    /\ NamedOwned

(* One step of SnapshotsFrozen.                                            *)
FrozenStep ==
    \A c \in Named :
        /\ c \in Named'
        /\ parent'[c] = parent[c]
        /\ cindex'[c] = cindex[c]
        /\ \A f \in Entries(cindex[c]) :
               store'[cindex[c][f]][f] = store[cindex[c][f]][f]

LEMMA InitFrozen == Init => FrozenInv
<1> SUFFICES ASSUME Init PROVE FrozenInv
  OBVIOUS
<1>1. TypeInv
  BY InitType DEF Init, TypeInv, CommitHasId, CommitSteps
<1>2. Named = {}
  BY NoneAssumption DEF Init, Named, NoneAssumption
<1> QED
  BY <1>1, <1>2
  DEF Init, FrozenInv, RolesKept, AddersKept, NamedMade, NotYetNamed,
      CurrentTaken, OpenFiles, FreshParent, TreeOwned, IndexOwned, NamedOwned,
      CommitSteps, Composing, Before, Holding

(* Steps that leave the commits under way where they are.                  *)
LEMMA QuietFrozen ==
    ASSUME FrozenInv, TypeInv', RolesKept', AddersKept',
           UNCHANGED <<current, parent, cindex, store>>,
           dirs \subseteq dirs',
           \A p \in Procs : pc'[p] \in Before =>
               UNCHANGED <<pc[p], cid[p], tree[p]>>,
           OpenFiles'
    PROVE  FrozenInv' /\ FrozenStep
<1> USE DEF Before, Composing, Holding
<1>1. Named' = Named
  BY DEF Named
<1>2. NamedMade' /\ NotYetNamed' /\ CurrentTaken' /\ FreshParent'
  BY <1>1 DEF FrozenInv, NamedMade, NotYetNamed, CurrentTaken, FreshParent
<1>3. TreeOwned' /\ IndexOwned' /\ NamedOwned'
  BY <1>1 DEF FrozenInv, TreeOwned, IndexOwned, NamedOwned, Owned
<1>4. FrozenStep
  BY <1>1 DEF FrozenStep
<1> QED
  BY <1>2, <1>3, <1>4 DEF FrozenInv

(* A step of the one process that commits, to the next step of its commit. *)
(* The commit changes nothing but its own files.                           *)
LEMMA CommitterFrozen ==
    ASSUME OneCommitter, FrozenInv, TypeInv', NEW p \in Procs,
           pc[p] \in CommitSteps, pc'[p] \in CommitSteps,
           Goes(p, pc[p], pc'[p]),
           UNCHANGED <<dirs, cid>>,
           \A d \in Cids \ {cid[p]} :
               UNCHANGED <<parent[d], cindex[d], store[d]>>,
           cid[p] \notin Named \/ UNCHANGED <<parent, cindex, store>>,
           Named \subseteq Named', Named' \subseteq dirs,
           pc'[p] \in Before => cid[p] \notin Named',
           pc'[p] \in Holding => current' \notin Cids,
           pc'[p] = "writeCurrent" => fd'[p] = {CurrentFile},
           \A q \in Procs \ {p} : pc[q] # "adding",
           \A q \in Procs \ {p} : fd[q] = {} => fd'[q] = {},
           pc'[p] = "writeIndex" => Owned(tree[p], cid[p])',
           pc'[p] \in Composing \ {"writeIndex"} =>
               cindex'[cid[p]] \in Index /\ Owned(cindex[cid[p]], cid[p])',
           \A c \in Named' \ Named :
               cindex'[c] \in Index /\ Owned(cindex[c], c)',
           pc'[p] # "takeParent"
    PROVE  FrozenInv' /\ FrozenStep
<1> USE DEF Before, Composing, Holding, CommitSteps
<1>1. \A q \in Procs \ {p} : pc'[q] = pc[q] /\ pc'[q] \notin CommitSteps
  BY DEF Goes, OneCommitter, FrozenInv, RolesKept, TypeInv, TypeOK
<1>2. RolesKept' /\ AddersKept' /\ NamedMade' /\ NotYetNamed' /\ CurrentTaken'
  BY <1>1 DEF FrozenInv, RolesKept, AddersKept, NamedMade, NotYetNamed,
              CurrentTaken
<1>3. OpenFiles'
  BY <1>1 DEF FrozenInv, OpenFiles
<1>4. FreshParent'
  BY <1>1 DEF FrozenInv, FreshParent, TypeInv, CommitHasId
<1>5. TreeOwned' /\ IndexOwned'
  BY <1>1 DEF TreeOwned, IndexOwned
<1>6. Named \subseteq Cids
  BY DEF Named
<1>7. \A c \in Named : UNCHANGED <<parent[c], cindex[c], store[c]>>
  BY <1>6
<1>8. NamedOwned'
  BY <1>7 DEF FrozenInv, NamedOwned, Owned
<1>9. FrozenStep
  BY <1>7 DEF FrozenStep, FrozenInv, NamedOwned, Owned, Entries
<1> QED
  BY <1>2, <1>3, <1>4, <1>5, <1>8, <1>9 DEF FrozenInv

(* The commands that are not a commit, and the end of a commit.            *)
LEMMA QuietActionsFrozen ==
    ASSUME NoRivalAdd, FrozenInv, TypeInv', NEW p \in Procs,
           \/ \E args \in SUBSET Files : AddBegin(p, args)
           \/ \E f \in Files : AddOpen(p, f) \/ AddFlush(p, f) \/ Unadd(p, f)
           \/ \E gone \in SUBSET Files : RmUnlink(p, gone)
           \/ AddExit(p) \/ RmFlush(p)
           \/ ProbeMillis(p) \/ AppendMillis(p) \/ WriteMillis(p)
           \/ Exits(p) /\ UNCHANGED disk
    PROVE  FrozenInv' /\ FrozenStep
<1> USE DEF Goes, Starts, locals, CommitSteps, Before, Composing
<1>t. TypeOK /\ RolesKept /\ AddersKept /\ OpenFiles
  BY DEF FrozenInv, TypeInv
<1>0. CASE \E args \in SUBSET Files : AddBegin(p, args)
  <2>1. /\ pc[p] = "idle" /\ pc' = [pc EXCEPT ![p] = "adding"]
        /\ "add" \in Role[p]
        /\ UNCHANGED <<fd, cid, tree, current, parent, cindex, store, dirs>>
    BY <1>0 DEF AddBegin, disk
  <2>2. RolesKept' /\ AddersKept' /\ OpenFiles'
    BY <2>1, <1>t DEF RolesKept, AddersKept, OpenFiles, TypeOK
  <2> QED
    BY <2>1, <2>2, <1>t, QuietFrozen DEF TypeOK
<1>1. CASE \E f \in Files : AddOpen(p, f)
  <2> PICK f \in Files : AddOpen(p, f)
    BY <1>1
  <2>1. /\ pc[p] = "adding"
        /\ UNCHANGED <<pc, cid, tree, current, parent, cindex, store, dirs>>
    BY DEF AddOpen
  <2>2. \A q \in Procs : \/ UNCHANGED fd[q]
                         \/ q = p /\ fd'[q] = fd[q] \cup {StageFile(f)}
    BY <1>t DEF AddOpen, TypeOK
  <2>3. \A c \in Cids, g \in Files : StageFile(f) # StoreFile(c, g)
    BY DEF StageFile, StoreFile, Handle
  <2>4. RolesKept' /\ AddersKept'
    BY <1>t, <2>1 DEF RolesKept, AddersKept
  <2>5. OpenFiles'
    BY <1>t, <2>1, <2>2, <2>3 DEF OpenFiles
  <2> QED
    BY <2>1, <2>4, <2>5, QuietFrozen
<1>2. CASE \E f \in Files : AddFlush(p, f)
  <2> PICK f \in Files : AddFlush(p, f)
    BY <1>2
  <2>1. store' = store
    BY <1>t DEF AddFlush, OpenFiles, TypeOK
  <2>2. UNCHANGED <<pc, cid, tree, fd, current, parent, cindex, dirs>>
    BY DEF AddFlush
  <2>3. RolesKept' /\ AddersKept' /\ OpenFiles'
    BY <1>t, <2>2 DEF RolesKept, AddersKept, OpenFiles
  <2> QED
    BY <2>1, <2>2, <2>3, QuietFrozen
<1>3. CASE \E f \in Files : Unadd(p, f)
  <2> PICK f \in Files : Unadd(p, f)
    BY <1>3
  <2>1. RolesKept' /\ AddersKept'
    BY <1>t DEF Unadd, RolesKept, AddersKept
  <2>2. CurrentFile # StageFile(f)
    BY DEF CurrentFile, StageFile, Handle
  <2>3. \A q \in Procs : fd'[q] = fd[q] \ {StageFile(f)}
    BY DEF Unadd, Unlinked
  <2>4. UNCHANGED <<pc, locals, current, parent, cindex, store, dirs>>
    BY DEF Unadd
  <2>5. OpenFiles'
    BY <1>t, <2>2, <2>3, <2>4 DEF OpenFiles
  <2> QED
    BY <1>t, <2>1, <2>4, <2>5, QuietFrozen
<1>4. CASE \E gone \in SUBSET Files : RmUnlink(p, gone)
  <2> PICK gone \in SUBSET Files : RmUnlink(p, gone)
    BY <1>4
  <2>1. RolesKept' /\ AddersKept' /\ OpenFiles'
    BY <1>t DEF RmUnlink, RolesKept, AddersKept, OpenFiles, TypeOK
  <2> QED
    BY <1>t, <2>1, QuietFrozen DEF RmUnlink, TypeOK
<1>5. CASE RmFlush(p)
  <2>1. RolesKept' /\ AddersKept' /\ OpenFiles'
    BY <1>5, <1>t
    DEF RmFlush, Exits, RolesKept, AddersKept, OpenFiles, TypeOK
  <2> QED
    BY <1>5, <1>t, <2>1, QuietFrozen DEF RmFlush, Exits, TypeOK
<1>6. CASE ProbeMillis(p)
  <2>1. RolesKept' /\ AddersKept' /\ OpenFiles'
    BY <1>6, <1>t DEF ProbeMillis, RolesKept, AddersKept, OpenFiles, TypeOK
  <2>2. \A q \in Procs : pc'[q] = pc[q] \/ pc'[q] \in CommitSteps \ Before
    BY <1>6, <1>t DEF ProbeMillis, TypeOK
  <2> QED
    BY <1>6, <1>t, <2>1, <2>2, QuietFrozen DEF ProbeMillis
<1>7. CASE \/ AddExit(p) \/ AppendMillis(p) \/ WriteMillis(p)
           \/ Exits(p) /\ UNCHANGED disk
  <2>1. Exits(p) /\ UNCHANGED <<current, parent, cindex, store, dirs>>
    BY <1>7 DEF AddExit, AppendMillis, WriteMillis, disk
  <2>2. RolesKept' /\ AddersKept' /\ OpenFiles'
    BY <2>1, <1>t DEF Exits, RolesKept, AddersKept, OpenFiles, TypeOK
  <2> QED
    BY <1>t, <2>1, <2>2, QuietFrozen DEF Exits, TypeOK
<1> QED
  BY <1>0, <1>1, <1>2, <1>3, <1>4, <1>5, <1>6, <1>7

LEMMA CommitBeginFrozen ==
    ASSUME OneCommitter, FrozenInv, TypeInv', NEW p \in Procs,
           NEW c \in Cids, CommitBegin(p, c)
    PROVE  FrozenInv' /\ FrozenStep
<1> USE DEF Before, Composing, Holding, CommitSteps
<1>t. TypeOK /\ RolesKept
  BY DEF FrozenInv, TypeInv
<1>1. /\ pc' = [pc EXCEPT ![p] = "takeParent"] /\ cid' = [cid EXCEPT ![p] = c]
      /\ c \notin dirs /\ dirs' = dirs \cup {c}
      /\ UNCHANGED <<current, parent, cindex, store, fd, tree>>
      /\ pc[p] = "idle" /\ "commit" \in Role[p]
  BY DEF CommitBegin, Goes, Starts
<1>2. \A q \in Procs \ {p} : UNCHANGED <<pc[q], cid[q]>>
  BY <1>1, <1>t DEF TypeOK
<1>3. pc'[p] = "takeParent" /\ cid'[p] = c
  BY <1>1, <1>t DEF TypeOK
<1>4. Named' = Named /\ c \notin Named
  BY <1>1 DEF Named, FrozenInv, NamedMade
<1>5. RolesKept' /\ AddersKept'
  BY <1>1, <1>2, <1>3 DEF FrozenInv, RolesKept, AddersKept
<1>6. NamedMade' /\ NotYetNamed' /\ CurrentTaken'
  BY <1>1, <1>2, <1>3, <1>4 DEF FrozenInv, NamedMade, NotYetNamed, CurrentTaken
<1>7. OpenFiles'
  BY <1>1, <1>2, <1>3 DEF FrozenInv, OpenFiles
<1>8. FreshParent'
  BY <1>1, <1>2, <1>3 DEF FrozenInv, FreshParent
<1>9. TreeOwned' /\ IndexOwned' /\ NamedOwned'
  BY <1>1, <1>2, <1>3, <1>4
  DEF FrozenInv, TreeOwned, IndexOwned, NamedOwned, Owned
<1>10. FrozenStep
  BY <1>1, <1>4 DEF FrozenStep
<1> QED
  BY <1>5, <1>6, <1>7, <1>8, <1>9, <1>10 DEF FrozenInv

(* What CommitterFrozen needs of the process that commits, at any step.    *)
LEMMA AtWork ==
    ASSUME FrozenInv, NEW p \in Procs, pc[p] \in Before
    PROVE  /\ cid[p] \in Cids /\ cid[p] \in dirs /\ cid[p] \notin Named
           /\ Named \subseteq dirs
           /\ pc[p] \in CommitSteps
BY DEF FrozenInv, TypeInv, TypeOK, CommitHasId, NotYetNamed, NamedMade, Before,
       Composing, CommitSteps

(* Nobody adds while p commits.                                            *)
LEMMA NobodyAdds ==
    ASSUME NoRivalAdd, FrozenInv, NEW p \in Procs, NEW q \in Procs,
           pc[p] \in CommitSteps
    PROVE  pc[q] # "adding"
BY DEF NoRivalAdd, FrozenInv, RolesKept, AddersKept, CommitSteps

LEMMA TakeParentFrozen ==
    ASSUME OneCommitter, NoRivalAdd, FrozenInv, TypeInv', NEW p \in Procs,
           TakeParent(p)
    PROVE  FrozenInv' /\ FrozenStep
<1> DEFINE c == cid[p]
<1>t. TypeOK
  BY DEF FrozenInv, TypeInv
<1>1. Goes(p, "takeParent", "takeRemove") /\ pc'[p] = "takeRemove"
  BY <1>t DEF TakeParent, Goes, TypeOK
<1>2. /\ c \in Cids /\ c \in dirs /\ c \notin Named /\ Named \subseteq dirs
      /\ pc[p] \in CommitSteps /\ parent[c] = None
  BY <1>1, AtWork DEF Goes, Before, FrozenInv, FreshParent
<1>3. /\ current' = None
      /\ parent' = [parent EXCEPT ![c] = current]
      /\ UNCHANGED <<dirs, cid, cindex, store>>
  BY <1>2, <1>t DEF TakeParent, locals, TypeOK
<1>4. Named' = Named
  BY <1>2, <1>3, <1>t, NoneAssumption DEF Named, NoneAssumption, TypeOK
<1>5. None \notin Cids
  BY NoneAssumption DEF NoneAssumption
<1>6. \A d \in Cids \ {c} : parent'[d] = parent[d]
  BY <1>3, <1>t DEF TypeOK
<1>7. \A q \in Procs : fd[q] = {} => fd'[q] = {}
  BY DEF TakeParent, Renamed
<1> HIDE DEF c
<1> QED
  BY <1>1, <1>2, <1>3, <1>4, <1>5, <1>6, <1>7, CommitterFrozen, NobodyAdds
  DEF Goes, CommitSteps, Composing, Holding, Before, c

LEMMA TakeRemoveFrozen ==
    ASSUME OneCommitter, NoRivalAdd, FrozenInv, TypeInv', NEW p \in Procs,
           TakeRemove(p)
    PROVE  FrozenInv' /\ FrozenStep
<1>t. TypeOK
  BY DEF FrozenInv, TypeInv
<1>1. Goes(p, "takeRemove", "readIndex") /\ pc'[p] = "readIndex"
  BY <1>t DEF TakeRemove, Goes, TypeOK
<1>2. /\ cid[p] \in Cids /\ cid[p] \in dirs /\ cid[p] \notin Named
      /\ Named \subseteq dirs /\ pc[p] \in CommitSteps /\ current \notin Cids
  BY <1>1, AtWork DEF Goes, Before, FrozenInv, CurrentTaken, Holding
<1>3. UNCHANGED <<dirs, cid, current, parent, cindex, store>>
  BY DEF TakeRemove, locals
<1>4. Named' = Named
  BY <1>3 DEF Named
<1>5. \A q \in Procs : fd[q] = {} => fd'[q] = {}
  BY DEF TakeRemove, Renamed
<1> QED
  BY <1>1, <1>2, <1>3, <1>4, <1>5, CommitterFrozen, NobodyAdds
  DEF Goes, CommitSteps, Composing, Holding, Before

LEMMA ReadIndexFrozen ==
    ASSUME OneCommitter, NoRivalAdd, FrozenInv, TypeInv', NEW p \in Procs,
           ReadIndex(p)
    PROVE  FrozenInv' /\ FrozenStep
<1> DEFINE c == cid[p]
           up == parent[cid[p]]
<1>t. TypeOK
  BY DEF FrozenInv, TypeInv
<1>1. pc[p] = "readIndex" /\ UNCHANGED disk
  BY DEF ReadIndex
<1>2. /\ c \in Cids /\ c \in dirs /\ c \notin Named /\ Named \subseteq dirs
      /\ pc[p] \in CommitSteps /\ current \notin Cids
  BY <1>1, AtWork DEF Before, FrozenInv, CurrentTaken, Holding
<1>3. Named' = Named
  BY <1>1 DEF Named, disk
<1>4. CASE Exits(p)
  BY <1>1, <1>4, QuietActionsFrozen
<1>5. CASE Goes(p, "readIndex", "writeIndex") /\ ~ Exits(p)
  <2>1. /\ NoParent(up) \/ Loadable(up)
        /\ tree' = [tree EXCEPT ![p] = Stamp(Inherited(up), Staged, c)]
        /\ UNCHANGED <<cid, fd>>
    BY <1>5 DEF ReadIndex
  <2>2. pc'[p] = "writeIndex" /\ Goes(p, pc[p], pc'[p])
    BY <1>5, <1>t DEF Goes, TypeOK
  <2>3. \A f \in Files : Inherited(up)[f] \in Named \cup {None}
    <3>1. CASE up \in Cids
      <4>1. up \in Named
        BY <1>2, <3>1 DEF Named
      <4> QED
        BY <3>1, <4>1 DEF Inherited, FrozenInv, NamedOwned, Owned
    <3>2. CASE up \notin Cids
      BY <3>2 DEF Inherited, EmptyIndex
    <3> QED
      BY <3>1, <3>2
  <2>4. Owned(tree[p], c)'
    <3>1. tree'[p] = Stamp(Inherited(up), Staged, c) /\ c' = c
      BY <2>1, <1>t DEF TypeOK
    <3> QED
      BY <2>3, <3>1, <1>3 DEF Owned, Stamp
  <2> HIDE DEF c, up
  <2> QED
    BY <1>1, <1>2, <1>3, <2>1, <2>2, <2>4, CommitterFrozen, NobodyAdds
    DEF CommitSteps, Composing, Holding, Before, disk, c
<1> QED
  BY <1>4, <1>5 DEF ReadIndex

LEMMA WriteIndexFrozen ==
    ASSUME OneCommitter, NoRivalAdd, FrozenInv, TypeInv', NEW p \in Procs,
           WriteIndex(p)
    PROVE  FrozenInv' /\ FrozenStep
<1> DEFINE c == cid[p]
           ix == Drop(tree[p], Listed(remove[c]))
<1>t. TypeOK
  BY DEF FrozenInv, TypeInv
<1>1. /\ pc[p] = "writeIndex" /\ pc'[p] = "listStage"
      /\ Goes(p, pc[p], pc'[p])
      /\ UNCHANGED <<current, parent, store, dirs, cid, fd>>
  BY <1>t DEF WriteIndex, Goes, TypeOK
<1>2. /\ c \in Cids /\ c \in dirs /\ c \notin Named /\ Named \subseteq dirs
      /\ pc[p] \in CommitSteps /\ current \notin Cids
  BY <1>1, AtWork DEF Before, Composing, FrozenInv, CurrentTaken, Holding
<1>3. Named' = Named
  BY <1>1 DEF Named
<1>4. cindex'[c] = ix /\ \A d \in Cids \ {c} : cindex'[d] = cindex[d]
  BY <1>2, <1>t DEF WriteIndex, TypeOK
<1>5. ix \in Index /\ \A f \in Files : ix[f] \in Named \cup {c, None}
  BY <1>1, <1>t DEF FrozenInv, TreeOwned, Owned, Drop, Index, TypeOK
<1>6. cindex'[c] \in Index /\ Owned(cindex[c], c)'
  BY <1>1, <1>3, <1>4, <1>5 DEF Owned
<1> HIDE DEF c, ix
<1> QED
  BY <1>1, <1>2, <1>3, <1>4, <1>6, CommitterFrozen, NobodyAdds
  DEF CommitSteps, Composing, Holding, Before, c

LEMMA ListStageFrozen ==
    ASSUME OneCommitter, NoRivalAdd, FrozenInv, TypeInv', NEW p \in Procs,
           ListStage(p)
    PROVE  FrozenInv' /\ FrozenStep
<1> DEFINE c == cid[p]
<1>t. TypeOK
  BY DEF FrozenInv, TypeInv
<1>1. /\ pc[p] = "listStage" /\ pc'[p] = "moveFiles"
      /\ Goes(p, pc[p], pc'[p])
      /\ UNCHANGED <<current, parent, cindex, store, dirs, cid, fd>>
  BY <1>t DEF ListStage, Goes, TypeOK, disk
<1>2. /\ c \in Cids /\ c \in dirs /\ c \notin Named /\ Named \subseteq dirs
      /\ pc[p] \in CommitSteps /\ current \notin Cids
  BY <1>1, AtWork DEF Before, Composing, FrozenInv, CurrentTaken, Holding
<1>3. Named' = Named
  BY <1>1 DEF Named
<1>4. cindex'[c] \in Index /\ Owned(cindex[c], c)'
  BY <1>1, <1>3 DEF FrozenInv, IndexOwned, Composing, Owned
<1> HIDE DEF c
<1> QED
  BY <1>1, <1>2, <1>3, <1>4, CommitterFrozen, NobodyAdds
  DEF CommitSteps, Composing, Holding, Before, c

LEMMA MoveFileFrozen ==
    ASSUME OneCommitter, NoRivalAdd, FrozenInv, TypeInv', NEW p \in Procs,
           NEW f \in Files, MoveFile(p, f)
    PROVE  FrozenInv' /\ FrozenStep
<1> DEFINE c == cid[p]
<1>t. TypeOK
  BY DEF FrozenInv, TypeInv
<1>1. /\ pc[p] = "moveFiles" /\ pc'[p] = "moveFiles"
      /\ Goes(p, pc[p], pc'[p])
      /\ UNCHANGED <<current, parent, cindex, dirs, cid>>
  BY <1>t DEF MoveFile, Goes, TypeOK
<1>2. /\ c \in Cids /\ c \in dirs /\ c \notin Named /\ Named \subseteq dirs
      /\ pc[p] \in CommitSteps /\ current \notin Cids
  BY <1>1, AtWork DEF Before, Composing, FrozenInv, CurrentTaken, Holding
<1>3. Named' = Named
  BY <1>1 DEF Named
<1>4. cindex'[c] \in Index /\ Owned(cindex[c], c)'
  BY <1>1, <1>3 DEF FrozenInv, IndexOwned, Composing, Owned
<1>5. \A d \in Cids \ {c} : store'[d] = store[d]
  BY <1>2, <1>t DEF MoveFile, TypeOK
<1>6. \A q \in Procs : fd[q] = {} => fd'[q] = {}
  BY DEF MoveFile, Renamed
<1> HIDE DEF c
<1> QED
  BY <1>1, <1>2, <1>3, <1>4, <1>5, <1>6, CommitterFrozen, NobodyAdds
  DEF CommitSteps, Composing, Holding, Before, c

LEMMA OpenCurrentFrozen ==
    ASSUME OneCommitter, NoRivalAdd, FrozenInv, TypeInv', NEW p \in Procs,
           OpenCurrent(p)
    PROVE  FrozenInv' /\ FrozenStep
<1> DEFINE c == cid[p]
<1>t. TypeOK
  BY DEF FrozenInv, TypeInv
<1>1. /\ pc[p] = "moveFiles" /\ pc'[p] = "writeCurrent"
      /\ Goes(p, pc[p], pc'[p])
      /\ current' = Blank /\ fd'[p] = {CurrentFile}
      /\ UNCHANGED <<parent, cindex, store, dirs, cid>>
  BY <1>t DEF OpenCurrent, locals, Goes, TypeOK
<1>2. /\ c \in Cids /\ c \in dirs /\ c \notin Named /\ Named \subseteq dirs
      /\ pc[p] \in CommitSteps /\ current \notin Cids /\ current' \notin Cids
  BY <1>1, AtWork, BlankAssumption
  DEF Before, Composing, FrozenInv, CurrentTaken, Holding, BlankAssumption
<1>3. Named' = Named
  BY <1>1, <1>2 DEF Named
<1>4. cindex'[c] \in Index /\ Owned(cindex[c], c)'
  BY <1>1, <1>3 DEF FrozenInv, IndexOwned, Composing, Owned
<1>5. \A q \in Procs \ {p} : fd'[q] = fd[q]
  BY <1>t DEF OpenCurrent, TypeOK
<1> HIDE DEF c
<1> QED
  BY <1>1, <1>2, <1>3, <1>4, <1>5, CommitterFrozen, NobodyAdds
  DEF CommitSteps, Composing, Holding, Before, c

LEMMA WriteCurrentFrozen ==
    ASSUME OneCommitter, NoRivalAdd, FrozenInv, TypeInv', NEW p \in Procs,
           WriteCurrent(p)
    PROVE  FrozenInv' /\ FrozenStep
<1> DEFINE c == cid[p]
<1>t. TypeOK
  BY DEF FrozenInv, TypeInv
<1>1. /\ pc[p] = "writeCurrent" /\ pc'[p] = "probeMillis"
      /\ Goes(p, pc[p], pc'[p])
      /\ UNCHANGED <<cindex, store, dirs, cid>>
  BY <1>t DEF WriteCurrent, locals, Goes, TypeOK
<1>2. /\ c \in Cids /\ c \in dirs /\ c \notin Named /\ Named \subseteq dirs
      /\ pc[p] \in CommitSteps /\ current \notin Cids
  BY <1>1, AtWork DEF Before, Composing, FrozenInv, CurrentTaken, Holding
<1>3. current' = c /\ parent' = parent
  <2>1. fd[p] = {CurrentFile}
    BY <1>1 DEF FrozenInv, OpenFiles
  <2>2. \A d \in Cids : ParentFile(d) \notin fd[p]
    BY <2>1 DEF CurrentFile, ParentFile, Handle
  <2> QED
    BY <2>1, <2>2, <1>t DEF WriteCurrent, TypeOK
<1>4. Named' = Named \cup {c}
  BY <1>2, <1>3 DEF Named
<1>5. cindex'[c] \in Index /\ Owned(cindex[c], c)'
  BY <1>1, <1>4 DEF FrozenInv, IndexOwned, Composing, Owned
<1>6. \A q \in Procs \ {p} : fd'[q] = fd[q]
  BY <1>t DEF WriteCurrent, TypeOK
<1> HIDE DEF c
<1> QED
  BY <1>1, <1>2, <1>3, <1>4, <1>5, <1>6, CommitterFrozen, NobodyAdds
  DEF CommitSteps, Composing, Holding, Before, c

LEMMA NextFrozen ==
    ASSUME OneCommitter, NoRivalAdd, FrozenInv, [Next]_vars
    PROVE  FrozenInv' /\ FrozenStep
<1>1. TypeInv'
  BY NextType DEF FrozenInv
<1>2. CASE UNCHANGED vars
  <2>1. RolesKept' /\ AddersKept'
    BY <1>2 DEF vars, FrozenInv, RolesKept, AddersKept
  <2> QED
    BY <1>1, <1>2, <2>1, QuietFrozen
    DEF vars, disk, locals, FrozenInv, OpenFiles
<1>3. CASE \E f \in Files, d \in Data \cup {None} : Edit(f, d)
  <2>1. UNCHANGED <<current, parent, cindex, store, dirs, pc, cid, tree, fd>>
    BY <1>3 DEF Edit, locals
  <2>2. RolesKept' /\ AddersKept'
    BY <2>1 DEF FrozenInv, RolesKept, AddersKept
  <2> QED
    BY <1>1, <2>1, <2>2, QuietFrozen DEF FrozenInv, OpenFiles
<1>4. CASE \E p \in Procs : Works(p)
  <2> PICK p \in Procs : Works(p)
    BY <1>4
  <2>1. CASE \/ \E c \in Cids : CommitBegin(p, c)
             \/ TakeParent(p) \/ TakeRemove(p) \/ ReadIndex(p) \/ WriteIndex(p)
             \/ ListStage(p) \/ \E f \in Files : MoveFile(p, f)
             \/ OpenCurrent(p) \/ WriteCurrent(p)
    BY <1>1, <2>1, CommitBeginFrozen, TakeParentFrozen, TakeRemoveFrozen,
       ReadIndexFrozen, WriteIndexFrozen, ListStageFrozen, MoveFileFrozen,
       OpenCurrentFrozen, WriteCurrentFrozen
  <2> QED
    BY <1>1, <2>1, QuietActionsFrozen DEF Works, Start, Step
<1>5. CASE \E p \in Procs : Crash(p)
  BY <1>1, <1>5, QuietActionsFrozen DEF Crash
<1> QED
  BY <1>2, <1>3, <1>4, <1>5 DEF Next, Works

(* If one process commits and no other stages files, then the commits that *)
(* were ever current stay current or the parent of another, and neither    *)
(* their parents, their indexes nor the contents their lines lead to ever  *)
(* change, whatever is removed or unstaged meanwhile and whichever command *)
(* is killed half way.                                                     *)
THEOREM SnapshotsStayFrozen ==
    ASSUME OneCommitter, NoRivalAdd
    PROVE  Spec => SnapshotsFrozen
<1>1. FrozenInv /\ [Next]_vars => FrozenInv'
  BY NextFrozen
<1>2. FrozenInv /\ [Next]_vars => [FrozenStep]_vars
  BY NextFrozen
<1>3. Spec => [][FrozenStep]_vars
  BY <1>1, <1>2, InitFrozen, PTL DEF Spec
<1> QED
  BY <1>3, PTL DEF SnapshotsFrozen, FrozenStep
=============================================================================
