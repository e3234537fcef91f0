--------------------------- MODULE RepoSoloProofs ---------------------------
(***************************************************************************)
(* Theorems about a repository that one process at a time works on, for    *)
(* every set of files, commits and contents and any number of kills: its   *)
(* indexes match the store, and it implements Vcs.                         *)
(***************************************************************************)
EXTENDS RepoVcs, RepoProofs

-----------------------------------------------------------------------------
(* Indexes match the store.                                                *)

(* No two commands run at the same time.                                   *)
OneProcess == \A p, q \in Procs : p = q

(* The files that c has moved into the store, and those whose mv failed.   *)
Moved(c) == {f \in Files : store[c][f] # None}
Missed(c) == {f \in Files : <<c, f>> \in missed}

Untaken == {"takeParent", "takeRemove"}
Unmoved == Untaken \cup {"readIndex", "writeIndex", "listStage"}

(* An id that was not given yet has left nothing on disk.                  *)
Unused ==
    \A c \in Cids \ dirs : remove[c] = None /\ Moved(c) = {} /\ Missed(c) = {}

(* The names that an add and an rm have open are still those they opened.  *)
SoloFiles ==
    \A p \in Procs :
        /\ pc[p] = "rmFlush" => fd[p] = {StageRmFile}
        /\ \A f \in Files :
               buf[p][f] # None => pc[p] = "adding" /\ StageFile(f) \in fd[p]

(* The index of a commit under way holds the parent's lines, its own for   *)
(* what it has moved, could not move or will move, and none that it        *)
(* removes; what it has taken from the stage is there no more, and when    *)
(* current is opened nothing is staged but what could not be moved.        *)
Progress ==
    \A p \in Procs :
        LET c == cid[p]
        IN /\ pc[p] \in Untaken => remove[c] = None
           /\ pc[p] \in {"readIndex"} \cup Composing => stageRm = None
           /\ pc[p] \in Unmoved => Moved(c) = {} /\ Missed(c) = {}
           /\ pc[p] \in Holding =>
                  Moved(c) \cap Staged = {} /\ Missed(c) \subseteq Staged
           /\ pc[p] = "writeIndex" =>
                  tree[p] = Stamp(Inherited(parent[c]), Staged, c)
           /\ pc[p] \in {"listStage", "moveFiles", "writeCurrent"} =>
                  cindex[c] = Drop(Stamp(Inherited(parent[c]),
                                         Staged \cup Moved(c), c),
                                   Listed(remove[c]))
           /\ pc[p] = "moveFiles" => todo[p] = Staged \ Missed(c)
           /\ pc[p] = "writeCurrent" => Staged \subseteq Missed(c)

SoloInv ==
    /\ KeepInv
    /\ FrozenInv
    /\ Unused
    /\ SoloFiles
    /\ Progress
    /\ IndexMatchesStore

(* IndexMatchesStore, said of one commit.                                  *)
Matches(c) ==
    \A f \in Files :
        cindex[c][f] = IF f \in Listed(remove[c]) THEN None
                       ELSE IF Stored(c, f) THEN c
                       ELSE Inherited(parent[c])[f]

LEMMA InitSolo == Init => SoloInv
<1> SUFFICES ASSUME Init PROVE SoloInv
  OBVIOUS
<1>1. KeepInv /\ FrozenInv
  BY InitKeeps, InitFrozen
<1>2. Named = {}
  BY NoneAssumption DEF Init, Named, NoneAssumption
<1>3. Unused /\ SoloFiles /\ Progress
  BY DEF Init, Unused, SoloFiles, Progress, Moved, Missed, NoCopies, Untaken,
         Unmoved, Holding, Composing
<1> QED
  BY <1>1, <1>2, <1>3 DEF SoloInv, IndexMatchesStore

(* What a commit inherits is frozen.                                       *)
LEMMA InheritedFrozen ==
    ASSUME FrozenStep, NEW c \in Cids, UNCHANGED parent[c]
    PROVE  Inherited(parent[c])' = Inherited(parent[c])
<1>1. CASE parent[c] \in Cids
  <2>1. parent[c] \in Named
    BY <1>1 DEF Named
  <2> QED
    BY <1>1, <2>1 DEF FrozenStep, Inherited
<1>2. CASE parent[c] \notin Cids
  BY <1>2 DEF Inherited
<1> QED
  BY <1>1, <1>2

(* A named commit whose own files stay as they are still matches.          *)
LEMMA StillMatches ==
    ASSUME SoloInv, FrozenStep, NEW c \in Named,
           UNCHANGED <<remove[c], store[c]>>, Missed(c)' = Missed(c)
    PROVE  Matches(c)'
<1>1. c \in Cids /\ UNCHANGED <<parent[c], cindex[c]>>
  BY DEF Named, FrozenStep
<1>2. Inherited(parent[c])' = Inherited(parent[c])
  BY <1>1, InheritedFrozen
<1>3. \A f \in Files : Stored(c, f)' = Stored(c, f)
  <2>1. \A f \in Files : (<<c, f>> \in missed') = (<<c, f>> \in missed)
    BY DEF Missed
  <2> QED
    BY <2>1 DEF Stored
<1> QED
  BY <1>1, <1>2, <1>3 DEF SoloInv, IndexMatchesStore, Matches

(* The steps of the only process that name no commit.                      *)
LEMMA SoloStep ==
    ASSUME SoloInv, KeepInv', FrozenInv', FrozenStep, Named' = Named,
           \A c \in Named : UNCHANGED <<remove[c], store[c]>>,
           \A c \in Named : Missed(c)' = Missed(c),
           Unused', SoloFiles', Progress'
    PROVE  SoloInv'
BY StillMatches DEF SoloInv, IndexMatchesStore, Matches

(* The commands that are not a commit, and the end of a commit.            *)
LEMMA SoloCommands ==
    ASSUME OneProcess, SoloInv, KeepInv', FrozenInv', FrozenStep,
           NEW p \in Procs,
           \/ \E args \in SUBSET Files : AddBegin(p, args)
           \/ \E f \in Files : AddOpen(p, f) \/ AddFlush(p, f) \/ Unadd(p, f)
           \/ \E gone \in SUBSET Files : RmUnlink(p, gone)
           \/ AddExit(p) \/ RmFlush(p)
           \/ AppendMillis(p) \/ WriteMillis(p)
           \/ Exits(p) /\ UNCHANGED <<disk, missed>>
    PROVE  SoloInv'
<1> USE DEF Goes, Starts, locals, faults, CommitSteps
<1>t. TypeOK /\ Unused /\ SoloFiles /\ OpenFiles /\ \A q \in Procs : q = p
  BY DEF SoloInv, FrozenInv, TypeInv, OneProcess
<1>1. ASSUME pc'[p] \in {"idle", "adding", "rmFlush"}, SoloFiles',
             UNCHANGED <<dirs, remove, store, current, parent, missed>>
      PROVE  SoloInv'
  <2>1. Progress'
    BY <1>1, <1>t DEF Progress, Untaken, Unmoved, Holding, Composing
  <2> QED
    BY <1>1, <1>t, <2>1, SoloStep DEF Unused, Named, Moved, Missed
<1>2. CASE \E args \in SUBSET Files : AddBegin(p, args)
  <2> PICK args \in SUBSET Files : AddBegin(p, args)
    BY <1>2
  <2>1. /\ pc[p] = "idle" /\ pc'[p] = "adding"
        /\ UNCHANGED <<dirs, remove, store, current, parent, missed, buf>>
    BY <1>t DEF AddBegin, TypeOK, disk
  <2> QED
    BY <1>t, <1>1, <2>1 DEF SoloFiles
<1>3. CASE \E f \in Files : AddOpen(p, f)
  <2> PICK f \in Files : AddOpen(p, f)
    BY <1>3
  <2>1. /\ pc[p] = "adding" /\ pc'[p] = "adding"
        /\ UNCHANGED <<dirs, remove, store, current, parent, missed>>
    BY DEF AddOpen
  <2>2. \A g \in Files : buf'[p][g] # None => StageFile(g) \in fd'[p]
    BY <1>t DEF AddOpen, SoloFiles, TypeOK, Copies, NoCopies
  <2> QED
    BY <1>t, <1>1, <2>1, <2>2 DEF SoloFiles
<1>4. CASE \E f \in Files : AddFlush(p, f)
  <2> PICK f \in Files : AddFlush(p, f)
    BY <1>4
  <2>1. /\ pc[p] = "adding" /\ pc'[p] = "adding" /\ fd' = fd
        /\ UNCHANGED <<dirs, remove, current, parent, missed>>
    BY DEF AddFlush
  <2>2. store' = store
    BY <1>t, <2>1 DEF AddFlush, OpenFiles, TypeOK
  <2>3. \A g \in Files : buf'[p][g] # None => buf[p][g] # None
    BY <1>t DEF AddFlush, TypeOK, Copies
  <2> QED
    BY <1>t, <1>1, <2>1, <2>2, <2>3 DEF SoloFiles
<1>5. CASE \E f \in Files : Unadd(p, f)
  <2> PICK f \in Files : Unadd(p, f)
    BY <1>5
  <2>1. /\ pc[p] = "idle" /\ pc'[p] = "idle"
        /\ UNCHANGED <<dirs, remove, store, current, parent, missed, buf>>
    BY DEF Unadd
  <2> QED
    BY <1>t, <1>1, <2>1 DEF SoloFiles
<1>6. CASE \E gone \in SUBSET Files : RmUnlink(p, gone)
  <2> PICK gone \in SUBSET Files : RmUnlink(p, gone)
    BY <1>6
  <2>1. /\ pc[p] = "idle" /\ pc'[p] = "rmFlush" /\ fd'[p] = {StageRmFile}
        /\ UNCHANGED <<dirs, remove, store, current, parent, missed, buf>>
    BY <1>t DEF RmUnlink, TypeOK
  <2> QED
    BY <1>t, <1>1, <2>1 DEF SoloFiles
<1>7. CASE \/ AddExit(p) \/ RmFlush(p) \/ AppendMillis(p) \/ WriteMillis(p)
           \/ Exits(p) /\ UNCHANGED <<disk, missed>>
  <2>1. pc'[p] = "idle" /\ buf'[p] = NoCopies
    BY <1>7, <1>t
    DEF AddExit, RmFlush, AppendMillis, WriteMillis, Exits, TypeOK
  <2>2. UNCHANGED <<dirs, remove, store, current, parent, missed>>
    <3>1. CASE RmFlush(p)
      <4>1. \A c \in Cids : RemoveFile(c) \notin fd[p]
        BY <1>t, <3>1
        DEF RmFlush, SoloFiles, StageRmFile, RemoveFile, Handle
      <4> QED
        BY <1>t, <3>1, <4>1 DEF RmFlush, TypeOK
    <3> QED
      BY <1>7, <3>1 DEF AddExit, AppendMillis, WriteMillis, disk
  <2>3. SoloFiles'
    BY <1>t, <2>1 DEF SoloFiles, NoCopies
  <2> QED
    BY <1>1, <2>1, <2>2, <2>3
<1> QED
  BY <1>2, <1>3, <1>4, <1>5, <1>6, <1>7

LEMMA SoloBegin ==
    ASSUME OneProcess, SoloInv, KeepInv', FrozenInv', FrozenStep,
           NEW p \in Procs, NEW c \in Cids, CommitBegin(p, c)
    PROVE  SoloInv'
<1>t. TypeOK /\ Unused /\ SoloFiles /\ \A q \in Procs : q = p
  BY DEF SoloInv, FrozenInv, TypeInv, OneProcess
<1>1. /\ pc'[p] = "takeParent" /\ cid'[p] = c /\ c \notin dirs
      /\ dirs' = dirs \cup {c}
      /\ pc[p] = "idle"
      /\ UNCHANGED <<remove, store, current, parent, buf, missed>>
  BY <1>t DEF CommitBegin, Starts, Goes, faults, TypeOK
<1>2. Unused' /\ SoloFiles'
  BY <1>t, <1>1 DEF Unused, SoloFiles, Moved, Missed
<1>3. Progress'
  BY <1>t, <1>1
  DEF Progress, Unused, Moved, Missed, Untaken, Unmoved, Holding, Composing
<1> QED
  BY <1>1, <1>2, <1>3, SoloStep DEF Named, Missed

LEMMA SoloTakeParent ==
    ASSUME OneProcess, SoloInv, KeepInv', FrozenInv', FrozenStep,
           NEW p \in Procs, TakeParent(p)
    PROVE  SoloInv'
<1> DEFINE c == cid[p]
<1>t. TypeOK /\ Unused /\ SoloFiles /\ Progress /\ \A q \in Procs : q = p
  BY DEF SoloInv, FrozenInv, TypeInv, OneProcess
<1>1. /\ pc[p] = "takeParent" /\ pc'[p] = "takeRemove"
      /\ UNCHANGED <<dirs, remove, store, cid, buf, missed>>
  BY <1>t DEF TakeParent, Goes, locals, faults, TypeOK
<1>2. c \in Cids /\ parent[c] = None /\ c \notin Named
  BY <1>1, AtWork DEF SoloInv, FrozenInv, FreshParent, Before
<1>3. Named' = Named
  BY <1>1, <1>2, <1>t, NoneAssumption
  DEF TakeParent, Named, TypeOK, NoneAssumption
<1>4. Unused' /\ SoloFiles'
  BY <1>t, <1>1 DEF Unused, SoloFiles, Moved, Missed
<1>5. Moved(cid[p])' = {} /\ Missed(cid[p])' = {}
  BY <1>t, <1>1 DEF Progress, Unmoved, Untaken, Moved, Missed
<1>6. Progress'
  BY <1>t, <1>1, <1>5 DEF Progress, Untaken, Unmoved, Holding, Composing
<1> QED
  BY <1>1, <1>3, <1>4, <1>6, SoloStep DEF Missed

LEMMA SoloTakeRemove ==
    ASSUME OneProcess, SoloInv, KeepInv', FrozenInv', FrozenStep,
           NEW p \in Procs, TakeRemove(p)
    PROVE  SoloInv'
<1> DEFINE c == cid[p]
<1>t. TypeOK /\ Unused /\ SoloFiles /\ Progress /\ \A q \in Procs : q = p
  BY DEF SoloInv, FrozenInv, TypeInv, OneProcess
<1>1. /\ pc[p] = "takeRemove" /\ pc'[p] = "readIndex"
      /\ UNCHANGED <<dirs, stage, store, cid, current, parent, buf, missed>>
      /\ stageRm' = None
  BY <1>t DEF TakeRemove, Goes, locals, faults, TypeOK
<1>2. c \in Cids /\ c \in dirs /\ c \notin Named
  BY <1>1, AtWork DEF SoloInv, FrozenInv, Before
<1>3. \A d \in Cids \ {c} : remove'[d] = remove[d]
  BY <1>2, <1>t DEF TakeRemove, TypeOK
<1>4. Unused' /\ SoloFiles'
  BY <1>t, <1>1, <1>2, <1>3 DEF Unused, SoloFiles, Moved, Missed
<1>5. Moved(c)' = Moved(c) /\ Missed(c)' = Missed(c) /\ Staged' = Staged
  BY <1>1 DEF Moved, Missed, Staged
<1>6. Progress'
  BY <1>t, <1>1, <1>5 DEF Progress, Untaken, Unmoved, Holding, Composing
<1> QED
  BY <1>1, <1>2, <1>3, <1>4, <1>6, SoloStep DEF Named, Missed

LEMMA SoloReadIndex ==
    ASSUME OneProcess, SoloInv, KeepInv', FrozenInv', FrozenStep,
           NEW p \in Procs, ReadIndex(p)
    PROVE  SoloInv'
<1> DEFINE c == cid[p]
<1>t. TypeOK /\ Unused /\ SoloFiles /\ Progress /\ \A q \in Procs : q = p
  BY DEF SoloInv, FrozenInv, TypeInv, OneProcess
<1>1. CASE Exits(p)
  BY <1>1, SoloCommands DEF ReadIndex, faults
<1>2. CASE Goes(p, "readIndex", "writeIndex") /\ ~ Exits(p)
  <2>1. /\ pc[p] = "readIndex" /\ pc'[p] = "writeIndex"
        /\ tree'[p] = Stamp(Inherited(parent[c]), Staged, c)
        /\ UNCHANGED <<disk, cid, buf, missed>>
    BY <1>2, <1>t DEF ReadIndex, Goes, faults, TypeOK
  <2>2. Unused' /\ SoloFiles'
    BY <1>t, <2>1 DEF Unused, SoloFiles, Moved, Missed, disk
  <2>3. /\ Inherited(parent[c])' = Inherited(parent[c])
        /\ Staged' = Staged /\ Moved(c)' = Moved(c) /\ c' = c
        /\ Missed(c)' = Missed(c) /\ stageRm' = stageRm
    BY <2>1 DEF Inherited, Staged, Moved, Missed, disk
  <2>4. Progress'
    BY <1>t, <2>1, <2>3 DEF Progress, Untaken, Unmoved, Holding, Composing
  <2> QED
    BY <2>1, <2>2, <2>4, SoloStep DEF Named, Missed, disk
<1> QED
  BY <1>1, <1>2 DEF ReadIndex

LEMMA SoloWriteIndex ==
    ASSUME OneProcess, SoloInv, KeepInv', FrozenInv', FrozenStep,
           NEW p \in Procs, WriteIndex(p)
    PROVE  SoloInv'
<1> DEFINE c == cid[p]
<1>t. TypeOK /\ Unused /\ SoloFiles /\ Progress /\ \A q \in Procs : q = p
  BY DEF SoloInv, FrozenInv, TypeInv, OneProcess
<1>1. /\ pc[p] = "writeIndex" /\ pc'[p] = "listStage"
      /\ UNCHANGED <<dirs, store, stage, stageRm, cid, current, parent,
                     remove, buf, missed>>
  BY <1>t DEF WriteIndex, Goes, faults, TypeOK
<1>2. c \in Cids /\ c \in dirs /\ c \notin Named
  BY <1>1, AtWork DEF SoloInv, FrozenInv, Before, Composing
<1>3. /\ Moved(c) = {}
      /\ tree[p] = Stamp(Inherited(parent[c]), Staged, c)
  BY <1>t, <1>1 DEF Progress, Unmoved
<1>4. cindex'[c] = Drop(Stamp(Inherited(parent[c]), Staged \cup Moved(c), c),
                        Listed(remove[c]))
  BY <1>2, <1>3, <1>t DEF WriteIndex, TypeOK
<1>5. Unused' /\ SoloFiles'
  BY <1>t, <1>1 DEF Unused, SoloFiles, Moved, Missed
<1>6. /\ Inherited(parent[c])' = Inherited(parent[c])
      /\ Staged' = Staged /\ Moved(c)' = Moved(c) /\ c' = c
      /\ Missed(c)' = Missed(c)
  BY <1>1, <1>2, InheritedFrozen DEF Staged, Moved, Missed
<1>7. Progress'
  BY <1>t, <1>1, <1>3, <1>4, <1>6
  DEF Progress, Untaken, Unmoved, Holding, Composing
<1> QED
  BY <1>1, <1>5, <1>7, SoloStep DEF Named, Missed

LEMMA SoloListStage ==
    ASSUME OneProcess, SoloInv, KeepInv', FrozenInv', FrozenStep,
           NEW p \in Procs, ListStage(p)
    PROVE  SoloInv'
<1> DEFINE c == cid[p]
<1>t. TypeOK /\ Unused /\ SoloFiles /\ Progress /\ \A q \in Procs : q = p
  BY DEF SoloInv, FrozenInv, TypeInv, OneProcess
<1>1. /\ pc[p] = "listStage" /\ pc'[p] = "moveFiles" /\ todo'[p] = Staged
      /\ UNCHANGED <<disk, cid, buf, missed>>
  BY <1>t DEF ListStage, Goes, faults, TypeOK
<1>2. Unused' /\ SoloFiles'
  BY <1>t, <1>1 DEF Unused, SoloFiles, Moved, Missed, disk
<1>3. /\ Inherited(parent[c])' = Inherited(parent[c])
      /\ Staged' = Staged /\ Moved(c)' = Moved(c) /\ c' = c
      /\ Missed(c)' = Missed(c)
  BY <1>1 DEF Inherited, Staged, Moved, Missed, disk
<1>4. cindex'[c] = cindex[c] /\ remove'[c] = remove[c] /\ stageRm' = stageRm
  BY <1>1 DEF disk
<1>5. Progress'
  BY <1>t, <1>1, <1>3, <1>4 DEF Progress, Untaken, Unmoved, Holding, Composing
<1> QED
  BY <1>1, <1>2, <1>5, SoloStep DEF Named, Missed, disk

(* A file that moves leaves the stage and is in the store; otherwise it    *)
(* stays where it is, and is known to have stayed.                         *)
LEMMA MoveFileMoves ==
    ASSUME SoloInv, NEW p \in Procs, NEW f \in Files, MoveFile(p, f)
    PROVE  /\ stage[f] # None /\ f \notin Missed(cid[p])
           /\ todo'[p] = todo[p] \ {f}
           /\ \/ /\ store' = [store EXCEPT ![cid[p]] =
                                  [store[cid[p]] EXCEPT ![f] = stage[f]]]
                 /\ stage' = [stage EXCEPT ![f] = None]
                 /\ Staged' = Staged \ {f}
                 /\ Moved(cid[p])' = Moved(cid[p]) \cup {f}
                 /\ missed' = missed
              \/ /\ UNCHANGED <<store, stage>>
                 /\ missed' = missed \cup {<<cid[p], f>>}
                 /\ Missed(cid[p])' = Missed(cid[p]) \cup {f}
<1>t. TypeOK /\ Progress
  BY DEF SoloInv, FrozenInv, TypeInv
<1>1. cid[p] \in Cids /\ cid' = cid
  BY AtWork DEF MoveFile, SoloInv, FrozenInv, Before, Composing
<1>2. f \in todo[p] /\ todo[p] = Staged \ Missed(cid[p])
  BY <1>t DEF MoveFile, Progress
<1>3. stage[f] # None /\ f \notin Missed(cid[p])
  BY <1>2 DEF Staged
<1>4. todo'[p] = todo[p] \ {f}
  BY <1>t DEF MoveFile, TypeOK
<1>5. CASE missed' = missed \cup {<<cid[p], f>>} /\ UNCHANGED <<stage, store>>
  <2>1. Missed(cid[p])' = Missed(cid[p]) \cup {f}
    BY <1>1, <1>5 DEF Missed
  <2> QED
    BY <1>3, <1>4, <1>5, <2>1
<1>6. CASE /\ store' = [store EXCEPT ![cid[p]][f] = stage[f]]
           /\ stage' = [stage EXCEPT ![f] = None]
           /\ missed' = missed
  <2>1. store' = [store EXCEPT ![cid[p]] =
                      [store[cid[p]] EXCEPT ![f] = stage[f]]]
    BY <1>1, <1>6, <1>t DEF TypeOK
  <2>2. Staged' = Staged \ {f}
    BY <1>6, <1>t DEF Staged, TypeOK
  <2>3. Moved(cid[p])' = Moved(cid[p]) \cup {f}
    BY <1>1, <1>3, <1>6, <1>t DEF Moved, TypeOK
  <2> QED
    BY <1>3, <1>4, <1>6, <2>1, <2>2, <2>3
<1> QED
  BY <1>5, <1>6 DEF MoveFile

LEMMA SoloMoveFile ==
    ASSUME OneProcess, SoloInv, KeepInv', FrozenInv', FrozenStep,
           NEW p \in Procs, NEW f \in Files, MoveFile(p, f)
    PROVE  SoloInv'
<1> DEFINE c == cid[p]
<1>t. TypeOK /\ Unused /\ SoloFiles /\ Progress /\ \A q \in Procs : q = p
  BY DEF SoloInv, FrozenInv, TypeInv, OneProcess
<1>1. /\ pc[p] = "moveFiles" /\ pc'[p] = "moveFiles"
      /\ UNCHANGED <<dirs, cid, current, parent, remove, cindex, stageRm, buf>>
  BY <1>t DEF MoveFile, TypeOK
<1>2. c \in Cids /\ c \in dirs /\ c \notin Named
  BY <1>1, AtWork DEF SoloInv, FrozenInv, Before, Composing
<1>3. /\ Staged \cap Moved(c) = {} /\ Missed(c) \subseteq Staged
      /\ todo[p] = Staged \ Missed(c)
  BY <1>1, <1>t DEF Progress, Holding, Composing
<1>4. /\ \A d \in Cids \ {c} :
             store'[d] = store[d] /\ Missed(d)' = Missed(d)
      /\ Staged' \cup Moved(c)' = Staged \cup Moved(c)
      /\ Staged' \cap Moved(c)' = {}
      /\ Missed(c)' \subseteq Staged'
      /\ todo'[p] = Staged' \ Missed(c)'
  <2>1. f \in Staged /\ f \notin Missed(c) /\ todo'[p] = todo[p] \ {f}
    BY MoveFileMoves DEF Staged
  <2>2. CASE /\ store' = [store EXCEPT ![c] = [store[c] EXCEPT ![f] = stage[f]]]
             /\ Staged' = Staged \ {f}
             /\ Moved(c)' = Moved(c) \cup {f}
             /\ missed' = missed
    <3>1. /\ \A d \in Cids : Missed(d)' = Missed(d)
          /\ Missed(c)' = Missed(c)
      BY <1>1, <2>2 DEF Missed
    <3>2. \A d \in Cids \ {c} : store'[d] = store[d]
      BY <1>2, <1>t, <2>2 DEF TypeOK
    <3> QED
      BY <1>3, <2>1, <2>2, <3>1, <3>2
  <2>3. CASE /\ UNCHANGED <<store, stage>>
             /\ missed' = missed \cup {<<c, f>>}
             /\ Missed(c)' = Missed(c) \cup {f}
    <3>1. \A d \in Cids \ {c} : Missed(d)' = Missed(d)
      BY <2>3 DEF Missed
    <3>2. Staged' = Staged /\ Moved(c)' = Moved(c)
      BY <1>1, <2>3 DEF Staged, Moved
    <3> QED
      BY <1>3, <2>1, <2>3, <3>1, <3>2
  <2> QED
    BY <2>2, <2>3, MoveFileMoves
<1>5. Unused' /\ SoloFiles'
  BY <1>t, <1>1, <1>2, <1>4 DEF Unused, SoloFiles, Moved
<1>6. Inherited(parent[c])' = Inherited(parent[c]) /\ c' = c
  BY <1>1, <1>2, InheritedFrozen
<1>7. stageRm' = None /\ cindex'[c] = Drop(Stamp(Inherited(parent[c])',
                                                Staged' \cup Moved(c)', c),
                                          Listed(remove'[c]))
  BY <1>t, <1>1, <1>4, <1>6 DEF Progress, Composing
<1>8. Progress'
  BY <1>t, <1>1, <1>4, <1>6, <1>7
  DEF Progress, Untaken, Unmoved, Holding, Composing
<1> QED
  BY <1>1, <1>2, <1>4, <1>5, <1>8, SoloStep DEF Named

LEMMA SoloOpenCurrent ==
    ASSUME OneProcess, SoloInv, KeepInv', FrozenInv', FrozenStep,
           NEW p \in Procs, OpenCurrent(p)
    PROVE  SoloInv'
<1> DEFINE c == cid[p]
<1>t. TypeOK /\ Unused /\ SoloFiles /\ Progress /\ \A q \in Procs : q = p
  BY DEF SoloInv, FrozenInv, TypeInv, OneProcess
<1>1. /\ pc[p] = "moveFiles" /\ pc'[p] = "writeCurrent" /\ todo[p] = {}
      /\ current' = Blank
      /\ UNCHANGED <<dirs, cid, stage, stageRm, store, parent, remove, cindex,
                     buf, missed>>
  BY <1>t DEF OpenCurrent, locals, faults, Goes, TypeOK
<1>2. c \in Cids /\ current \notin Cids /\ current' \notin Cids
  BY <1>1, AtWork, BlankAssumption
  DEF SoloInv, FrozenInv, Before, Composing, CurrentTaken, Holding,
      BlankAssumption
<1>3. Named' = Named
  BY <1>1, <1>2 DEF Named
<1>4. Unused' /\ SoloFiles'
  BY <1>t, <1>1 DEF Unused, SoloFiles, Moved, Missed
<1>5. /\ Inherited(parent[c])' = Inherited(parent[c]) /\ c' = c
      /\ Staged' = Staged /\ Moved(c)' = Moved(c)
      /\ Missed(c)' = Missed(c)
  BY <1>1, <1>2, InheritedFrozen DEF Staged, Moved, Missed
<1>6. /\ Staged \subseteq Missed(c) /\ Missed(c) \subseteq Staged
      /\ Moved(c) \cap Staged = {} /\ stageRm = None
      /\ cindex[c] = Drop(Stamp(Inherited(parent[c]), Staged \cup Moved(c), c),
                          Listed(remove[c]))
  BY <1>t, <1>1 DEF Progress, Holding, Composing
<1>7. Progress'
  BY <1>t, <1>1, <1>5, <1>6 DEF Progress, Untaken, Unmoved, Holding, Composing
<1> QED
  BY <1>1, <1>3, <1>4, <1>7, SoloStep DEF Missed

LEMMA SoloProbeMillis ==
    ASSUME OneProcess, SoloInv, KeepInv', FrozenInv', FrozenStep,
           NEW p \in Procs, ProbeMillis(p)
    PROVE  SoloInv'
<1>t. TypeOK /\ Unused /\ SoloFiles /\ \A q \in Procs : q = p
  BY DEF SoloInv, FrozenInv, TypeInv, OneProcess
<1>1. /\ pc'[p] \in {"appendMillis", "writeMillis"}
      /\ pc[p] = "probeMillis"
      /\ UNCHANGED <<dirs, store, current, parent, remove, buf, missed>>
  BY <1>t DEF ProbeMillis, Goes, locals, faults, TypeOK
<1>2. Unused' /\ SoloFiles' /\ Progress'
  BY <1>t, <1>1
  DEF Unused, SoloFiles, Progress, Moved, Missed, Untaken, Unmoved, Holding,
      Composing
<1> QED
  BY <1>1, <1>2, SoloStep DEF Named, Missed

(* The commit that becomes current matches what it has moved, or could not *)
(* move.                                                                   *)
LEMMA SoloWriteCurrent ==
    ASSUME OneProcess, SoloInv, KeepInv', FrozenInv', FrozenStep,
           NEW p \in Procs, WriteCurrent(p)
    PROVE  SoloInv' /\ Named' = Named \cup {cid[p]}
<1> DEFINE c == cid[p]
<1>t. TypeOK /\ Unused /\ SoloFiles /\ Progress /\ \A q \in Procs : q = p
  BY DEF SoloInv, FrozenInv, TypeInv, OneProcess
<1>1. /\ pc[p] = "writeCurrent" /\ pc'[p] = "probeMillis"
      /\ UNCHANGED <<dirs, cid, stage, store, remove, cindex, buf, missed>>
  BY <1>t DEF WriteCurrent, locals, faults, Goes, TypeOK
<1>2. c \in Cids /\ current \notin Cids
  BY <1>1, AtWork
  DEF SoloInv, FrozenInv, Before, Composing, CurrentTaken, Holding
<1>3. current' = c /\ parent' = parent
  <2>1. fd[p] = {CurrentFile}
    BY <1>1 DEF SoloInv, FrozenInv, OpenFiles
  <2>2. \A d \in Cids : ParentFile(d) \notin fd[p]
    BY <2>1 DEF CurrentFile, ParentFile, Handle
  <2> QED
    BY <2>1, <2>2, <1>t DEF WriteCurrent, TypeOK
<1>4. Named' = Named \cup {c}
  BY <1>2, <1>3 DEF Named
<1>5. cindex[c] = Drop(Stamp(Inherited(parent[c]), Missed(c) \cup Moved(c), c),
                       Listed(remove[c]))
  <2>1. /\ Staged \subseteq Missed(c) /\ Missed(c) \subseteq Staged
        /\ cindex[c] = Drop(Stamp(Inherited(parent[c]),
                                  Staged \cup Moved(c), c),
                            Listed(remove[c]))
    BY <1>1, <1>t DEF Progress, Holding, Composing
  <2>2. Staged = Missed(c)
    BY <2>1
  <2> QED
    BY <2>1, <2>2
<1>6. Inherited(parent[c])' = Inherited(parent[c]) /\ c' = c
  BY <1>1, <1>2, <1>3, InheritedFrozen
<1>7. Matches(c)'
  <2>1. \A f \in Files : Stored(c, f)' = (f \in Missed(c) \cup Moved(c))
    BY <1>1, <1>6 DEF Stored, Moved, Missed
  <2> QED
    BY <1>1, <1>5, <1>6, <2>1 DEF Matches, Drop, Stamp
<1>8. IndexMatchesStore'
  BY <1>1, <1>4, <1>7, StillMatches DEF IndexMatchesStore, Matches, Missed
<1>9. Unused' /\ SoloFiles' /\ Progress'
  BY <1>t, <1>1
  DEF Unused, SoloFiles, Progress, Moved, Missed, Untaken, Unmoved, Holding,
      Composing
<1> QED
  BY <1>4, <1>8, <1>9 DEF SoloInv

LEMMA NextSolo ==
    ASSUME OneProcess, SoloInv, [Next]_vars
    PROVE  SoloInv' /\ FrozenStep
<1>1. OneCommitter /\ NoRivalUnadd /\ NoRivalAdd
  BY DEF OneProcess, OneCommitter, NoRivalUnadd, NoRivalAdd
<1>2. KeepInv' /\ FrozenInv' /\ FrozenStep
  BY <1>1, NextKeeps, NextFrozen DEF SoloInv
<1>3. CASE UNCHANGED vars
  <2>1. UNCHANGED <<disk, pc, locals, fd, missed>>
    BY <1>3 DEF vars, faults
  <2>2. Unused' /\ SoloFiles'
    BY <2>1 DEF disk, locals, SoloInv, Unused, SoloFiles, Moved, Missed
  <2>3. Progress'
    BY <2>1, ZenonT(30)
    DEF disk, locals, SoloInv, Progress, Moved, Missed, Staged, Inherited
  <2> QED
    BY <1>2, <2>1, <2>2, <2>3, SoloStep DEF Named, Missed, disk
<1>4. CASE \E f \in Files, d \in Data \cup {None} : Edit(f, d)
  <2>1. UNCHANGED <<stage, stageRm, current, dirs, parent, remove, cindex,
                    store, pc, locals, fd, missed>>
    BY <1>4 DEF Edit, faults
  <2>2. Unused' /\ SoloFiles'
    BY <2>1 DEF locals, SoloInv, Unused, SoloFiles, Moved, Missed
  <2>3. Progress'
    BY <2>1, ZenonT(30)
    DEF locals, SoloInv, Progress, Moved, Missed, Staged, Inherited
  <2> QED
    BY <1>2, <2>1, <2>2, <2>3, SoloStep DEF Named, Missed
<1>5. CASE \E p \in Procs : Works(p)
  <2> PICK p \in Procs : Works(p)
    BY <1>5
  <2>1. CASE \/ \E c \in Cids : CommitBegin(p, c)
             \/ TakeParent(p) \/ TakeRemove(p) \/ ReadIndex(p) \/ WriteIndex(p)
             \/ ListStage(p) \/ \E f \in Files : MoveFile(p, f)
             \/ OpenCurrent(p) \/ WriteCurrent(p) \/ ProbeMillis(p)
    BY <1>2, <2>1, SoloBegin, SoloTakeParent, SoloTakeRemove, SoloReadIndex,
       SoloWriteIndex, SoloListStage, SoloMoveFile, SoloOpenCurrent,
       SoloWriteCurrent, SoloProbeMillis
  <2> QED
    BY <1>2, <2>1, SoloCommands DEF Works, Start, Step
<1>6. CASE \E p \in Procs : Crash(p)
  BY <1>2, <1>6, SoloCommands DEF Crash
<1> QED
  BY <1>2, <1>3, <1>4, <1>5, <1>6 DEF Next, Works

(* With one command at a time, the index of every commit that was ever     *)
(* current says exactly what the commit took from the stage (or failed to  *)
(* take, when its mv fails), what it inherited from its parent and what it *)
(* removed, whenever commands are killed and mv fails.                     *)
THEOREM IndexesMatch ==
    ASSUME OneProcess
    PROVE  Spec => []IndexMatchesStore
<1>1. SoloInv /\ [Next]_vars => SoloInv'
  BY NextSolo
<1>2. SoloInv => IndexMatchesStore
  BY DEF SoloInv
<1> QED
  BY <1>1, <1>2, InitSolo, PTL DEF Spec
-----------------------------------------------------------------------------
(* The refinement mapping, when one process runs.                          *)

(* Outside of TookCurrent the mapping shows what is on disk.               *)
LEMMA AtRest ==
    ASSUME \A p \in Procs : pc[p] \notin TookCurrent
    PROVE  /\ tipBar = AsTip(current)
           /\ stagedBar = [f \in Files |-> stage[f]]
           /\ removingBar = Listed(stageRm)
<1>1. Pending = {}
  BY DEF Pending
<1> QED
  BY <1>1 DEF tipBar, stagedBar, removingBar

(* While the commit c holds what was current, the mapping puts back what c *)
(* has taken.                                                              *)
LEMMA Underway ==
    ASSUME OneProcess, NEW p \in Procs, pc[p] \in TookCurrent
    PROVE  /\ tipBar = AsTip(parent[cid[p]])
           /\ stagedBar = [f \in Files |->
                              IF store[cid[p]][f] # None THEN store[cid[p]][f]
                                                         ELSE stage[f]]
           /\ removingBar = Listed(stageRm) \cup Listed(remove[cid[p]])
<1>1. Pending = {cid[p]}
  BY DEF OneProcess, Pending
<1>2. (CHOOSE c \in Pending : TRUE) = cid[p]
  BY <1>1
<1>3. \A f \in Files : store[cid[p]][f] # None =>
          (CHOOSE c \in Pending : store[c][f] # None) = cid[p]
  BY <1>1
<1> QED
  BY <1>1, <1>2, <1>3 DEF tipBar, stagedBar, removingBar

(* What is named keeps its place and its files.                            *)
LEMMA NamedBars ==
    ASSUME SoloInv, FrozenStep, Named' = Named
    PROVE  UNCHANGED <<upBar, snapBar>>
<1>1. \A c \in Named : c \in Cids /\ cindex[c] \in Index
  BY DEF Named, SoloInv, FrozenInv, NamedOwned
<1>2. \A c \in Named :
          /\ cindex'[c] = cindex[c] /\ parent'[c] = parent[c]
          /\ \A f \in Files : cindex[c][f] # None =>
                 store'[cindex[c][f]][f] = store[cindex[c][f]][f]
  BY DEF FrozenStep, Entries
<1>3. ASSUME NEW c \in Named
      PROVE  Snapshot(c)' = Snapshot(c)
  <2>1. cindex'[c] = cindex[c]
    BY <1>2
  <2>2. \A f \in Files : cindex[c][f] # None =>
            store'[cindex[c][f]][f] = store[cindex[c][f]][f]
    BY <1>2
  <2>3. \A f \in Files :
            (IF cindex'[c][f] = None THEN None ELSE store'[cindex'[c][f]][f])
            = (IF cindex[c][f] = None THEN None ELSE store[cindex[c][f]][f])
    BY <2>1, <2>2
  <2> QED
    BY <2>3, Zenon DEF Snapshot
<1>4. upBar' = upBar
  BY <1>2 DEF upBar, AsTip
<1>5. \A c \in Cids : (IF c \in Named' THEN Snapshot(c)' ELSE None)
                     = (IF c \in Named THEN Snapshot(c) ELSE None)
  BY <1>3
<1>6. snapBar' = snapBar
  BY <1>5, Zenon DEF snapBar
<1> QED
  BY <1>4, <1>6

-----------------------------------------------------------------------------
(* Every step is a step of Vcs or none.                                    *)

SameBars == UNCHANGED <<stagedBar, removingBar, tipBar, upBar, snapBar>>

Same == SameBars /\ missed' = missed

(* A step with no commit under way that writes neither current nor a       *)
(* commit's files.                                                         *)
LEMMA StepAtRest ==
    ASSUME SoloInv, FrozenStep,
           \A p \in Procs : pc[p] \notin TookCurrent,
           \A p \in Procs : pc'[p] \notin TookCurrent,
           UNCHANGED <<current, parent>>
    PROVE  /\ UNCHANGED <<tipBar, upBar, snapBar>>
           /\ stagedBar = [f \in Files |-> stage[f]]
           /\ stagedBar' = [f \in Files |-> stage'[f]]
           /\ removingBar = Listed(stageRm)
           /\ removingBar' = Listed(stageRm')
<1>1. Named' = Named
  BY DEF Named
<1>2. UNCHANGED <<upBar, snapBar>>
  BY <1>1, NamedBars
<1>3. /\ tipBar = AsTip(current)
      /\ stagedBar = [f \in Files |-> stage[f]]
      /\ removingBar = Listed(stageRm)
  BY AtRest
<1>4. Pending' = {}
  BY DEF Pending
<1>5. /\ tipBar' = AsTip(current')
      /\ stagedBar' = [f \in Files |-> stage'[f]]
      /\ removingBar' = Listed(stageRm')
  BY <1>4 DEF tipBar, stagedBar, removingBar
<1> QED
  BY <1>2, <1>3, <1>5

(* The next state of a step after which the commit of p is under way.      *)
LEMMA UnderwayNext ==
    ASSUME OneProcess, NEW p \in Procs, pc'[p] \in TookCurrent
    PROVE  /\ tipBar' = AsTip(parent'[cid'[p]])
           /\ stagedBar' = [f \in Files |->
                               IF store'[cid'[p]][f] # None
                               THEN store'[cid'[p]][f] ELSE stage'[f]]
           /\ removingBar' = Listed(stageRm') \cup Listed(remove'[cid'[p]])
<1>1. Pending' = {cid'[p]}
  BY DEF OneProcess, Pending
<1>2. (CHOOSE c \in Pending' : TRUE) = cid'[p]
  BY <1>1
<1>3. \A f \in Files : store'[cid'[p]][f] # None =>
          (CHOOSE c \in Pending' : store'[c][f] # None) = cid'[p]
  BY <1>1
<1> QED
  BY <1>1, <1>2, <1>3 DEF tipBar, stagedBar, removingBar, AsTip

(* A step of a commit that keeps what it holds.                            *)
LEMMA StepUnderway ==
    ASSUME OneProcess, SoloInv, FrozenStep, NEW p \in Procs,
           pc[p] \in TookCurrent, pc'[p] \in TookCurrent,
           cid'[p] = cid[p], UNCHANGED parent[cid[p]], Named' = Named,
           \A f \in Files :
               (IF store'[cid[p]][f] # None THEN store'[cid[p]][f]
                                            ELSE stage'[f])
               = (IF store[cid[p]][f] # None THEN store[cid[p]][f]
                                             ELSE stage[f]),
           Listed(stageRm') \cup Listed(remove'[cid[p]])
               = Listed(stageRm) \cup Listed(remove[cid[p]])
    PROVE  SameBars
<1>1. UNCHANGED <<upBar, snapBar>>
  BY NamedBars
<1>2. tipBar' = tipBar /\ removingBar' = removingBar
  BY Underway, UnderwayNext
<1>3. stagedBar' = stagedBar
  <2>1. stagedBar' = [f \in Files |->
                         IF store'[cid[p]][f] # None THEN store'[cid[p]][f]
                                                     ELSE stage'[f]]
    BY UnderwayNext
  <2>2. stagedBar = [f \in Files |->
                        IF store[cid[p]][f] # None THEN store[cid[p]][f]
                                                   ELSE stage[f]]
    BY Underway
  <2> QED
    BY <2>1, <2>2
<1> QED
  BY <1>1, <1>2, <1>3 DEF SameBars

(* The user's edits and the commands other than commit, one step each.     *)
LEMMA CommandsRefine ==
    ASSUME OneProcess, SoloInv, SoloInv', FrozenStep, NEW p \in Procs,
           \/ \E args \in SUBSET Files : AddBegin(p, args)
           \/ \E f \in Files : AddOpen(p, f) \/ AddFlush(p, f) \/ Unadd(p, f)
           \/ \E gone \in (SUBSET Files) \ {{}} : RmUnlink(p, gone)
           \/ AddExit(p) \/ RmFlush(p)
    PROVE  [Abstract!Next]_(Abstract!vars)
<1> USE DEF Goes, Starts, locals, faults, SameBars, TookCurrent
<1>t. TypeOK /\ SoloFiles /\ \A q \in Procs : q = p
  BY DEF SoloInv, FrozenInv, TypeInv, OneProcess
<1>1. ASSUME NEW f \in Files, AddOpen(p, f)
      PROVE  Abstract!Stage(f, Blank)
  <2>1. /\ pc[p] = "adding" /\ pc'[p] = "adding"
        /\ stage' = [stage EXCEPT ![f] = Blank]
        /\ UNCHANGED <<current, parent, stageRm, missed>>
    BY <1>1, <1>t DEF AddOpen, TypeOK
  <2> QED
    BY <1>t, <2>1, StepAtRest DEF Abstract!Stage, TypeOK
<1>2. ASSUME NEW f \in Files, Unadd(p, f)
      PROVE  Abstract!Unstage(f)
  <2>1. /\ pc[p] = "idle" /\ pc'[p] = "idle"
        /\ stage' = [stage EXCEPT ![f] = None]
        /\ UNCHANGED <<current, parent, stageRm, missed>>
    BY <1>2, <1>t DEF Unadd, TypeOK
  <2> QED
    BY <1>t, <2>1, StepAtRest DEF Abstract!Unstage, TypeOK
<1>3. ASSUME NEW gone \in SUBSET Files, RmUnlink(p, gone)
      PROVE  Same
  <2>1. /\ pc[p] = "idle" /\ pc'[p] = "rmFlush" /\ stageRm' = Listed(stageRm)
        /\ UNCHANGED <<current, parent, stage, missed>>
    BY <1>3, <1>t DEF RmUnlink, TypeOK
  <2>2. Listed(stageRm') = Listed(stageRm)
    BY <2>1 DEF Listed
  <2> QED
    BY <1>t, <2>1, <2>2, StepAtRest DEF Same
<1>4. ASSUME NEW f \in Files, AddFlush(p, f)
      PROVE  Abstract!Stage(f, buf[p][f]) /\ buf[p][f] \in Contents
  <2>1. StageFile(f) \in fd[p]
    BY <1>4, <1>t DEF AddFlush, SoloFiles
  <2>2. stage' = [stage EXCEPT ![f] = buf[p][f]] /\ buf[p][f] \in Contents
    BY <1>4, <1>t, <2>1 DEF AddFlush, TypeOK, Copies, Contents
  <2>3. /\ pc[p] = "adding" /\ pc'[p] = "adding"
        /\ UNCHANGED <<current, parent, stageRm, missed>>
    BY <1>4, <1>t DEF AddFlush, TypeOK
  <2> QED
    BY <1>t, <2>2, <2>3, StepAtRest DEF Abstract!Stage, TypeOK
<1>5. ASSUME RmFlush(p)
      PROVE  Abstract!Remove(todo[p]) /\ todo[p] \in SUBSET Files
  <2>1. stageRm' = Listed(stageRm) \cup todo[p] /\ stageRm' # None
    <3>1. stageRm' = Listed(stageRm) \cup todo[p]
      BY <1>5, <1>t DEF RmFlush, SoloFiles
    <3>2. stageRm' \in SUBSET Files
      BY <1>t, <3>1 DEF Listed, TypeOK
    <3> QED
      BY <3>1, <3>2, NoneIsNoList DEF NoneIsNoList
  <2>2. /\ pc[p] = "rmFlush" /\ pc'[p] = "idle"
        /\ UNCHANGED <<current, parent, stage, missed>>
    BY <1>5, <1>t DEF RmFlush, Exits, TypeOK
  <2> QED
    BY <1>t, <2>1, <2>2, StepAtRest DEF Abstract!Remove, Listed, TypeOK
<1>6. ASSUME \/ \E args \in SUBSET Files : AddBegin(p, args)
             \/ AddExit(p)
      PROVE  Same
  <2>1. /\ pc[p] \in {"idle", "adding"} /\ pc'[p] \in {"idle", "adding"}
        /\ UNCHANGED <<current, parent, stage, stageRm, missed>>
    BY <1>6, <1>t DEF AddBegin, AddExit, Exits, disk, TypeOK
  <2> QED
    BY <1>t, <2>1, StepAtRest DEF Same
<1>7. Blank \in Contents
  BY DEF Contents
<1> QED
  BY <1>1, <1>2, <1>3, <1>4, <1>5, <1>6, <1>7
  DEF Abstract!Next, Abstract!vars, Same

(* The steps before a commit holds anything and after it has let go.       *)
LEMMA BeginAndEndRefine ==
    ASSUME OneProcess, SoloInv, FrozenStep, NEW p \in Procs,
           \/ \E c \in Cids : CommitBegin(p, c)
           \/ ProbeMillis(p) \/ AppendMillis(p) \/ WriteMillis(p)
    PROVE  Same
<1>t. TypeOK /\ \A q \in Procs : q = p
  BY DEF SoloInv, FrozenInv, TypeInv, OneProcess
<1>1. /\ pc[p] \notin TookCurrent /\ pc'[p] \notin TookCurrent
      /\ UNCHANGED <<current, parent, stage, stageRm, missed>>
  <2>1. CASE \E c \in Cids : CommitBegin(p, c)
    BY <1>t, <2>1 DEF CommitBegin, Starts, Goes, faults, TookCurrent, TypeOK
  <2>2. CASE ProbeMillis(p)
    BY <1>t, <2>2 DEF ProbeMillis, Goes, faults, TookCurrent, TypeOK
  <2>3. CASE AppendMillis(p) \/ WriteMillis(p)
    BY <1>t, <2>3
    DEF AppendMillis, WriteMillis, Exits, faults, TookCurrent, TypeOK
  <2> QED
    BY <2>1, <2>2, <2>3
<1> QED
  BY <1>t, <1>1, StepAtRest DEF Same, SameBars

(* From here on the commit holds what was current.                         *)
LEMMA TakeParentRefines ==
    ASSUME OneProcess, SoloInv, FrozenStep, NEW p \in Procs, TakeParent(p)
    PROVE  Same
<1> DEFINE c == cid[p]
<1>t. TypeOK /\ Progress /\ \A q \in Procs : q = p
  BY DEF SoloInv, FrozenInv, TypeInv, OneProcess
<1>1. /\ pc[p] = "takeParent" /\ pc'[p] = "takeRemove"
      /\ UNCHANGED <<cid, stage, stageRm, remove, store, missed>>
  BY <1>t DEF TakeParent, Goes, locals, faults, TypeOK
<1>2. /\ c \in Cids /\ parent[c] = None /\ c \notin Named
      /\ remove[c] = None /\ Moved(c) = {}
  BY <1>1, <1>t, AtWork
  DEF SoloInv, FrozenInv, FreshParent, Before, Progress, Untaken, Unmoved
<1>3. parent'[c] = current /\ Named' = Named
  BY <1>1, <1>2, <1>t, NoneAssumption
  DEF TakeParent, Named, TypeOK, NoneAssumption
<1>4. UNCHANGED <<upBar, snapBar>>
  BY <1>3, NamedBars
<1>5. tipBar' = tipBar /\ removingBar' = removingBar
  <2>1. tipBar = AsTip(current) /\ removingBar = Listed(stageRm)
    BY <1>t, <1>1, AtRest DEF TookCurrent
  <2>2. /\ tipBar' = AsTip(parent'[cid'[p]])
        /\ removingBar' = Listed(stageRm') \cup Listed(remove'[cid'[p]])
    BY <1>1, UnderwayNext DEF TookCurrent
  <2>3. cid'[p] = c /\ remove'[c] = None /\ stageRm' = stageRm
    BY <1>1, <1>2
  <2> QED
    BY <1>3, <2>1, <2>2, <2>3 DEF Listed
<1>6. stagedBar' = stagedBar
  <2>1. stagedBar = [f \in Files |-> stage[f]]
    BY <1>t, <1>1, AtRest DEF TookCurrent
  <2>2. stagedBar' = [f \in Files |-> IF store'[cid'[p]][f] # None
                                      THEN store'[cid'[p]][f] ELSE stage'[f]]
    BY <1>1, UnderwayNext DEF TookCurrent
  <2>3. \A f \in Files : store'[cid'[p]][f] = None /\ stage'[f] = stage[f]
    BY <1>1, <1>2 DEF Moved
  <2> QED
    BY <2>1, <2>2, <2>3
<1> QED
  BY <1>1, <1>4, <1>5, <1>6 DEF Same, SameBars

(* The steps that take the removal list, compose the index and open        *)
(* current.                                                                *)
LEMMA CommitRefines ==
    ASSUME OneProcess, SoloInv, FrozenStep, NEW p \in Procs,
           \/ TakeRemove(p) \/ WriteIndex(p) \/ ListStage(p)
           \/ ReadIndex(p) /\ ~ Exits(p)
           \/ OpenCurrent(p)
    PROVE  Same
<1> DEFINE c == cid[p]
<1>t. TypeOK /\ Progress /\ \A q \in Procs : q = p
  BY DEF SoloInv, FrozenInv, TypeInv, OneProcess
<1>1. CASE TakeRemove(p)
  <2>1. /\ pc[p] = "takeRemove" /\ pc'[p] = "readIndex"
        /\ UNCHANGED <<cid, current, parent, stage, store, missed>>
    BY <1>1, <1>t DEF TakeRemove, Goes, locals, faults, TypeOK
  <2>2. c \in Cids /\ remove[c] = None
    BY <2>1, <1>t, AtWork DEF SoloInv, Before, Progress, Untaken
  <2>3. Listed(stageRm') \cup Listed(remove'[c])
            = Listed(stageRm) \cup Listed(remove[c])
    BY <1>1, <2>2, <1>t DEF TakeRemove, Listed, TypeOK
  <2> QED
    BY <2>1, <2>3, StepUnderway DEF Same, TookCurrent, Named
<1>2. CASE \/ WriteIndex(p) \/ ListStage(p)
           \/ ReadIndex(p) /\ ~ Exits(p)
  <2>1. /\ pc[p] \in TookCurrent /\ pc'[p] \in TookCurrent
        /\ UNCHANGED <<cid, current, parent, stage, store, stageRm, remove,
                       missed>>
    BY <1>2, <1>t
    DEF WriteIndex, ListStage, ReadIndex, Goes, disk, faults, TookCurrent,
        TypeOK
  <2> QED
    BY <2>1, StepUnderway DEF Same, Named
<1>3. CASE OpenCurrent(p)
  <2>1. /\ pc[p] = "moveFiles" /\ pc'[p] = "writeCurrent" /\ current' = Blank
        /\ UNCHANGED <<cid, parent, stage, store, stageRm, remove, missed>>
    BY <1>3, <1>t DEF OpenCurrent, Goes, locals, faults, TypeOK
  <2>2. current \notin Cids /\ current' \notin Cids
    BY <2>1, BlankAssumption
    DEF SoloInv, FrozenInv, CurrentTaken, Holding, Composing, BlankAssumption
  <2>3. Named' = Named
    BY <2>1, <2>2 DEF Named
  <2> QED
    BY <2>1, <2>3, StepUnderway DEF Same, TookCurrent
<1> QED
  BY <1>1, <1>2, <1>3

(* A file that is taken from the stage counts as being there still; one    *)
(* whose mv fails is refused.                                              *)
LEMMA MoveFileRefines ==
    ASSUME OneProcess, SoloInv, FrozenStep, NEW p \in Procs,
           NEW f \in Files, MoveFile(p, f)
    PROVE  Same \/ (Abstract!Refuse(cid[p], f) /\ cid[p] \in Cids)
<1> DEFINE c == cid[p]
<1>t. TypeOK /\ Progress
  BY DEF SoloInv, FrozenInv, TypeInv
<1>1. /\ pc[p] = "moveFiles" /\ pc'[p] = "moveFiles"
      /\ UNCHANGED <<cid, current, parent, stageRm, remove>>
  BY <1>t DEF MoveFile, TypeOK
<1>2. c \in Cids /\ c \notin Named
  BY <1>1, AtWork DEF SoloInv, Before, Composing
<1>3. store[c][f] = None /\ stage[f] # None
  BY <1>1, <1>t, MoveFileMoves
  DEF Progress, Holding, Composing, Moved, Staged
<1>4. CASE /\ store' = [store EXCEPT ![c] = [store[c] EXCEPT ![f] = stage[f]]]
           /\ stage' = [stage EXCEPT ![f] = None]
           /\ missed' = missed
  <2>1. store'[c] = [store[c] EXCEPT ![f] = stage[f]]
    BY <1>2, <1>4, <1>t DEF TypeOK
  <2>2. \A g \in Files :
            (IF store'[c][g] # None THEN store'[c][g] ELSE stage'[g])
            = (IF store[c][g] # None THEN store[c][g] ELSE stage[g])
    BY <1>2, <1>3, <1>4, <2>1, <1>t DEF TypeOK
  <2>3. SameBars
    BY <1>1, <2>2, StepUnderway DEF TookCurrent, Named
  <2>4. missed' = missed
    BY <1>4
  <2> QED
    BY <2>3, <2>4 DEF Same
<1>5. CASE /\ UNCHANGED <<store, stage>>
           /\ missed' = missed \cup {<<c, f>>}
  <2>1. SameBars
    BY <1>1, <1>5, StepUnderway DEF TookCurrent, Named
  <2>2. snapBar[c] = None
    BY <1>2 DEF snapBar
  <2>3. stagedBar[f] # None
    BY <1>1, <1>3, Underway DEF TookCurrent
  <2> QED
    BY <1>2, <1>5, <2>1, <2>2, <2>3 DEF SameBars, Abstract!Refuse
<1> QED
  BY <1>4, <1>5, MoveFileMoves

(* What the commit of p will hold, computed from the mapping.              *)
LEMMA ComposedBar ==
    ASSUME OneProcess, SoloInv, NEW p \in Procs, pc[p] = "writeCurrent"
    PROVE  /\ Abstract!Composed(cid[p]) = Snapshot(cid[p])
           /\ cid[p] \in Cids /\ cid[p] \notin Named
<1> DEFINE c == cid[p]
           up == parent[cid[p]]
<1>t. TypeOK /\ Progress
  BY DEF SoloInv, FrozenInv, TypeInv
<1>1. c \in Cids /\ c \notin Named
  BY AtWork DEF SoloInv, Before, Composing
<1>2. None \notin Cids
  BY NoneAssumption DEF NoneAssumption
<1>3. /\ Staged = Missed(c) /\ Moved(c) \cap Missed(c) = {}
      /\ stageRm = None
  BY <1>t DEF Progress, Holding, Composing
<1>4. /\ tipBar = AsTip(up)
      /\ removingBar = Listed(remove[c])
      /\ \A f \in Files : <<c, f>> \notin missed => stagedBar[f] = store[c][f]
  <2>1. \A f \in Files : <<c, f>> \notin missed => stage[f] = None
    BY <1>3 DEF Staged, Missed
  <2> QED
    BY <1>3, <2>1, Underway DEF TookCurrent, Listed
<1>5. \A f \in Files :
          cindex[c][f] = IF f \in Listed(remove[c]) THEN None
                         ELSE IF <<c, f>> \in missed \/ store[c][f] # None THEN c
                         ELSE Inherited(up)[f]
  <2>1. cindex[c] = Drop(Stamp(Inherited(up), Staged \cup Moved(c), c),
                         Listed(remove[c]))
    BY <1>t DEF Progress
  <2> QED
    BY <1>3, <2>1 DEF Drop, Stamp, Moved, Missed
<1>6. \A f \in Files : <<c, f>> \in missed => store[c][f] = None
  BY <1>3 DEF Moved, Missed
<1>7. \A f \in Files :
          (IF tipBar = None THEN Abstract!NoFiles ELSE snapBar[tipBar])[f]
          = IF Inherited(up)[f] = None THEN None
            ELSE store[Inherited(up)[f]][f]
  <2>1. CASE up \in Cids
    <3>1. up \in Named /\ tipBar = up
      BY <1>1, <1>4, <2>1 DEF Named, AsTip
    <3>2. snapBar[tipBar] = Snapshot(up)
      BY <2>1, <3>1 DEF snapBar
    <3> QED
      BY <1>2, <2>1, <3>1, <3>2 DEF Snapshot, Inherited
  <2>2. CASE up \notin Cids
    BY <1>4, <2>2 DEF AsTip, Inherited, EmptyIndex, Abstract!NoFiles
  <2> QED
    BY <2>1, <2>2
<1>8. \A f \in Files :
          (IF f \in removingBar \/ <<c, f>> \in missed THEN None
           ELSE IF stagedBar[f] # None THEN stagedBar[f]
           ELSE (IF tipBar = None THEN Abstract!NoFiles
                 ELSE snapBar[tipBar])[f])
          = IF cindex[c][f] = None THEN None ELSE store[cindex[c][f]][f]
  BY <1>1, <1>2, <1>4, <1>5, <1>6, <1>7
<1> QED
  BY <1>1, <1>8 DEF Abstract!Composed, Snapshot

(* A commit takes effect when its id reaches current.                      *)
LEMMA WriteCurrentRefines ==
    ASSUME OneProcess, SoloInv, FrozenStep, NEW p \in Procs,
           WriteCurrent(p), Named' = Named \cup {cid[p]}
    PROVE  Abstract!Commit(cid[p]) /\ cid[p] \in Cids
<1> DEFINE c == cid[p]
<1>t. TypeOK /\ Progress /\ \A q \in Procs : q = p
  BY DEF SoloInv, FrozenInv, TypeInv, OneProcess
<1>1. /\ pc[p] = "writeCurrent" /\ pc'[p] = "probeMillis"
      /\ UNCHANGED <<cid, stage, stageRm, store, remove, cindex, missed>>
  BY <1>t DEF WriteCurrent, locals, faults, Goes, TypeOK
<1>2. /\ c \in Cids /\ c \notin Named
      /\ Abstract!Composed(c) = Snapshot(c)
  BY <1>1, ComposedBar
<1>3. current' = c /\ parent' = parent
  <2>1. fd[p] = {CurrentFile}
    BY <1>1 DEF SoloInv, FrozenInv, OpenFiles
  <2>2. \A d \in Cids : ParentFile(d) \notin fd[p]
    BY <2>1 DEF CurrentFile, ParentFile, Handle
  <2> QED
    BY <2>1, <2>2, <1>t DEF WriteCurrent, TypeOK
<1>4. /\ stageRm = None
      /\ \A f \in Files :
             stage[f] = IF <<c, f>> \in missed THEN stagedBar[f] ELSE None
  <2>1. /\ stageRm = None
        /\ Staged = Missed(c) /\ Moved(c) \cap Missed(c) = {}
    BY <1>1, <1>t DEF Progress, Holding, Composing
  <2>2. \A f \in Files : stagedBar[f] = IF store[c][f] # None THEN store[c][f]
                                         ELSE stage[f]
    BY <1>1, Underway DEF TookCurrent
  <2> QED
    BY <2>1, <2>2 DEF Staged, Missed, Moved
<1>5. Pending' = {}
  BY <1>1, <1>t DEF Pending, TookCurrent
<1>6. /\ tipBar' = c /\ removingBar' = {}
      /\ stagedBar' = [f \in Files |-> IF <<c, f>> \in missed THEN stagedBar[f]
                                        ELSE None]
  <2>1. /\ tipBar' = AsTip(current') /\ removingBar' = Listed(stageRm')
        /\ stagedBar' = [f \in Files |-> stage'[f]]
    BY <1>5 DEF tipBar, removingBar, stagedBar
  <2> QED
    BY <1>1, <1>2, <1>3, <1>4, <2>1 DEF AsTip, Listed
<1>7. tipBar = AsTip(parent[c])
  BY <1>1, Underway DEF TookCurrent
<1>8. upBar' = [upBar EXCEPT ![c] = tipBar]
  BY <1>2, <1>3, <1>7 DEF upBar, AsTip
<1>9. \A d \in Named : Snapshot(d)' = Snapshot(d)
  BY <1>1 DEF Snapshot
<1>10. snapBar' = [snapBar EXCEPT ![c] = Snapshot(c)]
  <2>1. \A d \in Cids :
            (IF d \in Named' THEN Snapshot(d)' ELSE None)
            = (IF d = c THEN Snapshot(c)
               ELSE IF d \in Named THEN Snapshot(d) ELSE None)
    <3> HIDE DEF c
    <3> SUFFICES ASSUME NEW d \in Cids
                 PROVE  (IF d \in Named' THEN Snapshot(d)' ELSE None)
                        = (IF d = c THEN Snapshot(c)
                           ELSE IF d \in Named THEN Snapshot(d) ELSE None)
      OBVIOUS
    <3>1. CASE d = c
      <4>1. Snapshot(d)' = Snapshot(d)
        BY <1>1, <3>1 DEF Snapshot
      <4> QED
        BY <3>1, <4>1 DEF c
    <3>2. CASE d # c
      BY <1>9, <3>2 DEF c
    <3> QED
      BY <3>1, <3>2
  <2>2. snapBar' = [d \in Cids |-> IF d = c THEN Snapshot(c)
                                   ELSE IF d \in Named THEN Snapshot(d)
                                   ELSE None]
    BY <2>1, Zenon DEF snapBar
  <2> HIDE DEF c
  <2> QED
    BY <1>2, <2>2 DEF snapBar
<1>11. snapBar[c] = None
  BY <1>2 DEF snapBar
<1> QED
  BY <1>1, <1>2, <1>6, <1>8, <1>10, <1>11 DEF Abstract!Commit

(* A process that ends while its commit holds what was current loses what  *)
(* it holds, and no more; any other end changes nothing.                   *)
LEMMA EndsRefine ==
    ASSUME OneProcess, SoloInv, FrozenStep, NEW p \in Procs,
           Exits(p), UNCHANGED <<disk, missed>>
    PROVE  Same \/ Abstract!Interrupt
<1> DEFINE c == cid[p]
<1>t. TypeOK /\ Progress /\ \A q \in Procs : q = p
  BY DEF SoloInv, FrozenInv, TypeInv, OneProcess
<1>1. pc'[p] = "idle"
  BY <1>t DEF Exits, TypeOK
<1>2. CASE pc[p] \notin TookCurrent
  BY <1>t, <1>1, <1>2, StepAtRest DEF Same, SameBars, TookCurrent, disk
<1>3. CASE pc[p] \in TookCurrent
  <2>1. Named' = Named /\ Pending' = {}
    BY <1>t, <1>1 DEF Named, Pending, TookCurrent, disk
  <2>2. UNCHANGED <<upBar, snapBar>>
    BY <2>1, NamedBars
  <2>3. tipBar' = None
    BY <1>3, <2>1
    DEF SoloInv, FrozenInv, CurrentTaken, TookCurrent, Holding, Composing,
        tipBar, AsTip, disk
  <2>4. removingBar' = Listed(stageRm)
    BY <2>1 DEF removingBar, Listed, disk
  <2>5. removingBar = Listed(stageRm) \cup Listed(remove[c])
    BY <1>3, Underway
  <2>6. removingBar' \in {removingBar, {}}
    <3>1. CASE pc[p] = "takeRemove"
      BY <1>t, <2>4, <2>5, <3>1 DEF Progress, Untaken, Listed
    <3>2. CASE pc[p] # "takeRemove"
      BY <1>3, <1>t, <2>4, <3>2
      DEF Progress, TookCurrent, Composing, Listed
    <3> QED
      BY <3>1, <3>2
  <2>7. \E lost \in SUBSET Files :
            stagedBar' = [f \in Files |-> IF f \in lost THEN None
                                          ELSE stagedBar[f]]
    <3>1. stagedBar' = [f \in Files |-> stage[f]]
      BY <2>1 DEF stagedBar, disk
    <3>2. stagedBar = [f \in Files |-> IF store[c][f] # None THEN store[c][f]
                                       ELSE stage[f]]
      BY <1>3, Underway
    <3>3. Moved(c) \cap Staged = {}
      BY <1>3, <1>t DEF Progress, TookCurrent, Holding, Composing
    <3>4. \A f \in Files :
              stage[f] = IF f \in Moved(c) THEN None ELSE stagedBar[f]
      BY <3>2, <3>3 DEF Moved, Staged
    <3>5. Moved(c) \in SUBSET Files
      BY DEF Moved
    <3> QED
      BY <3>1, <3>4, <3>5
  <2> QED
    BY <2>2, <2>3, <2>6, <2>7 DEF Abstract!Interrupt
<1> QED
  BY <1>2, <1>3

-----------------------------------------------------------------------------
(* The refinement.                                                         *)

LEMMA InitRefines == Init => Abstract!Init
<1> SUFFICES ASSUME Init PROVE Abstract!Init
  OBVIOUS
<1>1. Pending = {} /\ Named = {}
  BY NoneAssumption DEF Init, Pending, Named, TookCurrent, NoneAssumption
<1> QED
  BY <1>1, NoneAssumption
  DEF Init, Abstract!Init, Abstract!NoFiles, stagedBar, removingBar, tipBar,
      upBar, snapBar, AsTip, Listed, NoneAssumption

LEMMA NextRefines ==
    ASSUME OneProcess, SoloInv, SoloInv', FrozenStep, [Next]_vars
    PROVE  [Abstract!Next]_(Abstract!vars)
<1>1. CASE \/ UNCHANGED vars
           \/ \E f \in Files, d \in Data \cup {None} : Edit(f, d)
  <2>1. UNCHANGED <<stage, stageRm, current, parent, remove, cindex, store, pc,
                    cid, missed>>
    BY <1>1 DEF vars, disk, locals, faults, Edit
  <2>2. Pending' = Pending
    BY <2>1 DEF Pending
  <2>3. Named' = Named
    BY <2>1 DEF Named
  <2>4. UNCHANGED <<upBar, snapBar>>
    BY <2>3, NamedBars
  <2>5. UNCHANGED <<stagedBar, removingBar, tipBar>>
    BY <2>1, <2>2 DEF stagedBar, removingBar, tipBar
  <2> QED
    BY <2>1, <2>4, <2>5 DEF Abstract!vars
<1>2. CASE \E p \in Procs : Works(p)
  <2> PICK p \in Procs : Works(p)
    BY <1>2
  <2>1. CASE \/ \E args \in (SUBSET Files) \ {{}} : AddBegin(p, args)
             \/ \E f \in Files : AddOpen(p, f) \/ AddFlush(p, f) \/ Unadd(p, f)
             \/ \E gone \in (SUBSET Files) \ {{}} : RmUnlink(p, gone)
             \/ AddExit(p) \/ RmFlush(p)
    BY <2>1, CommandsRefine
  <2>2. CASE WriteCurrent(p)
    <3>1. Named' = Named \cup {cid[p]}
      BY <2>2, SoloWriteCurrent DEF SoloInv
    <3> QED
      BY <2>2, <3>1, WriteCurrentRefines DEF Abstract!Next
  <2>3. CASE ReadIndex(p) /\ Exits(p)
    BY <2>3, EndsRefine
    DEF ReadIndex, Same, SameBars, faults, Abstract!Next, Abstract!vars
  <2>4. CASE \/ \E c \in Cids : CommitBegin(p, c)
             \/ TakeParent(p) \/ TakeRemove(p)
             \/ ReadIndex(p) /\ ~ Exits(p)
             \/ WriteIndex(p) \/ ListStage(p) \/ OpenCurrent(p)
             \/ ProbeMillis(p) \/ AppendMillis(p) \/ WriteMillis(p)
    <3>1. Same
      BY <2>4, BeginAndEndRefine, TakeParentRefines, CommitRefines
    <3> QED
      BY <3>1 DEF Same, SameBars, Abstract!vars
  <2>5. CASE \E f \in Files : MoveFile(p, f)
    BY <2>5, MoveFileRefines DEF Same, SameBars, Abstract!Next, Abstract!vars
  <2> QED
    BY <2>1, <2>2, <2>3, <2>4, <2>5 DEF Works, Start, Step
<1>3. CASE \E p \in Procs : Crash(p)
  BY <1>3, EndsRefine DEF Crash, Same, SameBars, Abstract!Next, Abstract!vars
<1> QED
  BY <1>1, <1>2, <1>3 DEF Next, Works

(* With one command at a time a repository is a version control system:    *)
(* every step of a command is one atomic step of Vcs or none.  A mv that   *)
(* fails costs what Refuse says, and a command that is killed, or that     *)
(* cannot load its parent's index, at most what Interrupt says.            *)
THEOREM RepoImplementsVcs ==
    ASSUME OneProcess
    PROVE  Spec => ImplementsVcs
<1>1. SoloInv /\ [Next]_vars => SoloInv'
  BY NextSolo
<1>2. SoloInv /\ SoloInv' /\ [Next]_vars => [Abstract!Next]_(Abstract!vars)
  BY NextSolo, NextRefines
<1> QED
  BY <1>1, <1>2, InitSolo, InitRefines, PTL
  DEF Spec, ImplementsVcs, Abstract!Spec
=============================================================================
