-------------------------- MODULE RepoHistoryProofs --------------------------
(***************************************************************************)
(* Theorems about the history that list walks through, for every set of    *)
(* files and commits.                                                      *)
(***************************************************************************)
EXTENDS RepoProofs, FiniteSetTheorems

-----------------------------------------------------------------------------
(* Ancestors.                                                              *)

(* The ancestors of c are a closed set, and every closed set with c in it  *)
(* holds them.                                                             *)
LEMMA AncestorsLeast ==
    ASSUME NEW c
    PROVE  /\ Ancestors(c) \subseteq Cids
           /\ c \in Cids => c \in Ancestors(c)
           /\ Closed(Ancestors(c))
           /\ \A S \in SUBSET Cids :
                  {c} \cap Cids \subseteq S /\ Closed(S)
                  => Ancestors(c) \subseteq S
<1>1. Ancestors(c) \subseteq Cids /\ (c \in Cids => c \in Ancestors(c))
  BY DEF Ancestors
<1>2. Closed(Ancestors(c))
  <2> SUFFICES ASSUME NEW d \in Ancestors(c), parent[d] \in Cids
               PROVE  parent[d] \in Ancestors(c)
    BY DEF Closed
  <2> SUFFICES ASSUME NEW S \in SUBSET Cids, {c} \cap Cids \subseteq S,
                      Closed(S)
               PROVE  parent[d] \in S
    BY DEF Ancestors
  <2>1. d \in S
    BY DEF Ancestors
  <2> QED
    BY <2>1 DEF Closed
<1>3. \A S \in SUBSET Cids :
          {c} \cap Cids \subseteq S /\ Closed(S) => Ancestors(c) \subseteq S
  BY DEF Ancestors
<1> QED
  BY <1>1, <1>2, <1>3

LEMMA NoAncestors ==
    ASSUME NEW c, c \notin Cids
    PROVE  Ancestors(c) = {}
<1>1. Closed({}) /\ {c} \cap Cids \subseteq {}
  BY DEF Closed
<1> QED
  BY <1>1, AncestorsLeast

(* A commit's ancestors are itself and those of its parent.                *)
LEMMA AncestorsStep ==
    ASSUME NEW c \in Cids
    PROVE  Ancestors(c) = {c} \cup Ancestors(parent[c])
<1>1. Ancestors(c) \subseteq {c} \cup Ancestors(parent[c])
  <2> DEFINE S == {c} \cup Ancestors(parent[c])
  <2>1. S \in SUBSET Cids /\ Closed(S)
    BY AncestorsLeast DEF Closed
  <2> QED
    BY <2>1, AncestorsLeast
<1>2. Ancestors(parent[c]) \subseteq Ancestors(c)
  <2>1. {parent[c]} \cap Cids \subseteq Ancestors(c)
    BY AncestorsLeast DEF Closed
  <2> QED
    BY <2>1, AncestorsLeast
<1> QED
  BY <1>1, <1>2, AncestorsLeast

-----------------------------------------------------------------------------
(* No commit is its own ancestor.                                          *)

(* The commits that the file current names or will name when a process that*)
(* has it open has written its id, and the same for the parent file of c.  *)
Tips == ({current} \cup {cid[p] : p \in {q \in Procs : CurrentFile \in fd[q]}})
        \cap Cids
Links(c) ==
    ({parent[c]} \cup {cid[p] : p \in {q \in Procs : ParentFile(c) \in fd[q]}})
    \cap Cids

(* Nothing leads to c yet.                                                 *)
Unreached(c) == c \notin Tips /\ \A d \in Cids : c \notin Links(d)

LinksClosed(S) == \A d \in S : Links(d) \subseteq S

(* A commit whose process has not opened current is nobody's parent.       *)
NotOpened == Before \ {"writeCurrent"}

(* What makes Acyclic inductive, for any number of processes that commit:  *)
(* a process gives its commit a parent before it opens current, so nothing *)
(* leads to the commit when its own links are made.                        *)
ChainInv ==
    /\ TypeInv
    /\ \A p \in Procs : \A c \in Cids :
           (CurrentFile \in fd[p] \/ ParentFile(c) \in fd[p]) => pc[p] = "writeCurrent"
    /\ \A p, q \in Procs :
           p # q /\ pc[p] \in CommitSteps /\ pc[q] \in CommitSteps
           => cid[p] # cid[q]
    /\ \A p \in Procs : pc[p] \in NotOpened => Unreached(cid[p])
    /\ \A c \in Cids \ dirs : Unreached(c)
    /\ \A c \in Cids : \E S \in SUBSET Cids :
           LinksClosed(S) /\ Links(c) \subseteq S /\ c \notin S

LEMMA ChainAcyclic == ChainInv => Acyclic
<1> SUFFICES ASSUME ChainInv, NEW c \in Cids
             PROVE  c \notin Ancestors(parent[c])
  BY DEF Acyclic
<1>1. PICK S \in SUBSET Cids :
          LinksClosed(S) /\ Links(c) \subseteq S /\ c \notin S
  BY DEF ChainInv
<1>2. Closed(S) /\ {parent[c]} \cap Cids \subseteq S
  BY <1>1 DEF LinksClosed, Links, Closed
<1> QED
  BY <1>1, <1>2, AncestorsLeast

LEMMA InitChain == Init => ChainInv
<1> SUFFICES ASSUME Init PROVE ChainInv
  OBVIOUS
<1>1. TypeInv
  BY InitType DEF Init, TypeInv, CommitHasId, CommitSteps
<1>3. Tips = {} /\ \A c \in Cids : Links(c) = {}
  BY NoneAssumption DEF Init, Tips, Links, NoneAssumption
<1>4. \A c \in Cids : LinksClosed({}) /\ Links(c) \subseteq {}
  BY <1>3 DEF LinksClosed
<1> QED
  BY <1>1, <1>3, <1>4
  DEF ChainInv, Init, Unreached, NotOpened, Before, Composing, CommitSteps

(* The steps that make no commit, no link and no tip.                      *)
LEMMA QuietChain ==
    ASSUME ChainInv, TypeInv', dirs' = dirs,
           \A c \in Cids : Links(c)' \subseteq Links(c),
           Tips' \subseteq Tips,
           \A p \in Procs : pc'[p] \in CommitSteps =>
               pc[p] \in CommitSteps /\ cid'[p] = cid[p],
           \A p \in Procs : pc'[p] \in NotOpened => pc[p] \in NotOpened,
           \A p \in Procs : \A c \in Cids :
               (CurrentFile \in fd'[p] \/ ParentFile(c) \in fd'[p])
               => pc'[p] = "writeCurrent"
    PROVE  ChainInv'
<1>1. \A p, q \in Procs :
          p # q /\ pc'[p] \in CommitSteps /\ pc'[q] \in CommitSteps
          => cid'[p] # cid'[q]
  BY DEF ChainInv
<1>2. \A c \in Cids : Unreached(c) => Unreached(c)'
  BY DEF Unreached
<1>3. \A p \in Procs : pc'[p] \in NotOpened => Unreached(cid[p])'
  <2> SUFFICES ASSUME NEW p \in Procs, pc'[p] \in NotOpened
               PROVE  Unreached(cid[p])'
    OBVIOUS
  <2>1. pc[p] \in NotOpened /\ cid'[p] = cid[p]
    BY DEF NotOpened, Before, Composing, CommitSteps
  <2>2. Unreached(cid[p]) /\ cid[p] \in Cids
    BY <2>1 DEF ChainInv, TypeInv, TypeOK, CommitHasId, NotOpened, Before,
                Composing, CommitSteps
  <2> QED
    BY <1>2, <2>1, <2>2
<1>4. \A c \in Cids \ dirs' : Unreached(c)'
  BY <1>2 DEF ChainInv
<1>5. \A c \in Cids : \E S \in SUBSET Cids :
          LinksClosed(S)' /\ Links(c)' \subseteq S /\ c \notin S
  <2> SUFFICES ASSUME NEW c \in Cids
               PROVE  \E S \in SUBSET Cids :
                          LinksClosed(S)' /\ Links(c)' \subseteq S /\ c \notin S
    OBVIOUS
  <2>1. PICK S \in SUBSET Cids :
            LinksClosed(S) /\ Links(c) \subseteq S /\ c \notin S
    BY DEF ChainInv
  <2>2. LinksClosed(S)' /\ Links(c)' \subseteq S
    BY <2>1 DEF LinksClosed
  <2> QED
    BY <2>1, <2>2
<1> QED
  BY <1>1, <1>3, <1>4, <1>5 DEF ChainInv

(* The handles of current and of a parent file are no other file's.        *)
LEMMA ChainHandles ==
    ASSUME NEW c \in Cids
    PROVE  /\ CurrentFile # ParentFile(c)
           /\ \A d \in Cids : ParentFile(d) = ParentFile(c) => d = c
           /\ \A f \in Files : /\ StageFile(f) # CurrentFile
                               /\ StageFile(f) # ParentFile(c)
           /\ StageRmFile # CurrentFile /\ StageRmFile # ParentFile(c)
           /\ \A d \in Cids : /\ RemoveFile(d) # CurrentFile
                              /\ RemoveFile(d) # ParentFile(c)
           /\ \A d \in Cids, f \in Files : /\ StoreFile(d, f) # CurrentFile
                                           /\ StoreFile(d, f) # ParentFile(c)
BY DEF CurrentFile, ParentFile, StageFile, StageRmFile, RemoveFile, StoreFile,
       Handle

(* A step that writes neither current nor a parent file, and after which   *)
(* these are open to the processes that had them open before.              *)
LEMMA QuietFiles ==
    ASSUME ChainInv, TypeInv',
           UNCHANGED <<dirs, current, parent>>,
           \A p \in Procs : pc'[p] \in CommitSteps =>
               pc[p] \in CommitSteps /\ cid'[p] = cid[p],
           \A p \in Procs : pc'[p] \in NotOpened => pc[p] \in NotOpened,
           \A p \in Procs : \A c \in Cids :
               /\ CurrentFile \in fd'[p] =>
                      /\ CurrentFile \in fd[p] /\ cid'[p] = cid[p]
                      /\ pc'[p] = "writeCurrent"
               /\ ParentFile(c) \in fd'[p] =>
                      /\ ParentFile(c) \in fd[p] /\ cid'[p] = cid[p]
                      /\ pc'[p] = "writeCurrent"
    PROVE  ChainInv'
<1>1. \A c \in Cids : Links(c)' \subseteq Links(c)
  BY DEF Links
<1>2. Tips' \subseteq Tips
  BY DEF Tips
<1> QED
  BY <1>1, <1>2, QuietChain

(* The commands that are not a commit, the end of a commit and the steps on*)
(* the other files of a commit.                                            *)
LEMMA QuietActionsChain ==
    ASSUME ChainInv, TypeInv', NEW p \in Procs,
           \/ \E args \in SUBSET Files : AddBegin(p, args)
           \/ \E f \in Files : AddOpen(p, f) \/ AddFlush(p, f) \/ Unadd(p, f)
           \/ \E gone \in SUBSET Files : RmUnlink(p, gone)
           \/ AddExit(p) \/ RmFlush(p)
           \/ TakeRemove(p) \/ ReadIndex(p) \/ WriteIndex(p) \/ ListStage(p)
           \/ \E f \in Files : MoveFile(p, f)
           \/ ProbeMillis(p) \/ AppendMillis(p) \/ WriteMillis(p)
           \/ Exits(p) /\ UNCHANGED disk
    PROVE  ChainInv'
<1> USE DEF Goes, Starts, locals, CommitSteps, NotOpened, Before, Composing
<1>t. /\ TypeOK
      /\ \A q \in Procs : \A c \in Cids :
             (CurrentFile \in fd[q] \/ ParentFile(c) \in fd[q]) => pc[q] = "writeCurrent"
  BY DEF ChainInv, TypeInv
<1>1. CASE \/ \E args \in SUBSET Files : AddBegin(p, args)
           \/ \E f \in Files : AddOpen(p, f) \/ AddFlush(p, f) \/ Unadd(p, f)
  <2>1. /\ \A q \in Procs \ {p} : pc'[q] = pc[q]
        /\ pc[p] \in {"idle", "adding"} /\ pc'[p] \in {"idle", "adding"}
        /\ UNCHANGED <<dirs, current, parent, cid>>
    BY <1>1, <1>t DEF AddBegin, AddOpen, AddFlush, Unadd, disk, TypeOK
  <2>2. \A q \in Procs : \A c \in Cids :
            /\ CurrentFile \in fd'[q] => CurrentFile \in fd[q]
            /\ ParentFile(c) \in fd'[q] => ParentFile(c) \in fd[q]
    <3>1. CASE \E f \in Files : AddOpen(p, f)
      <4>1. \A q \in Procs : \A h \in fd'[q] :
                h \in fd[q] \/ \E f \in Files : h = StageFile(f)
        BY <1>t, <3>1 DEF AddOpen, TypeOK
      <4> QED
        BY <4>1, ChainHandles
    <3>2. CASE \/ \E args \in SUBSET Files : AddBegin(p, args)
               \/ \E f \in Files : AddFlush(p, f) \/ Unadd(p, f)
      <4>1. \A q \in Procs : fd'[q] \subseteq fd[q]
        BY <3>2 DEF AddBegin, AddFlush, Unadd, Unlinked
      <4> QED
        BY <4>1
    <3> QED
      BY <1>1, <3>1, <3>2
  <2> QED
    BY <1>t, <2>1, <2>2, QuietFiles
<1>2. CASE \E gone \in SUBSET Files : RmUnlink(p, gone)
  <2> PICK gone \in SUBSET Files : RmUnlink(p, gone)
    BY <1>2
  <2> QED
    BY <1>t, ChainHandles, QuietFiles DEF RmUnlink, TypeOK
<1>3. CASE TakeRemove(p)
  <2>1. cid[p] \in Cids
    BY <1>3 DEF TakeRemove, ChainInv, TypeInv, CommitHasId, TypeOK
  <2>2. \A q \in Procs : \A h \in fd'[q] : h \in fd[q] \/ h = RemoveFile(cid[p])
    BY <1>3, <1>t DEF TakeRemove, Renamed, TypeOK
  <2>3. /\ \A q \in Procs \ {p} : pc'[q] = pc[q]
        /\ pc[p] = "takeRemove" /\ pc'[p] = "readIndex"
        /\ UNCHANGED <<dirs, current, parent, cid>>
    BY <1>3, <1>t DEF TakeRemove, TypeOK
  <2> QED
    BY <1>t, <2>1, <2>2, <2>3, ChainHandles, QuietFiles
<1>4. CASE WriteIndex(p) \/ ListStage(p) \/ ProbeMillis(p)
  <2>1. /\ \A q \in Procs \ {p} : pc'[q] = pc[q]
        /\ \/ pc[p] \in NotOpened /\ pc'[p] \in NotOpened
           \/ pc[p] = "probeMillis" /\ pc'[p] \in {"appendMillis", "writeMillis"}
        /\ UNCHANGED <<dirs, current, parent, cid, fd>>
    BY <1>4, <1>t DEF WriteIndex, ListStage, ProbeMillis, disk, TypeOK
  <2> QED
    BY <1>t, <2>1, QuietFiles
<1>5. CASE \E f \in Files : MoveFile(p, f)
  <2> PICK f \in Files : MoveFile(p, f)
    BY <1>5
  <2>1. cid[p] \in Cids
    BY DEF MoveFile, ChainInv, TypeInv, CommitHasId, TypeOK
  <2>2. \A q \in Procs :
            \A h \in fd'[q] : h \in fd[q] \/ h = StoreFile(cid[p], f)
    BY <1>t DEF MoveFile, Renamed, TypeOK
  <2>3. UNCHANGED <<dirs, current, parent, cid, pc>>
    BY DEF MoveFile
  <2> QED
    BY <1>t, <2>1, <2>2, <2>3, ChainHandles, QuietFiles
<1>6. CASE \/ AddExit(p) \/ RmFlush(p) \/ AppendMillis(p) \/ WriteMillis(p)
           \/ ReadIndex(p) \/ (Exits(p) /\ UNCHANGED disk)
  <2>1. CASE Exits(p) /\ UNCHANGED <<dirs, current, parent>>
    <3>1. /\ \A q \in Procs \ {p} : UNCHANGED <<pc[q], cid[q], fd[q]>>
          /\ pc'[p] = "idle" /\ fd'[p] = {}
      BY <1>t, <2>1 DEF Exits, TypeOK
    <3> QED
      BY <1>t, <2>1, <3>1, ChainHandles, QuietFiles
  <2>2. CASE ReadIndex(p) /\ ~ Exits(p)
    <3>1. /\ \A q \in Procs \ {p} : pc'[q] = pc[q]
          /\ pc[p] = "readIndex" /\ pc'[p] = "writeIndex"
          /\ UNCHANGED <<dirs, current, parent, cid, fd>>
      BY <1>t, <2>2 DEF ReadIndex, disk, TypeOK
    <3> QED
      BY <1>t, <3>1, QuietFiles
  <2> QED
    BY <1>6, <2>1, <2>2
    DEF AddExit, RmFlush, AppendMillis, WriteMillis, ReadIndex, disk
<1> QED
  BY <1>1, <1>2, <1>3, <1>4, <1>5, <1>6

LEMMA CommitBeginChain ==
    ASSUME ChainInv, TypeInv', NEW p \in Procs, NEW c \in Cids,
           CommitBegin(p, c)
    PROVE  ChainInv'
<1>1. /\ c \notin dirs /\ dirs' = dirs \cup {c}
      /\ UNCHANGED <<current, parent, fd>>
      /\ pc[p] = "idle" /\ pc'[p] = "takeParent" /\ cid'[p] = c
      /\ \A q \in Procs \ {p} : UNCHANGED <<pc[q], cid[q]>>
  BY DEF CommitBegin, Starts, Goes, ChainInv, TypeInv, TypeOK
<1>2. \A q \in Procs : \A d \in Cids :
          (CurrentFile \in fd[q] \/ ParentFile(d) \in fd[q]) => q # p
  BY <1>1 DEF ChainInv
<1>3. Tips' = Tips /\ \A d \in Cids : Links(d)' = Links(d)
  <2>1. \A q \in Procs \ {p} : cid'[q] = cid[q]
    BY <1>1
  <2>2. {cid[q] : q \in {r \in Procs : CurrentFile \in fd[r]}}'
        = {cid[q] : q \in {r \in Procs : CurrentFile \in fd[r]}}
    <3>1. \A q \in Procs : CurrentFile \in fd[q] => cid'[q] = cid[q]
      BY <1>2, <2>1 DEF ChainInv, TypeInv, TypeOK
    <3> QED
      BY <1>1, <3>1
  <2>3. ASSUME NEW d \in Cids
        PROVE  {cid[q] : q \in {r \in Procs : ParentFile(d) \in fd[r]}}'
               = {cid[q] : q \in {r \in Procs : ParentFile(d) \in fd[r]}}
    <3>1. \A q \in Procs : ParentFile(d) \in fd[q] => cid'[q] = cid[q]
      BY <1>2, <2>1
    <3> QED
      BY <1>1, <3>1
  <2> QED
    BY <1>1, <2>2, <2>3 DEF Tips, Links
<1>4. \A d \in Cids : Unreached(d)' <=> Unreached(d)
  BY <1>3 DEF Unreached
<1>5. \A q \in Procs : pc[q] \in CommitSteps => cid[q] \in dirs
  BY DEF ChainInv, TypeInv, CommitHasId
<1>6. \A S \in SUBSET Cids : LinksClosed(S)' <=> LinksClosed(S)
  BY <1>3 DEF LinksClosed
<1>7. Unreached(c)
  BY <1>1 DEF ChainInv
<1>8. \A q \in Procs : pc'[q] \in NotOpened => Unreached(cid[q])'
  <2> SUFFICES ASSUME NEW q \in Procs, pc'[q] \in NotOpened
               PROVE  Unreached(cid[q])'
    OBVIOUS
  <2>1. CASE q = p
    BY <1>1, <1>4, <1>7, <2>1
  <2>2. CASE q # p
    <3>1. Unreached(cid[q]) /\ cid'[q] = cid[q]
      BY <1>1, <2>2 DEF ChainInv
    <3>2. cid[q] \in Cids
      BY <1>1, <2>2 DEF ChainInv, TypeInv, TypeOK, CommitHasId, NotOpened,
                        Before, Composing, CommitSteps
    <3> QED
      BY <1>4, <3>1, <3>2
  <2> QED
    BY <2>1, <2>2
<1>9. \A q, r \in Procs :
          q # r /\ pc'[q] \in CommitSteps /\ pc'[r] \in CommitSteps
          => cid'[q] # cid'[r]
  BY <1>1, <1>5 DEF ChainInv
<1>10. \A q \in Procs : \A d \in Cids :
          (CurrentFile \in fd'[q] \/ ParentFile(d) \in fd'[q]) => pc'[q] = "writeCurrent"
  BY <1>1, <1>2 DEF ChainInv
<1>11. \A d \in Cids : \E S \in SUBSET Cids :
           LinksClosed(S)' /\ Links(d)' \subseteq S /\ d \notin S
  BY <1>3, <1>6 DEF ChainInv
<1>12. \A d \in Cids \ dirs' : Unreached(d)'
  BY <1>1, <1>4 DEF ChainInv
<1> QED
  BY <1>8, <1>9, <1>10, <1>11, <1>12 DEF ChainInv

(* The new parent leads to what current led to, and nothing leads to the   *)
(* commit itself.                                                          *)
LEMMA TakeParentChain ==
    ASSUME ChainInv, TypeInv', NEW p \in Procs, TakeParent(p)
    PROVE  ChainInv'
<1>t. /\ TypeOK
      /\ \A q \in Procs : \A d \in Cids :
             (CurrentFile \in fd[q] \/ ParentFile(d) \in fd[q]) => pc[q] = "writeCurrent"
  BY DEF ChainInv, TypeInv
<1>1. /\ pc[p] = "takeParent" /\ pc'[p] = "takeRemove"
      /\ \A q \in Procs \ {p} : pc'[q] = pc[q]
      /\ UNCHANGED <<dirs, cid>>
  BY <1>t DEF TakeParent, Goes, locals, TypeOK
<1>2. PICK c \in Cids : c = cid[p] /\ c \in dirs /\ Unreached(c)
  <2>1. cid[p] \in Cids /\ cid[p] \in dirs /\ Unreached(cid[p])
    BY <1>1 DEF ChainInv, TypeInv, TypeOK, CommitHasId, CommitSteps, NotOpened,
                Before, Composing
  <2> QED
    BY <2>1
<1>3. \A q \in Procs : pc'[q] \in NotOpened => pc[q] \in NotOpened
  BY <1>1 DEF NotOpened, Before
<1>4. \A q \in Procs : pc'[q] \in CommitSteps => pc[q] \in CommitSteps
  BY <1>1 DEF CommitSteps
<1>5. CASE current = None
  <2>1. UNCHANGED <<current, parent, fd>>
    BY <1>5 DEF TakeParent
  <2> QED
    BY <1>t, <1>1, <1>3, <1>4, <2>1, QuietFiles
<1>6. CASE current # None
  <2>1. /\ parent'[c] = current /\ current' = None
        /\ \A d \in Cids \ {c} : parent'[d] = parent[d]
        /\ \A q \in Procs : \A h :
               h \in fd'[q] <=> \/ h \in fd[q] /\ h # CurrentFile
                                \/ h = ParentFile(c) /\ CurrentFile \in fd[q]
    BY <1>2, <1>6, <1>t, ChainHandles DEF TakeParent, Renamed, TypeOK
  <2>2. \A d \in Cids \ {c} : Links(d)' \subseteq Links(d)
    BY <1>1, <1>2, <2>1, ChainHandles DEF Links
  <2>3. Links(c)' \subseteq Tips \cup Links(c)
    BY <1>1, <1>2, <2>1 DEF Links, Tips
  <2>4. Tips' = {}
    BY <1>2, <2>1, ChainHandles, NoneAssumption DEF Tips, NoneAssumption
  <2>5. \A d \in Cids : Unreached(d) => Unreached(d)'
    BY <2>2, <2>3, <2>4, <1>2 DEF Unreached
  <2>6. \A q \in Procs : pc'[q] \in NotOpened => Unreached(cid[q])'
    <3> SUFFICES ASSUME NEW q \in Procs, pc'[q] \in NotOpened
                 PROVE  Unreached(cid[q])'
      OBVIOUS
    <3>1. pc[q] \in NotOpened /\ cid'[q] = cid[q]
      BY <1>1, <1>3
    <3>2. Unreached(cid[q]) /\ cid[q] \in Cids
      BY <3>1 DEF ChainInv, TypeInv, TypeOK, CommitHasId, NotOpened, Before,
                  Composing, CommitSteps
    <3> QED
      BY <2>5, <3>1, <3>2
  <2>7. \A d \in Cids : \E S \in SUBSET Cids :
            LinksClosed(S)' /\ Links(d)' \subseteq S /\ d \notin S
    <3> SUFFICES ASSUME NEW d \in Cids
                 PROVE  \E S \in SUBSET Cids :
                            LinksClosed(S)' /\ Links(d)' \subseteq S /\ d \notin S
      OBVIOUS
    <3>1. PICK S \in SUBSET Cids :
              LinksClosed(S) /\ Links(d) \subseteq S /\ d \notin S
      BY DEF ChainInv
    <3>2. CASE d # c
      <4>1. LinksClosed(S \ {c})'
        BY <1>2, <2>2, <3>1 DEF LinksClosed, Unreached
      <4>2. Links(d)' \subseteq S \ {c}
        BY <1>2, <2>2, <3>1, <3>2 DEF Unreached
      <4> QED
        BY <3>1, <4>1, <4>2
    <3>3. CASE d = c
      <4>1. LinksClosed(Cids \ {c})'
        BY <1>2, <2>2 DEF LinksClosed, Unreached, Links
      <4>2. Links(c)' \subseteq Cids \ {c}
        BY <1>2, <2>3 DEF Unreached, Links, Tips
      <4> QED
        BY <3>3, <4>1, <4>2
    <3> QED
      BY <3>2, <3>3
  <2>8. \A q \in Procs : \A d \in Cids :
            (CurrentFile \in fd'[q] \/ ParentFile(d) \in fd'[q]) => pc'[q] = "writeCurrent"
    BY <1>t, <1>1, <2>1
  <2>9. \A d \in Cids \ dirs' : Unreached(d)'
    BY <1>1, <2>5 DEF ChainInv
  <2> QED
    BY <1>1, <1>4, <2>6, <2>7, <2>8, <2>9 DEF ChainInv
<1> QED
  BY <1>5, <1>6

(* From now on current may lead to the commit.                             *)
LEMMA OpenCurrentChain ==
    ASSUME ChainInv, TypeInv', NEW p \in Procs, OpenCurrent(p)
    PROVE  ChainInv'
<1> DEFINE c == cid[p]
<1>t. /\ TypeOK
      /\ \A q \in Procs : \A d \in Cids :
             (CurrentFile \in fd[q] \/ ParentFile(d) \in fd[q]) => pc[q] = "writeCurrent"
  BY DEF ChainInv, TypeInv
<1>1. /\ pc[p] = "moveFiles" /\ pc'[p] = "writeCurrent"
      /\ current' = Blank /\ fd'[p] = {CurrentFile}
      /\ \A q \in Procs \ {p} : pc'[q] = pc[q] /\ fd'[q] = fd[q]
      /\ UNCHANGED <<dirs, cid, parent>>
  BY <1>t DEF OpenCurrent, Goes, locals, TypeOK
<1>2. c \in Cids /\ c \in dirs
  BY <1>1 DEF ChainInv, TypeInv, TypeOK, CommitHasId, CommitSteps
<1>3. \A d \in Cids : Links(d)' \subseteq Links(d)
  BY <1>1, ChainHandles DEF Links
<1>4. Tips' \subseteq Tips \cup {c}
  BY <1>1, BlankAssumption DEF Tips, BlankAssumption
<1>5. \A d \in Cids \ {c} : Unreached(d) => Unreached(d)'
  BY <1>3, <1>4 DEF Unreached
<1>6. \A q \in Procs : pc'[q] \in NotOpened => Unreached(cid[q])'
  <2> SUFFICES ASSUME NEW q \in Procs, pc'[q] \in NotOpened
               PROVE  Unreached(cid[q])'
    OBVIOUS
  <2>1. q # p /\ pc[q] \in NotOpened /\ cid'[q] = cid[q]
    BY <1>1 DEF NotOpened
  <2>2. cid[q] # c
    BY <1>1, <2>1 DEF ChainInv, NotOpened, Before, Composing, CommitSteps
  <2>3. Unreached(cid[q]) /\ cid[q] \in Cids
    BY <2>1 DEF ChainInv, TypeInv, TypeOK, CommitHasId, NotOpened, Before,
                Composing, CommitSteps
  <2> QED
    BY <1>5, <2>1, <2>2, <2>3
<1>7. \A d \in Cids \ dirs' : Unreached(d)'
  BY <1>1, <1>2, <1>5 DEF ChainInv
<1>8. \A d \in Cids : \E S \in SUBSET Cids :
          LinksClosed(S)' /\ Links(d)' \subseteq S /\ d \notin S
  <2> SUFFICES ASSUME NEW d \in Cids
               PROVE  \E S \in SUBSET Cids :
                          LinksClosed(S)' /\ Links(d)' \subseteq S /\ d \notin S
    OBVIOUS
  <2>1. PICK S \in SUBSET Cids :
            LinksClosed(S) /\ Links(d) \subseteq S /\ d \notin S
    BY DEF ChainInv
  <2> QED
    BY <1>3, <2>1 DEF LinksClosed
<1>9. \A q \in Procs : \A d \in Cids :
          (CurrentFile \in fd'[q] \/ ParentFile(d) \in fd'[q]) => pc'[q] = "writeCurrent"
  BY <1>t, <1>1
<1>10. \A q, r \in Procs :
          q # r /\ pc'[q] \in CommitSteps /\ pc'[r] \in CommitSteps
          => cid'[q] # cid'[r]
  BY <1>1 DEF ChainInv, CommitSteps
<1> QED
  BY <1>6, <1>7, <1>8, <1>9, <1>10 DEF ChainInv

(* The id goes to the file that was open for it.                           *)
LEMMA WriteCurrentChain ==
    ASSUME ChainInv, TypeInv', NEW p \in Procs, WriteCurrent(p)
    PROVE  ChainInv'
<1>t. /\ TypeOK
      /\ \A q \in Procs : \A d \in Cids :
             (CurrentFile \in fd[q] \/ ParentFile(d) \in fd[q]) => pc[q] = "writeCurrent"
  BY DEF ChainInv, TypeInv
<1>1. /\ pc[p] = "writeCurrent" /\ pc'[p] = "probeMillis"
      /\ fd'[p] = {}
      /\ \A q \in Procs \ {p} : pc'[q] = pc[q] /\ fd'[q] = fd[q]
      /\ current' = (IF CurrentFile \in fd[p] THEN cid[p] ELSE current)
      /\ \A d \in Cids : parent'[d] = IF ParentFile(d) \in fd[p] THEN cid[p]
                                                               ELSE parent[d]
      /\ UNCHANGED <<dirs, cid>>
  BY <1>t DEF WriteCurrent, Goes, locals, TypeOK
<1>2. \A q \in Procs : \A d \in Cids :
          (CurrentFile \in fd'[q] \/ ParentFile(d) \in fd'[q])
          => q # p /\ fd'[q] = fd[q] /\ pc'[q] = pc[q]
  BY <1>1, ChainHandles
<1>3. \A d \in Cids : Links(d)' \subseteq Links(d)
  <2> SUFFICES ASSUME NEW d \in Cids, NEW e \in Links(d)'
               PROVE  e \in Links(d)
    OBVIOUS
  <2> QED
    BY <1>1, <1>2 DEF Links
<1>4. Tips' \subseteq Tips
  <2> SUFFICES ASSUME NEW e \in Tips' PROVE e \in Tips
    OBVIOUS
  <2> QED
    BY <1>1 DEF Tips
<1>5. \A q \in Procs : pc'[q] \in NotOpened => pc[q] \in NotOpened
  BY <1>1 DEF NotOpened, Before, Composing
<1>6. \A q \in Procs : pc'[q] \in CommitSteps => pc[q] \in CommitSteps
  BY <1>1 DEF CommitSteps
<1>7. \A q \in Procs : \A d \in Cids :
          (CurrentFile \in fd'[q] \/ ParentFile(d) \in fd'[q]) => pc'[q] = "writeCurrent"
  BY <1>t, <1>2
<1> QED
  BY <1>1, <1>3, <1>4, <1>5, <1>6, <1>7, QuietChain

LEMMA NextChain == ChainInv /\ [Next]_vars => ChainInv'
<1> SUFFICES ASSUME ChainInv, [Next]_vars
             PROVE  ChainInv'
  OBVIOUS
<1>1. TypeInv'
  BY NextType DEF ChainInv
<1>t. \A q \in Procs : \A d \in Cids :
          (CurrentFile \in fd[q] \/ ParentFile(d) \in fd[q]) => pc[q] = "writeCurrent"
  BY DEF ChainInv
<1>2. CASE UNCHANGED <<dirs, current, parent, pc, cid, fd>>
  BY <1>t, <1>1, <1>2, QuietFiles
<1>3. CASE \E f \in Files, d \in Data \cup {None} : Edit(f, d)
  BY <1>2, <1>3 DEF Edit, locals
<1>4. ASSUME NEW p \in Procs, Start(p) PROVE ChainInv'
  BY <1>1, <1>4, QuietActionsChain, CommitBeginChain DEF Start
<1>5. ASSUME NEW p \in Procs, Step(p) PROVE ChainInv'
  BY <1>1, <1>5, QuietActionsChain, TakeParentChain, OpenCurrentChain,
     WriteCurrentChain
  DEF Step
<1>6. ASSUME NEW p \in Procs, Crash(p) PROVE ChainInv'
  BY <1>1, <1>6, QuietActionsChain DEF Crash
<1> QED
  BY <1>2, <1>3, <1>4, <1>5, <1>6 DEF Next, vars, disk, locals

(* However many commits race for the same current, write each other's      *)
(* parent file and are killed half way: no commit is its own ancestor, so  *)
(* the walk of list through the parents ends.                              *)
THEOREM HistoryIsAcyclic == Spec => []Acyclic
<1>1. Spec => []ChainInv
  BY InitChain, NextChain, PTL DEF Spec
<1> QED
  BY <1>1, ChainAcyclic, PTL

-----------------------------------------------------------------------------
(* The history is kept.                                                    *)

Indexed == {c \in Cids : cindex[c] # None}

(* The steps of a commit before its index is written.                      *)
Unindexed == {"takeParent", "takeRemove", "readIndex", "writeIndex"}

(* Where the chain of all commits that have an index starts while p        *)
(* commits and the repository has no current.                              *)
Origin(p) == IF pc[p] \in Unindexed THEN parent[cid[p]] ELSE cid[p]

(* What makes HistoryKept inductive: while the repository has no current,  *)
(* the commit under way holds on to the whole history, and a commit has    *)
(* neither index nor parent before it takes current.                       *)
HistInv ==
    /\ TypeInv
    /\ RolesKept
    /\ \A c \in Cids \ dirs : cindex[c] = None /\ parent[c] = None
    /\ current = Blank => \E p \in Procs : pc[p] = "writeCurrent"
    /\ (\A p \in Procs : pc[p] \notin Holding) => Indexed = Ancestors(current)
    /\ \A p \in Procs :
           /\ pc[p] = "takeParent" => parent[cid[p]] = None
           /\ pc[p] \in Unindexed => cindex[cid[p]] = None
           /\ pc[p] \in Holding => /\ parent[cid[p]] # Blank
                                   /\ Indexed = Ancestors(Origin(p))
           /\ pc[p] = "writeCurrent" => fd[p] = {CurrentFile}

(* Nobody has killed a command, and no index is unreadable.                *)
NoKills == kills = 0
NoColons == ColonFiles = {}

(* The ancestors of c change only if the parent of one of them does.       *)
LEMMA AncestorsFrame ==
    ASSUME NEW c, \A d \in Ancestors(c) : UNCHANGED parent[d]
    PROVE  Ancestors(c)' = Ancestors(c)
<1>1. Ancestors(c) \subseteq Cids /\ Ancestors(c)' \subseteq Cids
  BY DEF Ancestors
<1>2. PICK A \in SUBSET Cids : A = Ancestors(c)
  BY <1>1
<1>3. Closed(A)' /\ {c} \cap Cids \subseteq A
  BY <1>2, AncestorsLeast DEF Closed
<1>4. Ancestors(c)' \subseteq A
  BY <1>3 DEF Ancestors
<1>5. PICK B \in SUBSET Cids : B = Ancestors(c)'
  BY <1>1
<1>6. Closed(B)' /\ {c} \cap Cids \subseteq B
  <2>1. {c} \cap Cids \subseteq B
    BY <1>5 DEF Ancestors
  <2> SUFFICES ASSUME NEW d \in B, parent'[d] \in Cids
               PROVE  parent'[d] \in B
    BY <2>1 DEF Closed
  <2> SUFFICES ASSUME NEW S \in SUBSET Cids, {c} \cap Cids \subseteq S,
                      Closed(S)'
               PROVE  parent'[d] \in S
    BY <1>5 DEF Ancestors
  <2>2. d \in S
    BY <1>5 DEF Ancestors
  <2> QED
    BY <2>2 DEF Closed
<1>7. Closed(B)
  BY <1>2, <1>4, <1>5, <1>6 DEF Closed
<1>8. A \subseteq B
  BY <1>2, <1>6, <1>7, AncestorsLeast
<1> QED
  BY <1>2, <1>4, <1>5, <1>8

LEMMA InitHist == Init => HistInv
<1> SUFFICES ASSUME Init PROVE HistInv
  OBVIOUS
<1>1. TypeInv
  BY InitType DEF Init, TypeInv, CommitHasId, CommitSteps
<1>2. Indexed = {} /\ current # Blank /\ Ancestors(current) = {}
  BY NoAncestors, NoneAssumption, BlankAssumption
  DEF Init, Indexed, NoneAssumption, BlankAssumption
<1> QED
  BY <1>1, <1>2 DEF Init, HistInv, RolesKept, CommitSteps, Unindexed, Holding,
                    Composing

(* The steps that are no commit's, and the last ones of a commit.          *)
LEMMA QuietHist ==
    ASSUME HistInv, TypeInv', RolesKept',
           UNCHANGED <<current, parent, cindex>>,
           dirs \subseteq dirs',
           \A p \in Procs : pc[p] \in Holding => UNCHANGED pc[p],
           \A p \in Procs : pc[p] = "writeCurrent" => UNCHANGED fd[p],
           \A p \in Procs : pc'[p] \in Before => UNCHANGED <<pc[p], cid[p]>>
    PROVE  HistInv'
<1>1. \A p \in Procs :
          /\ pc[p] \in Holding <=> pc'[p] \in Holding
          /\ pc[p] = "writeCurrent" <=> pc'[p] = "writeCurrent"
  BY DEF Holding, Before, Composing
<1>2. Ancestors(current)' = Ancestors(current) /\ Indexed' = Indexed
  BY DEF Indexed, Ancestors, Closed
<1>3. \A p \in Procs : pc'[p] \in Before =>
          /\ parent'[cid'[p]] = parent[cid[p]]
          /\ cindex'[cid'[p]] = cindex[cid[p]]
          /\ Ancestors(Origin(p))' = Ancestors(Origin(p))
  BY DEF Origin, Ancestors, Closed
<1>4. \A p \in Procs :
          /\ pc'[p] = "takeParent" => parent'[cid'[p]] = None
          /\ pc'[p] \in Unindexed => cindex'[cid'[p]] = None
          /\ pc'[p] \in Holding => /\ parent'[cid'[p]] # Blank
                                   /\ Indexed' = Ancestors(Origin(p))'
          /\ pc'[p] = "writeCurrent" => fd'[p] = {CurrentFile}
  BY <1>1, <1>2, <1>3 DEF HistInv, Before, Composing, Holding, Unindexed
<1>5. \A c \in Cids \ dirs' : cindex'[c] = None /\ parent'[c] = None
  BY DEF HistInv
<1>6. current' = Blank => \E p \in Procs : pc'[p] = "writeCurrent"
  BY <1>1 DEF HistInv
<1>7. (\A p \in Procs : pc'[p] \notin Holding)
      => Indexed' = Ancestors(current)'
  BY <1>1, <1>2 DEF HistInv
<1> QED
  BY <1>4, <1>5, <1>6, <1>7 DEF HistInv

LEMMA OneCommits ==
    ASSUME OneCommitter, HistInv, NEW p \in Procs, NEW q \in Procs,
           pc[p] \in CommitSteps, pc[q] \in CommitSteps
    PROVE  p = q
BY DEF OneCommitter, HistInv, RolesKept

LEMMA QuietActionsHist ==
    ASSUME HistInv, TypeInv', NEW p \in Procs,
           \/ \E args \in SUBSET Files : AddBegin(p, args)
           \/ \E f \in Files : AddOpen(p, f) \/ AddFlush(p, f) \/ Unadd(p, f)
           \/ \E gone \in SUBSET Files : RmUnlink(p, gone)
           \/ AddExit(p) \/ RmFlush(p)
           \/ ProbeMillis(p) \/ AppendMillis(p) \/ WriteMillis(p)
    PROVE  HistInv'
<1> USE DEF Goes, Starts, locals, CommitSteps, Before, Holding, Composing
<1>t. TypeOK /\ RolesKept /\
      \A q \in Procs : pc[q] = "writeCurrent" => fd[q] = {CurrentFile}
  BY DEF HistInv, TypeInv
<1>1. CASE \/ \E args \in SUBSET Files : AddBegin(p, args)
           \/ \E f \in Files : AddOpen(p, f) \/ AddFlush(p, f) \/ Unadd(p, f)
  <2>1. /\ \A q \in Procs \ {p} : pc'[q] = pc[q]
        /\ pc[p] \in {"idle", "adding"} /\ pc'[p] \in {"idle", "adding"}
        /\ UNCHANGED <<dirs, current, parent, cindex, cid>>
    BY <1>1, <1>t DEF AddBegin, AddOpen, AddFlush, Unadd, disk, TypeOK
  <2>2. \A f \in Files : StageFile(f) # CurrentFile
    BY DEF StageFile, CurrentFile, Handle
  <2>3. \A q \in Procs : pc[q] = "writeCurrent" => fd'[q] = fd[q]
    <3> SUFFICES ASSUME NEW q \in Procs, pc[q] = "writeCurrent"
                 PROVE  fd'[q] = fd[q]
      OBVIOUS
    <3>1. q # p /\ fd[q] = {CurrentFile}
      BY <1>t, <2>1
    <3>2. CASE \/ \E args \in SUBSET Files : AddBegin(p, args)
               \/ \E f \in Files : AddOpen(p, f) \/ AddFlush(p, f)
      BY <1>t, <3>1, <3>2 DEF AddBegin, AddOpen, AddFlush, TypeOK
    <3>3. CASE \E f \in Files : Unadd(p, f)
      BY <2>2, <3>1, <3>3 DEF Unadd, Unlinked
    <3> QED
      BY <1>1, <3>2, <3>3
  <2> QED
    BY <1>t, <2>1, <2>3, QuietHist DEF RolesKept
<1>2. CASE \E gone \in SUBSET Files : RmUnlink(p, gone)
  <2> PICK gone \in SUBSET Files : RmUnlink(p, gone)
    BY <1>2
  <2> QED
    BY <1>t, QuietHist DEF RmUnlink, TypeOK, RolesKept
<1>3. CASE ProbeMillis(p)
  BY <1>t, <1>3, QuietHist DEF ProbeMillis, TypeOK, RolesKept
<1>4. CASE AddExit(p) \/ RmFlush(p) \/ AppendMillis(p) \/ WriteMillis(p)
  <2>1. UNCHANGED <<current, parent, cindex, dirs>> /\ Exits(p)
    BY <1>4 DEF AddExit, RmFlush, AppendMillis, WriteMillis, disk
  <2>2. pc[p] \notin Before
    BY <1>4 DEF AddExit, RmFlush, AppendMillis, WriteMillis, disk
  <2>3. /\ pc'[p] = "idle"
        /\ \A q \in Procs \ {p} : UNCHANGED <<pc[q], cid[q], fd[q]>>
    BY <1>t, <2>1 DEF Exits, TypeOK
  <2> QED
    BY <1>t, <2>1, <2>2, <2>3, QuietHist DEF RolesKept
<1> QED
  BY <1>1, <1>2, <1>3, <1>4

(* A step of the commit under way: it alone is looked at.                  *)
LEMMA CommitterHist ==
    ASSUME OneCommitter, HistInv, TypeInv', NEW p \in Procs,
           pc[p] \in CommitSteps, Goes(p, pc[p], pc'[p]), pc'[p] \in CommitSteps,
           UNCHANGED <<dirs, cid>>,
           \A c \in Cids \ {cid[p]} : UNCHANGED <<cindex[c], parent[c]>>,
           current' = Blank => pc'[p] = "writeCurrent",
           pc'[p] \notin Holding => Indexed' = Ancestors(current)',
           pc'[p] = "takeParent" => parent'[cid[p]] = None,
           pc'[p] \in Unindexed => cindex'[cid[p]] = None,
           pc'[p] \in Holding => /\ parent'[cid[p]] # Blank
                                 /\ Indexed' = Ancestors(Origin(p))',
           pc'[p] = "writeCurrent" => fd'[p] = {CurrentFile}
    PROVE  HistInv'
<1>1. \A q \in Procs \ {p} :
          /\ pc'[q] = pc[q]
          /\ pc[q] \notin CommitSteps
  BY OneCommits DEF Goes, HistInv, TypeInv, TypeOK
<1>2. \A q \in Procs \ {p} :
          /\ pc'[q] \notin Holding /\ pc'[q] \notin Unindexed
          /\ pc'[q] # "takeParent" /\ pc'[q] # "writeCurrent"
  BY <1>1 DEF CommitSteps, Holding, Composing, Unindexed
<1>3. RolesKept'
  BY <1>1 DEF HistInv, RolesKept
<1>4. \A c \in Cids \ dirs' : cindex'[c] = None /\ parent'[c] = None
  <2>1. cid[p] \in dirs
    BY DEF HistInv, TypeInv, CommitHasId
  <2> QED
    BY <2>1 DEF HistInv
<1>5. \A q \in Procs :
          /\ pc'[q] = "takeParent" => parent'[cid'[q]] = None
          /\ pc'[q] \in Unindexed => cindex'[cid'[q]] = None
          /\ pc'[q] \in Holding => /\ parent'[cid'[q]] # Blank
                                   /\ Indexed' = Ancestors(Origin(q))'
          /\ pc'[q] = "writeCurrent" => fd'[q] = {CurrentFile}
  BY <1>2
<1> QED
  BY <1>3, <1>4, <1>5 DEF HistInv

LEMMA CommitBeginHist ==
    ASSUME OneCommitter, HistInv, TypeInv', NEW p \in Procs, NEW c \in Cids,
           CommitBegin(p, c)
    PROVE  HistInv'
<1>1. /\ c \notin dirs /\ dirs' = dirs \cup {c}
      /\ UNCHANGED <<current, parent, cindex, fd>>
      /\ pc[p] = "idle" /\ pc'[p] = "takeParent" /\ cid'[p] = c
      /\ "commit" \in Role[p]
      /\ \A q \in Procs \ {p} : UNCHANGED <<pc[q], cid[q]>>
  BY DEF CommitBegin, Starts, Goes, HistInv, TypeInv, TypeOK
<1>2. \A q \in Procs : pc[q] \notin CommitSteps
  BY <1>1 DEF HistInv, RolesKept, OneCommitter, CommitSteps
<1>3. \A q \in Procs : q # p => pc'[q] \notin CommitSteps
  BY <1>1, <1>2
<1>4. \A q \in Procs : pc'[q] # "writeCurrent" /\ pc'[q] \notin Holding
                       /\ pc[q] # "writeCurrent" /\ pc[q] \notin Holding
  BY <1>1, <1>2, <1>3 DEF CommitSteps, Holding, Composing
<1>5. Indexed = Ancestors(current) /\ current # Blank
  BY <1>4 DEF HistInv
<1>6. Indexed' = Ancestors(current)'
  BY <1>1, <1>5 DEF Indexed, Ancestors, Closed
<1>7. cindex'[c] = None /\ parent'[c] = None
  BY <1>1 DEF HistInv
<1>8. RolesKept'
  BY <1>1, <1>3 DEF RolesKept
<1>9. \A q \in Procs :
          /\ pc'[q] = "takeParent" => parent'[cid'[q]] = None
          /\ pc'[q] \in Unindexed => cindex'[cid'[q]] = None
  BY <1>1, <1>3, <1>7 DEF Unindexed, CommitSteps
<1>10. \A d \in Cids \ dirs' : cindex'[d] = None /\ parent'[d] = None
  BY <1>1 DEF HistInv
<1> QED
  BY <1>1, <1>4, <1>5, <1>6, <1>8, <1>9, <1>10 DEF HistInv

(* The commit takes the history over from current.                         *)
LEMMA TakeParentHist ==
    ASSUME OneCommitter, HistInv, TypeInv', NEW p \in Procs, TakeParent(p)
    PROVE  HistInv'
<1>t. TypeOK
  BY DEF HistInv, TypeInv
<1>1. /\ pc[p] = "takeParent" /\ pc'[p] = "takeRemove"
      /\ Goes(p, pc[p], pc'[p])
      /\ UNCHANGED <<dirs, cid, cindex>>
  BY <1>t DEF TakeParent, Goes, locals, TypeOK
<1>2. PICK c \in Cids : c = cid[p]
  BY <1>1 DEF HistInv, TypeInv, TypeOK, CommitHasId, CommitSteps
<1>3. parent[c] = None /\ cindex[c] = None
  BY <1>1, <1>2 DEF HistInv, Unindexed
<1>4. \A q \in Procs : pc[q] # "writeCurrent" /\ pc[q] \notin Holding
  BY <1>1, OneCommits DEF CommitSteps, Holding, Composing
<1>5. Indexed = Ancestors(current) /\ current # Blank
  BY <1>4 DEF HistInv
<1>6. PICK x \in Tip : x = current
  BY <1>t DEF TypeOK
<1>7. /\ parent'[c] = x /\ current' = None
      /\ \A d \in Cids \ {c} : parent'[d] = parent[d]
  BY <1>2, <1>3, <1>6, <1>t DEF TakeParent, TypeOK
<1>8. Ancestors(x)' = Ancestors(x)
  <2>1. c \notin Ancestors(x) /\ Ancestors(x) \subseteq Cids
    BY <1>3, <1>5, <1>6, AncestorsLeast DEF Indexed
  <2> QED
    BY <1>7, <2>1, AncestorsFrame
<1>9. Indexed' = Ancestors(Origin(p))'
  <2>1. Origin(p)' = x
    BY <1>1, <1>2, <1>7 DEF Origin, Unindexed
  <2>2. Ancestors(Origin(p))' = Ancestors(x)'
    BY <2>1 DEF Ancestors
  <2>3. Indexed' = Indexed
    BY <1>1 DEF Indexed
  <2> QED
    BY <1>5, <1>6, <1>8, <2>2, <2>3
<1> QED
  BY <1>1, <1>2, <1>3, <1>5, <1>6, <1>7, <1>9, CommitterHist, BlankAssumption
  DEF CommitSteps, Holding, Composing, Unindexed, BlankAssumption

(* The steps between that leave the indexes and the parents alone.         *)
LEMMA BetweenHist ==
    ASSUME OneCommitter, HistInv, TypeInv', NEW p \in Procs,
           TakeRemove(p) \/ ListStage(p) \/ OpenCurrent(p)
           \/ \E f \in Files : MoveFile(p, f)
    PROVE  HistInv'
<1>t. TypeOK
  BY DEF HistInv, TypeInv
<1>1. /\ \/ pc[p] = "takeRemove" /\ pc'[p] = "readIndex"
         \/ /\ pc[p] \in {"listStage", "moveFiles"}
            /\ pc'[p] \in {"moveFiles", "writeCurrent"}
      /\ Goes(p, pc[p], pc'[p])
      /\ current' # current => current' = Blank /\ pc'[p] = "writeCurrent"
      /\ pc'[p] = "writeCurrent" => fd'[p] = {CurrentFile}
      /\ UNCHANGED <<dirs, cid, cindex, parent>>
  <2>1. CASE TakeRemove(p)
    BY <1>t, <2>1 DEF TakeRemove, Goes, locals, TypeOK
  <2>2. CASE ListStage(p)
    BY <1>t, <2>2 DEF ListStage, Goes, disk, TypeOK
  <2>3. CASE OpenCurrent(p)
    BY <1>t, <2>3 DEF OpenCurrent, Goes, locals, TypeOK
  <2>4. CASE \E f \in Files : MoveFile(p, f)
    <3> PICK f \in Files : MoveFile(p, f)
      BY <2>4
    <3> QED
      BY <1>t DEF MoveFile, Goes, TypeOK
  <2> QED
    BY <2>1, <2>2, <2>3, <2>4
<1>2. /\ pc[p] \in CommitSteps /\ pc'[p] \in CommitSteps
      /\ pc[p] \in Holding /\ pc'[p] \in Holding
      /\ pc[p] \in Unindexed <=> pc'[p] \in Unindexed
      /\ pc'[p] # "takeParent"
  BY <1>1 DEF CommitSteps, Holding, Composing, Unindexed
<1>3. PICK c \in Cids : c = cid[p]
  BY <1>2 DEF HistInv, TypeInv, TypeOK, CommitHasId
<1>4. current = Blank => pc'[p] = "writeCurrent"
  <2> SUFFICES ASSUME current = Blank PROVE FALSE
    OBVIOUS
  <2>1. PICK q \in Procs : pc[q] = "writeCurrent"
    BY DEF HistInv
  <2> QED
    BY <1>1, <1>2, <2>1, OneCommits DEF CommitSteps
<1>5. /\ parent[c] # Blank /\ Indexed = Ancestors(Origin(p))
      /\ pc[p] \in Unindexed => cindex[c] = None
  BY <1>2, <1>3 DEF HistInv
<1>6. Indexed' = Ancestors(Origin(p))'
  <2>1. Origin(p)' = Origin(p)
    BY <1>1, <1>2 DEF Origin
  <2> QED
    BY <1>1, <1>5, <2>1 DEF Indexed, Ancestors, Closed
<1> QED
  BY <1>1, <1>2, <1>3, <1>4, <1>5, <1>6, CommitterHist

(* The parent's index is there and is read: commit does not end here.      *)
LEMMA ReadIndexLoads ==
    ASSUME NoColons, HistInv, NEW p \in Procs, ReadIndex(p)
    PROVE  Goes(p, "readIndex", "writeIndex") /\ UNCHANGED <<cid, fd>>
<1>t. TypeOK
  BY DEF HistInv, TypeInv
<1>1. pc[p] = "readIndex"
  BY DEF ReadIndex
<1>2. PICK c \in Cids : c = cid[p]
  BY <1>1 DEF HistInv, TypeInv, TypeOK, CommitHasId, CommitSteps
<1>3. parent[c] # Blank /\ Indexed = Ancestors(parent[c])
  BY <1>1, <1>2 DEF HistInv, Holding, Unindexed, Origin
<1>4. parent[c] # None => Loadable(parent[c])
  <2> SUFFICES ASSUME parent[c] # None PROVE Loadable(parent[c])
    OBVIOUS
  <2>1. parent[c] \in Cids
    BY <1>t, <1>2, <1>3 DEF TypeOK, Tip
  <2>2. parent[c] \in Indexed
    BY <1>3, <2>1, AncestorsLeast
  <2> QED
    BY <2>1, <2>2 DEF Loadable, Indexed, Readable, NoColons
<1> QED
  BY <1>2, <1>4 DEF ReadIndex

LEMMA ReadIndexHist ==
    ASSUME NoColons, OneCommitter, HistInv, TypeInv', NEW p \in Procs,
           ReadIndex(p)
    PROVE  HistInv'
<1>t. TypeOK
  BY DEF HistInv, TypeInv
<1>1. pc[p] = "readIndex" /\ UNCHANGED disk
  BY DEF ReadIndex
<1>2. PICK c \in Cids : c = cid[p]
  BY <1>1 DEF HistInv, TypeInv, TypeOK, CommitHasId, CommitSteps
<1>3. /\ parent[c] # Blank /\ Indexed = Ancestors(Origin(p))
      /\ cindex[c] = None /\ Origin(p) = parent[c]
  BY <1>1, <1>2 DEF HistInv, Holding, Unindexed, Origin
<1>4. /\ Goes(p, "readIndex", "writeIndex")
      /\ UNCHANGED <<cid, fd>>
  BY ReadIndexLoads
<1>5. pc'[p] = "writeIndex" /\ Goes(p, pc[p], pc'[p])
  BY <1>t, <1>4 DEF Goes, TypeOK
<1>6. current # Blank
  <2> SUFFICES ASSUME current = Blank PROVE FALSE
    OBVIOUS
  <2>1. PICK q \in Procs : pc[q] = "writeCurrent"
    BY DEF HistInv
  <2> QED
    BY <1>1, <2>1, OneCommits DEF CommitSteps
<1>7. Indexed' = Ancestors(Origin(p))'
  <2>1. Origin(p)' = Origin(p)
    BY <1>1, <1>4, <1>5 DEF Origin, Unindexed, disk
  <2> QED
    BY <1>1, <1>3, <2>1 DEF Indexed, Ancestors, Closed, disk
<1> QED
  BY <1>1, <1>2, <1>3, <1>4, <1>5, <1>6, <1>7, CommitterHist
  DEF CommitSteps, Holding, Composing, Unindexed, disk

(* With its index the commit joins the chain as its new head.              *)
LEMMA WriteIndexHist ==
    ASSUME OneCommitter, HistInv, TypeInv', NEW p \in Procs, WriteIndex(p)
    PROVE  HistInv'
<1>t. TypeOK /\ cindex' \in [Cids -> Index \cup {None}]
  BY DEF HistInv, TypeInv, TypeOK
<1>1. /\ pc[p] = "writeIndex" /\ pc'[p] = "listStage"
      /\ Goes(p, pc[p], pc'[p])
      /\ UNCHANGED <<dirs, cid, parent, current>>
  BY <1>t DEF WriteIndex, Goes, TypeOK
<1>2. PICK c \in Cids : c = cid[p]
  BY <1>1 DEF HistInv, TypeInv, TypeOK, CommitHasId, CommitSteps
<1>3. /\ parent[c] # Blank /\ Indexed = Ancestors(parent[c])
      /\ cindex[c] = None
  BY <1>1, <1>2 DEF HistInv, Holding, Composing, Unindexed, Origin
<1>4. /\ cindex'[c] # None
      /\ \A d \in Cids \ {c} : cindex'[d] = cindex[d]
  <2>1. cindex'[c] = Drop(tree[p], Listed(remove[c]))
        /\ \A d \in Cids \ {c} : cindex'[d] = cindex[d]
    BY <1>t, <1>2 DEF WriteIndex, TypeOK
  <2>2. Drop(tree[p], Listed(remove[c])) \in Index
    BY <1>t DEF Drop, TypeOK, Index
  <2> QED
    BY <2>1, <2>2, NoneAssumption DEF NoneAssumption
<1>5. Indexed' = {c} \cup Indexed
  BY <1>4 DEF Indexed
<1>6. Ancestors(c) = {c} \cup Ancestors(parent[c])
  BY AncestorsStep
<1>7. Ancestors(Origin(p))' = Ancestors(c)
  <2>1. Origin(p)' = c
    BY <1>1, <1>2 DEF Origin, Unindexed
  <2> QED
    BY <1>1, <2>1 DEF Ancestors, Closed
<1>8. current # Blank
  <2> SUFFICES ASSUME current = Blank PROVE FALSE
    OBVIOUS
  <2>1. PICK q \in Procs : pc[q] = "writeCurrent"
    BY DEF HistInv
  <2> QED
    BY <1>1, <2>1, OneCommits DEF CommitSteps
<1> QED
  BY <1>1, <1>2, <1>3, <1>4, <1>5, <1>6, <1>7, <1>8, CommitterHist
  DEF CommitSteps, Holding, Composing, Unindexed

(* The history goes back to current, one commit longer.                    *)
LEMMA WriteCurrentHist ==
    ASSUME OneCommitter, HistInv, TypeInv', NEW p \in Procs, WriteCurrent(p)
    PROVE  HistInv'
<1>t. TypeOK
  BY DEF HistInv, TypeInv
<1>1. /\ pc[p] = "writeCurrent" /\ pc'[p] = "probeMillis"
      /\ Goes(p, pc[p], pc'[p])
      /\ UNCHANGED <<dirs, cid, cindex>>
  BY <1>t DEF WriteCurrent, Goes, locals, TypeOK
<1>2. PICK c \in Cids : c = cid[p]
  BY <1>1 DEF HistInv, TypeInv, TypeOK, CommitHasId, CommitSteps
<1>3. fd[p] = {CurrentFile} /\ Indexed = Ancestors(c)
  BY <1>1, <1>2 DEF HistInv, Holding, Composing, Unindexed, Origin
<1>4. current' = c /\ \A d \in Cids : parent'[d] = parent[d]
  BY <1>2, <1>3, ChainHandles DEF WriteCurrent
<1>5. Ancestors(c)' = Ancestors(c)
  BY <1>4, AncestorsLeast, AncestorsFrame
<1>6. Indexed' = Ancestors(current)'
  <2>1. Ancestors(current)' = Ancestors(c)'
    BY <1>4 DEF Ancestors
  <2>2. Indexed' = Indexed
    BY <1>1 DEF Indexed
  <2> QED
    BY <1>3, <1>5, <2>1, <2>2
<1> QED
  BY <1>1, <1>2, <1>4, <1>6, CommitterHist, BlankAssumption
  DEF CommitSteps, Holding, Composing, Unindexed, BlankAssumption

LEMMA NextHist ==
    ASSUME NoKills, NoKills', NoColons, OneCommitter, HistInv, [Next]_vars
    PROVE  HistInv'
<1>1. TypeInv'
  BY NextType DEF HistInv
<1>2. CASE UNCHANGED <<current, dirs, parent, cindex, pc, cid, fd>>
  BY <1>1, <1>2, QuietHist DEF HistInv, RolesKept
<1>3. CASE \E f \in Files, d \in Data \cup {None} : Edit(f, d)
  BY <1>2, <1>3 DEF Edit, locals
<1>4. ASSUME NEW p \in Procs, Start(p) PROVE HistInv'
  BY <1>1, <1>4, QuietActionsHist, CommitBeginHist DEF Start
<1>5. ASSUME NEW p \in Procs, Step(p) PROVE HistInv'
  BY <1>1, <1>5, QuietActionsHist, TakeParentHist, BetweenHist, ReadIndexHist,
     WriteIndexHist, WriteCurrentHist
  DEF Step
<1>6. ASSUME NEW p \in Procs, Crash(p) PROVE HistInv'
  BY <1>6 DEF Crash, NoKills, HistInv, TypeInv, TypeOK
<1> QED
  BY <1>2, <1>3, <1>4, <1>5, <1>6 DEF Next, vars, disk, locals

(* With one process that commits, whatever the others stage, unstage and   *)
(* remove meanwhile: when no command runs, every commit with an index is   *)
(* on the chain that starts at current.  A kill and a path with a ':' are  *)
(* excluded because each of them does lose the chain.                      *)
THEOREM HistoryStaysWhole ==
    ASSUME NoColons, OneCommitter
    PROVE  Spec /\ []NoKills => []HistoryKept
<1>1. HistInv /\ NoKills /\ NoKills' /\ [Next]_vars => HistInv'
  BY NextHist
<1>2. HistInv => HistoryKept
  BY DEF HistInv, HistoryKept, Idle, Indexed, Holding, Composing
<1> QED
  BY <1>1, <1>2, InitHist, PTL DEF Spec

-----------------------------------------------------------------------------
(* Short ids.                                                              *)

(* Which commits are named, with one process that commits.                 *)
NamingInv ==
    /\ TypeInv
    /\ RolesKept
    /\ NamedMade
    /\ NotYetNamed
    /\ CurrentTaken
    /\ FreshParent
    /\ \A p \in Procs : pc[p] = "writeCurrent" => fd[p] = {CurrentFile}

(* The steps of register_millis, and the commits that are at them.         *)
Registering == {"probeMillis", "appendMillis", "writeMillis"}
Waiting == {cid[p] : p \in {q \in Procs : pc[q] \in Registering}}

(* The commits with prefix m that register_millis is done with.            *)
Entered(m) == {c \in Named : MillisOf[c] = m} \ Waiting

(* The tokens k are the commits of E, each one on a line of its own.       *)
Lines(k, E) ==
    /\ Len(k) = 2 * Cardinality(E)
    /\ E = {k[i] : i \in DOMAIN k} \ {NL}
    /\ \A i \in DOMAIN k : (k[i] = NL) = (i % 2 = 0)

(* What the two files of prefix m hold: nothing, the only commit, or every *)
(* commit on a line of its own.                                            *)
Filed(m) ==
    /\ IsFiniteSet(Entered(m))
    /\ \/ /\ Entered(m) = {}
          /\ expected[m] = None /\ conflicts[m] = None
       \/ /\ expected[m] \in Cids /\ Entered(m) = {expected[m]}
          /\ conflicts[m] = None
       \/ /\ Cardinality(Entered(m)) > 1
          /\ expected[m] = None /\ conflicts[m] # None
          /\ Lines(conflicts[m], Entered(m))

(* The only entry of m was renamed and has no newline yet.                 *)
Unended(m) ==
    \E d \in Cids : /\ Entered(m) = {d}
                    /\ expected[m] = None /\ conflicts[m] = <<d>>

(* What makes ShortIdsResolve inductive.                                   *)
MillisInv ==
    /\ NamingInv
    /\ \A p \in Procs : pc[p] \in Registering => cid[p] \in Named
    /\ \A p \in Procs :
           pc[p] = "writeMillis" => expected[MillisOf[cid[p]]] = None
    /\ \A m \in Millis :
           IF \E p \in Procs : pc[p] = "appendMillis" /\ MillisOf[cid[p]] = m
           THEN Unended(m) ELSE Filed(m)

LEMMA InitNaming == Init => NamingInv
<1> SUFFICES ASSUME Init PROVE NamingInv
  OBVIOUS
<1>1. TypeInv
  BY InitType DEF Init, TypeInv, CommitHasId, CommitSteps
<1>2. Named = {}
  BY NoneAssumption DEF Init, Named, NoneAssumption
<1> QED
  BY <1>1, <1>2
  DEF Init, NamingInv, RolesKept, NamedMade, NotYetNamed, CurrentTaken,
      FreshParent, CommitSteps, Before, Holding, Composing

(* The steps that write neither current nor a parent file.                 *)
LEMMA QuietNaming ==
    ASSUME NamingInv, TypeInv', RolesKept',
           UNCHANGED <<dirs, current, parent>>,
           \A p \in Procs : pc'[p] \in Before =>
               /\ pc[p] \in Before /\ UNCHANGED cid[p]
               /\ pc'[p] \in Holding => pc[p] \in Holding
               /\ pc'[p] = "takeParent" => pc[p] = "takeParent",
           \A p \in Procs : pc'[p] = "writeCurrent" =>
               pc[p] = "writeCurrent" /\ UNCHANGED fd[p]
    PROVE  NamingInv' /\ Named' = Named
<1>1. Named' = Named
  BY DEF Named
<1>2. CurrentTaken' /\ NotYetNamed' /\ NamedMade'
  BY <1>1 DEF NamingInv, CurrentTaken, NotYetNamed, NamedMade, Holding, Before,
              Composing
<1>3. FreshParent'
  BY DEF NamingInv, FreshParent, Before
<1>4. \A p \in Procs : pc'[p] = "writeCurrent" => fd'[p] = {CurrentFile}
  BY DEF NamingInv
<1> QED
  BY <1>1, <1>2, <1>3, <1>4 DEF NamingInv

LEMMA OneNames ==
    ASSUME OneCommitter, NamingInv, NEW p \in Procs, NEW q \in Procs,
           pc[p] \in CommitSteps, pc[q] \in CommitSteps
    PROVE  p = q
BY DEF OneCommitter, NamingInv, RolesKept

(* What a commit under way knows of itself.                                *)
LEMMA UnderwayNamed ==
    ASSUME NamingInv, NEW p \in Procs, pc[p] \in Before
    PROVE  /\ cid[p] \in Cids /\ cid[p] \in dirs /\ cid[p] \notin Named
           /\ pc[p] \in CommitSteps
BY DEF NamingInv, TypeInv, TypeOK, CommitHasId, NotYetNamed, CommitSteps,
       Before, Composing

(* The steps that write one of them.                                       *)
LEMMA CommitterNaming ==
    ASSUME OneCommitter, NamingInv, TypeInv', NEW p \in Procs,
           pc[p] \in Before, Goes(p, pc[p], pc'[p]), pc'[p] \in CommitSteps,
           pc'[p] # "takeParent",
           UNCHANGED <<dirs, cid>>,
           \A c \in Cids \ {cid[p]} : UNCHANGED parent[c],
           Named' \subseteq Named \cup {cid[p]},
           pc'[p] \in Before => Named' = Named,
           pc'[p] \in Holding => current' \notin Cids,
           pc'[p] = "writeCurrent" => fd'[p] = {CurrentFile}
    PROVE  NamingInv'
<1>1. \A q \in Procs \ {p} : pc'[q] = pc[q] /\ pc[q] \notin CommitSteps
  BY OneNames, UnderwayNamed DEF Goes, NamingInv, TypeInv, TypeOK
<1>2. \A q \in Procs \ {p} :
          /\ pc'[q] \notin Before /\ pc'[q] \notin Holding
          /\ pc'[q] # "takeParent" /\ pc'[q] # "writeCurrent"
  BY <1>1 DEF CommitSteps, Before, Holding, Composing
<1>3. RolesKept'
  BY <1>1, UnderwayNamed DEF NamingInv, RolesKept
<1>4. NamedMade' /\ NotYetNamed' /\ CurrentTaken'
  BY <1>2, UnderwayNamed DEF NamingInv, NamedMade, NotYetNamed, CurrentTaken
<1>5. FreshParent'
  BY <1>2, UnderwayNamed DEF NamingInv, FreshParent
<1> QED
  BY <1>2, <1>3, <1>4, <1>5 DEF NamingInv

LEMMA CommitBeginNaming ==
    ASSUME OneCommitter, NamingInv, TypeInv', NEW p \in Procs, NEW c \in Cids,
           CommitBegin(p, c)
    PROVE  NamingInv' /\ Named' = Named
<1>1. /\ c \notin dirs /\ dirs' = dirs \cup {c}
      /\ UNCHANGED <<current, parent, fd>>
      /\ pc[p] = "idle" /\ pc'[p] = "takeParent" /\ cid'[p] = c
      /\ "commit" \in Role[p]
      /\ \A q \in Procs \ {p} : UNCHANGED <<pc[q], cid[q]>>
  BY DEF CommitBegin, Starts, Goes, NamingInv, TypeInv, TypeOK
<1>2. Named' = Named
  BY <1>1 DEF Named
<1>3. \A q \in Procs : q # p => pc'[q] \notin CommitSteps
  BY <1>1 DEF NamingInv, RolesKept, OneCommitter, CommitSteps
<1>4. \A q \in Procs : pc'[q] # "writeCurrent" /\ pc'[q] \notin Holding
                       /\ (q # p => pc'[q] \notin Before)
  BY <1>1, <1>3 DEF CommitSteps, Before, Holding, Composing
<1>5. c \notin Named /\ parent[c] = None
  BY <1>1 DEF NamingInv, NamedMade, FreshParent
<1>6. RolesKept' /\ NamedMade' /\ NotYetNamed' /\ CurrentTaken'
  BY <1>1, <1>2, <1>3, <1>4, <1>5
  DEF NamingInv, RolesKept, NamedMade, NotYetNamed, CurrentTaken
<1>7. FreshParent'
  BY <1>1, <1>3, <1>5 DEF NamingInv, FreshParent, CommitSteps
<1> QED
  BY <1>2, <1>4, <1>6, <1>7 DEF NamingInv

LEMMA TakeParentNaming ==
    ASSUME OneCommitter, NamingInv, TypeInv', NEW p \in Procs, TakeParent(p)
    PROVE  NamingInv' /\ Named' = Named
<1>t. TypeOK
  BY DEF NamingInv, TypeInv
<1>1. /\ pc[p] = "takeParent" /\ pc'[p] = "takeRemove"
      /\ Goes(p, pc[p], pc'[p])
      /\ UNCHANGED <<dirs, cid>>
  BY <1>t DEF TakeParent, Goes, locals, TypeOK
<1>2. pc[p] \in Before /\ pc'[p] \in Before /\ pc'[p] \in CommitSteps
  BY <1>1 DEF Before, CommitSteps
<1>3. PICK c \in Cids : c = cid[p]
  BY <1>2, UnderwayNamed
<1>4. parent[c] = None
  BY <1>1, <1>3 DEF NamingInv, FreshParent
<1>5. /\ parent'[c] = current /\ current' = None
      /\ \A d \in Cids \ {c} : parent'[d] = parent[d]
  BY <1>3, <1>4, <1>t DEF TakeParent, TypeOK
<1>6. Named' = Named
  BY <1>4, <1>5, NoneAssumption DEF Named, NoneAssumption
<1> QED
  BY <1>1, <1>2, <1>3, <1>5, <1>6, CommitterNaming, NoneAssumption
  DEF NoneAssumption

LEMMA OpenCurrentNaming ==
    ASSUME OneCommitter, NamingInv, TypeInv', NEW p \in Procs, OpenCurrent(p)
    PROVE  NamingInv' /\ Named' = Named
<1>t. TypeOK
  BY DEF NamingInv, TypeInv
<1>1. /\ pc[p] = "moveFiles" /\ pc'[p] = "writeCurrent"
      /\ Goes(p, pc[p], pc'[p])
      /\ current' = Blank /\ fd'[p] = {CurrentFile}
      /\ UNCHANGED <<dirs, cid, parent>>
  BY <1>t DEF OpenCurrent, Goes, locals, TypeOK
<1>2. pc[p] \in Before /\ pc'[p] \in Before /\ pc'[p] \in CommitSteps
      /\ pc[p] \in Holding
  BY <1>1 DEF Before, CommitSteps, Holding, Composing
<1>3. current \notin Cids /\ current' \notin Cids
  BY <1>1, <1>2, BlankAssumption DEF NamingInv, CurrentTaken, BlankAssumption
<1>4. Named' = Named
  BY <1>1, <1>3 DEF Named
<1> QED
  BY <1>1, <1>2, <1>3, <1>4, CommitterNaming

(* The commit gets its name.                                               *)
LEMMA WriteCurrentNaming ==
    ASSUME OneCommitter, NamingInv, TypeInv', NEW p \in Procs, WriteCurrent(p)
    PROVE  /\ NamingInv'
           /\ Named' = Named \cup {cid[p]} /\ cid[p] \notin Named
<1>t. TypeOK
  BY DEF NamingInv, TypeInv
<1>1. /\ pc[p] = "writeCurrent" /\ pc'[p] = "probeMillis"
      /\ Goes(p, pc[p], pc'[p])
      /\ UNCHANGED <<dirs, cid>>
  BY <1>t DEF WriteCurrent, Goes, locals, TypeOK
<1>2. /\ pc[p] \in Before /\ pc[p] \in Holding /\ pc'[p] \in CommitSteps
      /\ pc'[p] \notin Before /\ pc'[p] \notin Holding
  BY <1>1 DEF Before, CommitSteps, Holding, Composing
<1>3. PICK c \in Cids : c = cid[p]
  BY <1>2, UnderwayNamed
<1>4. fd[p] = {CurrentFile} /\ current \notin Cids
  BY <1>1, <1>2 DEF NamingInv, CurrentTaken
<1>5. current' = c /\ \A d \in Cids : parent'[d] = parent[d]
  BY <1>3, <1>4, ChainHandles DEF WriteCurrent
<1>6. Named' = Named \cup {c}
  BY <1>4, <1>5 DEF Named
<1> QED
  BY <1>1, <1>2, <1>3, <1>5, <1>6, UnderwayNamed, CommitterNaming

(* The steps that neither name nor register a commit.                      *)
LEMMA QuietMillis ==
    ASSUME MillisInv, NamingInv', Named' = Named,
           UNCHANGED <<expected, conflicts>>,
           \A p \in Procs : pc[p] \in Registering => UNCHANGED <<pc[p], cid[p]>>,
           \A p \in Procs : pc'[p] \in Registering => UNCHANGED <<pc[p], cid[p]>>
    PROVE  MillisInv'
<1>1. Waiting' = Waiting
  BY DEF Waiting
<1>2. \A m \in Millis : Entered(m)' = Entered(m)
  BY <1>1 DEF Entered
<1>3. \A m \in Millis : (Filed(m) => Filed(m)') /\ (Unended(m) => Unended(m)')
  BY <1>2 DEF Filed, Unended
<1>4. \A m \in Millis :
          (\E p \in Procs : pc[p] = "appendMillis" /\ MillisOf[cid[p]] = m)
          <=> (\E p \in Procs : pc'[p] = "appendMillis" /\ MillisOf[cid'[p]] = m)
  BY DEF Registering
<1>5. \A p \in Procs : pc'[p] \in Registering => cid'[p] \in Named'
  BY DEF MillisInv
<1>6. \A p \in Procs :
          pc'[p] = "writeMillis" => expected'[MillisOf[cid'[p]]] = None
  BY DEF MillisInv, Registering
<1>7. \A m \in Millis :
          IF \E p \in Procs : pc'[p] = "appendMillis" /\ MillisOf[cid'[p]] = m
          THEN Unended(m)' ELSE Filed(m)'
  BY <1>3, <1>4 DEF MillisInv
<1> QED
  BY <1>5, <1>6, <1>7 DEF MillisInv

LEMMA QuietActionsMillis ==
    ASSUME MillisInv, TypeInv', NEW p \in Procs,
           \/ \E args \in SUBSET Files : AddBegin(p, args)
           \/ \E f \in Files : AddOpen(p, f) \/ AddFlush(p, f) \/ Unadd(p, f)
           \/ \E gone \in SUBSET Files : RmUnlink(p, gone)
           \/ AddExit(p) \/ RmFlush(p)
           \/ TakeRemove(p) \/ ReadIndex(p) \/ WriteIndex(p) \/ ListStage(p)
           \/ \E f \in Files : MoveFile(p, f)
    PROVE  MillisInv'
<1>t. TypeOK /\ RolesKept /\ NamingInv
      /\ \A q \in Procs : pc[q] = "writeCurrent" => fd[q] = {CurrentFile}
  BY DEF MillisInv, NamingInv, TypeInv
<1>1. /\ UNCHANGED <<dirs, current, parent, expected, conflicts>>
      /\ \A q \in Procs \ {p} : UNCHANGED <<pc[q], cid[q]>>
      /\ \/ pc[p] = "idle" /\ pc'[p] \in {"idle", "adding", "rmFlush"}
         \/ pc[p] = "adding" /\ pc'[p] = "adding"
         \/ pc[p] \in {"adding", "rmFlush", "readIndex"} /\ pc'[p] = "idle"
         \/ pc[p] = "takeRemove" /\ pc'[p] = "readIndex" /\ UNCHANGED cid[p]
         \/ pc[p] = "readIndex" /\ pc'[p] = "writeIndex" /\ UNCHANGED cid[p]
         \/ pc[p] = "writeIndex" /\ pc'[p] = "listStage" /\ UNCHANGED cid[p]
         \/ pc[p] = "listStage" /\ pc'[p] = "moveFiles" /\ UNCHANGED cid[p]
         \/ pc[p] = "moveFiles" /\ UNCHANGED <<pc[p], cid[p]>>
  <2> USE DEF Goes, Starts, locals
  <2>1. CASE \/ \E args \in SUBSET Files : AddBegin(p, args)
             \/ \E f \in Files : AddOpen(p, f) \/ AddFlush(p, f) \/ Unadd(p, f)
    BY <1>t, <2>1 DEF AddBegin, AddOpen, AddFlush, Unadd, disk, TypeOK
  <2>2. CASE \E gone \in SUBSET Files : RmUnlink(p, gone)
    <3> PICK gone \in SUBSET Files : RmUnlink(p, gone)
      BY <2>2
    <3> QED
      BY <1>t DEF RmUnlink, TypeOK
  <2>3. CASE AddExit(p) \/ RmFlush(p)
    BY <1>t, <2>3 DEF AddExit, RmFlush, Exits, disk, TypeOK
  <2>4. CASE TakeRemove(p) \/ WriteIndex(p)
    BY <1>t, <2>4 DEF TakeRemove, WriteIndex, TypeOK
  <2>5. CASE ReadIndex(p)
    BY <1>t, <2>5 DEF ReadIndex, Exits, TypeOK, disk
  <2>6. CASE ListStage(p)
    BY <1>t, <2>6 DEF ListStage, TypeOK, disk
  <2>7. CASE \E f \in Files : MoveFile(p, f)
    <3> PICK f \in Files : MoveFile(p, f)
      BY <2>7
    <3> QED
      BY <1>t DEF MoveFile, TypeOK
  <2> QED
    BY <2>1, <2>2, <2>3, <2>4, <2>5, <2>6, <2>7
<1>2. \A q \in Procs : pc'[q] = "writeCurrent" =>
          pc[q] = "writeCurrent" /\ UNCHANGED fd[q]
  <2> SUFFICES ASSUME NEW q \in Procs, pc'[q] = "writeCurrent"
               PROVE  pc[q] = "writeCurrent" /\ UNCHANGED fd[q]
    OBVIOUS
  <2>1. q # p /\ pc[q] = "writeCurrent" /\ fd[q] = {CurrentFile}
    BY <1>t, <1>1
  <2>2. /\ \A f \in Files : StageFile(f) # CurrentFile
        /\ StageRmFile # CurrentFile
    BY DEF StageFile, StageRmFile, CurrentFile, Handle
  <2>3. fd'[q] = fd[q]
    <3>1. CASE \E f \in Files : Unadd(p, f) \/ MoveFile(p, f)
      <4> PICK f \in Files : Unadd(p, f) \/ MoveFile(p, f)
        BY <3>1
      <4> QED
        BY <2>1, <2>2 DEF Unadd, MoveFile, Unlinked, Renamed
    <3>2. CASE \E gone \in SUBSET Files : RmUnlink(p, gone)
      <4> PICK gone \in SUBSET Files : RmUnlink(p, gone)
        BY <3>2
      <4> QED
        BY <1>t, <2>1 DEF RmUnlink, TypeOK
    <3>3. CASE AddExit(p) \/ RmFlush(p) \/ ReadIndex(p)
      BY <1>t, <2>1, <3>3 DEF AddExit, RmFlush, ReadIndex, Exits, TypeOK
    <3>4. CASE TakeRemove(p) \/ WriteIndex(p) \/ ListStage(p)
      BY <1>t, <2>1, <2>2, <3>4 DEF TakeRemove, WriteIndex, ListStage, Renamed
    <3>5. CASE \/ \E args \in SUBSET Files : AddBegin(p, args)
               \/ \E f \in Files : AddOpen(p, f) \/ AddFlush(p, f)
      BY <1>t, <2>1, <3>5 DEF AddBegin, AddOpen, AddFlush, TypeOK
    <3> QED
      BY <3>1, <3>2, <3>3, <3>4, <3>5
  <2> QED
    BY <2>1, <2>3
<1>3. RolesKept'
  BY <1>t, <1>1 DEF RolesKept, CommitSteps
<1>4. \A q \in Procs : pc'[q] \in Before =>
          /\ pc[q] \in Before /\ UNCHANGED cid[q]
          /\ pc'[q] \in Holding => pc[q] \in Holding
          /\ pc'[q] = "takeParent" => pc[q] = "takeParent"
  BY <1>1 DEF Before, Holding, Composing
<1>5. NamingInv' /\ Named' = Named
  BY <1>t, <1>1, <1>2, <1>3, <1>4, QuietNaming
<1>6. pc[p] \notin Registering /\ pc'[p] \notin Registering
  BY <1>1 DEF Registering
<1> QED
  BY <1>1, <1>5, <1>6, QuietMillis

LEMMA TwoMore ==
    ASSUME NEW S, NEW k \in Seq(S), NEW a \in S, NEW b \in S, NEW n \in Nat,
           Len(k) = n
    PROVE  LET k2 == k \o <<a, b>>
           IN /\ k2 \in Seq(S) /\ Len(k2) = n + 2 /\ DOMAIN k2 = 1..(n + 2)
              /\ \A i \in 1..n : k2[i] = k[i]
              /\ k2[n + 1] = a /\ k2[n + 2] = b
OBVIOUS

(* One more line for one more commit.                                      *)
LEMMA AddLine ==
    ASSUME NEW E, IsFiniteSet(E), NEW k \in Seq(Cids \cup {NL}), Lines(k, E),
           NEW c \in Cids \ E
    PROVE  /\ IsFiniteSet(E \cup {c})
           /\ Cardinality(E \cup {c}) = Cardinality(E) + 1
           /\ k \o <<c, NL>> \in Seq(Cids \cup {NL})
           /\ Lines(k \o <<c, NL>>, E \cup {c})
<1>1. /\ IsFiniteSet(E \cup {c})
      /\ Cardinality(E \cup {c}) = Cardinality(E) + 1
      /\ Cardinality(E) \in Nat
  BY FS_AddElement, FS_CardinalityType
<1>2. PICK n \in Nat : n = Cardinality(E)
  BY <1>1
<1>3. PICK k2 : k2 = k \o <<c, NL>>
  OBVIOUS
<1>4. /\ Len(k) = 2 * n /\ DOMAIN k = 1..(2 * n)
      /\ E = {k[i] : i \in 1..(2 * n)} \ {NL}
      /\ \A i \in 1..(2 * n) : (k[i] = NL) = (i % 2 = 0)
  <2>1. Len(k) = 2 * n /\ DOMAIN k = 1..(2 * n)
    BY <1>2 DEF Lines
  <2> QED
    BY <2>1, Zenon DEF Lines
<1>5. /\ Len(k2) = 2 * n + 2 /\ DOMAIN k2 = 1..(2 * n + 2)
      /\ \A i \in 1..(2 * n) : k2[i] = k[i]
      /\ k2[2 * n + 1] = c /\ k2[2 * n + 2] = NL
  <2>1. 2 * n \in Nat /\ c \in Cids \cup {NL} /\ NL \in Cids \cup {NL}
    OBVIOUS
  <2> QED
    BY <1>3, <1>4, <2>1, TwoMore
<1>6. E \cup {c} = {k2[i] : i \in DOMAIN k2} \ {NL}
  <2>1. c # NL /\ NL \notin E
    BY BlankAssumption DEF BlankAssumption, Lines
  <2>2. ASSUME NEW x \in E \cup {c}
        PROVE  x \in {k2[i] : i \in DOMAIN k2}
    <3>1. CASE x = c
      BY <1>5, <3>1
    <3>2. CASE x \in E
      BY <1>4, <1>5, <3>2
    <3> QED
      BY <3>1, <3>2
  <2>3. ASSUME NEW i \in DOMAIN k2, k2[i] # NL
        PROVE  k2[i] \in E \cup {c}
    <3>1. CASE i \in 1..(2 * n)
      BY <1>4, <1>5, <2>3, <3>1
    <3>2. CASE i = 2 * n + 1
      BY <1>5, <3>2
    <3> QED
      BY <1>5, <2>3, <3>1, <3>2
  <2> QED
    BY <2>1, <2>2, <2>3
<1>7. \A i \in DOMAIN k2 : (k2[i] = NL) = (i % 2 = 0)
  <2> SUFFICES ASSUME NEW i \in 1..(2 * n + 2)
               PROVE  (k2[i] = NL) = (i % 2 = 0)
    BY <1>5
  <2>1. CASE i \in 1..(2 * n)
    <3>1. k2[i] = k[i] /\ (k[i] = NL) = (i % 2 = 0)
      BY <1>4, <1>5, <2>1
    <3> QED
      BY <3>1, Zenon
  <2>2. CASE i = 2 * n + 1
    <3>1. i % 2 = 1 /\ k2[i] # NL
      BY <1>5, <2>2, BlankAssumption DEF BlankAssumption
    <3> QED
      BY <3>1
  <2>3. CASE i = 2 * n + 2
    <3>1. i % 2 = 0 /\ k2[i] = NL
      BY <1>5, <2>3
    <3> QED
      BY <3>1
  <2> QED
    BY <2>1, <2>2, <2>3
<1>8. Len(k2) = 2 * Cardinality(E \cup {c})
  BY <1>1, <1>2, <1>5
<1>9. Lines(k2, E \cup {c})
  BY <1>6, <1>7, <1>8, Zenon DEF Lines
<1>10. k \o <<c, NL>> \in Seq(Cids \cup {NL})
  OBVIOUS
<1> QED
  BY <1>1, <1>3, <1>9, <1>10

LEMMA FirstLine ==
    ASSUME NEW d \in Cids
    PROVE  IsFiniteSet({d}) /\ Cardinality({d}) = 1 /\ Lines(<<d, NL>>, {d})
<1>1. IsFiniteSet({d}) /\ Cardinality({d}) = 1
  BY FS_Singleton
<1>2. {<<d, NL>>[i] : i \in DOMAIN <<d, NL>>} = {d, NL} /\ d # NL
  BY BlankAssumption DEF BlankAssumption
<1>3. \A i \in DOMAIN <<d, NL>> : (<<d, NL>>[i] = NL) = (i % 2 = 0)
  <2> SUFFICES ASSUME NEW i \in 1..2
               PROVE  (<<d, NL>>[i] = NL) = (i % 2 = 0)
    OBVIOUS
  <2>1. CASE i = 1
    BY <1>2, <2>1
  <2>2. CASE i = 2
    BY <2>2
  <2> QED
    BY <2>1, <2>2
<1>4. /\ Len(<<d, NL>>) = 2 * Cardinality({d})
      /\ {d} = {<<d, NL>>[i] : i \in DOMAIN <<d, NL>>} \ {NL}
  BY <1>1, <1>2
<1> QED
  BY <1>1, <1>3, <1>4, Zenon DEF Lines

(* What a process at register_millis, or about to be, has to itself.       *)
LEMMA Registers ==
    ASSUME OneCommitter, MillisInv, NEW p \in Procs,
           pc[p] \in {"writeCurrent"} \cup Registering
    PROVE  /\ cid[p] \in Cids /\ MillisOf[cid[p]] \in Millis
           /\ pc[p] \in CommitSteps
           /\ \A q \in Procs \ {p} : pc[q] \notin CommitSteps
           /\ \A q \in Procs \ {p} : pc[q] \notin Registering
           /\ Waiting = IF pc[p] \in Registering THEN {cid[p]} ELSE {}
<1>1. pc[p] \in CommitSteps
  BY DEF Registering, CommitSteps
<1>2. \A q \in Procs \ {p} : pc[q] \notin CommitSteps
  BY <1>1, OneNames DEF MillisInv
<1>3. \A q \in Procs \ {p} : pc[q] \notin Registering
  BY <1>2 DEF Registering, CommitSteps
<1>4. cid[p] \in Cids
  BY <1>1 DEF MillisInv, NamingInv, TypeInv, TypeOK, CommitHasId
<1> QED
  BY <1>1, <1>2, <1>3, <1>4, MillisAssumption DEF MillisAssumption, Waiting

LEMMA WriteCurrentMillis ==
    ASSUME OneCommitter, MillisInv, TypeInv', NEW p \in Procs, WriteCurrent(p)
    PROVE  MillisInv'
<1>t. TypeOK /\ NamingInv
  BY DEF MillisInv, NamingInv, TypeInv
<1>1. /\ pc[p] = "writeCurrent" /\ pc'[p] = "probeMillis"
      /\ UNCHANGED <<cid, expected, conflicts>>
      /\ \A q \in Procs \ {p} : pc'[q] = pc[q]
  BY <1>t DEF WriteCurrent, Goes, locals, TypeOK
<1>2. /\ NamingInv'
      /\ Named' = Named \cup {cid[p]} /\ cid[p] \notin Named
  BY <1>t, WriteCurrentNaming
<1>3. /\ \A q \in Procs \ {p} : pc[q] \notin Registering
      /\ pc[p] \notin Registering /\ pc'[p] \in Registering
      /\ Waiting = {}
  BY <1>1, Registers DEF Registering
<1>4. Waiting' = {cid[p]}
  BY <1>1, <1>3 DEF Waiting
<1>5. \A m \in Millis : Entered(m)' = Entered(m)
  BY <1>2, <1>3, <1>4 DEF Entered
<1>6. \A q \in Procs : pc[q] # "appendMillis" /\ pc'[q] # "appendMillis"
  BY <1>1, <1>3 DEF Registering
<1>7. \A m \in Millis : Filed(m)'
  <2>1. \A m \in Millis : Filed(m)
    BY <1>6 DEF MillisInv
  <2> QED
    BY <1>1, <1>5, <2>1 DEF Filed
<1>8. \A q \in Procs : pc'[q] \in Registering => cid'[q] \in Named'
  BY <1>1, <1>2, <1>3
<1>9. \A q \in Procs : pc'[q] # "writeMillis"
  BY <1>1, <1>3 DEF Registering
<1> QED
  BY <1>2, <1>6, <1>7, <1>8, <1>9 DEF MillisInv

(* A taken prefix becomes a conflict: its entry is renamed.                *)
LEMMA ProbeMillisKeeps ==
    ASSUME OneCommitter, MillisInv, TypeInv', NEW p \in Procs, ProbeMillis(p)
    PROVE  MillisInv'
<1> DEFINE m0 == MillisOf[cid[p]]
<1>t. TypeOK /\ NamingInv
  BY DEF MillisInv, NamingInv, TypeInv
<1>1. /\ pc[p] = "probeMillis" /\ pc'[p] \in {"appendMillis", "writeMillis"}
      /\ UNCHANGED <<cid, dirs, current, parent, fd>>
      /\ \A q \in Procs \ {p} : pc'[q] = pc[q]
  BY <1>t DEF ProbeMillis, Goes, locals, TypeOK
<1>2. NamingInv' /\ Named' = Named
  <2>1. RolesKept'
    BY <1>t, <1>1 DEF NamingInv, RolesKept, CommitSteps
  <2> QED
    BY <1>t, <1>1, <2>1, QuietNaming DEF Before, Composing
<1>3. /\ m0 \in Millis
      /\ \A q \in Procs \ {p} : pc[q] \notin Registering
  BY <1>1, Registers DEF Registering
<1>4. \A m \in Millis : Entered(m)' = Entered(m)
  <2>1. \A q \in Procs : pc'[q] \in Registering <=> pc[q] \in Registering
    BY <1>1, <1>3 DEF Registering
  <2>2. Waiting' = Waiting
    BY <1>1, <2>1 DEF Waiting
  <2> QED
    BY <1>2, <2>2 DEF Entered
<1>5. \A m \in Millis : Filed(m)
  BY <1>1, <1>3 DEF MillisInv, Registering
<1>6. \A q \in Procs : pc'[q] \in Registering => cid'[q] \in Named'
  BY <1>1, <1>2, <1>3 DEF MillisInv, Registering
<1>7. CASE expected[m0] # None
  <2>1. /\ pc'[p] = "appendMillis"
        /\ conflicts'[m0] = <<expected[m0]>> /\ expected'[m0] = None
        /\ \A m \in Millis \ {m0} : UNCHANGED <<conflicts[m], expected[m]>>
    BY <1>3, <1>7, <1>t DEF ProbeMillis, Goes, TypeOK
  <2>2. Unended(m0)'
    <3>1. expected[m0] \in Cids /\ Entered(m0) = {expected[m0]}
      BY <1>3, <1>5, <1>7 DEF Filed
    <3>2. Entered(m0)' = {expected[m0]}
      BY <1>1, <1>3, <1>4, <3>1 DEF Entered
    <3>3. m0' = m0
      BY <1>1
    <3> QED
      BY <2>1, <3>1, <3>2, <3>3 DEF Unended
  <2>3. \A m \in Millis \ {m0} : Filed(m)'
    BY <1>4, <1>5, <2>1 DEF Filed
  <2>4. \A q \in Procs : pc'[q] = "appendMillis" => q = p
    BY <1>1, <1>3 DEF Registering
  <2>5. \A m \in Millis :
            IF \E q \in Procs : pc'[q] = "appendMillis" /\ MillisOf[cid'[q]] = m
            THEN Unended(m)' ELSE Filed(m)'
    <3> SUFFICES ASSUME NEW m \in Millis
                 PROVE  IF \E q \in Procs : /\ pc'[q] = "appendMillis"
                                            /\ MillisOf[cid'[q]] = m
                        THEN Unended(m)' ELSE Filed(m)'
      OBVIOUS
    <3>1. CASE m = m0
      <4>1. Unended(m)' <=> Unended(m0)'
        BY <1>1, <3>1 DEF Unended, Entered
      <4> QED
        BY <1>1, <2>1, <2>2, <3>1, <4>1
    <3>2. CASE m # m0
      BY <1>1, <2>3, <2>4, <3>2
    <3> QED
      BY <3>1, <3>2
  <2>6. \A q \in Procs : pc'[q] # "writeMillis"
    BY <1>1, <1>3, <2>1 DEF Registering
  <2> QED
    BY <1>2, <1>6, <2>5, <2>6 DEF MillisInv
<1>8. CASE expected[m0] = None
  <2>1. pc'[p] = "writeMillis" /\ UNCHANGED <<expected, conflicts>>
    BY <1>8, <1>t DEF ProbeMillis, Goes, TypeOK
  <2>2. \A m \in Millis : Filed(m)'
    BY <1>4, <1>5, <2>1 DEF Filed
  <2>3. \A q \in Procs : pc'[q] # "appendMillis"
    BY <1>1, <1>3, <2>1 DEF Registering
  <2>4. \A q \in Procs :
            pc'[q] = "writeMillis" => expected'[MillisOf[cid'[q]]] = None
    BY <1>1, <1>3, <1>8, <2>1 DEF Registering
  <2> QED
    BY <1>2, <1>6, <2>2, <2>3, <2>4 DEF MillisInv
<1> QED
  BY <1>7, <1>8

(* The commit is entered under its prefix, and nothing else changes.       *)
LEMMA RegisteredKeeps ==
    ASSUME OneCommitter, MillisInv, TypeInv', NEW p \in Procs,
           pc[p] \in Registering, Exits(p),
           UNCHANGED <<dirs, current, parent>>,
           NEW c \in Cids, c = cid[p], NEW m0 \in Millis, m0 = MillisOf[c],
           \A m \in Millis \ {m0} : UNCHANGED <<expected[m], conflicts[m]>>,
           Entered(m0)' = Entered(m0) \cup {c} => Filed(m0)'
    PROVE  MillisInv'
<1>t. TypeOK /\ NamingInv
  BY DEF MillisInv, NamingInv, TypeInv
<1>1. /\ pc'[p] = "idle" /\ fd'[p] = {}
      /\ \A q \in Procs \ {p} : UNCHANGED <<pc[q], cid[q], fd[q]>>
  BY <1>t DEF Exits, TypeOK
<1>2. NamingInv' /\ Named' = Named
  <2>1. RolesKept'
    BY <1>t, <1>1 DEF NamingInv, RolesKept, CommitSteps
  <2>2. \A q \in Procs : pc'[q] \in Before \cup {"writeCurrent"} => q # p
    BY <1>1 DEF Before, Composing
  <2> QED
    BY <1>t, <1>1, <2>1, <2>2, QuietNaming
<1>3. /\ \A q \in Procs \ {p} : pc[q] \notin Registering
      /\ Waiting = {c}
  BY Registers
<1>4. \A q \in Procs : pc'[q] \notin Registering
  BY <1>1, <1>3 DEF Registering
<1>5. Waiting' = {}
  BY <1>4 DEF Waiting
<1>6. c \in Named
  BY DEF MillisInv
<1>7. Entered(m0)' = Entered(m0) \cup {c}
  BY <1>2, <1>3, <1>5, <1>6 DEF Entered
<1>8. \A m \in Millis \ {m0} : Entered(m)' = Entered(m)
  BY <1>2, <1>3, <1>5 DEF Entered
<1>9. \A m \in Millis \ {m0} : Filed(m)'
  <2>1. \A m \in Millis \ {m0} : Filed(m)
    BY <1>3 DEF MillisInv, Registering
  <2> QED
    BY <1>8, <2>1 DEF Filed
<1>10. \A q \in Procs : pc'[q] # "appendMillis" /\ pc'[q] # "writeMillis"
  BY <1>4 DEF Registering
<1> QED
  BY <1>2, <1>4, <1>7, <1>9, <1>10 DEF MillisInv

(* The newline that the first entry lacked comes with the second one.      *)
LEMMA TokensJoined ==
    ASSUME NEW d, NEW c, NEW nl
    PROVE  <<d>> \o <<nl, c, nl>> = <<d, nl>> \o <<c, nl>>
OBVIOUS

LEMMA TokenIsNoNone ==
    ASSUME NEW d \in Cids PROVE <<d>> # None
<1>1. <<d>> \in Seq(Cids \cup {NL})
  OBVIOUS
<1> QED
  BY <1>1, NoneIsNoTokens DEF NoneIsNoTokens

LEMMA AppendMillisKeeps ==
    ASSUME OneCommitter, MillisInv, TypeInv', NEW p \in Procs, AppendMillis(p)
    PROVE  MillisInv'
<1>t. TypeOK
  BY DEF MillisInv, NamingInv, TypeInv
<1>1. /\ pc[p] = "appendMillis" /\ pc[p] \in Registering /\ Exits(p)
      /\ UNCHANGED <<dirs, current, parent, expected>>
  BY DEF AppendMillis, Registering
<1>2. PICK c \in Cids : c = cid[p]
  BY <1>1, Registers
<1>3. PICK m0 \in Millis : m0 = MillisOf[c]
  BY <1>2, MillisAssumption DEF MillisAssumption
<1>4. PICK d \in Cids : /\ Entered(m0) = {d}
                        /\ expected[m0] = None /\ conflicts[m0] = <<d>>
  <2>1. Unended(m0)
    BY <1>1, <1>2, <1>3 DEF MillisInv
  <2> QED
    BY <2>1 DEF Unended
<1>5. d # c
  BY <1>1, <1>2, <1>4, Registers DEF Entered
<1>6. conflicts'[m0] = <<d, NL>> \o <<c, NL>>
  <2>1. <<d>> # None => conflicts'[m0] = <<d>> \o <<NL, c, NL>>
    BY <1>2, <1>3, <1>4, <1>t DEF AppendMillis, TypeOK
  <2>2. <<d>> \o <<NL, c, NL>> = <<d, NL>> \o <<c, NL>>
    BY TokensJoined, Zenon
  <2>3. <<d>> # None
    BY TokenIsNoNone
  <2> QED
    BY <2>1, <2>2, <2>3
<1>7. \A m \in Millis \ {m0} : UNCHANGED <<expected[m], conflicts[m]>>
  BY <1>1, <1>2, <1>3, <1>t DEF AppendMillis, TypeOK
<1>8. ASSUME Entered(m0)' = Entered(m0) \cup {c}
      PROVE  Filed(m0)'
  <2>1. Entered(m0)' = {d} \cup {c}
    BY <1>4, <1>8
  <2>2. /\ IsFiniteSet({d} \cup {c})
        /\ Cardinality({d} \cup {c}) = 2
        /\ <<d, NL>> \o <<c, NL>> \in Seq(Cids \cup {NL})
        /\ Lines(<<d, NL>> \o <<c, NL>>, {d} \cup {c})
    <3>1. PICK k \in Seq(Cids \cup {NL}) : k = <<d, NL>>
      <4>1. d \in Cids \cup {NL} /\ NL \in Cids \cup {NL}
        OBVIOUS
      <4>2. <<d, NL>> \in Seq(Cids \cup {NL})
        BY <4>1
      <4> QED
        BY <4>2
    <3>2. PICK E : E = {d}
      OBVIOUS
    <3>3. /\ IsFiniteSet(E) /\ Cardinality(E) = 1 /\ Lines(k, E)
          /\ c \in Cids \ E
      BY <1>5, <3>1, <3>2, FirstLine
    <3>4. /\ IsFiniteSet(E \cup {c})
          /\ Cardinality(E \cup {c}) = Cardinality(E) + 1
          /\ k \o <<c, NL>> \in Seq(Cids \cup {NL})
          /\ Lines(k \o <<c, NL>>, E \cup {c})
      BY <3>3, AddLine
    <3> QED
      BY <3>1, <3>2, <3>3, <3>4
  <2>3. expected'[m0] = None /\ conflicts'[m0] # None
    BY <1>1, <1>4, <1>6, <2>2, NoneIsNoTokens DEF NoneIsNoTokens
  <2> QED
    BY <1>6, <2>1, <2>2, <2>3 DEF Filed
<1> QED
  BY <1>1, <1>2, <1>3, <1>7, <1>8, RegisteredKeeps

LEMMA WriteMillisKeeps ==
    ASSUME OneCommitter, MillisInv, TypeInv', NEW p \in Procs, WriteMillis(p)
    PROVE  MillisInv'
<1>t. TypeOK
  BY DEF MillisInv, NamingInv, TypeInv
<1>1. /\ pc[p] = "writeMillis" /\ pc[p] \in Registering /\ Exits(p)
      /\ UNCHANGED <<dirs, current, parent>>
  BY DEF WriteMillis, Registering
<1>2. PICK c \in Cids : c = cid[p]
  BY <1>1, Registers
<1>3. PICK m0 \in Millis : m0 = MillisOf[c]
  BY <1>2, MillisAssumption DEF MillisAssumption
<1>4. Filed(m0) /\ expected[m0] = None
  <2>1. \A q \in Procs : pc[q] # "appendMillis"
    BY <1>1, Registers DEF Registering
  <2> QED
    BY <1>1, <1>2, <1>3, <2>1 DEF MillisInv
<1>5. c \notin Entered(m0)
  BY <1>1, <1>2, Registers DEF Entered
<1>6. \A m \in Millis \ {m0} : UNCHANGED <<expected[m], conflicts[m]>>
  BY <1>2, <1>3, <1>t DEF WriteMillis, TypeOK
<1>7. CASE conflicts[m0] = None
  <2>1. expected'[m0] = c /\ conflicts'[m0] = None
    BY <1>2, <1>3, <1>7, <1>t DEF WriteMillis, TypeOK
  <2>2. Entered(m0) = {}
    BY <1>4, <1>7, NoneAssumption DEF Filed, NoneAssumption
  <2>3. ASSUME Entered(m0)' = Entered(m0) \cup {c} PROVE Filed(m0)'
    BY <2>1, <2>2, <2>3, FirstLine DEF Filed
  <2> QED
    BY <1>1, <1>2, <1>3, <1>6, <2>3, RegisteredKeeps
<1>8. CASE conflicts[m0] # None
  <2>1. /\ conflicts'[m0] = conflicts[m0] \o <<c, NL>> /\ expected'[m0] = None
        /\ conflicts[m0] \in Seq(Cids \cup {NL})
    BY <1>2, <1>3, <1>4, <1>8, <1>t DEF WriteMillis, TypeOK
  <2>2. /\ IsFiniteSet(Entered(m0)) /\ Cardinality(Entered(m0)) > 1
        /\ Lines(conflicts[m0], Entered(m0))
    BY <1>4, <1>8 DEF Filed
  <2>3. PICK E : E = Entered(m0)
    OBVIOUS
  <2>4. /\ IsFiniteSet(E \cup {c})
        /\ Cardinality(E \cup {c}) = Cardinality(E) + 1
        /\ Cardinality(E) \in Nat
        /\ conflicts[m0] \o <<c, NL>> \in Seq(Cids \cup {NL})
        /\ Lines(conflicts[m0] \o <<c, NL>>, E \cup {c})
    <3>1. PICK k \in Seq(Cids \cup {NL}) : k = conflicts[m0]
      BY <2>1
    <3>2. IsFiniteSet(E) /\ Lines(k, E) /\ c \in Cids \ E
      BY <1>5, <2>2, <2>3, <3>1
    <3> QED
      BY <3>1, <3>2, AddLine, FS_CardinalityType
  <2>5. conflicts'[m0] # None
    BY <2>1, <2>4, NoneIsNoTokens DEF NoneIsNoTokens
  <2>6. ASSUME Entered(m0)' = Entered(m0) \cup {c} PROVE Filed(m0)'
    BY <2>1, <2>2, <2>3, <2>4, <2>5, <2>6 DEF Filed
  <2> QED
    BY <1>1, <1>2, <1>3, <1>6, <2>6, RegisteredKeeps
<1> QED
  BY <1>7, <1>8

LEMMA NextMillis ==
    ASSUME NoKills, NoKills', OneCommitter, MillisInv, [Next]_vars
    PROVE  MillisInv'
<1>1. TypeInv' /\ NamingInv
  BY NextType DEF MillisInv, NamingInv
<1>2. CASE UNCHANGED <<dirs, current, parent, expected, conflicts, pc, cid, fd>>
  <2>1. RolesKept'
    BY <1>1, <1>2 DEF NamingInv, RolesKept
  <2>2. NamingInv' /\ Named' = Named
    BY <1>1, <1>2, <2>1, QuietNaming
  <2> QED
    BY <1>2, <2>2, QuietMillis
<1>3. CASE \E f \in Files, d \in Data \cup {None} : Edit(f, d)
  BY <1>2, <1>3 DEF Edit, locals
<1>4. ASSUME NEW p \in Procs, NEW c \in Cids, CommitBegin(p, c)
      PROVE  MillisInv'
  <2>1. /\ UNCHANGED <<expected, conflicts>>
        /\ pc[p] = "idle" /\ pc'[p] = "takeParent"
        /\ \A q \in Procs \ {p} : UNCHANGED <<pc[q], cid[q]>>
    BY <1>1, <1>4 DEF CommitBegin, Starts, Goes, NamingInv, TypeInv, TypeOK
  <2>2. pc[p] \notin Registering /\ pc'[p] \notin Registering
    BY <2>1 DEF Registering
  <2> QED
    BY <1>1, <1>4, <2>1, <2>2, CommitBeginNaming, QuietMillis
<1>5. ASSUME NEW p \in Procs, TakeParent(p) \/ OpenCurrent(p)
      PROVE  MillisInv'
  <2>1. /\ UNCHANGED <<expected, conflicts, cid>>
        /\ pc[p] \in {"takeParent", "moveFiles"}
        /\ pc'[p] \in {"takeRemove", "writeCurrent"}
        /\ \A q \in Procs \ {p} : UNCHANGED pc[q]
    BY <1>1, <1>5
    DEF TakeParent, OpenCurrent, Goes, locals, NamingInv, TypeInv, TypeOK
  <2>2. pc[p] \notin Registering /\ pc'[p] \notin Registering
    BY <2>1 DEF Registering
  <2> QED
    BY <1>1, <1>5, <2>1, <2>2, TakeParentNaming, OpenCurrentNaming, QuietMillis
<1>6. ASSUME NEW p \in Procs, Start(p) PROVE MillisInv'
  BY <1>1, <1>4, <1>6, QuietActionsMillis DEF Start
<1>7. ASSUME NEW p \in Procs, Step(p) PROVE MillisInv'
  BY <1>1, <1>5, <1>7, QuietActionsMillis, WriteCurrentMillis,
     ProbeMillisKeeps, AppendMillisKeeps, WriteMillisKeeps
  DEF Step
<1>8. ASSUME NEW p \in Procs, Crash(p) PROVE MillisInv'
  BY <1>1, <1>8 DEF Crash, NoKills, NamingInv, TypeInv, TypeOK
<1> QED
  BY <1>2, <1>3, <1>6, <1>7, <1>8 DEF Next, vars, disk, locals

LEMMA InitMillis == Init => MillisInv
<1> SUFFICES ASSUME Init PROVE MillisInv
  OBVIOUS
<1>1. NamingInv
  BY InitNaming
<1>2. \A m \in Millis : Entered(m) = {} /\ expected[m] = None
                        /\ conflicts[m] = None
  BY NoneAssumption DEF Init, Entered, Named, NoneAssumption
<1>3. \A m \in Millis : Filed(m)
  BY <1>2, FS_EmptySet DEF Filed
<1> QED
  BY <1>1, <1>3 DEF Init, MillisInv, Registering

LEMMA MillisResolve == MillisInv => ShortIdsResolve
<1> SUFFICES ASSUME MillisInv, Idle, NEW m \in Millis
             PROVE  LET own == {c \in Named : MillisOf[c] = m}
                        answer == Lookup(m)
                    IN /\ own = {answer[i] : i \in DOMAIN answer} \ {NL}
                       /\ expected[m] = None \/ conflicts[m] = None
                       /\ \/ Cardinality(own) <= 1 /\ Len(answer) = Cardinality(own)
                          \/ /\ Cardinality(own) > 1
                             /\ Len(answer) = 2 * Cardinality(own)
                             /\ \A i \in DOMAIN answer :
                                    (answer[i] = NL) = (i % 2 = 0)
  BY DEF ShortIdsResolve
<1> DEFINE own == {c \in Named : MillisOf[c] = m}
           answer == Lookup(m)
<1>1. Entered(m) = own
  BY DEF Idle, Entered, Waiting, Registering
<1>2. Filed(m)
  BY DEF MillisInv, Idle
<1>3. CASE own = {} /\ expected[m] = None /\ conflicts[m] = None
  <2>1. answer = <<>>
    BY <1>3 DEF Lookup
  <2>2. Cardinality(own) = 0
    BY <1>3, FS_EmptySet
  <2> QED
    BY <1>3, <2>1, <2>2
<1>4. CASE /\ expected[m] \in Cids /\ own = {expected[m]}
           /\ conflicts[m] = None
  <2>1. answer = <<expected[m]>> /\ expected[m] # NL
    BY <1>4, NoneAssumption, BlankAssumption
    DEF Lookup, NoneAssumption, BlankAssumption
  <2>2. Cardinality(own) = 1
    BY <1>4, FS_Singleton
  <2>3. {<<expected[m]>>[i] : i \in DOMAIN <<expected[m]>>} = {expected[m]}
    OBVIOUS
  <2>4. own = {answer[i] : i \in DOMAIN answer} \ {NL}
    BY <1>4, <2>1, <2>3
  <2>5. Cardinality(own) <= 1 /\ Len(answer) = Cardinality(own)
    BY <2>1, <2>2
  <2> QED
    BY <1>4, <2>4, <2>5
<1>5. CASE /\ Cardinality(own) > 1
           /\ expected[m] = None /\ conflicts[m] # None
           /\ Lines(conflicts[m], own)
  <2>1. answer = conflicts[m]
    BY <1>5 DEF Lookup
  <2>2. Lines(answer, own)
    BY <1>5, <2>1
  <2>3. /\ own = {answer[i] : i \in DOMAIN answer} \ {NL}
        /\ Len(answer) = 2 * Cardinality(own)
        /\ \A i \in DOMAIN answer : (answer[i] = NL) = (i % 2 = 0)
    <3> HIDE DEF answer, own
    <3> QED
      BY <2>2, Zenon DEF Lines
  <2> QED
    BY <1>5, <2>3, Zenon
<1> QED
  BY <1>1, <1>2, <1>3, <1>4, <1>5 DEF Filed

(* With one process that commits and is not killed, whatever the others do:*)
(* when no command runs, every prefix is answered with exactly the commits *)
(* that have it, and with more than one commit each is on a line of its    *)
(* own.  A kill between the rename of an entry and the append loses a      *)
(* commit from the answer.                                                 *)
THEOREM ShortIdsStayResolved ==
    ASSUME OneCommitter
    PROVE  Spec /\ []NoKills => []ShortIdsResolve
<1>1. MillisInv /\ NoKills /\ NoKills' /\ [Next]_vars => MillisInv'
  BY NextMillis
<1> QED
  BY <1>1, InitMillis, MillisResolve, PTL DEF Spec

-----------------------------------------------------------------------------
(* Commands come to an end, and commits become current.                    *)

(* The files that an add has still to write.                               *)
Copying(p) == {f \in Files : buf[p][f] # None}

(* How many steps a command has still to take at most.                     *)
Remaining(p) ==
    LET n == Cardinality(Files)
    IN CASE pc[p] = "takeParent" -> n + 9
         [] pc[p] = "takeRemove" -> n + 8
         [] pc[p] = "readIndex" -> n + 7
         [] pc[p] = "writeIndex" -> n + 6
         [] pc[p] = "listStage" -> n + 5
         [] pc[p] = "moveFiles" -> Cardinality(todo[p]) + 4
         [] pc[p] = "writeCurrent" -> 3
         [] pc[p] = "probeMillis" -> 2
         [] pc[p] \in {"appendMillis", "writeMillis", "rmFlush"} -> 1
         [] pc[p] = "adding" ->
                2 * Cardinality(todo[p]) + Cardinality(Copying(p)) + 1
         [] OTHER -> 0

RunsOut ==
    \A p \in Procs :
        /\ Remaining(p) \in Nat
        /\ \/ pc[p] = "idle"
           \/ UNCHANGED <<pc[p], todo[p], buf[p]>>
           \/ Remaining(p)' < Remaining(p)

LEMMA TodoFinite ==
    ASSUME IsFiniteSet(Files), TypeOK, NEW p \in Procs
    PROVE  /\ IsFiniteSet(todo[p])
           /\ Cardinality(todo[p]) \in Nat /\ Cardinality(Files) \in Nat
           /\ Cardinality(todo[p]) <= Cardinality(Files)
           /\ IsFiniteSet(Copying(p)) /\ Cardinality(Copying(p)) \in Nat
<1>1. todo[p] \subseteq Files /\ Copying(p) \subseteq Files
  BY DEF TypeOK, Copying
<1> QED
  BY <1>1, FS_Subset, FS_CardinalityType

LEMMA StepsLeft ==
    ASSUME IsFiniteSet(Files), TypeOK, NEW p \in Procs, Remaining(p) = 0
    PROVE  pc[p] = "idle"
<1>1. PICK n \in Nat, m \in Nat, i \in Nat :
          /\ n = Cardinality(Files) /\ m = Cardinality(todo[p])
          /\ i = Cardinality(Copying(p))
  BY TodoFinite
<1>2. CASE pc[p] = "adding"
  <2>1. Remaining(p) = 2 * m + i + 1
    BY <1>1, <1>2 DEF Remaining
  <2> QED
    BY <2>1
<1>3. CASE pc[p] # "adding"
  BY <1>1, <1>3 DEF TypeOK, Steps, CommitSteps, Remaining
<1> QED
  BY <1>2, <1>3

LEMMA StepRunsOut ==
    ASSUME IsFiniteSet(Files), TypeOK, TypeOK', NEW p \in Procs, Step(p)
    PROVE  Remaining(p)' < Remaining(p)
<1>n. PICK n \in Nat : n = Cardinality(Files)
  BY FS_CardinalityType
<1>d. PICK m \in Nat : m = Cardinality(todo[p]) /\ m <= n
  BY <1>n, TodoFinite
<1>e. PICK k \in Nat : k = Cardinality(todo'[p]) /\ k <= n
  <2>1. IsFiniteSet(todo'[p]) /\ Cardinality(todo'[p]) <= n
    BY <1>n, FS_Subset DEF TypeOK
  <2> QED
    BY <2>1, FS_CardinalityType
<1>0. CASE AddExit(p)
  <2>1. pc[p] = "adding" /\ pc'[p] = "idle"
    BY <1>0 DEF AddExit, Exits, TypeOK
  <2>2. Cardinality(Copying(p)) \in Nat
    BY TodoFinite
  <2> QED
    BY <1>d, <2>1, <2>2 DEF Remaining
<1>1. CASE RmFlush(p) \/ AppendMillis(p) \/ WriteMillis(p)
  <2>1. /\ pc[p] \in {"appendMillis", "writeMillis", "rmFlush"}
        /\ pc'[p] = "idle"
    BY <1>1 DEF RmFlush, AppendMillis, WriteMillis, Exits, TypeOK
  <2> QED
    BY <2>1 DEF Remaining
<1>2. CASE TakeParent(p)
  <2>1. pc[p] = "takeParent" /\ pc'[p] = "takeRemove"
    BY <1>2 DEF TakeParent, Goes, TypeOK
  <2> QED
    BY <1>n, <2>1 DEF Remaining
<1>3. CASE TakeRemove(p)
  <2>1. pc[p] = "takeRemove" /\ pc'[p] = "readIndex"
    BY <1>3 DEF TakeRemove, Goes, TypeOK
  <2> QED
    BY <1>n, <2>1 DEF Remaining
<1>4. CASE ReadIndex(p)
  <2>1. pc[p] = "readIndex" /\ pc'[p] \in {"writeIndex", "idle"}
    BY <1>4 DEF ReadIndex, Goes, Exits, TypeOK
  <2> QED
    BY <1>n, <2>1 DEF Remaining
<1>5. CASE WriteIndex(p)
  <2>1. pc[p] = "writeIndex" /\ pc'[p] = "listStage"
    BY <1>5 DEF WriteIndex, Goes, TypeOK
  <2> QED
    BY <1>n, <2>1 DEF Remaining
<1>6. CASE ListStage(p)
  <2>1. pc[p] = "listStage" /\ pc'[p] = "moveFiles"
    BY <1>6 DEF ListStage, Goes, TypeOK
  <2> QED
    BY <1>n, <1>e, <2>1 DEF Remaining
<1>7. CASE \E f \in Files : MoveFile(p, f)
  <2>1. PICK f \in Files : /\ pc[p] = "moveFiles" /\ pc'[p] = "moveFiles"
                           /\ f \in todo[p] /\ todo'[p] = todo[p] \ {f}
    BY <1>7 DEF MoveFile, TypeOK
  <2>2. k = m - 1
    BY <1>d, <1>e, <2>1, TodoFinite, FS_RemoveElement
  <2> QED
    BY <1>d, <1>e, <2>1, <2>2 DEF Remaining
<1>8. CASE OpenCurrent(p)
  <2>1. pc[p] = "moveFiles" /\ pc'[p] = "writeCurrent"
    BY <1>8 DEF OpenCurrent, Goes, TypeOK
  <2> QED
    BY <1>d, <2>1 DEF Remaining
<1>9. CASE WriteCurrent(p)
  <2>1. pc[p] = "writeCurrent" /\ pc'[p] = "probeMillis"
    BY <1>9 DEF WriteCurrent, Goes, TypeOK
  <2> QED
    BY <2>1 DEF Remaining
<1>10. CASE ProbeMillis(p)
  <2>1. pc[p] = "probeMillis" /\ pc'[p] \in {"appendMillis", "writeMillis"}
    BY <1>10 DEF ProbeMillis, Goes, TypeOK
  <2> QED
    BY <2>1 DEF Remaining
<1>11. CASE \E f \in Files : AddOpen(p, f)
  <2> PICK f \in Files : AddOpen(p, f)
    BY <1>11
  <2>1. /\ pc[p] = "adding" /\ pc'[p] = "adding" /\ f \in todo[p]
    BY DEF AddOpen, TypeOK
  <2>2. Cardinality(todo[p] \ {f}) = m - 1 /\ m - 1 \in Nat
    <3>1. Cardinality(todo[p] \ {f}) = m - 1
      BY <1>d, <2>1, TodoFinite, FS_RemoveElement
    <3>2. IsFiniteSet(todo[p] \ {f})
      BY TodoFinite, FS_Subset
    <3> QED
      BY <1>d, <3>1, <3>2, FS_CardinalityType
  <2>3. PICK i \in Nat : i = Cardinality(Copying(p))
    BY TodoFinite
  <2>4. CASE work[f] = None
    <3>1. todo'[p] = {}
      BY <2>4 DEF AddOpen, TypeOK
    <3>2. k = 0
      BY <1>e, <3>1, FS_EmptySet
    <3>3. Copying(p)' = Copying(p) \/ Copying(p)' = {}
      BY <2>4 DEF AddOpen, Copying, NoCopies, TypeOK
    <3>4. Cardinality(Copying(p))' \in {i, 0}
      BY <2>3, <3>3, FS_EmptySet
    <3> QED
      BY <1>d, <1>e, <2>1, <2>2, <2>3, <3>2, <3>4 DEF Remaining
  <2>5. CASE work[f] # None
    <3>1. todo'[p] = todo[p] \ {f}
      BY <2>5 DEF AddOpen, TypeOK
    <3>2. k = m - 1
      BY <1>e, <2>2, <3>1
    <3>3. Copying(p)' = Copying(p) \/ Copying(p)' = Copying(p) \cup {f}
      BY <2>5 DEF AddOpen, Copying, TypeOK, Copies
    <3>4. Cardinality(Copying(p))' \in {i, i + 1}
      BY <2>3, <3>3, TodoFinite, FS_AddElement
    <3> QED
      BY <1>d, <1>e, <2>1, <2>2, <2>3, <3>2, <3>4 DEF Remaining
  <2> QED
    BY <2>4, <2>5
<1>12. CASE \E f \in Files : AddFlush(p, f)
  <2> PICK f \in Files : AddFlush(p, f)
    BY <1>12
  <2>1. /\ pc[p] = "adding" /\ pc'[p] = "adding"
        /\ todo'[p] = todo[p]
    BY DEF AddFlush
  <2>2. f \in Copying(p) /\ Copying(p)' = Copying(p) \ {f}
    BY DEF AddFlush, Copying, TypeOK, Copies
  <2>3. PICK i \in Nat : i = Cardinality(Copying(p))
    BY TodoFinite
  <2>4. Cardinality(Copying(p))' = i - 1
    BY <2>2, <2>3, TodoFinite, FS_RemoveElement
  <2> QED
    BY <1>d, <1>e, <2>1, <2>3, <2>4 DEF Remaining
<1> QED
  BY <1>0, <1>1, <1>2, <1>3, <1>4, <1>5, <1>6, <1>7, <1>8, <1>9, <1>10, <1>11,
     <1>12 DEF Step

LEMMA NextRunsOut ==
    ASSUME IsFiniteSet(Files), TypeOK, TypeOK', [Next]_vars
    PROVE  RunsOut
<1> SUFFICES ASSUME NEW p \in Procs
             PROVE  /\ Remaining(p) \in Nat
                    /\ \/ pc[p] = "idle"
                       \/ UNCHANGED <<pc[p], todo[p], buf[p]>>
                       \/ Remaining(p)' < Remaining(p)
  BY DEF RunsOut
<1>0. Remaining(p) \in Nat
  BY TodoFinite DEF Remaining
<1>1. CASE UNCHANGED vars \/ \E f \in Files, d \in Data \cup {None} : Edit(f, d)
  BY <1>0, <1>1 DEF Edit, vars, locals
<1>2. ASSUME NEW q \in Procs, Start(q) PROVE pc[p] = "idle" \/ UNCHANGED <<pc[p], todo[p], buf[p]>>
  BY <1>2
  DEF Start, AddBegin, Unadd, RmUnlink, CommitBegin, Starts, Goes, locals, TypeOK
<1>3. ASSUME NEW q \in Procs, q # p, Step(q) PROVE UNCHANGED <<pc[p], todo[p], buf[p]>>
  <2>1. CASE AddExit(q) \/ RmFlush(q) \/ AppendMillis(q) \/ WriteMillis(q)
    BY <1>3, <2>1 DEF AddExit, RmFlush, AppendMillis, WriteMillis, Exits, TypeOK
  <2>2. CASE TakeParent(q) \/ TakeRemove(q) \/ WriteIndex(q) \/ OpenCurrent(q)
             \/ WriteCurrent(q) \/ ProbeMillis(q)
    BY <1>3, <2>2 DEF TakeParent, TakeRemove, WriteIndex, OpenCurrent,
       WriteCurrent, ProbeMillis, Goes, locals, TypeOK
  <2>3. CASE ReadIndex(q) \/ ListStage(q)
    BY <1>3, <2>3 DEF ReadIndex, ListStage, Goes, Exits, TypeOK
  <2>4. CASE \E f \in Files : MoveFile(q, f)
    BY <1>3, <2>4 DEF MoveFile, TypeOK
  <2>5. CASE \E f \in Files : AddOpen(q, f) \/ AddFlush(q, f)
    BY <1>3, <2>5 DEF AddOpen, AddFlush, TypeOK
  <2> QED
    BY <1>3, <2>1, <2>2, <2>3, <2>4, <2>5 DEF Step
<1>4. ASSUME Step(p) PROVE Remaining(p)' < Remaining(p)
  BY <1>4, StepRunsOut
<1>5. ASSUME NEW q \in Procs, q # p, Crash(q) PROVE UNCHANGED <<pc[p], todo[p], buf[p]>>
  BY <1>5 DEF Crash, Exits, TypeOK
<1>6. ASSUME Crash(p) PROVE Remaining(p)' < Remaining(p)
  <2>1. pc[p] # "idle" /\ pc'[p] = "idle"
    BY <1>6 DEF Crash, Exits, TypeOK
  <2>2. Remaining(p)' = 0
    BY <2>1 DEF Remaining
  <2> QED
    BY <1>0, <2>1, <2>2, StepsLeft
<1> QED
  BY <1>0, <1>1, <1>2, <1>3, <1>4, <1>5, <1>6 DEF Next

(* A command that runs takes finitely many steps: each step brings it      *)
(* nearer to its end, and no other command sets it back, in particular not *)
(* one that stages files while commit moves the staged ones.               *)
THEOREM CommandsRunOut ==
    ASSUME IsFiniteSet(Files)
    PROVE  Spec => [][RunsOut]_vars
<1>1. TypeOK /\ TypeOK' /\ [Next]_vars => [RunsOut]_vars
  BY NextRunsOut
<1> QED
  BY <1>1, TypeCorrect, PTL DEF Spec

(* What makes a commit that ends a commit that is named.                   *)
PublishInv ==
    /\ HistInv
    /\ \A p \in Procs : pc[p] \in Registering => cid[p] \in Named

Publishes ==
    \A p \in Procs :
        pc[p] \in CommitSteps /\ pc'[p] \notin CommitSteps => cid[p] \in Named'

LEMMA CurrentKept ==
    ASSUME OneCommitter, HistInv, NEW p \in Procs, pc[p] \in Registering,
           [Next]_vars
    PROVE  Named' = Named
<1>1. UNCHANGED <<current, parent>>
  <2>1. CASE UNCHANGED vars \/ \E f \in Files, d \in Data \cup {None} : Edit(f, d)
    BY <2>1 DEF Edit, vars, disk
  <2>2. ASSUME NEW q \in Procs, Start(q) PROVE UNCHANGED <<current, parent>>
    BY <2>2 DEF Start, AddBegin, Unadd, RmUnlink, CommitBegin, disk
  <2>3. ASSUME NEW q \in Procs, Step(q) PROVE UNCHANGED <<current, parent>>
    <3>1. pc[q] \notin {"takeParent", "moveFiles", "writeCurrent"}
          \/ \E f \in Files : MoveFile(q, f)
      <4>1. pc[p] \in CommitSteps
        BY DEF Registering, CommitSteps
      <4>2. ASSUME pc[q] \in CommitSteps PROVE q = p
        BY <4>1, <4>2, OneCommits
      <4> QED
        BY <4>2 DEF Registering, CommitSteps
    <3>2. CASE \E f \in Files : MoveFile(q, f)
      BY <3>2 DEF MoveFile
    <3>3. CASE pc[q] \notin {"takeParent", "moveFiles", "writeCurrent"}
      BY <2>3, <3>3 DEF Step, AddOpen, AddFlush, AddExit, RmFlush, TakeParent, TakeRemove,
         ReadIndex, WriteIndex, ListStage, MoveFile, OpenCurrent, WriteCurrent,
         ProbeMillis, AppendMillis, WriteMillis, Goes, disk
    <3> QED
      BY <3>1, <3>2, <3>3
  <2>4. ASSUME NEW q \in Procs, Crash(q) PROVE UNCHANGED <<current, parent>>
    BY <2>4 DEF Crash, disk
  <2> QED
    BY <2>1, <2>2, <2>3, <2>4 DEF Next
<1> QED
  BY <1>1 DEF Named

LEMMA WriteCurrentNames ==
    ASSUME HistInv, NEW p \in Procs, WriteCurrent(p)
    PROVE  cid[p] \in Named' /\ pc'[p] \in CommitSteps /\ UNCHANGED cid
<1>1. pc[p] = "writeCurrent" /\ pc'[p] = "probeMillis" /\ UNCHANGED cid
  BY DEF WriteCurrent, Goes, locals, HistInv, TypeInv, TypeOK
<1>2. cid[p] \in Cids /\ fd[p] = {CurrentFile}
  BY <1>1 DEF HistInv, TypeInv, TypeOK, CommitHasId, CommitSteps
<1>3. current' = cid[p]
  BY <1>2 DEF WriteCurrent
<1> QED
  BY <1>1, <1>2, <1>3 DEF Named, CommitSteps

LEMMA StepPublishes ==
    ASSUME NoColons, OneCommitter, PublishInv, NEW p \in Procs, Step(p)
    PROVE  /\ pc'[p] \in Registering => cid'[p] \in Named'
           /\ pc[p] \in CommitSteps /\ pc'[p] \notin CommitSteps =>
                  cid[p] \in Named'
<1>t. TypeOK
  BY DEF PublishInv, HistInv, TypeInv
<1>1. CASE pc[p] \in Registering
  <2>1. Named' = Named
    BY <1>1, CurrentKept DEF PublishInv, Next
  <2>2. cid[p] \in Named
    BY <1>1 DEF PublishInv
  <2>3. pc'[p] \in Registering => cid'[p] = cid[p]
    BY <1>1, <1>t DEF Registering, Step, AddOpen, AddFlush, AddExit, RmFlush, TakeParent,
       TakeRemove, ReadIndex, WriteIndex, ListStage, MoveFile, OpenCurrent,
       WriteCurrent, ProbeMillis, AppendMillis, WriteMillis, Goes, Exits,
       locals, TypeOK
  <2> QED
    BY <2>1, <2>2, <2>3
<1>2. CASE pc[p] = "writeCurrent"
  <2>1. WriteCurrent(p)
    BY <1>2 DEF Step, AddOpen, AddFlush, AddExit, RmFlush, TakeParent, TakeRemove, ReadIndex,
       WriteIndex, ListStage, MoveFile, OpenCurrent, ProbeMillis,
       AppendMillis, WriteMillis, Goes
  <2> QED
    BY <2>1, WriteCurrentNames DEF PublishInv
<1>3. CASE pc[p] = "readIndex"
  <2>1. ReadIndex(p)
    BY <1>3 DEF Step, AddOpen, AddFlush, AddExit, RmFlush, TakeParent, TakeRemove, WriteCurrent,
       WriteIndex, ListStage, MoveFile, OpenCurrent, ProbeMillis,
       AppendMillis, WriteMillis, Goes
  <2>2. pc'[p] = "writeIndex"
    BY <2>1, <1>t, ReadIndexLoads DEF PublishInv, Goes, TypeOK
  <2> QED
    BY <2>2 DEF Registering, CommitSteps
<1>4. CASE pc[p] \notin Registering \cup {"writeCurrent", "readIndex"}
  <2>1. /\ pc'[p] \notin Registering
        /\ pc[p] \in CommitSteps => pc'[p] \in CommitSteps
    BY <1>4, <1>t DEF Registering, CommitSteps, Step, AddOpen, AddFlush, AddExit, RmFlush,
       TakeParent, TakeRemove, ReadIndex, WriteIndex, ListStage, MoveFile,
       OpenCurrent, WriteCurrent, ProbeMillis, AppendMillis, WriteMillis,
       Goes, Exits, TypeOK
  <2> QED
    BY <2>1
<1> QED
  BY <1>1, <1>2, <1>3, <1>4

LEMMA NextPublishes ==
    ASSUME NoKills, NoKills', NoColons, OneCommitter, PublishInv, [Next]_vars
    PROVE  PublishInv' /\ Publishes
<1>t. TypeOK
  BY DEF PublishInv, HistInv, TypeInv
<1>1. HistInv'
  BY NextHist DEF PublishInv
<1>2. ASSUME NEW p \in Procs
      PROVE  /\ pc'[p] \in Registering => cid'[p] \in Named'
             /\ pc[p] \in CommitSteps /\ pc'[p] \notin CommitSteps =>
                    cid[p] \in Named'
  <2>1. CASE Step(p)
    BY <2>1, StepPublishes
  <2>2. CASE UNCHANGED <<pc[p], cid[p]>>
    <3>1. pc[p] \in Registering => cid[p] \in Named /\ Named' = Named
      BY CurrentKept DEF PublishInv
    <3> QED
      BY <2>2, <3>1
  <2>3. CASE Start(p)
    <3>1. \/ /\ pc[p] = "idle"
             /\ pc'[p] \in {"idle", "adding", "rmFlush", "takeParent"}
          \/ UNCHANGED <<pc[p], cid[p]>>
      BY <2>3, <1>t DEF Start, AddBegin, Unadd, RmUnlink, CommitBegin, Starts,
         Goes, locals, TypeOK
    <3> QED
      BY <2>2, <3>1 DEF Registering, CommitSteps
  <2>4. CASE Crash(p)
    BY <2>4, <1>t DEF Crash, NoKills, TypeOK
  <2>5. CASE UNCHANGED vars \/ \E f \in Files, d \in Data \cup {None} : Edit(f, d)
    BY <2>2, <2>5 DEF Edit, vars, locals
  <2>6. ASSUME NEW q \in Procs, q # p, Start(q) \/ Step(q) \/ Crash(q)
        PROVE  UNCHANGED <<pc[p], cid[p]>>
    <3>1. CASE Start(q)
      BY <1>t, <2>6, <3>1 DEF Start, AddBegin, Unadd, RmUnlink, CommitBegin,
         Starts, Goes, locals, TypeOK
    <3>2. CASE Step(q)
      BY <1>t, <2>6, <3>2 DEF Step, AddOpen, AddFlush, AddExit, RmFlush, TakeParent, TakeRemove,
         ReadIndex, WriteIndex, ListStage, MoveFile, OpenCurrent, WriteCurrent,
         ProbeMillis, AppendMillis, WriteMillis, Goes, Exits, locals, TypeOK
    <3>3. CASE Crash(q)
      BY <1>t, <2>6, <3>3 DEF Crash, Exits, TypeOK
    <3> QED
      BY <2>6, <3>1, <3>2, <3>3
  <2> QED
    BY <2>1, <2>2, <2>3, <2>4, <2>5, <2>6 DEF Next
<1> QED
  BY <1>1, <1>2 DEF PublishInv, Publishes

(* A commit ends only as one that is current or the parent of a commit: it *)
(* does not give up half way, whatever the user's other commands do to the *)
(* stage meanwhile, if one process commits, nothing is killed and no path  *)
(* has a ':'.                                                              *)
THEOREM CommitsArePublished ==
    ASSUME NoColons, OneCommitter
    PROVE  Spec /\ []NoKills => [][Publishes]_vars
<1>1. Init => PublishInv
  BY InitHist DEF PublishInv, Init, Registering
<1>2. PublishInv /\ NoKills /\ NoKills' /\ [Next]_vars
      => PublishInv' /\ [Publishes]_vars
  BY NextPublishes
<1> QED
  BY <1>1, <1>2, PTL DEF Spec
=============================================================================
