------------------------------- MODULE RepoVcs -------------------------------
(***************************************************************************)
(* A repository that one process at a time works on implements Vcs, kills  *)
(* included.  The commit takes effect when its id reaches the file         *)
(* current; until then what it has already taken from the stage, the       *)
(* removal list and current still counts as being there.                   *)
(***************************************************************************)
EXTENDS RepoProps

(* The step at which p's commit has taken current but not yet replaced it. *)
TookCurrent == {"takeRemove", "readIndex", "writeIndex", "listStage",
                "moveFiles", "writeCurrent"}

(* The commits under way that hold what was current.                       *)
Pending == {cid[p] : p \in {q \in Procs : pc[q] \in TookCurrent}}

AsTip(t) == IF t \in Cids THEN t ELSE None

Snapshot(c) == [f \in Files |-> IF cindex[c][f] = None THEN None
                                ELSE store[cindex[c][f]][f]]

tipBar == IF Pending = {} THEN AsTip(current)
          ELSE AsTip(parent[CHOOSE c \in Pending : TRUE])
stagedBar == [f \in Files |->
                 IF \E c \in Pending : store[c][f] # None
                 THEN store[CHOOSE c \in Pending : store[c][f] # None][f]
                 ELSE stage[f]]
removingBar == Listed(stageRm) \cup UNION {Listed(remove[c]) : c \in Pending}
upBar == [c \in Cids |-> IF c \in Named THEN AsTip(parent[c]) ELSE None]
snapBar == [c \in Cids |-> IF c \in Named THEN Snapshot(c) ELSE None]

Abstract == INSTANCE Vcs WITH
    staged <- stagedBar, removing <- removingBar, tip <- tipBar,
    up <- upBar, snap <- snapBar, refused <- missed

(* Every behaviour of the repository is one of the version control system, *)
(* with each commit one atomic step and no commit ever damaged: a mv that  *)
(* fails costs the commit this file and leaves the file staged, and a      *)
(* command that is killed costs what Interrupt says.                       *)
ImplementsVcs == Abstract!Spec
=============================================================================
