-------------------------------- MODULE Repo --------------------------------
(***************************************************************************)
(* A cams repository on disk and the cams processes that work on it.       *)
(*                                                                         *)
(* Every file under .cams that a command reads back is a variable, and a   *)
(* command is the sequence of system calls it makes: two commands started  *)
(* in two terminals interleave call by call (cams takes no lock), and a    *)
(* command may be killed between two calls.  A process that has opened a   *)
(* file keeps writing to that file when another process renames it, and    *)
(* loses what it had only buffered when it is killed.                      *)
(***************************************************************************)
EXTENDS Cindex, Naturals, Sequences, FiniteSets

CONSTANTS Procs,     \* the processes that may run a command
          Role,      \* Role[p]: the commands that p may run
          Data,      \* the contents of a working file
          Blank,     \* the content of a file that is not yet (wholly) written
          Millis,    \* the nanosecond prefixes of commit ids
          MillisOf,  \* MillisOf[c]: the prefix of c
          NL,        \* the newline that ends an entry of a conflicts file
          MaxFaults  \* bound: how many commands are killed half way and how
                     \* many mv fail, together

Commands == {"add", "unadd", "rm", "commit"}

ASSUME RoleAssumption == Role \in [Procs -> SUBSET Commands]
ASSUME MillisAssumption == MillisOf \in [Cids -> Millis]
ASSUME MaxFaultsAssumption == MaxFaults \in Nat
ASSUME BlankAssumption ==
    /\ Blank \notin Cids \cup Data
    /\ None \notin Data \cup {Blank}
    /\ NL \notin Cids
ASSUME NoneIsNoList == \A list \in SUBSET Files : list # None
ASSUME NoneIsNoTokens == None \notin Seq(Cids \cup {NL})

VARIABLES
    work,       \* the user's working files
    stage,      \* .cams/stage/files/<name>
    stageRm,    \* .cams/stage/remove: the paths it lists
    current,    \* .cams/current: the commit the repository is at
    dirs,       \* the commit directories .cams/<cid>, each with its message
    parent,     \* .cams/<cid>/parent
    remove,     \* .cams/<cid>/remove: the paths it lists
    cindex,     \* .cams/<cid>/cindex
    store,      \* .cams/files/<cid>.<name>
    expected,   \* .cams/millis/<nsec>: the one commit with this prefix
    conflicts,  \* .cams/millis/<nsec>.conflicts: its tokens
    pc,         \* the next system call of a process, "idle" between commands
    cid,        \* the commit that a commit command is making
    tree,       \* the index that generate_cindex builds in memory
    todo,       \* files still to move (commit) or to open (add), names still
                \* buffered (rm)
    buf,        \* the content that add has still to write to each file
    fd,         \* the files a process has open for writing
    kills,      \* how many commands have been killed
    missed      \* history: the <<c, f>> whose mv failed during the commit c

disk == <<work, stage, stageRm, current, dirs, parent, remove, cindex, store,
          expected, conflicts>>
locals == <<cid, tree, todo, buf>>
faults == <<kills, missed>>
vars == <<disk, pc, locals, fd, faults>>

CommitSteps == {"takeParent", "takeRemove", "readIndex", "writeIndex",
                "listStage", "moveFiles", "writeCurrent", "probeMillis",
                "appendMillis", "writeMillis"}
Steps == {"idle", "adding", "rmFlush"} \cup CommitSteps

Contents == Data \cup {Blank}
Copies == [Files -> Data \cup {None}]
NoCopies == [f \in Files |-> None]
Tip == Cids \cup {Blank, None}

(* The names a process can have open; a file that was unlinked while open  *)
(* has none.                                                               *)
Handle(kind, c, f) == [kind |-> kind, cid |-> c, path |-> f]
CurrentFile == Handle("current", None, None)
StageRmFile == Handle("stageRm", None, None)
ParentFile(c) == Handle("parent", c, None)
RemoveFile(c) == Handle("remove", c, None)
StageFile(f) == Handle("stage", None, f)
StoreFile(c, f) == Handle("store", c, f)
Handles == {CurrentFile, StageRmFile}
           \cup {ParentFile(c) : c \in Cids} \cup {RemoveFile(c) : c \in Cids}
           \cup {StageFile(f) : f \in Files}
           \cup {StoreFile(cf[1], cf[2]) : cf \in Cids \X Files}

TypeOK ==
    /\ work \in [Files -> Data \cup {None}]
    /\ stage \in [Files -> Contents \cup {None}]
    /\ stageRm \in (SUBSET Files) \cup {None}
    /\ current \in Tip
    /\ dirs \in SUBSET Cids
    /\ parent \in [Cids -> Tip]
    /\ remove \in [Cids -> (SUBSET Files) \cup {None}]
    /\ cindex \in [Cids -> Index \cup {None}]
    /\ store \in [Cids -> [Files -> Contents \cup {None}]]
    /\ expected \in [Millis -> Cids \cup {None}]
    /\ conflicts \in [Millis -> Seq(Cids \cup {NL}) \cup {None}]
    /\ pc \in [Procs -> Steps]
    /\ cid \in [Procs -> Cids \cup {None}]
    /\ tree \in [Procs -> Index]
    /\ todo \in [Procs -> SUBSET Files]
    /\ buf \in [Procs -> Copies]
    /\ fd \in [Procs -> SUBSET Handles]
    /\ kills \in Nat
    /\ missed \in SUBSET (Cids \X Files)

(* What "cams init" leaves: no commit, nothing staged.                     *)
Init ==
    /\ work \in [Files -> Data \cup {None}]
    /\ stage = [f \in Files |-> None]
    /\ stageRm = None
    /\ current = None
    /\ dirs = {}
    /\ parent = [c \in Cids |-> None]
    /\ remove = [c \in Cids |-> None]
    /\ cindex = [c \in Cids |-> None]
    /\ store = [c \in Cids |-> [f \in Files |-> None]]
    /\ expected = [m \in Millis |-> None]
    /\ conflicts = [m \in Millis |-> None]
    /\ pc = [p \in Procs |-> "idle"]
    /\ cid = [p \in Procs |-> None]
    /\ tree = [p \in Procs |-> EmptyIndex]
    /\ todo = [p \in Procs |-> {}]
    /\ buf = [p \in Procs |-> NoCopies]
    /\ fd = [p \in Procs |-> {}]
    /\ kills = 0
    /\ missed = {}

-----------------------------------------------------------------------------
(* Helpers.                                                                *)

Starts(p, command) == pc[p] = "idle" /\ command \in Role[p]

Goes(p, from, to) == pc[p] = from /\ pc' = [pc EXCEPT ![p] = to]

(* The process is gone: what it held in memory and its open files with it. *)
Exits(p) ==
    /\ pc' = [pc EXCEPT ![p] = "idle"]
    /\ cid' = [cid EXCEPT ![p] = None]
    /\ tree' = [tree EXCEPT ![p] = EmptyIndex]
    /\ todo' = [todo EXCEPT ![p] = {}]
    /\ buf' = [buf EXCEPT ![p] = NoCopies]
    /\ fd' = [fd EXCEPT ![p] = {}]

(* The open files after a rename, and after an unlink.                     *)
Renamed(from, to) ==
    [q \in Procs |-> {IF h = from THEN to ELSE h : h \in fd[q]}]
Unlinked(name) == [q \in Procs |-> fd[q] \ {name}]

MoreFaults == kills + Cardinality(missed) < MaxFaults

Staged == {f \in Files : stage[f] # None}

(* The paths that a removal list names; it need not exist.                 *)
Listed(list) == IF list = None THEN {} ELSE list

-----------------------------------------------------------------------------
(* The user edits or deletes a working file.                               *)
Edit(f, d) ==
    /\ work' = [work EXCEPT ![f] = d]
    /\ UNCHANGED <<stage, stageRm, current, dirs, parent, remove, cindex,
                   store, expected, conflicts, pc, locals, fd, faults>>

(* add of the files in "args", none of them twice.                         *)
AddBegin(p, args) ==
    /\ Starts(p, "add")
    /\ Goes(p, "idle", "adding")
    /\ todo' = [todo EXCEPT ![p] = args]
    /\ UNCHANGED <<disk, cid, tree, buf, fd, faults>>

(* Mutant of AddOpen: the staged file is unlinked and not truncated.       *)
AddOpenUnlinks(p, f) ==
    /\ pc[p] = "adding"
    /\ f \in todo[p]
    /\ todo' = [todo EXCEPT ![p] = @ \ {f}]
    /\ stage' = [stage EXCEPT ![f] = None]
    /\ buf' = [buf EXCEPT ![p][f] = work[f]]
    /\ fd' = [fd EXCEPT ![p] = @ \cup {StageFile(f)}]
    /\ UNCHANGED <<work, stageRm, current, dirs, parent, remove, cindex,
                   store, expected, conflicts, pc, cid, tree, faults>>

(* ct_fcopy of the next file opens (and truncates) the staged file before  *)
(* it looks whether it could open the working file, reads the one into the *)
(* buffer of the other, and closes neither.  If there is no working file   *)
(* the process ends, by xokptr (a library's) or at the read that follows   *)
(* it: with or without a flush of the copies made before.                  *)
AddOpen(p, f) ==
    /\ pc[p] = "adding"
    /\ f \in todo[p]
    /\ stage' = [stage EXCEPT ![f] = Blank]
    /\ \/ /\ work[f] = None
          /\ todo' = [todo EXCEPT ![p] = {}]
          /\ buf' \in {buf, [buf EXCEPT ![p] = NoCopies]}
          /\ UNCHANGED fd
       \/ /\ work[f] # None
          /\ todo' = [todo EXCEPT ![p] = @ \ {f}]
          /\ buf' = [buf EXCEPT ![p][f] = work[f]]
          /\ fd' = [fd EXCEPT ![p] = @ \cup {StageFile(f)}]
    /\ UNCHANGED <<work, stageRm, current, dirs, parent, remove, cindex,
                   store, expected, conflicts, pc, cid, tree, faults>>

(* After the last file the process exits, which flushes the copies that    *)
(* are still open, one after the other.  A copy reaches whatever name the  *)
(* opened file has by now.                                                 *)
AddFlush(p, f) ==
    /\ pc[p] = "adding"
    /\ todo[p] = {}
    /\ buf[p][f] # None
    /\ stage' = [stage EXCEPT ![f] =
                     IF StageFile(f) \in fd[p] THEN buf[p][f] ELSE @]
    /\ store' = [c \in Cids |-> [store[c] EXCEPT ![f] =
                     IF StoreFile(c, f) \in fd[p] THEN buf[p][f] ELSE @]]
    /\ buf' = [buf EXCEPT ![p][f] = None]
    /\ UNCHANGED <<work, stageRm, current, dirs, parent, remove, cindex,
                   expected, conflicts, pc, cid, tree, todo, fd, faults>>

AddExit(p) ==
    /\ pc[p] = "adding"
    /\ todo[p] = {}
    /\ buf[p] = NoCopies
    /\ Exits(p)
    /\ UNCHANGED <<disk, faults>>

(* unadd f: unlink of the staged copy.                                     *)
Unadd(p, f) ==
    /\ Starts(p, "unadd")
    /\ stage' = [stage EXCEPT ![f] = None]
    /\ fd' = Unlinked(StageFile(f))
    /\ UNCHANGED <<work, stageRm, current, dirs, parent, remove, cindex,
                   store, expected, conflicts, pc, locals, faults>>

(* rm of the files in "gone": opens the removal list, creating it, writes  *)
(* each name to a buffer and unlinks each working file.                    *)
RmUnlink(p, gone) ==
    /\ Starts(p, "rm")
    /\ Goes(p, "idle", "rmFlush")
    /\ stageRm' = Listed(stageRm)
    /\ work' = [f \in Files |-> IF f \in gone THEN None ELSE work[f]]
    /\ todo' = [todo EXCEPT ![p] = gone]
    /\ fd' = [fd EXCEPT ![p] = {StageRmFile}]
    /\ UNCHANGED <<stage, current, dirs, parent, remove, cindex, store,
                   expected, conflicts, cid, tree, buf, faults>>

(* The buffer is only flushed when rm exits, to the list it opened.        *)
RmFlush(p) ==
    /\ pc[p] = "rmFlush"
    /\ stageRm' = IF StageRmFile \in fd[p] THEN Listed(stageRm) \cup todo[p]
                                         ELSE stageRm
    /\ remove' = [c \in Cids |-> IF RemoveFile(c) \in fd[p]
                                 THEN Listed(remove[c]) \cup todo[p]
                                 ELSE remove[c]]
    /\ Exits(p)
    /\ UNCHANGED <<work, stage, current, dirs, parent, cindex, store,
                   expected, conflicts, faults>>

-----------------------------------------------------------------------------
(* commit, one system call or one group of calls on private files a step.  *)

(* Mutant of CommitBegin: the id may be one that was given before.         *)
CommitBeginAgain(p, c) ==
    /\ Starts(p, "commit")
    /\ Goes(p, "idle", "takeParent")
    /\ dirs' = dirs \cup {c}
    /\ cid' = [cid EXCEPT ![p] = c]
    /\ UNCHANGED <<work, stage, stageRm, current, parent, remove, cindex,
                   store, expected, conflicts, tree, todo, buf, fd, faults>>

(* gen_cid, mkdir and the message.  The clock gives a new id every time.   *)
CommitBegin(p, c) ==
    /\ Starts(p, "commit")
    /\ c \notin dirs
    /\ Goes(p, "idle", "takeParent")
    /\ dirs' = dirs \cup {c}
    /\ cid' = [cid EXCEPT ![p] = c]
    /\ UNCHANGED <<work, stage, stageRm, current, parent, remove, cindex,
                   store, expected, conflicts, tree, todo, buf, fd, faults>>

(* Mutant of TakeParent: current is removed, the parent not recorded.      *)
TakeParentUnlinks(p) ==
    /\ Goes(p, "takeParent", "takeRemove")
    /\ current' = None
    /\ fd' = Unlinked(CurrentFile)
    /\ UNCHANGED <<work, stage, stageRm, dirs, parent, remove, cindex, store,
                   expected, conflicts, locals, faults>>

(* rename(current, <cid>/parent): for the rest of the commit the           *)
(* repository has no current.                                              *)
TakeParent(p) ==
    /\ Goes(p, "takeParent", "takeRemove")
    /\ \/ /\ current = None
          /\ UNCHANGED <<current, parent, fd>>
       \/ /\ current # None
          /\ parent' = [parent EXCEPT ![cid[p]] = current]
          /\ current' = None
          /\ fd' = Renamed(CurrentFile, ParentFile(cid[p]))
    /\ UNCHANGED <<work, stage, stageRm, dirs, remove, cindex, store,
                   expected, conflicts, locals, faults>>

(* rename(stage/remove, <cid>/remove).                                     *)
TakeRemove(p) ==
    /\ Goes(p, "takeRemove", "readIndex")
    /\ \/ /\ stageRm = None
          /\ UNCHANGED <<stageRm, remove, fd>>
       \/ /\ stageRm # None
          /\ remove' = [remove EXCEPT ![cid[p]] = stageRm]
          /\ stageRm' = None
          /\ fd' = Renamed(StageRmFile, RemoveFile(cid[p]))
    /\ UNCHANGED <<work, stage, current, dirs, parent, cindex, store,
                   expected, conflicts, locals, faults>>

(* The parent that ReadIndex finds.  A parent file that is still empty     *)
(* reads as an empty name or as none at all (ct_fread is a library's).     *)
NoParent(up) == up \in {None, Blank}

(* cindex_to_tree loads a parent's index; a missing index or a path with a *)
(* ':' ends the process.                                                   *)
Loadable(up) == /\ up \in Cids
                /\ cindex[up] # None
                /\ Readable(cindex[up])

(* Mutant of Inherited: every commit starts from nothing.                  *)
InheritedNothing(up) == EmptyIndex

(* The parent's index as cindex_to_tree loads it.                          *)
Inherited(up) == IF up \in Cids THEN cindex[up] ELSE EmptyIndex

(* generate_cindex, first part: the parent's index with the staged files   *)
(* (flist) stamped with the new id.                                        *)
ReadIndex(p) ==
    LET up == parent[cid[p]]
    IN /\ pc[p] = "readIndex"
       /\ \/ /\ NoParent(up) \/ Loadable(up)
             /\ Goes(p, "readIndex", "writeIndex")
             /\ tree' = [tree EXCEPT ![p] =
                            Stamp(Inherited(up), Staged, cid[p])]
             /\ UNCHANGED <<cid, todo, buf, fd>>
          \/ /\ up # None /\ ~ Loadable(up)
             /\ Exits(p)
       /\ UNCHANGED <<disk, faults>>

(* generate_cindex, second part: the removed files (rmlist) leave the      *)
(* tree, which becomes the commit's index.                                 *)
WriteIndex(p) ==
    /\ Goes(p, "writeIndex", "listStage")
    /\ cindex' = [cindex EXCEPT ![cid[p]] =
                     Drop(tree[p], Listed(remove[cid[p]]))]
    /\ tree' = [tree EXCEPT ![p] = EmptyIndex]
    /\ UNCHANGED <<work, stage, stageRm, current, dirs, parent, remove, store,
                   expected, conflicts, cid, todo, buf, fd, faults>>

(* The stage is listed a second time, for the files to move.               *)
ListStage(p) ==
    /\ Goes(p, "listStage", "moveFiles")
    /\ todo' = [todo EXCEPT ![p] = Staged]
    /\ UNCHANGED <<disk, cid, tree, buf, fd, faults>>

(* Mutant of MoveFile: a file that the parent holds is replaced in place.  *)
MoveFileInPlace(p, f) ==
    LET up == parent[cid[p]]
        owner == IF up \in Cids /\ cindex[up][f] # None THEN cindex[up][f]
                                                       ELSE cid[p]
    IN /\ pc[p] = "moveFiles"
       /\ f \in todo[p]
       /\ stage' = [stage EXCEPT ![f] = None]
       /\ store' = [store EXCEPT ![owner][f] = stage[f]]
       /\ fd' = Renamed(StageFile(f), StoreFile(owner, f))
       /\ todo' = [todo EXCEPT ![p] = @ \ {f}]
       /\ UNCHANGED <<work, stageRm, current, dirs, parent, remove, cindex,
                      expected, conflicts, pc, cid, tree, buf, faults>>

(* mv stage/files/<name> files/<cid>.<name>.  A mv that fails, because the *)
(* staged file has gone or for a reason of its own (a name that is too     *)
(* long, no permission, a kill), is reported and the loop goes on.         *)
MoveFile(p, f) ==
    /\ pc[p] = "moveFiles"
    /\ f \in todo[p]
    /\ todo' = [todo EXCEPT ![p] = @ \ {f}]
    /\ \/ /\ stage[f] # None
          /\ store' = [store EXCEPT ![cid[p]][f] = stage[f]]
          /\ stage' = [stage EXCEPT ![f] = None]
          /\ fd' = Renamed(StageFile(f), StoreFile(cid[p], f))
          /\ UNCHANGED missed
       \/ /\ stage[f] = None \/ MoreFaults
          /\ missed' = missed \cup {<<cid[p], f>>}
          /\ UNCHANGED <<stage, store, fd>>
    /\ UNCHANGED <<work, stageRm, current, dirs, parent, remove, cindex,
                   expected, conflicts, pc, cid, tree, buf, kills>>

(* Mutant of OpenCurrent: the loop over the staged files may end early.    *)
OpenCurrentEarly(p) ==
    /\ Goes(p, "moveFiles", "writeCurrent")
    /\ current' = Blank
    /\ fd' = [fd EXCEPT ![p] = {CurrentFile}]
    /\ UNCHANGED <<work, stage, stageRm, dirs, parent, remove, cindex, store,
                   expected, conflicts, locals, faults>>

(* Mutant of OpenCurrent: the stage is listed again until it is empty.     *)
OpenCurrentDrained(p) ==
    /\ pc[p] = "moveFiles"
    /\ todo[p] = {}
    /\ IF Staged = {}
       THEN /\ Goes(p, "moveFiles", "writeCurrent")
            /\ current' = Blank
            /\ fd' = [fd EXCEPT ![p] = {CurrentFile}]
       ELSE /\ Goes(p, "moveFiles", "listStage")
            /\ UNCHANGED <<current, fd>>
    /\ UNCHANGED <<work, stage, stageRm, dirs, parent, remove, cindex, store,
                   expected, conflicts, locals, faults>>

(* fopen(current, "w+"): current exists again, empty.                      *)
OpenCurrent(p) ==
    /\ Goes(p, "moveFiles", "writeCurrent")
    /\ todo[p] = {}
    /\ current' = Blank
    /\ fd' = [fd EXCEPT ![p] = {CurrentFile}]
    /\ UNCHANGED <<work, stage, stageRm, dirs, parent, remove, cindex, store,
                   expected, conflicts, locals, faults>>

(* fclose: the id reaches the file, under whatever name it has by now.     *)
WriteCurrent(p) ==
    /\ Goes(p, "writeCurrent", "probeMillis")
    /\ current' = IF CurrentFile \in fd[p] THEN cid[p] ELSE current
    /\ parent' = [c \in Cids |->
                     IF ParentFile(c) \in fd[p] THEN cid[p] ELSE parent[c]]
    /\ fd' = [fd EXCEPT ![p] = {}]
    /\ UNCHANGED <<work, stage, stageRm, dirs, remove, cindex, store,
                   expected, conflicts, locals, faults>>

(* Mutant of ProbeMillis: the entry is renamed without a look whether it   *)
(* is there.                                                               *)
ProbeMillisBlindly(p) ==
    LET m == MillisOf[cid[p]]
    IN /\ Goes(p, "probeMillis", "appendMillis")
       /\ conflicts' = [conflicts EXCEPT ![m] = <<expected[m]>>]
       /\ expected' = [expected EXCEPT ![m] = None]
       /\ UNCHANGED <<work, stage, stageRm, current, dirs, parent, remove,
                      cindex, store, locals, fd, faults>>

(* register_millis, first part: a prefix that is already taken becomes a   *)
(* conflict.                                                               *)
ProbeMillis(p) ==
    LET m == MillisOf[cid[p]]
    IN /\ pc[p] = "probeMillis"
       /\ \/ /\ expected[m] # None
             /\ Goes(p, "probeMillis", "appendMillis")
             /\ conflicts' = [conflicts EXCEPT ![m] = <<expected[m]>>]
             /\ expected' = [expected EXCEPT ![m] = None]
          \/ /\ expected[m] = None
             /\ Goes(p, "probeMillis", "writeMillis")
             /\ UNCHANGED <<expected, conflicts>>
       /\ UNCHANGED <<work, stage, stageRm, current, dirs, parent, remove,
                      cindex, store, locals, fd, faults>>

(* Mutant of AppendMillis: the newline after the renamed entry is missing. *)
AppendMillisJoined(p) ==
    LET m == MillisOf[cid[p]]
        old == IF conflicts[m] = None THEN <<>> ELSE conflicts[m]
    IN /\ pc[p] = "appendMillis"
       /\ conflicts' = [conflicts EXCEPT ![m] = old \o <<cid[p], NL>>]
       /\ Exits(p)
       /\ UNCHANGED <<work, stage, stageRm, current, dirs, parent, remove,
                      cindex, store, expected, faults>>

(* register_millis, second part, after a rename: the old entry is ended    *)
(* with a newline and the new one follows.                                 *)
AppendMillis(p) ==
    LET m == MillisOf[cid[p]]
        old == IF conflicts[m] = None THEN <<>> ELSE conflicts[m]
    IN /\ pc[p] = "appendMillis"
       /\ conflicts' = [conflicts EXCEPT ![m] = old \o <<NL, cid[p], NL>>]
       /\ Exits(p)
       /\ UNCHANGED <<work, stage, stageRm, current, dirs, parent, remove,
                      cindex, store, expected, faults>>

(* register_millis, second part, otherwise: one more conflict, or the      *)
(* first commit with this prefix.                                          *)
WriteMillis(p) ==
    LET m == MillisOf[cid[p]]
    IN /\ pc[p] = "writeMillis"
       /\ \/ /\ conflicts[m] # None
             /\ conflicts' = [conflicts EXCEPT ![m] = @ \o <<cid[p], NL>>]
             /\ UNCHANGED expected
          \/ /\ conflicts[m] = None
             /\ expected' = [expected EXCEPT ![m] = cid[p]]
             /\ UNCHANGED conflicts
       /\ Exits(p)
       /\ UNCHANGED <<work, stage, stageRm, current, dirs, parent, remove,
                      cindex, store, faults>>

-----------------------------------------------------------------------------
(* What lookup_or_die answers to the short id m: a file with one id, a     *)
(* file with all the ids that share the prefix, or nothing.                *)
Lookup(m) == IF expected[m] # None THEN <<expected[m]>>
             ELSE IF conflicts[m] # None THEN conflicts[m]
             ELSE <<>>

-----------------------------------------------------------------------------
(* A command is killed between two system calls.                           *)
Crash(p) ==
    /\ pc[p] # "idle"
    /\ MoreFaults
    /\ kills' = kills + 1
    /\ Exits(p)
    /\ UNCHANGED <<disk, missed>>

(* What a running command does next.                                       *)
Step(p) ==
    \/ \E f \in Files : AddOpen(p, f) \/ AddFlush(p, f)
    \/ AddExit(p) \/ RmFlush(p)
    \/ TakeParent(p) \/ TakeRemove(p) \/ ReadIndex(p) \/ WriteIndex(p)
    \/ ListStage(p) \/ \E f \in Files : MoveFile(p, f)
    \/ OpenCurrent(p) \/ WriteCurrent(p)
    \/ ProbeMillis(p) \/ AppendMillis(p) \/ WriteMillis(p)

(* The user starts a command.                                              *)
Start(p) ==
    \/ \E args \in (SUBSET Files) \ {{}} : AddBegin(p, args)
    \/ \E f \in Files : Unadd(p, f)
    \/ \E gone \in (SUBSET Files) \ {{}} : RmUnlink(p, gone)
    \/ \E c \in Cids : CommitBegin(p, c)

Next ==
    \/ \E f \in Files, d \in Data \cup {None} : Edit(f, d)
    \/ \E p \in Procs : Start(p) \/ Step(p) \/ Crash(p)

Spec == Init /\ [][Next]_vars

(* The operating system keeps running a process that has not ended.  The   *)
(* user need not do anything.                                              *)
FairSpec == Spec /\ \A p \in Procs : WF_vars(Step(p))
=============================================================================
