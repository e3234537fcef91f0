------------------------------- MODULE Status -------------------------------
(***************************************************************************)
(* A working directory over time, and what status says of it.              *)
(*                                                                         *)
(* status compares a working file with a copy only if the times of the two *)
(* ask for it: the time of the file, of the staged copy, and the time that *)
(* is written in a commit's id.  The user edits, stages, commits, removes  *)
(* and checks out files; status may be called in every state.  A command   *)
(* other than checkout is one step here (see RepoVcs), and one that goes   *)
(* well: kills and the moves that fail are in Repo.                        *)
(***************************************************************************)
EXTENDS Cindex, Integers

CONSTANTS DirFiles,    \* files in a directory: their path has a '/'
          Ignored,     \* files that a line of .cams/ignore is a prefix of
          Data,        \* contents
          Twins,       \* sets of contents that ct_fcompare takes for equal
          Blank,       \* the content of a file that is opened for writing
          PerSecond,   \* how many ticks of the clock make a second
          MaxTime      \* bound: the last tick

ASSUME DirFilesAssumption == DirFiles \subseteq Files
ASSUME TimeAssumption == PerSecond \in Nat \ {0} /\ MaxTime \in Nat
ASSUME TwinsAssumption == Twins \subseteq SUBSET Data
ASSUME BlankAssumption == Blank \notin Data
ASSUME NoneIsNoFile == None \notin Files

VARIABLES
    now,       \* the clock
    work,      \* the working files, each with its content and time
    stage,     \* .cams/stage/files, the same
    stageRm,   \* the paths of .cams/stage/remove
    tip,       \* .cams/current
    cindex,    \* cindex[c]: the index of c, None before c is made
    store,     \* store[c][f]: .cams/files/<c>.<f>, with the time in the id c
    co,        \* the commit that a checkout restores, None when none runs
    left,      \* the lines of its index that the checkout has still to do
    dest,      \* the file that the checkout has open
    hasty      \* history: the copies of f that its last change is hidden from

repo == <<stage, stageRm, tip, cindex, store>>
checkout == <<co, left, dest>>
vars == <<now, work, repo, checkout, hasty>>

Copies == [data : Data \cup {Blank}, time : 0..MaxTime]

ASSUME NoneIsNoCopy == None \notin Copies \cup Data \cup {Blank}

TypeOK ==
    /\ now \in 0..MaxTime
    /\ work \in [Files -> Copies \cup {None}]
    /\ stage \in [Files -> Copies \cup {None}]
    /\ stageRm \subseteq Files
    /\ tip \in Cids \cup {None}
    /\ cindex \in [Cids -> Index \cup {None}]
    /\ store \in [Cids -> [Files -> Copies \cup {None}]]
    /\ co \in Cids \cup {None}
    /\ left \subseteq Files
    /\ dest \in Files \cup {None}
    /\ hasty \in [Files -> SUBSET {"staged", "committed"}]

Init ==
    /\ now = 0
    /\ work \in [Files -> {[data |-> d, time |-> 0] : d \in Data}]
    /\ stage = [f \in Files |-> None]
    /\ stageRm = {}
    /\ tip = None
    /\ cindex = [c \in Cids |-> None]
    /\ store = [c \in Cids |-> [f \in Files |-> None]]
    /\ co = None
    /\ left = {}
    /\ dest = None
    /\ hasty = [f \in Files |-> {}]

-----------------------------------------------------------------------------
(* What status computes.                                                   *)

Sec(t) == t \div PerSecond

(* ts_delta.  Within a second the sign is that of the order reversed.      *)
Delta(a, b) == IF Sec(a) # Sec(b) THEN Sec(b) - Sec(a)
               ELSE IF b < a THEN 1 ELSE -1

(* cindex_to_tree of current.                                              *)
Indexed == IF tip = None THEN {} ELSE Entries(cindex[tip])

Committed(f) == store[cindex[tip][f]][f]

(* is_modified looks for the staged copy under the path itself.            *)
Reference(f) == IF stage[f] # None /\ f \notin DirFiles THEN stage[f]
                                                        ELSE Committed(f)

(* Mutant of IsModified: the times alone decide.                           *)
IsModifiedByTime(f) == Delta(Reference(f).time, work[f].time) > 0

(* ct_fcompare of two files, None being no file: files of one size are     *)
(* also taken for equal when they differ only behind a NUL byte, in each   *)
(* round of the comparison (see Helpers).                                  *)
Alike(d, e) == d = e \/ \E same \in Twins : {d, e} \subseteq same

(* is_modified: the contents are only compared when the times differ.      *)
IsModified(f) == /\ Delta(Reference(f).time, work[f].time) > 0
                 /\ ~ Alike(Reference(f).data, work[f].data)

(* gen_stbuckets, with flist and slist.                                    *)
StagedFiles == {f \in Files : stage[f] # None}
RemovedFiles == {f \in Indexed : work[f] = None}
ModifiedFiles == {f \in Indexed \ RemovedFiles : IsModified(f)}
UntrackedFiles == {f \in Files \ Ignored : work[f] # None}
                  \ (StagedFiles \cup Indexed)

(* What status prints besides the staged files.                            *)
Shown == RemovedFiles \cup ModifiedFiles \cup UntrackedFiles

-----------------------------------------------------------------------------
(* The user and the other commands.                                        *)

(* What the next commit will hold of a file that is not staged for removal *)
Upcoming(f) == IF stage[f] # None THEN stage[f]
               ELSE IF f \in Indexed THEN Committed(f) ELSE None

Content(copy) == IF copy = None THEN None ELSE copy.data

SameSecond(copy) == copy # None /\ Sec(copy.time) = Sec(now)

(* f gets the content d.  The change is hasty when it falls into the same  *)
(* second as the last add or commit of f.                                  *)
Put(f, d) ==
    /\ work' = [work EXCEPT ![f] = [data |-> d, time |-> now]]
    /\ hasty' = [hasty EXCEPT ![f] =
           {k \in {"staged", "committed"} :
                \/ k = "staged" /\ SameSecond(stage[f])
                \/ k = "committed" /\ f \in Indexed /\ SameSecond(Committed(f))}]

Tick ==
    /\ now < MaxTime
    /\ now' = now + 1
    /\ UNCHANGED <<work, repo, checkout, hasty>>

(* The user waits for a checkout before editing.                           *)
Edit(f, d) ==
    /\ co = None
    /\ Put(f, d)
    /\ UNCHANGED <<now, repo, checkout>>

Delete(f) ==
    /\ co = None
    /\ work' = [work EXCEPT ![f] = None]
    /\ UNCHANGED <<now, repo, checkout, hasty>>

(* The staged copy is opened before it is looked whether there is a file:  *)
(* without one it is left empty.                                           *)
Add(f) ==
    /\ stage' = [stage EXCEPT ![f] =
           [data |-> IF work[f] = None THEN Blank ELSE work[f].data,
            time |-> now]]
    /\ hasty' = [hasty EXCEPT ![f] = @ \ {"staged"}]
    /\ UNCHANGED <<now, work, stageRm, tip, cindex, store, checkout>>

Unadd(f) ==
    /\ stage' = [stage EXCEPT ![f] = None]
    /\ UNCHANGED <<now, work, stageRm, tip, cindex, store, checkout, hasty>>

Rm(f) ==
    /\ co = None
    /\ work' = [work EXCEPT ![f] = None]
    /\ stageRm' = stageRm \cup {f}
    /\ UNCHANGED <<now, stage, tip, cindex, store, checkout, hasty>>

(* A commit.  The change of a file since it was staged becomes a change    *)
(* that is older than the commit.                                          *)
Commit(c) ==
    LET base == IF tip = None THEN EmptyIndex ELSE cindex[tip]
    IN /\ cindex[c] = None
       /\ cindex' = [cindex EXCEPT ![c] =
                        Drop(Stamp(base, StagedFiles, c), stageRm)]
       /\ store' = [store EXCEPT ![c] =
                       [f \in Files |-> IF stage[f] = None THEN None
                                        ELSE [stage[f] EXCEPT !.time = now]]]
       /\ tip' = c
       /\ stage' = [f \in Files |-> None]
       /\ stageRm' = {}
       /\ hasty' = [f \in Files |->
                       IF stage[f] = None THEN hasty[f]
                       ELSE IF \/ work[f] = None
                               \/ Alike(stage[f].data, work[f].data)
                       THEN {} ELSE {"committed"}]
       /\ UNCHANGED <<now, work, checkout>>

-----------------------------------------------------------------------------
(* checkout.py: a file of the index after the other, each truncated first. *)

CheckoutStart ==
    /\ co = None
    /\ tip # None
    /\ co' = tip
    /\ left' = Indexed
    /\ UNCHANGED <<now, work, repo, dest, hasty>>

CheckoutOpen(f) ==
    /\ dest = None
    /\ f \in left
    /\ dest' = f
    /\ left' = left \ {f}
    /\ Put(f, Blank)
    /\ UNCHANGED <<now, repo, co>>

(* Mutant of CheckoutWrite: the name of the copy is written.               *)
CheckoutWriteName ==
    /\ dest # None
    /\ Put(dest, cindex[co][dest])
    /\ dest' = None
    /\ UNCHANGED <<now, repo, co, left>>

(* Mutant of CheckoutWrite: the copy is the one of the commit that is      *)
(* current by now.                                                         *)
CheckoutWriteTip ==
    /\ dest # None
    /\ cindex[tip][dest] # None
    /\ Put(dest, store[cindex[tip][dest]][dest].data)
    /\ dest' = None
    /\ UNCHANGED <<now, repo, co, left>>

CheckoutWrite ==
    /\ dest # None
    /\ Put(dest, store[cindex[co][dest]][dest].data)
    /\ dest' = None
    /\ UNCHANGED <<now, repo, co, left>>

CheckoutEnd ==
    /\ co # None
    /\ left = {}
    /\ dest = None
    /\ co' = None
    /\ UNCHANGED <<now, work, repo, left, dest, hasty>>

CheckoutDies ==
    /\ co # None
    /\ co' = None
    /\ left' = {}
    /\ dest' = None
    /\ UNCHANGED <<now, work, repo, hasty>>

Next ==
    \/ Tick
    \/ \E f \in Files : \/ \E d \in Data \cup {Blank} : Edit(f, d)
                        \/ Delete(f) \/ Add(f) \/ Unadd(f) \/ Rm(f)
    \/ \E c \in Cids : Commit(c)
    \/ CheckoutStart \/ (\E f \in Files : CheckoutOpen(f)) \/ CheckoutWrite
    \/ CheckoutEnd \/ CheckoutDies

Spec == Init /\ [][Next]_vars

-----------------------------------------------------------------------------
(* What status owes its user.                                              *)

(* status shows a file as modified, removed or untracked exactly when it   *)
(* is not what the next commit would hold, although contents are compared  *)
(* only when the times say so: whatever was staged, inherited from an older*)
(* commit, restored by a checkout or left half written by one.  Three kinds*)
(* of change are hidden: one in the second of the last add or commit of    *)
(* the file, one between its add and its commit, and one that leaves the   *)
(* size as it is and lies behind a NUL byte.  A staged file that the tip   *)
(* does not have is not compared, one in a directory is compared with the  *)
(* wrong copy, and status does not read the staged removals.               *)
StatusExact ==
    \A f \in Files \ (stageRm \cup (Ignored \ Indexed)) :
        \/ (IF stage[f] # None THEN "staged" ELSE "committed") \in hasty[f]
        \/ f \in StagedFiles /\ (f \in DirFiles \/ f \notin Indexed)
        \/ (f \in Shown <=> ~ Alike(Content(Upcoming(f)), Content(work[f])))

(* A checkout that ends has restored every file of the commit it began     *)
(* with, also when another commit was made meanwhile, and if none was then *)
(* status shows no change but of staged files.                             *)
CheckoutRestores ==
    [][ CheckoutEnd =>
            /\ \A f \in Entries(cindex[co]) :
                   /\ work[f] # None
                   /\ work[f].data = store[cindex[co][f]][f].data
            /\ co = tip => RemovedFiles \cup ModifiedFiles \subseteq StagedFiles
      ]_vars

(* admin/tasks.txt: "status of checked in files since commit by tv_nsec of *)
(* stat".  A file of the tip that was changed after the commit that holds  *)
(* its copy, and that is not staged, is shown.                             *)
ChangesSinceCommitShown ==
    \A f \in Indexed \ (RemovedFiles \cup StagedFiles) :
        /\ work[f].time > Committed(f).time
        /\ work[f].data # Committed(f).data
        => f \in ModifiedFiles
=============================================================================
