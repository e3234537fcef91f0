# A formal model of cams

cams is a small version control system in C. A repository is a directory
`.cams` of plain files; a command is a process that makes a few system calls on
them and ends. There is no lock, no journal and no daemon: what makes the
system hard is that two commands may run side by side, that a command may be
killed between any two calls, and that most failures are only printed.

This directory holds TLA+ modules of that system, the TLC configurations that
check them on small instances, and TLAPS proofs. Paths below are relative to
the repository; `commit.all.c` is `all.originals/commit.all.c`.

## 1. Inventory

The repository holds two generations of code: `comp/` is the current one
(included by `cams.h`), `all.originals/` the one it is being moved from. Where
a function exists in `comp/` that version is the reference; `commit`, `rm`,
`unadd`, `register_millis` and `lookup_or_die` only exist in `commit.all.c`.
The libraries `crowtree`, `crray`, `crowarg`, `crowutils` are not in the
repository; they are modelled from how they are used.

| component | state it keeps | operations | what must be right |
|---|---|---|---|
| Store and commands (`commit.all.c`, `comp/commit.c`, `comp/ent.c`, `comp/utils.c`) | `stage/files`, `stage/remove`, `current`, per commit `parent`, `remove`, `cindex`, `message`, and `files/<cid>.<name>` | add, unadd, rm, commit | a commit is all or nothing; what was committed never changes; every line of an index has its copy; history is a chain that never breaks |
| Short ids (`register_millis`, `lookup_or_die`) | `millis/<nsec>`, `millis/<nsec>.conflicts` | register, look up | a prefix leads to its only commit, or to all that share it |
| list (`comp/list.c:57-103`) | none | walk of parents | what it walks holds every commit; ends |
| status (`comp/list.c`, `comp/slist.c`) | none; reads times of files | four buckets | a file is shown exactly when it is not what the next commit would hold |
| push (`comp/sync.c`) | the packet; the remote's packet, `current`, commits and files | query, walk, pack, copy, unpack, publish | the remote's current names a commit that is there with all it was made on, and only moves forward, along the chain of parents unless that was broken |
| remote names (`remote_by_name`, `parse_remote`) | none | choose a line, parse it | the parts of a well-formed URI |
| child processes and line buffer (`ct_subp`, `ct_strbuff`, `subp_emitter`) | pipe, buffer | write, read, push, shift, emit | every line once, in order, whole, as long as no read moves the buffer; done last; it returns |
| helpers (`ct_fcompare`, `feq`, `ct_split`, `ent_from_line`, `parse_cid`, `san_fname`) | none; `san_fname` changes its argument | pure | agree with their definition; a path (without '+') is found again under its name |
| checkout (`scripts/checkout.py`) | working files | truncate and write each file of current | the working files are the commit's |
| dispatch (`cams.c`) | none | name to handler | - |
| diff (`comp/diff.c`), migration scripts, `all.originals/{list,utils}.all.c` | - | - | not modelled: not built, one-off, superseded |

How the parts meet: add writes the stage that commit reads; rm writes the
removal list that commit takes; commit writes the index and the store that
list, status, push and checkout read; everything goes through files, never
through memory, so the interface of two components is always a file that one
of them may be half way through writing.

The hard behaviours, each with its line, are the `hazards` of `PROJECT.json`.

## 2. Modules

| module | models |
|---|---|
| `Cindex` | an index as a function from files to the commit that owns the copy; what generate_cindex makes of it |
| `Repo` | the repository on disk and the processes that work on it |
| `RepoProps` | the properties of `Repo` |
| `Vcs` | the promise: a version control system whose commit is one step |
| `RepoVcs` | the refinement mapping from `Repo` to `Vcs` |
| `RepoProofs` | theorems about `Repo`: types, no commit dangles, snapshots are frozen |
| `RepoSoloProofs` | theorems: indexes match the store, and one process at a time implements `Vcs` |
| `RepoHistoryProofs` | theorems: parents, short ids, and that commands end and commits are published |
| `Push`, `PushProofs` | a local repository, one remote, any number of pushes; theorems |
| `Status`, `StatusProofs` | a working directory over time, what status says of it, and checkout; theorems |
| `Emitter`, `EmitterProofs` | a command, its pipe, and the line buffer that reads it; theorems |
| `Helpers` | the algorithms on strings and file contents |
| `SanName` | `san_fname` |
| `HelpersProofs` | theorems about `SanName` and all of `Helpers` |
| `SequenceLemmas` | induction over numbers, and what folds and concatenations of sequences are |
| `MCRepo`, `MCPush`, `MCStatus`, `MCBytes` | constants and symmetry for TLC; `MCBytes` composes `Emitter` and `SanName`, which extends `Helpers`, into one run |

### Repo and the code

Each file that a command reads back is a variable. `stage`, `store`, `cindex`,
`parent`, `remove`, `expected` and `conflicts` are functions whose value `None`
is "there is no such file". Each process has a program counter `pc` and the
memory that outlives a step (`cid`, `tree`, `todo`, `buf`, `fd`).

The grain is one system call that another process can see:

| action | code |
|---|---|
| `AddBegin`, `AddOpen` | `add`, `ct_fcopy` of its files: the staged file is opened, and truncated, before the source is looked at, and stays open; without a source the process ends there |
| `AddFlush`, `AddExit` | the exit of `add`, at which the copies reach their files, all of them after the last one was opened |
| `Unadd` | `unadd`: unlink of the staged file |
| `RmUnlink`, `RmFlush` | `rm`: names go to a buffer that is never closed, so they reach the file at exit |
| `CommitBegin` | `gen_cid`, mkdir, message |
| `TakeParent`, `TakeRemove` | the two renames |
| `ReadIndex`, `WriteIndex` | `generate_cindex`: loading the parent's index and listing the stage; reading the removal list and writing the index |
| `ListStage`, `MoveFile` | the loop of `mv`, over a second listing of the stage; a `mv` that fails, because the file is gone or for a reason of its own, is printed and the loop goes on |
| `OpenCurrent`, `WriteCurrent` | fopen, which leaves an empty file, and fclose, which fills it |
| `ProbeMillis`, `AppendMillis`, `WriteMillis` | `register_millis` |
| `Crash` | the process is killed: memory and buffers are lost, the disk stays |
| `Edit` | the user changes or deletes a working file |

Two details of POSIX matter and are kept. An open file keeps its identity when
it is renamed: `fd[p]` holds the names of the files that p has open, which
`Renamed` and `Unlinked` change when another process renames or unlinks one. A
file that is opened for writing is empty (`Blank`) until its writer flushes.

What is abstracted: contents are members of `Data`; names are model values,
those with a ':' in `ColonFiles`; a commit id is a model value and `MillisOf`
its nanosecond prefix, `CommitBegin` takes an id that was not used before (the
nanosecond clock); `mv` moves the listed files in any order (the code's order is
alphabetical); `unadd` with several arguments is several commands in a row, each
of which unlinks one file. `add` opens its files one after the other and keeps
them open, `rm` buffers its names: both take a set of files and write at their
exit. No argument is named twice. `missed` is a history variable: which file of
which commit had a `mv` that failed. Other calls do not fail. A parent file that is found
empty (`Blank`) reads as no parent or as a commit without an index, since
`ct_fread` is a library's. Left out: the contents of `message`; `rmindex`, which
nothing reads; `stage/cindex`, which nothing creates; names that start with a
dot, which `flist` skips; names with '+' or byte 26, on which `san_fname` is not
one to one; names of 1022 bytes or more.

### Vcs and the refinement

`Vcs` has the staged files, the removal set, the tip, and for each commit its
parent and its files. `Commit` is one step. Two things may go wrong. `Refuse`:
a staged file cannot be put away for a commit, which then lacks the file (and has
no older copy of it either), while the file stays staged: the whole cost of a
`mv` that fails. `Interrupt` is the whole cost of a killed command: staged files,
the removal list and the place in the history may be lost, a commit never.

`RepoVcs` maps a repository to it. The commit takes effect in `WriteCurrent`.
Until then a file that was already moved to the store still counts as staged,
the removal list that was taken still counts as pending, and the parent that was
taken from `current` is still the tip. A commit is visible when some file names
it (`Named`).

### Push and the code

A push `p` has a program counter and the locals of `push` that outlive a step:
`cid`, `rlatest`, `walk` (where `find_range` has got to) and `items` (the packet
being gathered). Both the local packet file and the remote one have one name for
all pushes, and are one variable each.

| action | code (`comp/sync.c`) |
|---|---|
| `Query` | `latest_remote`; a failed `cat` leaves the buffer unset, which reads as NULL or as an id that no commit has |
| `ReadCurrent` | `get_current` and the comparison; "is up to date" ends the push |
| `Walk` | a round of `find_range` with the files that `gather_files_for_push` adds for it |
| `Tar`, `Scp`, `Unpack`, `Publish` | one external command each |
| `ScpFails`, `UnpackFails`, `PublishFails`, `Stop` | its failure: scp ends the push, the other two are printed and the push goes on; `Stop` is a kill or an early exit at any step |
| `Report` | the last line, after which the commit counts as `told` |
| `Commit` | a commit of the local repository, in one step (justified by `ImplementsVcs`) |
| `LoseTip` | a commit that ends half way, killed or by the exit of `ent_from_line`, and leaves no `current`: `Vcs!Interrupt` as a push sees it. The next commit has no parent |

The current that `tar` reads is not locked either: `Commit` may happen between
any two steps. `torn`, `crossed`, `last` and `follows` are history variables that
no action of the code reads: `follows` is the order in which commits were made,
which is that of the parents until a commit loses `current` (`LostAt`).

### Status and the code

Time is a number of ticks, `PerSecond` of them to a second: a file time is
`(tv_sec, tv_nsec)`, and `Delta` is `ts_delta` to the letter, with its reversed
sign within a second. The user's actions take no time unless `Tick` happens, so
that several fall on one tick too. A staged copy has the time of its `add`, a
stored one that of the commit id (which `Helpers!ParseCid` reads back).
Modification and change time of a working file are one (`touch`, `chmod` and
renames are not among the user's actions). Contents are model values; `Twins`
says which of them `ct_fcompare` takes for equal, since they have one size and
differ only behind a NUL byte in each round. A command is one step that goes
well: kills and moves that fail are in `Repo`. `hasty` is a history variable: which
comparisons a change of a file falls into the blind second of.

Status is not an action: it changes nothing, so what it prints (`Shown`,
`StagedFiles`) is a function of the state, asked in every state, in the middle of
a checkout too. Checkout is `CheckoutStart`, a `CheckoutOpen` (open with `w+`
truncates) and a `CheckoutWrite` per line of the index, and `CheckoutEnd`;
`CheckoutDies` at any time leaves a truncated file behind. The user does not edit
while a checkout runs, but stages and commits.

### Emitter, Helpers, SanName and the code

`Emitter` has the child's actions (write any number of bytes that the pipe has
room for, close its output, exit, die) and the parent's: `Start`, `Wait`
(`ct_subp`), `Poll` (`ct_subpwait`), `Read`, `ReadNothing`, `ReadEnd`, `Scan`,
`ScanStale`, `Finish` (`subp_emitter`). `Read` takes up to `Chunk` bytes and
grows the buffer by doubling (`Doubled`); when it grows `realloc` may move the block, and
`ptr` is then stale (0). `ScanStale` lets the freed block read as the end of the
string or as a line end anywhere: the shift then cuts off too much, or nothing, and
`emit` gets what `line` points to, an earlier line or a pointer that was never set
(`LastLine`); or the process crashes. `emit` gets a text without its length; what
it makes of a NUL byte in it is the caller's. What is not modelled is the NUL that is written
one past `buff` when a read fills it.

`Helpers` has the loops over characters as folds (`Pieces`, `ParseRemote`,
`ParseCid`) and the loops over files as rounds (`SameFile`, `Feq`, with what the
buffers held before). `SanName` has the set of names that `san_fname` may return,
since it leaves a byte of the result unset where the path has a '+', and what the
call makes of its argument (`Mangled`), which the command goes on with.

## 3. Runs

| run | instance | shows |
|---|---|---|
| `solo` | 1 process, all commands, 1 file, 2 contents, 3 commits, 1 fault | `TypeOK`; `IndexMatchesStore`, although index and moves come from two listings; `SnapshotsFrozen`; `ImplementsVcs` |
| `two_files` | 1 process, add and commit, 2 files, 2 commits, 2 faults | `NoDangling` and `ImplementsVcs` when a commit stops between two moves, or goes on after one that failed |
| `history` | 1 process, all commands, 1 file, 3 commits, 2 prefixes, no fault | `HistoryKept`, `ShortIdsResolve` |
| `shared` | 1 process commits and unstages, another adds and removes, 1 file, 2 commits, 1 fault | `NoDangling` under interleaving; `CommitPublishes` |
| `rivals` | 2 committers, one of which adds, 1 file, 3 commits | `Acyclic` |
| `rm_then_add` | as `solo`, 2 commits, no kill | a violation of `CommittedFilesIndexed` |
| `colon` | add and commit, one file with a ':' in its name | a violation of `HistoryKept` |
| `push` | 2 pushes, 1 file, 2 commits, 1 fault, a commit that loses the tip among them | `RemoteWhole`, `RemoteAdvances`, `PushArrives` |
| `push_unpack` | 1 push, 2 commits, 1 fault | a violation of `TruthfulPush` |
| `status` | 1 file, 2 commits, 3 contents of which 2 are twins and the empty one, 3 seconds of 2 ticks | `StatusExact`, `CheckoutRestores` |
| `status_second` | 1 file, 1 commit, 2 contents and the empty one, 2 seconds of 2 ticks | a violation of `ChangesSinceCommitShown` |
| `bytes` | outputs of up to 5 bytes over 3, a pipe of 3, reads of 2, a buffer that starts at 2; strings of up to 4 characters over 6, files of up to 4 bytes over 2 | `NothingLost`, `LinesWhole`, `OnlyWaitBlocks`, `DoneLast`, `EmitterEnds`; `ComparesExactly`, `SplitsExactly`, `CidRead`, `RemoteRead`, `ArgKept` |

Bounds, and why they are enough. Three commits are a commit, its child and its
grandchild: an index line can name an owner that is not the parent. In `history`
two commits share a prefix and one has its own; what a third entry does to a
conflicts file is left to the theorem `ShortIdsStayResolved`. Two files are one that was moved and one
that was not. Two contents tell a copy that was replaced from one that was not;
where no property looks at content, one does. One fault, a kill or a `mv` that
fails, reaches every step, and a second (`two_files`) a recovery that is killed
too, or a commit with both. `MaxFaults` bounds kills and failing moves together;
the number of commits is bounded by `Cids`; `conflicts` grows by at most three
tokens per commit. Files, contents and (except in `history`, where they have
different prefixes, and in `shared`, which checks liveness) commits are
interchangeable, so the runs use symmetry.

`push`: two pushes of one commit, of a commit and its child, and of two commits
at once; a fault at each call, after which the same push or the other one tries
again; and a second commit that was not made on the first, once current was lost.
`status`: the second commit inherits the copy of the first or replaces it; two
ticks to a second are "earlier in the same second" and "later in it", three
seconds let a change, an add and a commit fall into one each; the twins are a
change behind a NUL byte, the third content one that shows. Instances with two files were too large; the files of the
model share nothing but the clock, the tip and the checkout, and a file in a
directory and an ignored one (`DirFiles`, `Ignored`) have operators and no run.
`bytes`: five bytes are two whole lines and a rest, three reads, two growths, and
two bytes more than the pipe holds; four characters fill the two-byte compare
buffer twice. There the real sizes (4096, 1024, 64) are replaced by constants.
`MaxFaults`, `MaxTime`, `MaxText` and `MaxString` are the bounds.

What is excepted, in the new modules. `RemoteWhole` and `RemoteAdvances` except
pushes of different commits that overlap (they overwrite each other's packet and
current), and `RemoteWhole` a push that went on after a failed unpack.
`StatusExact` excepts the changes that the blind second hides, a change between
the add and the commit of a file (older than the commit, newer than the copy), a
staged file that the tip does not have (not compared), one in a directory
(compared with the wrong copy), and staged removals (not read). `LinesWhole`
excepts a scan that stopped at a NUL byte or in a freed block, `NothingLost` one
that found a line end in a freed block, `OnlyWaitBlocks` a parent that waits before it
reads an output longer than the pipe. `ComparesExactly` is about files without
NUL bytes, `CidRead` about user names without a '.', `RemoteRead` about remotes
no name of which begins another and about paths from the root or a home.

What a `mv` that fails does is not hidden by this: commit publishes an index line
without its copy (`commit.all.c:391`). `NoDangling` and `IndexMatchesStore` except
the lines in `missed`, and no others, and `Vcs` has it as `Refuse`; the runs check
that it costs no other file and no other commit, that the file stays staged, and
that an older copy of it is not touched.

What is not true and is therefore not claimed: with two committers,
`NoDangling` and `HistoryKept` fail (one truncates the current that the other
has just written); with `unadd` beside a commit, `NoDangling` fails; with `add`
beside a commit, `IndexMatchesStore` fails (a file added between the two
listings is moved but not indexed) and `SnapshotsFrozen` fails (add finishes
writing into the store); with kills, `HistoryKept` and `ShortIdsResolve` fail.
No document of the repository promises any of these, so they are hazards and
not findings.

### Findings

* `rm x; add x; commit` loses x (`rm_then_add`): the removal list is taken out
  of the index after the staged files were put in, although the comment on
  `generate_cindex` builds the index from the commit's files first.
* A path with a ':' is written to an index that cannot be read back (`colon`).
  The next commit exits half way, after it has taken `current`, so `list` has
  nothing to show, where `test/test.py` expects both commits.
* push reports commits that the remote does not have (`push_unpack`): after a
  failed unpack it writes the remote current and says "pushed".
* A change in the second of the commit is not shown (`status_second`): the sign
  of `ts_delta` is reversed within a second, where `admin/tasks.txt` has "status of
  checked in files since commit by tv_nsec of stat" as done.

### Fairness

`Repo!FairSpec` adds weak fairness on each process' `Step`: the operating system
keeps running a process that has not ended, and none of its calls blocks. The
user's actions (`Edit`, and starting commands) and kills are not fair: nobody
has to type anything. `CommitPublishes` says that a commit that has begun
becomes current unless something was killed; it holds because the loop of moves
works off a list that is fixed when it starts.

`Push!FairSpec` is weakly fair to each push's `Step`: ssh, scp and tar end, one
way or the other, and a push is not stopped for ever. Starting a push, commits and
faults are not fair. `PushArrives` holds because the walk follows parents, of
which there are finitely many, and gives up at the first commit, also when current
was lost and the remote names a commit that the walk never meets: of all faults
this one (`LostAt`) is no excuse for a push.

`Emitter!Spec`, and `MCSpec` of `MCBytes` with it, is weakly fair to the parent
and to the child as wholes: the system runs both, and a child that can write or exit does one of them. The child
closing its output early, or being killed, is not fair. `EmitterEnds` needs no
more; it is claimed for asynchronous children and for output that fits the pipe,
and a crash in a scan of freed memory counts as an end.

## 4. Proofs

`RepoProofs` proves, for any sets of processes, files, commits, contents and any
roles, with any number of kills and of moves that fail:

* `TypeCorrect`: `Spec => []TypeOK`. `TypeOK` is not inductive: a step of a
  commit uses `cid[p]` as an index, so `CommitHasId` is added.
* `NothingDangles`: `Spec => []NoDangling` under `OneCommitter` (one process has
  the commit command) and `NoRivalUnadd` (no other process has unadd). Any
  number of processes may add and remove meanwhile.
* `SnapshotsStayFrozen`: `Spec => SnapshotsFrozen` under `OneCommitter` and
  `NoRivalAdd` (no other process has add); others may remove and unstage.

### Commits do not dangle

The argument of `NothingDangles`. The invariant `KeepInv` says of a commit that
has composed an index that every line of it is `Backed`: its copy is in the
store, or it is the commit's own and still on the list of files to move and
staged, or its `mv` has failed. The store only grows and only the committer takes files from the
stage, so a line once backed stays backed (`BackedGrows`); when the list is
empty every copy is in the store, and only then is the commit named
(`NotYetNamed`). Both restrictions are needed: a rival `unadd` or a rival commit
takes a staged file away. `QuietStep` covers the actions that compose nothing,
`CommitterStep` the others. TLC checked `KeepInv` as an invariant of the
instances of `solo`, `two_files` and `shared` before it was proved.

### Snapshots, indexes and the refinement

`RepoSoloProofs` proves, for any sets of files, commits and contents and any
number of kills and of moves that fail:

* `IndexesMatch`: `Spec => []IndexMatchesStore` under `OneProcess`.
* `RepoImplementsVcs`: `Spec => ImplementsVcs` under `OneProcess`.

The argument of `SnapshotsStayFrozen`. A copy of a named commit could change in
two ways: the owner's `mv` goes on, or a process that had a staged file open
still writes to it after the move. `FrozenInv` rules out the first by
`NotYetNamed` and by `TreeOwned`, `IndexOwned`, `NamedOwned` (a line of an index
leads to the commit itself or to a commit that has been named, never to another
one under way), the second by `AddersKept` (only an adder has such a file open,
and that is the committer, which is not adding while it moves). `CurrentTaken`
and `FreshParent` say that a commit under way has taken the current, so that
nobody else can become its child.

The argument of `IndexesMatch`. `Progress` says at each step of a commit what its
two listings of the stage must agree on: while files are moved, its index is what
`Stamp` and `Drop` make of the parent's index, of what is still to be moved and of
what was moved already or failed to. With `OneProcess` nothing else touches the
stage, so the equation is kept, and when the list is empty it is `IndexMatchesStore`. `Unused`
says that a commit id that was not given out owns nothing on disk, which is what
a killed commit must not leave behind for the next.

The argument of `RepoImplementsVcs`. The invariant is `SoloInv`. At rest the
mapping shows what is on disk (`AtRest`), under way it puts back what the commit
has taken (`Underway`); every step is then a stutter, but `AddOpen` and `AddFlush`
(`Vcs!Stage`), `Unadd` (`Unstage`), `RmFlush` (`Remove`), a `MoveFile` that fails
(`Refuse`), `WriteCurrent` (`Commit`) and the end of a command under way (`Interrupt`). The attempt showed that `Vcs!Remove` was
wrong: it removed one file where `rm` flushes the names of several at once, and no
run has `rm` with two files. It takes a set now.

The restrictions are as weak as the code allows: with one rival process that only
adds, only unstages, only removes or only commits, TLC finds a counterexample to
`IndexMatchesStore` and to `ImplementsVcs` with one file and two commits; with one
that adds or commits, to `SnapshotsFrozen`.

### History and short ids

`RepoHistoryProofs` proves, for any sets of files, commits and prefixes:

* `HistoryIsAcyclic`: `Spec => []Acyclic`, with no restriction at all: any number
  of committers that race for the same `current`, and any number of kills.
* `HistoryStaysWhole`: `Spec /\ []NoKills => []HistoryKept` under `OneCommitter`
  and `NoColons`. The others may add, unstage and remove, and any `mv` may fail:
  `NoKills` is a condition on the behaviour and not on the bound `MaxFaults`.
* `ShortIdsStayResolved`: `Spec /\ []NoKills => []ShortIdsResolve` under
  `OneCommitter`.
* `CommandsRunOut`: `Spec => [][RunsOut]_vars`, for finitely many files.
* `CommitsArePublished`: `Spec /\ []NoKills => [][Publishes]_vars` under
  `OneCommitter` and `NoColons`.

`Ancestors(c)` is the least set with `c` that is closed under `parent`
(`AncestorsLeast`, `AncestorsStep`), which is what the walk of list collects as
long as no index is missing and the terminal has room; it is written without recursion so that it can be reasoned about.

The argument of `HistoryIsAcyclic`. A commit gets its parent in a rename of
`current`, and a rename moves an open file: a rival that still has `current` open
will write its id into the other's parent file. `Links(c)` is therefore the parent
of `c` together with the commits that are yet to be written there. `ChainInv` says
that for every commit there is a closed set of links that holds its own and not
the commit. A step adds links only to a commit that nothing leads to (`Unlinked`):
a process opens `current` after it has taken its parent, and an id that was not
given out is in no file.

The argument of `HistoryStaysWhole`. While a commit runs there is no `current`;
`HistInv` says that the commit then holds the history: `Origin(p)`, its parent
until its index is written and itself afterwards, has all indexed commits as
ancestors. A kill in between, an index that cannot be read (`colon`) and a second
committer each break exactly this, and section 3 says so.

The argument of `ShortIdsStayResolved`. `MillisInv` says of each prefix that the
commits that are through `register_millis` are `Filed` (none, one in `expected`, or
several in `conflicts`, a newline after each), or else that a commit is at
`appendMillis` and the only entry was renamed and lacks its newline. A kill at that
step is the listed hazard.

The last two are the halves of `CommitPublishes` that do not need fairness.
`RunsOut` says that the rank `Remaining(p)` of a running command falls with each of
its steps and that nobody else changes it: while files are added or moved it counts `todo`,
which is fixed when `mv` lists the stage, so that a rival `add` does not keep a
commit busy. `Publishes` says that a commit leaves its steps only when a file names
it: `PublishInv` adds to `HistInv` that a commit that registers its short id is
named, and `ReadIndexLoads` that a commit never exits on its parent's index. What
is left to TLC is that a command with a rank above zero takes its next step.

### Push

`PushProofs` proves, for any sets of pushes, files and commits and any number of
faults of any kind:

* `TypeCorrect`: `Spec => []TypeOK`.
* `RemoteStaysWhole`: `Spec => []RemoteWhole`.
* `RemoteOnlyAdvances`: `Spec => RemoteAdvances`: the remote does not move back in
  the order in which commits were made, and moves along the parents as long as
  that chain was not broken.
* `PushesRunOut`: `Spec => [][RunsOut]_vars`.

The argument of `RemoteStaysWhole`. `PushInvariant` has a local half, `LocalInv`
(parents of made commits are made, an index names only made commits that the
commit was made on, the tip is made), and a remote half. The remote's current is
`Has`: there is a closed set of commits that it has in full. A push `Brings` what
is missing: its `items`, from its commit down to where the walk is, together with
what the remote has below `rlatest`, make such a set (`Gathers` while it walks).
When the push has packed, the packet brings it; when it has copied, the remote
packet does (unless another push has unpacked and removed it: then this one fails
to unpack, which is `torn`); when it has unpacked, the remote has the commit.
`SameCommit` says that pushes that overlap push one commit, unless `crossed`:
this is why a packet that another push has overwritten still brings what this one
needs. Nothing is ever taken from `far`, so what the remote has it keeps, whatever
dies. `RemoteOnlyAdvances` rests on a second invariant, `AdvanceInv`: the remote's
current is `Behind` the commit of a push that has read the tip, and that one behind
the last commit made, in the order `follows`. A chain of parents would not do: once
a commit has lost the tip, the next one has none, and push, which does not look
whether the remote's commit is an ancestor, moves the remote to it. `OrderInv`
says that a commit's parent is the commit made before it or none; `NeverLost`, that
the two orders are one as long as current was never lost. TLC checked both invariants on instances of two pushes and two
commits before they were proved.

`PushesRunOut` is the variant of `PushArrives`. The rank of a push that walks is
the number of commits that are still `Ahead` of it; `Grounded` says that no commit
was made on itself and none on infinitely many, so that a round of the walk has
fewer ahead of it, although nobody checks that the walk meets the commit that the
remote named. `CommitLines` proves that a commit made meanwhile leaves the rank
as it is. No finiteness of `Cids` is assumed.

### Status and checkout

`StatusProofs` proves, for any sets of files, commits and contents, any number of
ticks and any length of a second:

* `TypeCorrect`: `Spec => []TypeOK`.
* `StatusIsExact`: `Spec => []StatusExact`.
* `CheckoutIsWhole`: `Spec => CheckoutRestores`.

The invariant `StatusInv` relates every working file to the copy that status will
compare it with: a copy is not from the future (`Past`); what an index names was
made and is there (`Backed`, `HeadsMade`); and a file that differs from its copy
otherwise than behind a NUL byte (`Alike`), and is not `hasty`, is later than it by the sign of `ts_delta` (`StagedSeen`,
`CommittedSeen`). The reversed sign within a second is the heart of it: for a
file later than its copy `Delta` is positive only if the seconds differ
(`LaterSeen`), so an edit that is not hasty must have fallen into a later second
than the copy, and neither an add, nor a commit that inherits the copy, nor a
checkout that is half way may undo that.
`CheckoutProgress` says that every line that a checkout is done with is restored.
The store is append-only while it runs, so a commit meanwhile does no harm.

### Lines of a child process

`EmitterProofs` proves, for output of any length and any sizes of the pipe, of a
read and of the buffer:

* `TypeCorrect`: `Spec => []TypeOK`, which includes that the buffer has one of the sizes that
  doubling gives; `Room`, that no byte is held twice, bounds what it must hold.
* `BytesAreKept`: `Spec => []NothingLost`.
* `LinesAreWhole`: `Spec => []LinesWhole`.
* `DoneComesLast`: `Spec => DoneLast`. All three but for what a scan of freed
  memory has done (`stray`, `missed`).
* `OnlyWaitingBlocks`: `Spec => []OnlyWaitBlocks`: until it returns the parent or
  the child can go on, but for a parent that waits before it reads and an output
  that is longer than the pipe.
* `OnlyPollingRepeats`: `Spec => [][Nearer]_vars`: every step of either brings the
  rank `Work` down, except the parent's polling of a child that says nothing.

`EmitterInv` adds to these `Scanned`: there is no line end in the buffer before
`ptr`, and none at all between two scans; this is why a read may start the scan at
the old length. `GrownEnough` proves that the doubling of `ct_strbuff_push` ends
with a buffer that the new bytes and the NUL fit into, for every size from 1 on.
The last two theorems are the halves of `EmitterEnds` that do not need fairness.
`ENABLED` is out of the prover's reach, so `ParentReady` and `ChildReady` spell it
out (the child closing its output or dying does not count as going on); TLC confirmed on the instance of `bytes` that they are `ENABLED Parent` and
`ENABLED Child`. In `Work` a byte counts 5 before the child has written it, 4 in
the pipe and 1 in the buffer.
These proofs are inductions over numbers and lengths. The library's induction
theorems take an operator as a parameter, which no installed prover
instantiates; `SetInduction` states the principle with a set instead (it is proved
from the well-foundedness of `<` on the naturals), and each use names its set.

### Algorithms

`HelpersProofs` proves of the comparisons of files, for files of any length, any
size of the compare buffer and anything it held before:

* `SameFileDecides`: `ct_fcompare` is exact. `FeqDecides`: `feq` takes no two files
  for equal that differ, and is exact from one full buffer on. Both of files without
  a NUL byte. Both read a file in
  rounds; `PartsDecide` proves that the parts determine the file, `CStringBegins`
  that `strncmp` sees all of a part whatever the buffer holds behind it.
* `FilesCompared`: so `ComparesExactly`, which `bytes` checks, holds of every `arg`,
  within the same limits.

Of `san_fname`, for every path: a path without '+' and byte 26 has exactly one
name, which stands for it (`PlainPathsKept`); no two have the same
(`PlainPathsApart`); the call of a path with '+' changes the path and may return a
name that stands for another one (`PlusPathsLost`); so a path without byte 26 is
kept if and only if it has no '+' (`NamesKept`), which is `ArgKept`, what the run
`bytes` checks, of every `arg` (`PathsKept`). These are facts about functions on
positions, and need no induction.

And of the loops over characters, for strings of any length:

* `LinesReadBack`: `SplitsExactly`. The pieces of `ct_split`, with their colons, are
  the string; none holds a colon; and a line of an index is read back as the commit
  and the path it was written for, or ends the process if the path has a colon.
* `UriRead`: `parse_remote` takes every `[user@]host[:port]path` apart as written,
  where user and host have none of `@/~:`, the port is digits and the path, from `/` or
  `~` on, is anything. `RemotesRead`: so `RemoteRead`, with the line chosen.
* `CidIsRead`: `parse_cid` reads back every time that `gen_cid` can print (`IsTime`:
  nanoseconds below 10^9, seconds that fit 31 bits) and every name without a '.'.
  `CidsRead`: so `CidRead`.

These are folds: `FoldLeft` chooses a function on the sets of positions of the string,
and a fact about it needs that such a function exists. `FoldDefined` proves that once,
by `SetInduction`, for every step that stays in a set of states (`StepsIn`). The
value after each character is then a function of the position (`Scanned`, say), and each
state of the parser is a lemma of its own: `PortRead` up to the end of the host
and the port, the path in `UriRead`. For `CidIsRead`, a number's digits are worked
out from the front: `atoi` of the first k digits that `Padded` prints is the number
divided by the power of ten that stands in `Tens`, and `CidIsRead` puts the two
numbers, their dots and the name together. `Tens` is a table because the
SMT solver does not compute `10 ^ n`.

### Assumptions, and what stays with TLC

Assumptions on constants are named ASSUMEs of the modules; TLC evaluates them in
every run. Most say that a marker (`None`, `Blank`, `NL`) is no value of the kind
it stands for the lack of, which the code gets from its separate representation (a
file that does not exist, a NULL). The restrictions above are hypotheses of single
theorems and not assumptions of the modules: a run satisfies each of them.

`ArgAssumption` of `SanName` says that the strings of the run `bytes` are paths
without byte 26, which is a control character that no command is called with.
`CommandsRunOut` has `IsFiniteSet(Files)` as a hypothesis: a directory is finite.

Every inductive invariant was checked by TLC on instances of the runs before it
was proved. Every invariant and every safety property of the passing runs is
now a theorem. Only model-checked:

* liveness under fairness, which this prover does not reach: `CommitPublishes`,
  `PushArrives`, `EmitterEnds`. Proved of them are the variants and what holds at
  the end (`CommandsRunOut`, `CommitsArePublished`, `PushesRunOut`,
  `OnlyPollingRepeats`, `OnlyWaitingBlocks`); that a fair process then takes its next
  step needs `ENABLED`;
* the four runs that expect a violation: what they refute is not a theorem.

## 5. Not modelled

* Dispatch (`cams.c`): a table from names to functions, most entries of which are
  NULL. A command is modelled by its function, whether the table has it or not.
* `diff`: not built, does not compile, changes no state.
* The migration scripts, and `all.originals/{list,utils}.all.c`: one-off, and
  superseded by `comp/`.
* `scp_down`, `init_remote`, `show_remote`: called by nothing or without effect.
* Layout and amount of what `list` prints: it stops at the height of the terminal,
  from a `winsize` that is not set when the output is not a terminal, and it exits
  at a commit whose index it cannot read.
* Calls of a command that fail, other than `mv` and the remote calls of push.
* Paths as regular expressions in `checkout.py`, and names with characters that
  a shell reads in the commands of `push`.

## 6. Plan

Done: everything above. What a continuation could take up:

* the liveness properties themselves, with a prover that has `ENABLED`: the ranks and
  the deadlock freedom they need are proved;
* `SnapshotsFrozen` and `NoDangling` together as an abstract store that only grows,
  which `Status` and `Push` take a commit from in one step; today `ImplementsVcs`
  justifies that step for one process;
* the hazards of `PROJECT.json` that have no property, each with its reason there.
