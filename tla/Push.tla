-------------------------------- MODULE Push --------------------------------
(***************************************************************************)
(* push: a repository sends its commits to a remote directory over ssh.    *)
(*                                                                         *)
(* push asks the remote for its current, packs every commit from the local *)
(* current down to that one, copies the packet over, has it unpacked there *)
(* and only then writes the remote current.  Each remote call is a process *)
(* of its own that may fail; some failures end push, others are printed    *)
(* and push goes on.  A commit of the local repository is a single step    *)
(* here, and so is one that ends half way (Vcs has both, and RepoVcs shows *)
(* them to be all that a push can tell apart): a commit that current names *)
(* is complete, and current may be lost.                                   *)
(***************************************************************************)
EXTENDS Cindex, Naturals, FiniteSets

CONSTANTS Pushers,    \* the push processes, all to the same remote
          Blank,      \* the content of a remote current that was only opened
          MaxFaults   \* bound: how many calls fail or processes end early

ASSUME BlankAssumption == Blank \notin Cids \cup {None}
ASSUME MaxFaultsAssumption == MaxFaults \in Nat

VARIABLES
    tip,        \* .cams/current of the local repository
    parent,     \* parent[c]: the commit that c was made on
    cindex,     \* cindex[c]: the index of c, None before c is made
    last,       \* history: the last commit that was made
    follows,    \* history: follows[c] is the commit that was made before c
    packet,     \* .cams/<remote>.batch.tgz, one name for all pushes
    rpacket,    \* its copy on the remote, None when it is not usable
    far,        \* what has been unpacked in the remote directory
    rcurrent,   \* <remote>/current
    pc,         \* what a push does next, "idle" when it does not run
    cid,        \* the commit it sends
    rlatest,    \* the remote's current as it was told, None if NULL
    walk,       \* where its walk over the parents has got to
    items,      \* what it has gathered for the packet
    told,       \* the commits that a push has reported to be on the remote
    torn,       \* history: a push went on after a failed unpack
    crossed,    \* history: pushes of different commits overlapped
    faults      \* how many calls have failed and processes ended early

local == <<tip, parent, cindex, last, follows>>
remote == <<rpacket, far, rcurrent>>
memory == <<cid, rlatest, walk, items>>
history == <<torn, crossed>>
vars == <<local, packet, remote, pc, memory, told, history, faults>>

Made == {c \in Cids : cindex[c] # None}

(* Commit directories and copies of files, in a packet or on the remote.   *)
Batches == [dirs : SUBSET Cids, copies : SUBSET (Cids \X Files)]
NoBatch == [dirs |-> {}, copies |-> {}]
Join(a, b) == [dirs |-> a.dirs \cup b.dirs, copies |-> a.copies \cup b.copies]

(* cfiles: the copies that c's own lines of its index name.                *)
Owned(c) == {c} \X {f \in Files : cindex[c][f] = c}

PushSteps == {"idle", "read", "walk", "scp", "unpack", "publish", "report"}

TypeOK ==
    /\ tip \in Cids \cup {None}
    /\ parent \in [Cids -> Cids \cup {None}]
    /\ cindex \in [Cids -> Index \cup {None}]
    /\ last \in Cids \cup {None}
    /\ follows \in [Cids -> Cids \cup {None}]
    /\ packet \in Batches
    /\ rpacket \in Batches \cup {None}
    /\ far \in Batches
    /\ rcurrent \in Cids \cup {Blank, None}
    /\ pc \in [Pushers -> PushSteps]
    /\ cid \in [Pushers -> Cids \cup {None}]
    /\ rlatest \in [Pushers -> Cids \cup {None}]
    /\ walk \in [Pushers -> Cids \cup {None}]
    /\ items \in [Pushers -> Batches]
    /\ told \subseteq Cids
    /\ torn \in BOOLEAN
    /\ crossed \in BOOLEAN
    /\ faults \in 0..MaxFaults

Init ==
    /\ tip = None
    /\ parent = [c \in Cids |-> None]
    /\ cindex = [c \in Cids |-> None]
    /\ last = None
    /\ follows = [c \in Cids |-> None]
    /\ packet = NoBatch
    /\ rpacket = None
    /\ far = NoBatch
    /\ rcurrent = None
    /\ pc = [p \in Pushers |-> "idle"]
    /\ cid = [p \in Pushers |-> None]
    /\ rlatest = [p \in Pushers |-> None]
    /\ walk = [p \in Pushers |-> None]
    /\ items = [p \in Pushers |-> NoBatch]
    /\ told = {}
    /\ torn = FALSE
    /\ crossed = FALSE
    /\ faults = 0

-----------------------------------------------------------------------------
(* Helpers.                                                                *)

Goes(p, from, to) == pc[p] = from /\ pc' = [pc EXCEPT ![p] = to]

Exits(p) ==
    /\ pc' = [pc EXCEPT ![p] = "idle"]
    /\ cid' = [cid EXCEPT ![p] = None]
    /\ rlatest' = [rlatest EXCEPT ![p] = None]
    /\ walk' = [walk EXCEPT ![p] = None]
    /\ items' = [items EXCEPT ![p] = NoBatch]

Fault == faults < MaxFaults /\ faults' = faults + 1

-----------------------------------------------------------------------------
(* The local repository.                                                   *)

(* Mutant of Commit: an id that was given before is given again.           *)
CommitAgain(c, staged, removed) ==
    LET base == IF tip = None THEN EmptyIndex ELSE cindex[tip]
    IN /\ cindex' = [cindex EXCEPT ![c] = Drop(Stamp(base, staged, c), removed)]
       /\ parent' = [parent EXCEPT ![c] = tip]
       /\ tip' = c
       /\ last' = c
       /\ follows' = [follows EXCEPT ![c] = last]
       /\ UNCHANGED <<packet, remote, pc, memory, told, history, faults>>

(* A commit with the files staged and removed; no push is waited for.      *)
(* Without a current it has no parent and starts from an empty index.      *)
Commit(c, staged, removed) ==
    LET base == IF tip = None THEN EmptyIndex ELSE cindex[tip]
    IN /\ cindex[c] = None
       /\ cindex' = [cindex EXCEPT ![c] = Drop(Stamp(base, staged, c), removed)]
       /\ parent' = [parent EXCEPT ![c] = tip]
       /\ tip' = c
       /\ last' = c
       /\ follows' = [follows EXCEPT ![c] = last]
       /\ UNCHANGED <<packet, remote, pc, memory, told, history, faults>>

(* A commit that ends half way, killed after it took current or by the     *)
(* exit on an index line of a name with a colon: current is gone, or was   *)
(* only opened again.  Nothing names what it has written.                  *)
LoseTip ==
    /\ tip # None
    /\ Fault
    /\ tip' = None
    /\ UNCHANGED <<parent, cindex, last, follows, packet, remote, pc, memory,
                   told, history>>

-----------------------------------------------------------------------------
(* push, one call to the remote or read of the local repository a step.    *)

(* Mutant of Query: an empty current is taken for an id.                   *)
QueryRaw(p) ==
    /\ Goes(p, "idle", "read")
    /\ rlatest' = [rlatest EXCEPT ![p] = rcurrent]
    /\ UNCHANGED <<local, packet, remote, cid, walk, items, told, history,
                   faults>>

(* latest_remote: cat of the remote current.  When nothing comes back the  *)
(* buffer is not initialized: it reads as NULL or as no commit's id.       *)
Query(p) ==
    /\ Goes(p, "idle", "read")
    /\ \/ /\ rlatest' = [rlatest EXCEPT ![p] =
                            IF rcurrent \in Cids THEN rcurrent ELSE None]
          /\ UNCHANGED faults
       \/ /\ Fault
          /\ UNCHANGED rlatest
    /\ UNCHANGED <<local, packet, remote, cid, walk, items, told, history>>

(* get_current, and the comparison with the remote's.  Without a commit    *)
(* push ends on a NULL id, or on the tar of nothing.                       *)
ReadCurrent(p) ==
    /\ pc[p] = "read"
    /\ \/ /\ tip \in {None, rlatest[p]}
          /\ told' = told \cup ({tip} \cap Cids)
          /\ Exits(p)
          /\ UNCHANGED crossed
       \/ /\ tip \notin {None, rlatest[p]}
          /\ Goes(p, "read", "walk")
          /\ cid' = [cid EXCEPT ![p] = tip]
          /\ walk' = [walk EXCEPT ![p] = tip]
          /\ crossed' = (crossed \/ \E q \in Pushers : cid[q] \notin {None, tip})
          /\ UNCHANGED <<rlatest, items, told>>
    /\ UNCHANGED <<local, packet, remote, torn, faults>>

(* The loop of find_range ends at the remote's commit or at the first one. *)
RangeDone(p) == walk[p] \in {None, rlatest[p]}

(* One round of find_range and of gather_files_for_push.                   *)
Walk(p) ==
    /\ pc[p] = "walk"
    /\ ~ RangeDone(p)
    /\ items' = [items EXCEPT ![p] =
                    Join(@, [dirs |-> {walk[p]}, copies |-> Owned(walk[p])])]
    /\ walk' = [walk EXCEPT ![p] = parent[walk[p]]]
    /\ UNCHANGED <<local, packet, remote, pc, cid, rlatest, told, history,
                   faults>>

(* tar -czf <remote>.batch.tgz                                             *)
Tar(p) ==
    /\ Goes(p, "walk", "scp")
    /\ RangeDone(p)
    /\ packet' = items[p]
    /\ UNCHANGED <<local, remote, memory, told, history, faults>>

(* scp_batch sends whatever the file holds by now.                         *)
Scp(p) ==
    /\ Goes(p, "scp", "unpack")
    /\ rpacket' = packet
    /\ UNCHANGED <<local, packet, far, rcurrent, memory, told, history, faults>>

(* An scp that fails ends push; half a packet cannot be unpacked.          *)
ScpFails(p) ==
    /\ pc[p] = "scp"
    /\ Fault
    /\ Exits(p)
    /\ rpacket' = None
    /\ UNCHANGED <<local, packet, far, rcurrent, told, history>>

(* tar -xzf <packet> && rm <packet>                                        *)
Unpack(p) ==
    /\ Goes(p, "unpack", "publish")
    /\ rpacket # None
    /\ far' = Join(far, rpacket)
    /\ rpacket' = None
    /\ UNCHANGED <<local, packet, rcurrent, memory, told, history, faults>>

(* The same when another push has taken the packet, or when it stops half  *)
(* way: the failure is printed and push goes on.                           *)
UnpackFails(p) ==
    /\ Goes(p, "unpack", "publish")
    /\ \/ /\ rpacket = None
          /\ UNCHANGED <<far, faults>>
       \/ /\ rpacket # None
          /\ Fault
          /\ \E d \in SUBSET rpacket.dirs, s \in SUBSET rpacket.copies :
                 far' = Join(far, [dirs |-> d, copies |-> s])
    /\ torn' = TRUE
    /\ UNCHANGED <<local, packet, rpacket, rcurrent, memory, told, crossed>>

(* Mutant of Publish: the current of now, and not the one that was packed. *)
PublishTip(p) ==
    /\ Goes(p, "publish", "report")
    /\ rcurrent' = tip
    /\ UNCHANGED <<local, packet, rpacket, far, memory, told, history, faults>>

(* Mutant of Publish: the loop variable current, the last of the range.    *)
PublishLast(p) ==
    /\ Goes(p, "publish", "report")
    /\ \E c \in items[p].dirs : /\ parent[c] \in {None, rlatest[p]}
                                /\ rcurrent' = c
    /\ UNCHANGED <<local, packet, rpacket, far, memory, told, history, faults>>

(* echo -n <cid> > current                                                 *)
Publish(p) ==
    /\ Goes(p, "publish", "report")
    /\ rcurrent' = cid[p]
    /\ UNCHANGED <<local, packet, rpacket, far, memory, told, history, faults>>

(* The same when it fails, before or after the file was opened.            *)
PublishFails(p) ==
    /\ Goes(p, "publish", "report")
    /\ Fault
    /\ rcurrent' \in {rcurrent, Blank}
    /\ UNCHANGED <<local, packet, rpacket, far, memory, told, history>>

(* The last line: "pushed ...".  When one of the two ids is NULL, as on    *)
(* the first push, the process may end in the attempt to shorten it.       *)
Report(p) ==
    /\ pc[p] = "report"
    /\ \/ told' = told \cup {cid[p]}
       \/ /\ rlatest[p] = None \/ rcurrent \notin Cids
          /\ UNCHANGED told
    /\ Exits(p)
    /\ UNCHANGED <<local, packet, remote, history, faults>>

(* push is killed, or ends early: no current while a commit is under way,  *)
(* or a tar or scp that does nothing.                                      *)
Stop(p) ==
    /\ pc[p] # "idle"
    /\ Fault
    /\ Exits(p)
    /\ UNCHANGED <<local, packet, remote, told, history>>

Step(p) == \/ ReadCurrent(p) \/ Walk(p) \/ Tar(p) \/ Scp(p)
           \/ Unpack(p) \/ UnpackFails(p) \/ Publish(p) \/ Report(p)

Fails(p) == ScpFails(p) \/ PublishFails(p) \/ Stop(p)

Next ==
    \/ \E c \in Cids, staged, removed \in SUBSET (Files \ ColonFiles) :
           Commit(c, staged, removed)
    \/ LoseTip
    \/ \E p \in Pushers : Query(p) \/ Step(p) \/ Fails(p)

Spec == Init /\ [][Next]_vars

(* ssh, scp and tar end, and the system runs a push that has not ended.    *)
FairSpec == Spec /\ \A p \in Pushers : WF_vars(Step(p))

-----------------------------------------------------------------------------
(* What push owes its user.                                                *)

(* A set of commits that contains the parent of each of its members.       *)
Closed(S) == \A c \in S : parent[c] \in S \cup {None}

(* The remote has c, everything it was made on, and every copy that an     *)
(* index line of one of these names.                                       *)
Whole(c) ==
    \E S \in SUBSET (far.dirs \cap Made) :
        /\ c \in S
        /\ Closed(S)
        /\ \A d \in S : \A f \in Entries(cindex[d]) :
               <<cindex[d][f], f>> \in far.copies

(* The remote's current is whole: push writes it last, sends all that lies *)
(* between it and the commit that was current before, and that commit was  *)
(* whole.  So it is whatever fails and however many pushes of a commit     *)
(* overlap, unless a push has gone on after a failed unpack or pushes of   *)
(* different commits have mixed up their packets.                          *)
RemoteWhole ==
    torn \/ crossed \/ (rcurrent \in Cids => Whole(rcurrent))

(* The commits at which current was lost, one for each LoseTip.            *)
LostAt ==
    {d \in Made : \/ d = last /\ tip = None
                  \/ \E c \in Made : follows[c] = d /\ parent[c] = None}

(* A set of commits that contains what each of its members came after.     *)
Settled(S) == \A c \in S : follows[c] \in S \cup {None}

Advances ==
    \/ crossed'
    \/ {rcurrent, rcurrent'} \cap {Blank, None} # {}
    \/ /\ \A S \in SUBSET Cids : Settled(S)' /\ rcurrent' \in S => rcurrent \in S
       /\ \/ LostAt # {}
          \/ \A S \in SUBSET Cids : Closed(S)' /\ rcurrent' \in S => rcurrent \in S

(* The remote's current moves from a commit only to one made on it, though *)
(* push does not look whether it is.  Once a commit that ended half way    *)
(* has lost the local current this is over, because the next one has no    *)
(* parent; but the remote still moves only to a commit that came later.    *)
(* Pushes of different commits that overlap may set it back.               *)
RemoteAdvances == [][Advances]_vars

(* What push prints: "... is up to date at commit ..." and "pushed ...".   *)
(* The commit that it speaks of is on the remote.                          *)
TruthfulPush == \A c \in told : Whole(c)

(* A push whose walk has begun reaches the remote, unless a call fails or  *)
(* the push is killed.  The walk ends although the remote may name a       *)
(* commit that it never meets, as it does once current was lost; commits   *)
(* made meanwhile do not put its end off, and no other push stops it.      *)
PushArrives ==
    \A p \in Pushers, c \in Cids :
        (pc[p] = "walk" /\ cid[p] = c) ~>
            (rcurrent = c \/ faults > Cardinality(LostAt))
=============================================================================
