------------------------------ MODULE RepoProps ------------------------------
(***************************************************************************)
(* What a cams repository owes its user, as properties of Repo.            *)
(***************************************************************************)
EXTENDS Repo

(* The commits that some file of the repository names, as its current or   *)
(* as the parent of a commit: those that have been current at some time.   *)
Named == {c \in Cids : c = current \/ \E d \in Cids : parent[d] = c}

Idle == \A p \in Procs : pc[p] = "idle"

(* A set of commits that no parent leads out of.                           *)
Closed(S) == \A d \in S : parent[d] \in Cids => parent[d] \in S

(* The chain of parents that starts at c, the least closed set with c in   *)
(* it.  From current, list walks it, up to the height of the terminal and  *)
(* to the first commit whose index it cannot read.                         *)
Ancestors(c) ==
    {d \in Cids : \A S \in SUBSET Cids :
                      {c} \cap Cids \subseteq S /\ Closed(S) => d \in S}

-----------------------------------------------------------------------------
(* Safety.                                                                 *)

(* c owns a copy of f in .cams/files, or the mv that should have put it    *)
(* there failed and commit went on (commit prints a message and no more).  *)
Stored(c, f) == store[c][f] # None \/ <<c, f>> \in missed

(* The index of every commit that was ever made current is there, and each *)
(* of its lines names a copy that is in .cams/files: commit writes the     *)
(* index before it moves the files, and current only after the last move,  *)
(* so neither a kill nor a file staged meanwhile may leave a line without  *)
(* its copy.  The one exception is a line whose mv failed, in the commit   *)
(* itself or in the one that it inherits the line from.                    *)
NoDangling ==
    \A c \in Named :
        /\ cindex[c] # None
        /\ \A f \in Entries(cindex[c]) : Stored(cindex[c][f], f)

(* A file of a commit is the commit's own if and only if the commit moved  *)
(* a staged copy into the store, or tried to and failed, and the parent's  *)
(* otherwise, unless it is on the commit's removal list (generate_cindex). *)
(* The index is composed from one listing of the stage, the files are      *)
(* moved by a second one, and a commit that was killed in between may have *)
(* emptied a part of the stage.                                            *)
IndexMatchesStore ==
    \A c \in Named, f \in Files :
        cindex[c][f] = IF f \in Listed(remove[c]) THEN None
                       ELSE IF Stored(c, f) THEN c
                       ELSE Inherited(parent[c])[f]

(* What a commit that was ever current holds never changes: neither its    *)
(* parent, nor its index, nor the content of one of its files.             *)
SnapshotsFrozen ==
    [][\A c \in Named :
           /\ c \in Named'
           /\ parent'[c] = parent[c]
           /\ cindex'[c] = cindex[c]
           /\ \A f \in Entries(cindex[c]) :
                  store'[cindex[c][f]][f] = store[cindex[c][f]][f]]_vars

(* When no command runs, the chain that list walks from current has every  *)
(* commit whose index was written: it neither loses its head nor misses a  *)
(* link, although current does not exist while a commit runs.              *)
HistoryKept == Idle => {c \in Cids : cindex[c] # None} = Ancestors(current)

(* No commit is its own ancestor, so the walk of list ends, also when two  *)
(* commits race for the same current and write each other's parent file.   *)
Acyclic == \A c \in Cids : c \notin Ancestors(parent[c])

(* When no command runs, a short id is answered with the only commit that  *)
(* has this prefix, or else with every such commit, each one on a line of  *)
(* its own, and the two kinds of file never exist side by side             *)
(* (register_millis, lookup_or_die).                                       *)
ShortIdsResolve ==
    Idle =>
        \A m \in Millis :
            LET own == {c \in Named : MillisOf[c] = m}
                answer == Lookup(m)
            IN /\ own = {answer[i] : i \in DOMAIN answer} \ {NL}
               /\ expected[m] = None \/ conflicts[m] = None
               /\ \/ Cardinality(own) <= 1 /\ Len(answer) = Cardinality(own)
                  \/ /\ Cardinality(own) > 1
                     /\ Len(answer) = 2 * Cardinality(own)
                     /\ \A i \in DOMAIN answer : (answer[i] = NL) = (i % 2 = 0)

(* The comment on generate_cindex: "generate a cindex from the files in a  *)
(* commit and then the previos positions of files from the previous        *)
(* commit".  So a file that went into the store with a commit is in the    *)
(* commit's index.                                                         *)
CommittedFilesIndexed ==
    \A c \in Named, f \in Files : store[c][f] # None => cindex[c][f] = c

-----------------------------------------------------------------------------
(* Liveness, under FairSpec.                                               *)

(* A commit that has started becomes current, whatever the user's other    *)
(* commands do to the stage meanwhile, unless a command was killed.        *)
CommitPublishes ==
    \A c \in Cids : (\E p \in Procs : cid[p] = c)
                         ~> (c \in Named \/ kills > 0)
=============================================================================
