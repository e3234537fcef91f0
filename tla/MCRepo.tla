------------------------------- MODULE MCRepo -------------------------------
(***************************************************************************)
(* Small instances of Repo for TLC.                                        *)
(***************************************************************************)
EXTENDS RepoVcs, TLC

CONSTANTS p1, p2, m1, m2

(* One process that runs every command.                                    *)
SoloRole == [p \in Procs |-> Commands]

(* One process that stages and commits.                                    *)
CommitRole == [p \in Procs |-> {"add", "commit"}]

(* One process commits while the other stages and removes files.           *)
SharedRole == (p1 :> {"commit", "unadd"}) @@ (p2 :> {"add", "rm"})

(* Two processes commit, and one of them also stages files.                *)
RivalRole == (p1 :> {"commit", "add"}) @@ (p2 :> {"commit"})

(* Every commit has the same prefix.                                       *)
OneMillis == [c \in Cids |-> m1]

(* One commit has a prefix of its own, the others share one.               *)
TwoMillis == LET alone == CHOOSE c \in Cids : TRUE
             IN [c \in Cids |-> IF c = alone THEN m2 ELSE m1]

Interchangeable == Permutations(Cids) \cup Permutations(Files)
                   \cup Permutations(Data)
=============================================================================
