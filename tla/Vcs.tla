-------------------------------- MODULE Vcs --------------------------------
(***************************************************************************)
(* What a version control system with the commands of cams promises: a     *)
(* commit is one step, it freezes the tip's files with the staged ones     *)
(* laid over them and the removed ones taken out, and what is frozen never *)
(* changes.  Two things are allowed to go wrong: a staged file cannot be   *)
(* put away (Refuse), and a command is interrupted (Interrupt).            *)
(***************************************************************************)
CONSTANTS Files, Cids, Contents, None

VARIABLES staged,    \* what add has put aside for the next commit
          removing,  \* the files the next commit leaves out
          tip,       \* the latest commit, None before the first
          up,        \* up[c]: the commit that c was made on
          snap,      \* snap[c]: the files of c, None before c is made
          refused    \* the <<c, f>> such that f cannot be put away for c

vars == <<staged, removing, tip, up, snap, refused>>

NoFiles == [f \in Files |-> None]

Init ==
    /\ staged = NoFiles
    /\ removing = {}
    /\ tip = None
    /\ up = [c \in Cids |-> None]
    /\ snap = [c \in Cids |-> None]
    /\ refused = {}

Stage(f, d) ==
    /\ staged' = [staged EXCEPT ![f] = d]
    /\ UNCHANGED <<removing, tip, up, snap, refused>>

Unstage(f) ==
    /\ staged' = [staged EXCEPT ![f] = None]
    /\ UNCHANGED <<removing, tip, up, snap, refused>>

Remove(gone) ==
    /\ removing' = removing \cup gone
    /\ UNCHANGED <<staged, tip, up, snap, refused>>

(* A staged file cannot be put away for the commit c that is to come.      *)
Refuse(c, f) ==
    /\ snap[c] = None
    /\ staged[f] # None
    /\ refused' = refused \cup {<<c, f>>}
    /\ UNCHANGED <<staged, removing, tip, up, snap>>

(* The files of the next commit.  A staged file that is refused takes the  *)
(* place of the tip's and is not there itself.                             *)
Composed(c) ==
    LET base == IF tip = None THEN NoFiles ELSE snap[tip]
    IN [f \in Files |-> IF f \in removing \/ <<c, f>> \in refused THEN None
                        ELSE IF staged[f] # None THEN staged[f]
                        ELSE base[f]]

(* What is refused stays staged.                                           *)
Commit(c) ==
    /\ snap[c] = None
    /\ snap' = [snap EXCEPT ![c] = Composed(c)]
    /\ up' = [up EXCEPT ![c] = tip]
    /\ tip' = c
    /\ staged' = [f \in Files |-> IF <<c, f>> \in refused THEN staged[f]
                                  ELSE None]
    /\ removing' = {}
    /\ UNCHANGED refused

(* A command stops half way.  Staged files, the removal list and the place *)
(* in the history may be lost; no commit is.                               *)
Interrupt ==
    /\ \E lost \in SUBSET Files :
           staged' = [f \in Files |-> IF f \in lost THEN None ELSE staged[f]]
    /\ removing' \in {removing, {}}
    /\ tip' \in {tip, None}
    /\ UNCHANGED <<up, snap, refused>>

Next ==
    \/ \E f \in Files, d \in Contents : Stage(f, d)
    \/ \E f \in Files : Unstage(f)
    \/ \E gone \in SUBSET Files : Remove(gone)
    \/ \E c \in Cids, f \in Files : Refuse(c, f)
    \/ \E c \in Cids : Commit(c)
    \/ Interrupt

Spec == Init /\ [][Next]_vars
=============================================================================
