------------------------------- MODULE Cindex -------------------------------
(***************************************************************************)
(* The index of a commit (.cams/<cid>/cindex): a list of "cid:path" lines  *)
(* that says, for every file of the commit, which commit's copy of it      *)
(* (.cams/files/<cid>.<name>) is the file's content.  An index is a        *)
(* function from files to the commit that owns the copy, None for a file   *)
(* that the commit does not hold.                                          *)
(***************************************************************************)
CONSTANTS Files,       \* the paths that are ever put under version control
          ColonFiles,  \* those of them whose name contains a ':'
          Cids,        \* the commit ids that gen_cid may return
          None         \* absent: no file on disk, no line in an index

ASSUME ColonFilesAssumption == ColonFiles \subseteq Files

Index == [Files -> Cids \cup {None}]

ASSUME NoneAssumption == None \notin Cids \cup Index

EmptyIndex == [f \in Files |-> None]

Entries(ix) == {f \in Files : ix[f] # None}

(* ent_from_line splits a line at every ':' and exits unless there are two *)
(* pieces, so one path with a ':' makes the whole index unreadable.        *)
Readable(ix) == Entries(ix) \cap ColonFiles = {}

(* Mutant of Stamp: a file the parent already holds keeps its old owner.   *)
StampNewFiles(ix, staged, c) ==
    [f \in Files |-> IF f \in staged /\ ix[f] = None THEN c ELSE ix[f]]

(* The first loop of generate_cindex: every staged file becomes c's.       *)
Stamp(ix, staged, c) == [f \in Files |-> IF f \in staged THEN c ELSE ix[f]]

(* Mutant of Drop: the removal list is written to rmindex and then ignored.*)
DropNothing(ix, removed) == ix

(* The last loop of generate_cindex: a removed file leaves the index, also *)
(* when this very commit has just stamped it.                              *)
Drop(ix, removed) == [f \in Files |-> IF f \in removed THEN None ELSE ix[f]]
=============================================================================
