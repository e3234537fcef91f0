------------------------------ MODULE SanName ------------------------------
(***************************************************************************)
(* san_fname: the file name under which a path is kept in a flat           *)
(* directory, and the path that such a name stands for.                    *)
(*                                                                         *)
(* Strings are functions from positions to characters.                     *)
(***************************************************************************)
EXTENDS Helpers

CONSTANTS Char,              \* the characters of a path or name
          Slash, Plus, Sub   \* '/', '+' and the byte 26

ASSUME CharAssumption ==
    {Slash, Plus, Sub} \subseteq Char /\ Slash # Plus /\ Slash # Sub /\ Plus # Sub
(* The byte 26 is in no path that the commands are called with.            *)
ASSUME ArgAssumption == Letter \cup {":", "/", "@", "+"} \subseteq Char \ {Sub}

Paths == UNION {[1..n -> Char] : n \in Nat}

(* A path of the kind the commands are given: no '+', no control character.*)
Plain(path) == \A i \in DOMAIN path : path[i] \notin {Plus, Sub}

(* san_fname(path, true): where the path has a '+' the name is not written *)
(* and holds what the memory held before.                                  *)
Sanitised(path) ==
    {name \in [DOMAIN path -> Char] :
        \A i \in DOMAIN path :
            path[i] # Plus =>
                name[i] = IF path[i] = Slash THEN Plus ELSE path[i]}

(* What the call makes of its argument.                                    *)
Mangled(path) ==
    [i \in DOMAIN path |-> IF path[i] = Plus THEN Sub ELSE path[i]]

(* Mutant of Restored: the '+' of a name stands for itself.                *)
RestoredFlat(name) ==
    [i \in DOMAIN name |-> IF name[i] = Sub THEN Plus ELSE name[i]]

(* san_fname(name, false)                                                  *)
Restored(name) ==
    [i \in DOMAIN name |-> IF name[i] = Plus THEN Slash
                           ELSE IF name[i] = Sub THEN Plus ELSE name[i]]

(* A path is told from its name in .cams/stage and .cams/files (ent_init), *)
(* and the path is the same after the call, if and only if it is plain: the*)
(* first '+' leaves a byte of the name to chance, and makes the caller go  *)
(* on with the path of another file.                                       *)
NameKept(path) ==
    /\ Plain(path) <=> \A name \in Sanitised(path) : Restored(name) = path
    /\ Plain(path) <=> Mangled(path) = path

(* The call that a command makes with the path it is given keeps the path  *)
(* exactly when that has no '+'.                                           *)
ArgKept == arg # <<>> => NameKept(arg)
=============================================================================
