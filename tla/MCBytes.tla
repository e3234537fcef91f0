------------------------------- MODULE MCBytes -------------------------------
(***************************************************************************)
(* Small instances for TLC: a command and its lines, and the algorithms on *)
(* bytes for every string up to a bound.  A behaviour calls the algorithms *)
(* with one string and then runs a command; the string and the output of   *)
(* the command are not both varied.                                        *)
(***************************************************************************)
EXTENDS Emitter, SanName

Call == arg # <<>> /\ arg' = <<>> /\ UNCHANGED vars
Then(A) == arg = <<>> /\ A /\ UNCHANGED arg

MCInit ==
    /\ arg \in Strings
    /\ Init
    /\ arg # <<>> => text = <<>>

MCSpec ==
    /\ MCInit
    /\ [][Call \/ Then(Next)]_<<vars, arg>>
    /\ WF_arg(Call) /\ WF_vars(Then(Parent)) /\ WF_vars(Then(Child))
=============================================================================
