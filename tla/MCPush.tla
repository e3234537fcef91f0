------------------------------- MODULE MCPush -------------------------------
(***************************************************************************)
(* Small instances of Push for TLC.                                        *)
(***************************************************************************)
EXTENDS Push, TLC

Interchangeable == Permutations(Pushers) \cup Permutations(Cids)
=============================================================================
