------------------------------ MODULE MCStatus ------------------------------
(***************************************************************************)
(* Small instances of Status for TLC.                                      *)
(***************************************************************************)
EXTENDS Status, TLC

(* Contents that change places without a change of Twins.                  *)
DataPermutations ==
    {q \in Permutations(Data) :
         \A same \in Twins : {q[d] : d \in same} \in Twins}

Interchangeable == Permutations(Cids) \cup DataPermutations
=============================================================================
