------------------------------- MODULE MCLSK -------------------------------
(* Instances of LSK for TLC. *)
EXTENDS LSK

CONSTANTS k1, k2, k3, v1, v2

MCKeys == {k1, k2}
MCVals == {v1, v2}

\* Three keys holding one value: enough to tell a recovery error apart.
ThreeKeys == {k1, k2, k3}
OneVal    == {v1}
OneValSmall == [v \in OneVal |-> 1]
ThreeKeySymmetry == Permutations(ThreeKeys)

\* Every record fits in one block.
SmallRecords == [v \in MCVals |-> 1]

\* v2 needs two blocks, v1 one.
MixedRecords == (v1 :> 1) @@ (v2 :> BlockData + 1)

\* Keys are interchangeable, and so are values of equal size.
KeySymmetry == Permutations(MCKeys)
KeyValSymmetry == Permutations(MCKeys) \cup Permutations(MCVals)
=============================================================================
