----------------------------- MODULE MCRegistry -----------------------------
(* Instances of Registry for TLC.                                           *)
EXTENDS Registry, TLC

CONSTANTS i1, i2, o1, o2

MCIds == {i1, i2}
MCOps == {o1, o2}
MCLimits == {10, 20}

\* Ids and calls are only compared for equality, so permuting them is sound.
RegistrySymmetry == Permutations(MCIds) \cup Permutations(MCOps)

=============================================================================
