---------------------------- MODULE MCAuthSession ---------------------------
(* Instances of AuthSession for TLC.                                        *)
EXTENDS AuthSession, TLC

CONSTANTS adm, shop, o1, o2

MCBoth == {adm, shop}
MCShop == {shop}
MCAdmins == {adm}
MCNoAdmin == {}
MCOneOp == {o1}
MCTwoOps == {o1, o2}

\* The two calls are interchangeable: nothing compares or orders them.
OpsSymmetry == Permutations(MCTwoOps)

=============================================================================
