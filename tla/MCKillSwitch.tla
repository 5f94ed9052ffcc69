---------------------------- MODULE MCKillSwitch ----------------------------
(* Instances of KillSwitch for TLC.                                         *)
EXTENDS KillSwitch

CONSTANTS r1, r2, a1, a2

MCRequests == {r1, r2}
MCCalls == {a1, a2}

=============================================================================
