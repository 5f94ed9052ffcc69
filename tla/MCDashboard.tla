---------------------------- MODULE MCDashboard ----------------------------
(* Instances of Dashboard for TLC.                                          *)
EXTENDS Dashboard

CONSTANTS r1, r2, a1, a2, p1, p2

MCRequests == {r1, r2}
MCNoRequest == {}
MCCalls == {a1, a2}
MCPolls == {p1, p2}

=============================================================================
