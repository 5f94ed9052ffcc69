---------------------------- MODULE MCAuditTrail ----------------------------
(* Instances of AuditTrail for TLC.                                         *)
EXTENDS AuditTrail

CONSTANTS p1, p2

MCPolls == {p1, p2}

=============================================================================
