--------------------------- MODULE MCAdminSession ---------------------------
(* Instances of AdminSession for TLC.                                       *)
EXTENDS AdminSession

CONSTANTS t1, t2

MCTabs == {t1, t2}
MCReading == {}
MCStill == {"alerting"}

=============================================================================
