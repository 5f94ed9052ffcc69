--------------------------- MODULE MCClientsPage ---------------------------
(* Instances of ClientsPage for TLC.                                        *)
EXTENDS ClientsPage

CONSTANTS c1, m1, s1, s2

MCIds == {c1}
MCMocks == {m1}
MC_MOCK_CLIENTS == [i \in MCMocks |-> [active |-> TRUE, limit |-> 1]]
MCSlots == {s1, s2}

=============================================================================
