-------------------------- MODULE MCDeviceOnboarding --------------------------
(* One terminal and one gateway, one event, two persons who may be given    *)
(* the terminal.  The life of one asset says nothing of the other's, so     *)
(* OneAsset follows either the terminal or the gateway.                     *)
EXTENDS DeviceOnboarding, TLC

CONSTANTS term, gate, p1, p2, e1, c1, c2, g1, g2

MCCredentialAsset == [c \in Credential |-> IF c = c1 THEN term ELSE gate]
MCAssignmentBody == [g \in Assignment |->
    [event |-> e1, person |-> IF g = g1 THEN p1 ELSE p2, asset |-> term]]
MCSymmetry == Permutations(Handler)

OneAsset == \E a \in Asset : status[a] = Absent
==============================================================================
