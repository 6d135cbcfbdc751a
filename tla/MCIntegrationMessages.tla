------------------------ MODULE MCIntegrationMessages ------------------------
(* Three capabilities of the catalogue's shapes: an inbound one whose table *)
(* has a natural key (wildfire.rtk-terminal), a bidirectional one whose     *)
(* table has none, and a bidirectional one without a result target.         *)
EXTENDS IntegrationMessages, TLC

CONSTANTS rtkTerminal, aiService, relay

MCDirection == [c \in Capability |->
    IF c = rtkTerminal THEN "INBOUND" ELSE "BIDIRECTIONAL"]
MCResultTarget == Capability \ {relay}
MCNaturalKeyed == Capability \cap {rtkTerminal}

MCSymmetry == Permutations(Request) \cup Permutations(RequestId)
                \cup Permutations(Observation)
==============================================================================
