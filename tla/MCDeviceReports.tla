---------------------------- MODULE MCDeviceReports ----------------------------
(* A terminal carried by p1 in event e1 and by p2 in event e2, which g3 may  *)
(* hand over to p2 in e1, and a gateway that may report for it in e1.  The   *)
(* run starts when both are activated and their credentials have expired, so *)
(* what remains is every report under every release, new assignment, loss    *)
(* and route change around it.  No token expires, so each is used as late as *)
(* it can be.                                                                *)
EXTENDS DeviceReports

CONSTANTS term, gate, p1, p2, e1, e2, c1, c2, g1, g2, g3, u1

MCCredentialAsset == [c \in Credential |-> IF c = c1 THEN term ELSE gate]
MCAssignmentBody == [g \in Assignment |->
    [event |-> IF g = g2 THEN e2 ELSE e1,
     person |-> IF g = g1 THEN p1 ELSE p2, asset |-> term]]
MCRouteBody == [u \in Route |-> [event |-> e1, reporter |-> gate, source |-> term]]

MCInit ==
    /\ status = [a \in Asset |-> "ACTIVE"]
    /\ trail = status
    /\ credential = [c \in Credential |-> "ACTIVE"]
    /\ expired = Credential
    /\ assignment = [g \in Assignment |-> IF g = g3 THEN NoOne ELSE "active"]
    /\ deployed = {<<e1, gate>>}
    /\ tokens = {[asset |-> term, event |-> e1, person |-> p1],
                 [asset |-> term, event |-> e2, person |-> p2],
                 [asset |-> gate, event |-> e1, person |-> NoOne]}
    /\ job = [h \in Handler |-> Idle]
    /\ route = [u \in Route |-> NoOne]
    /\ report = [r \in Reporter |-> NoReport]
    /\ stored = {}

Around ==
    \E h \in Handler :
        \/ \E g \in Assignment : AssignReadsAsset(h, g) \/ ReleaseAssignment(h, g)
        \/ \E a \in Asset, s \in AdminStatus : ChangeStatus(h, a, s)
        \/ AssignInserts(h) \/ WriteAudit(h)

MCSpec == MCInit /\ [][ReportStep \/ (Around /\ UNCHANGED reportVars)]_allVars
==============================================================================
