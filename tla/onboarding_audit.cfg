SPECIFICATION Spec
CONSTANTS
    term = term
    gate = gate
    p1 = p1
    p2 = p2
    e1 = e1
    c1 = c1
    c2 = c2
    g1 = g1
    g2 = g2
    Asset = {term, gate}
    Terminal = {term}
    Gateway = {gate}
    Person = {p1, p2}
    Event = {e1}
    Credential = {c1, c2}
    CredentialAsset <- MCCredentialAsset
    Assignment = {g1, g2}
    AssignmentBody <- MCAssignmentBody
    Handler = {h1}
    AdminStatus = {"ACTIVE", "LOST"}
    Faults = {}
INVARIANT
    AuditFollowsStatus
CONSTRAINT OneAsset
