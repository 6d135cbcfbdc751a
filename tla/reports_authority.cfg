SPECIFICATION MCSpec
CONSTANTS
    term = term
    gate = gate
    p1 = p1
    p2 = p2
    e1 = e1
    e2 = e2
    c1 = c1
    c2 = c2
    g1 = g1
    g2 = g2
    g3 = g3
    u1 = u1
    Asset = {term, gate}
    Terminal = {term}
    Gateway = {gate}
    Person = {p1, p2}
    Event = {e1, e2}
    Credential = {c1, c2}
    CredentialAsset <- MCCredentialAsset
    Assignment = {g1, g2, g3}
    AssignmentBody <- MCAssignmentBody
    Handler = {h1}
    AdminStatus = {"LOST"}
    Faults = {}
    Reporter = {r1}
    Route = {u1}
    RouteBody <- MCRouteBody
    MaxRows = 1
INVARIANTS
    PositionHasAssignment
    TokenConfined
    NothingStale
