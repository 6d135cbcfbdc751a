SPECIFICATION Spec
CONSTANTS
    Command = {c1, c2, c3}
    Alert = {a1}
    Recipient = {p1, p2}
    Channel = {sms, app}
    Task = {t1}
    Event = {e1}
    Value = {"ACCEPTED", "REJECTED"}
    Faults = {"abort"}
SYMMETRY MCSymmetry
CHECK_DEADLOCK FALSE
INVARIANTS
    DeliveriesOfIssued
    TrailTellsTruth
    OkIsAudited
    IssuedIsTold
