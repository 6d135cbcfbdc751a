SPECIFICATION FairSpec
CONSTANTS
    d1 = d1
    d2 = d2
    l1 = l1
    l2 = l2
    Drone = {d1, d2}
    Identified = {d1}
    Loop = {l1, l2}
    MaxObs = 4
    Faults = {"network", "refusal"}
CHECK_DEADLOCK FALSE
INVARIANTS
    OneLoop
    SentOnceInOrder
PROPERTIES
    NewestIsTried
    ImplementsMailbox
