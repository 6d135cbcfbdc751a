SPECIFICATION Spec
CONSTANTS
    rtkTerminal = rtkTerminal
    aiService = aiService
    relay = relay
    Request = {q1, q2, q3}
    Capability = {rtkTerminal, relay}
    RequestId = {i1, i2}
    Observation = {o1}
    Direction <- MCDirection
    ResultTarget <- MCResultTarget
    NaturalKeyed <- MCNaturalKeyed
    Faults = {"db", "reply", "crash", "service"}
SYMMETRY MCSymmetry
CHECK_DEADLOCK FALSE
INVARIANTS
    OneEffectPerKey
    SuccessIsBacked
    FreshAnswerIsDurable
    ToldStatusHolds
PROPERTY ImplementsLedger
