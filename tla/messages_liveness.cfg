SPECIFICATION FairSpec
CONSTANTS
    rtkTerminal = rtkTerminal
    aiService = aiService
    relay = relay
    Request = {q1, q2}
    Capability = {rtkTerminal, aiService, relay}
    RequestId = {i1, i2}
    Observation = {o1, o2}
    Direction <- MCDirection
    ResultTarget <- MCResultTarget
    NaturalKeyed <- MCNaturalKeyed
    Faults = {"service"}
CHECK_DEADLOCK FALSE
INVARIANT OpenIsOwned
PROPERTY EveryMessageSettles
