SPECIFICATION Spec
CONSTANTS
    t1 = t1
    Test = {t1, t2}
    Invocable <- MCInvocable
    Domain <- MCDomain
    Call = {c1, c2}
    Timer = {1, 2, 3}
    NoTimer = NoTimer
    MaxLoops = 2
INVARIANTS
    CardsTellTruth
    ContinuousLives
PROPERTIES
    StopIsFinal
    EmptyTestEnds
