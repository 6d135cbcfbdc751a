SPECIFICATION OneEventSpec
CONSTANTS
    e1 = e1
    e2 = e2
    s1 = s1
    s2 = s2
    Event = {e1, e2}
    NoEvent = NoEvent
    Slot = {s1, s2}
    MaxVersion = 1
    Moves = {1}
    MaxOutages = 1
PROPERTIES
    MoveNoticed
    BoardCatchesUp
    ErrorClears
