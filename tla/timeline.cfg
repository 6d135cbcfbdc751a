SPECIFICATION HomeSpec
CONSTANTS
    e1 = e1
    e2 = e2
    t1 = t1
    t2 = t2
    s1 = s1
    s2 = s2
    Event = {e1, e2}
    NoEvent = NoEvent
    Thing = {t1, t2}
    Slot = {s1, s2}
    TicksPerMinute = 2
    Window = 1
    Limit = 1
    LatestLimit = 1
    MaxTick = 1
    MaxRows = 2
INVARIANTS
    TimelineOfSelected
PROPERTIES
    HistoryIsTrue
    PlaybackEnds
