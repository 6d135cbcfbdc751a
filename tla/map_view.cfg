SPECIFICATION FairSpec
CONSTANTS
    fire = fire
    slide = slide
    fire1 = fire1
    fire2 = fire2
    slide1 = slide1
    fireline = fireline
    Event = {fire, slide}
    NoEvent = none
    Located = {fire}
    Overview = {fire1, fire2, slide1}
    NoView = nothing
    EventOf <- MCEventOf
    Layer = {fireline}
    LayersOf <- MCLayersOf
INVARIANTS
    DrawnOrWaiting
    PulseEnds
PROPERTIES
    PanKept
    OrderRestored
    MapCatchesUp
