SPECIFICATION FairSpec
CONSTANTS
    p1 = p1
    p2 = p2
    Poster = {p1, p2}
    inserted = inserted
    ejected = ejected
    Event = {inserted, ejected}
    NoEvent = NoEvent
    Size = 3
INVARIANTS
    PlacesAccounted
    ReadIsStable
    NoLostWakeup
PROPERTIES
    ChannelSpec
    EveryPostReturns
    EveryEventHandled
CHECK_DEADLOCK FALSE
