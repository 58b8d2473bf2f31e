SPECIFICATION StreamLiveSpec
CONSTANTS
    RingCap = 3
    BroadcastCap = 2
    OutCap = 2
    MaxSeq = 9
INVARIANTS
    GapsAreReal
PROPERTIES
    InOrder
    ReturnsToLive
CHECK_DEADLOCK FALSE
