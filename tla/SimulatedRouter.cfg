CONSTANTS
    o1 = o1
    o2 = o2
    Orders = {o1, o2}
    Quantity <- MCQuantity
    Requests <- MCRequests
    Latency = 1
    Delay = 1
    MaxRestingTicks = 2
    CapThrough = TRUE
    NeedsTrade = TRUE
    RthOpen = 0
    RthClose = 4
    MocCutoff = 3
    OfficialClose = 4
    Sizes <- MCSizes
    LastTime = 4
SPECIFICATION FairSpec
INVARIANTS KernelAgreesWithVenue
PROPERTIES AckTimesNeverGoBack KeepsContract EveryOrderEnds
CHECK_DEADLOCK FALSE
