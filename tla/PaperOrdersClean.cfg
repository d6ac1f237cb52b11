SPECIFICATION MCFairSpec
CONSTANTS
    o1 = o1
    o2 = o2
    Orders <- MCOrders
    Qty <- ThreeAndOne
    Situations = {"stale"}
    MaxQueue = 1
INVARIANTS TrackersAgree
PROPERTIES EventuallySettled
CHECK_DEADLOCK FALSE
