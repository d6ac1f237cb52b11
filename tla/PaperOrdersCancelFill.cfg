SPECIFICATION MCSpec
CONSTANTS
    o1 = o1
    o2 = o2
    Orders <- MCOrders
    Qty <- TwoAndOne
    Situations = {"cancelFill"}
    MaxQueue = 1
INVARIANTS NothingLost
CHECK_DEADLOCK FALSE
