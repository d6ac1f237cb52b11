SPECIFICATION MCSpec
CONSTANTS
    o1 = o1
    o2 = o2
    Orders <- MCOrders
    Qty <- TwoAndOne
    Situations = {"overtake", "warning", "cancelFill", "pipeline", "stale", "operator"}
    MaxQueue = 2
INVARIANTS NeverOverbooks NoTerminalOrderTracked
CHECK_DEADLOCK FALSE
VIEW MCView
